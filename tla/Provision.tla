----------------------------- MODULE Provision -----------------------------
(***************************************************************************)
(* What `aiul ca ensure`, `aiul install` and `aiul uninstall` leave on a   *)
(* machine (agent/cmd/aiul: agent.go, device.go; agent/internal/ca: ca.go, *)
(* bundle.go; agent/internal/platform: service_*.go, serviceuser_*.go,     *)
(* trust_*.go, env_*.go, publish.go), as plans of steps, each of which can *)
(* fail or be the last one before the command is killed.                   *)
(*                                                                         *)
(* A step changes the machine in one go except where a failure leaves part *)
(* of it behind; those parts are things of their own.                      *)
(***************************************************************************)
EXTENDS SystemProxy, Sequences

VARIABLE machine

(* root: what root.key and root.crt are together: none, a narrow one whose *)
(* path length lets it issue nothing, a good one, or a torn pair that does *)
(* not belong together. copy: the worker's pair, and whether it is still   *)
(* that one. trusted: which of our roots the system's store holds.         *)
Thing == {"group", "uid", "noLogin", "dirs", "binary", "jobs", "public", "vars", "list"}
Root == {"none", "narrow", "good", "torn"}
Machine == [things : SUBSET Thing, root : Root, copy : [of : Root, current : BOOLEAN],
            trusted : SUBSET {"current", "old"}]

(* Load does not look whether the key is the certificate's.                *)
Loads(root) == root # "none"

(* What the worker cannot start without: its account, its directories and  *)
(* log files, its binary, and a root that signs its intermediate.          *)
CanStart(m) == {"uid", "dirs", "binary", "jobs"} \subseteq m.things /\ m.copy.of = "good"

-----------------------------------------------------------------------------

(* ca ensure: keep a root that can issue, create a missing one, replace    *)
(* one that cannot; the old one leaves the trust store first.              *)
Generate == <<"key", "cert">>
EnsurePlan(m) ==
  IF m.root = "none" THEN Generate
  ELSE IF m.root \in {"good", "torn"} THEN <<>>
  ELSE (IF m.trusted # {} THEN <<"untrust">> ELSE <<>>) \o Generate

(* Service.Install. Linux enables both units before it starts them; on     *)
(* Windows a running service holds its binary, so both stop first, and the *)
(* worker's account is there only once its service is.                     *)
Prepared == <<"account", "dirs", "copy", "binary">>
DarwinInstall == Prepared \o <<"jobs", "startHelper", "startWorker">>
LinuxInstall == Prepared \o <<"jobs", "startHelper", "startWorker">>
WindowsInstall ==
  <<"stopWorker", "stopHelper", "dirs", "binary", "jobs", "copy", "startHelper", "startWorker">>
ServiceInstall ==
  CASE os = "darwin" -> DarwinInstall [] os = "linux" -> LinuxInstall
    [] os = "windows" -> WindowsInstall

(* Slip: the setting is written as soon as the jobs are.                   *)
InstallPlanEager ==
  ServiceInstall \o <<"setProxy", "wait", "trust", "publish", "env">>

(* The jobs and the trust first, the proxy setting last.                   *)
InstallPlan ==
  ServiceInstall \o <<"wait", "trust", "publish", "env", "setProxy">>

(* Service.Uninstall: the worker first, then the helper.                   *)
DarwinUninstall ==
  <<"stopWorker", "stopHelper", "dropJobs", "dropAccount", "dropBinary", "dropPublic">>
LinuxUninstall ==
  <<"stopWorker", "stopHelper", "dropJobs", "dropAccount", "dropBinary", "dropPublic">>
WindowsUninstall == <<"stopWorker", "stopHelper", "dropJobs", "dropBinary", "dropPublic">>
ServiceUninstall ==
  CASE os = "darwin" -> DarwinUninstall [] os = "linux" -> LinuxUninstall
    [] os = "windows" -> WindowsUninstall

RollbackPlan == <<"unsetProxy", "removeEnv">> \o ServiceUninstall
UninstallPlan == RollbackPlan \o <<"untrust">>

-----------------------------------------------------------------------------
(* What each step makes of the machine: Whole when it goes through, one of *)
(* Part when it fails or is the last thing the command does.               *)

With(m, new) == [m EXCEPT !.things = @ \cup new]
Without(m, old) == [m EXCEPT !.things = @ \ old]

WroteKey(m) == [m EXCEPT !.root = IF @ = "good" THEN "torn" ELSE @]
WroteCert(m) ==
  [m EXCEPT !.root = "good", !.copy.current = FALSE, !.trusted = IF @ = {} THEN {} ELSE {"old"}]
UnixCopy(m) == [m EXCEPT !.copy = [of |-> m.root, current |-> TRUE]]
WindowsCopy(m) == [m EXCEPT !.copy = [of |-> m.root, current |-> TRUE]]

(* Windows locks its data directory first and refuses one that holds files *)
(* of somebody else's.                                                     *)
UnixDirs(m) == With(m, {"dirs"})
WindowsDirs(m) == With(m, {"dirs"})

(* An account that has its id is left as it is found, so one whose         *)
(* creation was cut short on macOS never gets its shell. Linux creates     *)
(* user and group in one command; on Windows the account is the service's. *)
DarwinAccount(m) ==
  With(m, IF "uid" \in m.things THEN {"group"} ELSE {"group", "uid", "noLogin"})
DarwinAccountPart(m) == {m, With(m, {"group"}), With(m, {"group", "uid"})}
LinuxAccount(m) == With(m, {"group", "uid", "noLogin"})
DarwinAccountGone(m) == Without(m, {"uid", "noLogin", "group"})
LinuxAccountGone(m) == Without(m, {"uid", "noLogin", "group"})
WindowsJobs(m) == With(m, {"jobs", "uid", "group", "noLogin"})

(* One root in the store, except on macOS, where the others stay. Linux    *)
(* writes the system's store and then each person's.                       *)
DarwinTrusts(m) == [m EXCEPT !.trusted = @ \cup {"current"}]
LinuxTrusts(m) == [m EXCEPT !.trusted = {"current"}]
WindowsTrusts(m) == [m EXCEPT !.trusted = {"current"}]
WindowsTrustPart(m) == {m, [m EXCEPT !.trusted = @ \ {"old"}]}

(* By name and until none is left, whichever of them it was.               *)
DarwinUntrusts(m) == [m EXCEPT !.trusted = {}]
LinuxUntrusts(m) == [m EXCEPT !.trusted = {}]
WindowsUntrusts(m) == [m EXCEPT !.trusted = {}]

(* macOS and Linux mark their block in the file itself; macOS has a login  *)
(* agent besides. Windows: the old variables go, the new ones are set one  *)
(* by one, and the list removal goes by is written last.                   *)
DarwinEnv(m) == With(m, {"vars", "list"})
DarwinEnvPart(m) == {m, With(m, {"vars"})}
DarwinEnvGone(m) == Without(m, {"vars", "list"})
LinuxEnv(m) == With(m, {"vars"})
LinuxEnvGone(m) == Without(m, {"vars"})
WindowsEnvGone(m) == IF "list" \in m.things THEN Without(m, {"vars", "list"}) ELSE m
WindowsEnv(m) == With(WindowsEnvGone(m), {"vars", "list"})
WindowsEnvPart(m) == {m, WindowsEnvGone(m), With(WindowsEnvGone(m), {"vars"})}

Published(m) == With(m, {"public"})
Dropped(step, m) ==
  Without(m, CASE step = "dropJobs" -> {"jobs"} [] step = "dropBinary" -> {"binary"}
               [] step = "dropPublic" -> {"public"})

On(darwin, linux, windows) ==
  CASE os = "darwin" -> darwin [] os = "linux" -> linux [] os = "windows" -> windows

Whole(step, m) ==
  CASE step = "key"         -> WroteKey(m)
    [] step = "cert"        -> WroteCert(m)
    [] step = "copy"        -> On(UnixCopy(m), UnixCopy(m), WindowsCopy(m))
    [] step = "account"     -> On(DarwinAccount(m), LinuxAccount(m), m)
    [] step = "jobs"        -> On(With(m, {"jobs"}), With(m, {"jobs"}), WindowsJobs(m))
    [] step = "trust"       -> On(DarwinTrusts(m), LinuxTrusts(m), WindowsTrusts(m))
    [] step = "untrust"     -> On(DarwinUntrusts(m), LinuxUntrusts(m), WindowsUntrusts(m))
    [] step = "publish"     -> Published(m)
    [] step = "env"         -> On(DarwinEnv(m), LinuxEnv(m), WindowsEnv(m))
    [] step = "removeEnv"   -> On(DarwinEnvGone(m), LinuxEnvGone(m), WindowsEnvGone(m))
    [] step = "dropAccount" -> On(DarwinAccountGone(m), LinuxAccountGone(m), m)
    [] step \in {"dropJobs", "dropBinary", "dropPublic"} -> Dropped(step, m)
    [] step = "dirs"        -> On(UnixDirs(m), UnixDirs(m), WindowsDirs(m))
    [] step = "binary"      -> With(m, {"binary"})

Part(step, m) ==
  CASE step = "account"     -> On(DarwinAccountPart(m), {m}, {m})
    [] step = "env"         -> On(DarwinEnvPart(m), {m}, WindowsEnvPart(m))
    [] step = "trust"       -> On({m}, {m, LinuxTrusts(m)}, WindowsTrustPart(m))
    [] step = "dropAccount" -> On({m, Without(m, {"uid", "noLogin"})}, {m}, {m})
    [] OTHER                -> {m}

(* Steps that are not the machine's: processes and the proxy setting.      *)
ProcessSteps == {"stopWorker", "stopHelper", "startHelper", "startWorker", "wait"}
ProxySteps == {"setProxy", "unsetProxy"}

(* A new machine, or one with a root made before the device chain.         *)
ProvisionInit ==
  /\ ProxyInit
  /\ machine \in {[things |-> {}, root |-> r, copy |-> [of |-> "none", current |-> FALSE],
                   trusted |-> IF r = "none" THEN {} ELSE {"current"}] : r \in {"none", "narrow"}}
=============================================================================
