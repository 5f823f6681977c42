-------------------------- MODULE Lifecycle_proofs --------------------------
(***************************************************************************)
(* Proofs about Lifecycle, for any number of places and of faults: the     *)
(* state stays well typed, an undone agent leaves our setting only where   *)
(* there is a reason, a finished install is complete, and one that nothing *)
(* disturbs points nobody at a worker that is not there.                   *)
(***************************************************************************)
EXTENDS Lifecycle, SequenceTheorems, WellFoundedInduction, TLAPS

-----------------------------------------------------------------------------
(* Types.  A command that is not under way has no plan and no sweep, and a *)
(* sweep is a step of the plan; a worker that is not there has nothing,    *)
(* and one that has only started has not asked for anything yet.           *)
AllSteps == Steps \cup ProcessSteps \cup ProxySteps
Command(a) ==
  /\ a \in [doing : Commands \cup {"idle", "rollback"}, plan : Seq(AllSteps), sweep : Sweep,
            ended : Commands \cup {"nothing", "rollback"}]
  /\ a.doing = "idle" => a.plan = <<>> /\ a.sweep = NoSweep
  /\ a.doing # "idle" => a.ended = "nothing"
  /\ a.sweep.left # {} => a.plan # <<>>
AdminOK == Command(admin)
WorkerOK ==
  /\ worker \in Worker
  /\ worker.pc = "off" => worker = WorkerOff
  /\ worker.pc = "started" => worker.health = "idle" /\ worker.stop = "no"
CallOK ==
  /\ call \in [who : Callers \cup {"nobody"}, sweep : Sweep] /\ late \in Sweep
  /\ call = NoCall \/ (call.who \in Callers /\ Wants(call.who))
ProxyOK ==
  /\ os \in {"darwin", "linux", "windows"}
  /\ setting \in [Places -> Setting] /\ present \subseteq Places /\ faults \in 0..MaxFaults
SystemOK ==
  /\ machine \in Machine /\ loaded \subseteq Jobs
  /\ outside \in [refusing : BOOLEAN, answering : BOOLEAN]
TypeInv ==
  /\ ProxyOK /\ SystemOK /\ AdminOK /\ WorkerOK /\ CallOK
  /\ helper \in Helper /\ excused \subseteq Places

LEMMA FirstPlace ==
  ASSUME NEW S \in SUBSET Places, S # {}
  PROVE  Min(S) \in S /\ Min(S) \in Places
<1>1. S \subseteq Nat
  BY SystemProxyAssumption DEF Places
<1>2. PICK x \in S : \A y \in S : ~(<<y, x>> \in OpToRel(<, Nat))
  BY <1>1, NatLessThanWellFounded, WFMin
<1>3. ASSUME NEW y \in S PROVE x <= y
  <2>1. x \in Nat /\ y \in Nat
    BY <1>1
  <2>2. ~(y < x)
    BY <1>2, <2>1 DEF OpToRel
  <2>. QED  BY <2>1, <2>2
<1>4. \E z \in S : \A y \in S : z <= y
  BY <1>3
<1>. QED  BY <1>4 DEF Min

LEMMA InitTypes == Init => TypeInv
<1>. SUFFICES ASSUME Init PROVE TypeInv
  OBVIOUS
<1>1. ProxyOK
  <2>1. None \in Setting /\ Own \in Setting
    BY DEF None, Own, Setting, Value
  <2>2. setting \in [Places -> Setting]
    BY <2>1 DEF Init, ProvisionInit, ProxyInit
  <2>3. faults \in 0..MaxFaults
    BY SystemProxyAssumption DEF Init, ProvisionInit, ProxyInit
  <2>. QED  BY <2>2, <2>3 DEF Init, ProvisionInit, ProxyInit, ProxyOK
<1>2. SystemOK
  <2>1. PICK r \in {"none", "narrow"} :
          machine = [things |-> {}, root |-> r, copy |-> [of |-> "none", current |-> FALSE],
                     trusted |-> IF r = "none" THEN {} ELSE {"current"}]
    BY DEF Init, ProvisionInit
  <2>2. machine \in Machine
    BY <2>1 DEF Machine, Root, Thing
  <2>. QED  BY <2>2 DEF Init, SystemOK
<1>3. NoSweep \in Sweep
  BY DEF NoSweep, Sweep
<1>4. AdminOK
  BY <1>3 DEF Init, AdminOK, Command, Idle, Commands, NoSweep
<1>5. WorkerOK
  BY DEF Init, WorkerOK, Worker, WorkerOff
<1>6. CallOK
  BY <1>3 DEF Init, CallOK, NoCall
<1>7. helper \in Helper /\ excused \subseteq Places
  BY <1>3 DEF Init, Helper, HelperOff
<1>. QED  BY <1>1, <1>2, <1>4, <1>5, <1>6, <1>7 DEF TypeInv

(* What writing one place leaves there is a setting.                       *)
Outcome == [to : Setting, ok : BOOLEAN, fault : BOOLEAN]

LEMMA OutcomeOf ==
  ASSUME NEW to \in Setting
  PROVE  {Done(to), Fails(to), Missed(to)} \subseteq Outcome
BY DEF Done, Fails, Missed, Outcome

LEMMA PartlyWritten ==
  ASSUME NEW s \in Setting
  PROVE  /\ [s EXCEPT !.on = FALSE] \in Setting
         /\ [s EXCEPT !.on = TRUE] \in Setting
         /\ [s EXCEPT !.b = "none"] \in Setting
         /\ [s EXCEPT !.on = FALSE, !.a = "none"] \in Setting
         /\ [Ours EXCEPT !.b = s.b] \in Setting
         /\ Ours \in Setting
BY DEF Setting, Value, Ours

LEMMA LinuxSetTypes ==
  ASSUME NEW s \in Setting, NEW t
  PROVE  LinuxSet(t, s) \subseteq Outcome
<1>1. CASE Skips(t) \/ s = Ours
  BY <1>1, OutcomeOf DEF LinuxSet
<1>2. CASE ~(Skips(t) \/ s = Ours)
  <2>1. SUFFICES ASSUME NEW bad \in SUBSET {"host", "port", "mode"}
        PROVE [ok |-> bad = {}, fault |-> bad # {},
               to |-> [on |-> s.on \/ "mode" \notin bad,
                       a |-> IF "host" \in bad THEN s.a ELSE "ours",
                       b |-> IF "port" \in bad THEN s.b ELSE "ours"]] \in Outcome
    BY <1>2 DEF LinuxSet
  <2>2. s.a \in Value /\ s.b \in Value /\ s.on \in BOOLEAN
    BY DEF Setting
  <2>3. [on |-> s.on \/ "mode" \notin bad,
         a |-> IF "host" \in bad THEN s.a ELSE "ours",
         b |-> IF "port" \in bad THEN s.b ELSE "ours"] \in Setting
    BY <2>2 DEF Setting, Value
  <2>. QED  BY <2>3 DEF Outcome
<1>. QED  BY <1>1, <1>2

LEMMA OutcomeTypes ==
  ASSUME ProxyOK, NEW kind \in {"set", "unset"}, NEW t \in Places
  PROVE  Outcomes(kind, t) \subseteq Outcome
<1>1. PICK s \in Setting : s = setting[t]
  BY DEF ProxyOK
<1>2. DarwinSet(s) \subseteq Outcome /\ DarwinUnset(s) \subseteq Outcome
  BY OutcomeOf, PartlyWritten DEF DarwinSet, DarwinUnset
<1>3. LinuxSet(t, s) \subseteq Outcome /\ LinuxUnset(s) \subseteq Outcome
  BY LinuxSetTypes, OutcomeOf, PartlyWritten DEF LinuxUnset
<1>4. \A r \in Setting : RecordUnset(r) \subseteq Outcome
  BY OutcomeOf, PartlyWritten DEF RecordUnset
<1>5. WindowsSet(s) \subseteq Outcome /\ WindowsUnset(s) \subseteq Outcome
  BY <1>4, OutcomeOf, PartlyWritten DEF WindowsSet, WindowsUnset
<1>. QED  BY <1>1, <1>2, <1>3, <1>5 DEF Outcomes, ProxyOK

(* One place of a sweep.                                                   *)
LEMMA SweepTypes ==
  ASSUME ProxyOK, NEW sweep \in Sweep, NEW ok \in BOOLEAN, SweepStep(sweep, Next1(sweep, ok))
  PROVE  /\ ProxyOK'
         /\ Next1(sweep, ok) \in Sweep /\ Next1(sweep, ok).kind = sweep.kind
<1>1. sweep.left # {} /\ sweep.left \in SUBSET Places /\ sweep.kind \in {"set", "unset"}
  BY DEF SweepStep, Sweep
<1>2. Min(sweep.left) \in Places
  BY <1>1, FirstPlace
<1>3. PICK out \in Outcomes(sweep.kind, Min(sweep.left)) :
        /\ out.fault => faults < MaxFaults
        /\ faults' = faults + (IF out.fault THEN 1 ELSE 0)
        /\ setting' = [setting EXCEPT ![Min(sweep.left)] = out.to]
  BY DEF SweepStep
<1>4. out.to \in Setting /\ out.fault \in BOOLEAN
  BY <1>1, <1>2, <1>3, OutcomeTypes DEF Outcome
<1>5. setting' \in [Places -> Setting]
  BY <1>2, <1>3, <1>4 DEF ProxyOK
<1>6. faults' \in 0..MaxFaults
  BY <1>3, <1>4, SystemProxyAssumption DEF ProxyOK
<1>7. Rest(sweep, ok) \in SUBSET Places
  BY <1>1 DEF Rest
<1>8. Next1(sweep, ok) \in Sweep /\ Next1(sweep, ok).kind = sweep.kind
  BY <1>7 DEF Next1, Sweep
<1>. QED  BY <1>5, <1>6, <1>8 DEF SweepStep, ProxyOK

LEMMA StartTypes ==
  ASSUME ProxyOK, NEW kind \in {"set", "unset"}
  PROVE  Start(kind) \in Sweep /\ Start(kind).kind = kind
BY DEF Start, Visits, ProxyOK, Sweep

LEMMA ExcuseTypes ==
  ASSUME excused \subseteq Places, NEW sweep \in Sweep, sweep.left # {}, Excuse(sweep)
  PROVE  excused' \subseteq Places
<1>1. Min(sweep.left) \in Places
  BY FirstPlace DEF Sweep
<1>. QED  BY <1>1 DEF Excuse

LEMMA PassOverTypes ==
  ASSUME excused \subseteq Places, NEW kind, PassOver(kind)
  PROVE  excused' \subseteq Places
BY DEF PassOver

LEMMA FaultyTypes ==
  ASSUME ProxyOK, Faulty PROVE faults' \in 0..MaxFaults /\ faults' > 0
BY SystemProxyAssumption DEF ProxyOK, Faulty

-----------------------------------------------------------------------------
(* The machine and the plans.                                              *)
LEMMA ThingTypes ==
  ASSUME NEW m \in Machine, NEW S \in SUBSET Thing
  PROVE  With(m, S) \in Machine /\ Without(m, S) \in Machine
BY DEF With, Without, Machine

LEMMA RootTypes ==
  ASSUME NEW m \in Machine
  PROVE  /\ WroteKey(m) \in Machine /\ WroteCert(m) \in Machine
         /\ UnixCopy(m) \in Machine /\ WindowsCopy(m) \in Machine
<1>1. WroteKey(m) \in Machine
  BY DEF WroteKey, Machine, Root
<1>2. WroteCert(m) \in Machine
  <2>1. m.copy \in [of : Root, current : BOOLEAN]
    BY DEF Machine
  <2>2. [m.copy EXCEPT !.current = FALSE] \in [of : Root, current : BOOLEAN]
    BY <2>1
  <2>3. (IF m.trusted = {} THEN {} ELSE {"old"}) \in SUBSET {"current", "old"}
    OBVIOUS
  <2>. QED  BY <2>2, <2>3 DEF WroteCert, Machine, Root
<1>3. UnixCopy(m) \in Machine /\ WindowsCopy(m) \in Machine
  BY DEF UnixCopy, WindowsCopy, Machine
<1>. QED  BY <1>1, <1>2, <1>3

LEMMA TrustTypes ==
  ASSUME NEW m \in Machine
  PROVE  /\ DarwinTrusts(m) \in Machine /\ LinuxTrusts(m) \in Machine
         /\ WindowsTrusts(m) \in Machine /\ WindowsTrustPart(m) \subseteq Machine
         /\ DarwinUntrusts(m) \in Machine /\ LinuxUntrusts(m) \in Machine
         /\ WindowsUntrusts(m) \in Machine
BY DEF DarwinTrusts, LinuxTrusts, WindowsTrusts, WindowsTrustPart, DarwinUntrusts, LinuxUntrusts,
       WindowsUntrusts, Machine

LEMMA AccountTypes ==
  ASSUME NEW m \in Machine
  PROVE  /\ DarwinAccount(m) \in Machine /\ LinuxAccount(m) \in Machine
         /\ DarwinAccountPart(m) \subseteq Machine
         /\ DarwinAccountGone(m) \in Machine /\ LinuxAccountGone(m) \in Machine
         /\ WindowsJobs(m) \in Machine /\ UnixDirs(m) \in Machine /\ WindowsDirs(m) \in Machine
         /\ Published(m) \in Machine
         /\ \A step \in {"dropJobs", "dropBinary", "dropPublic"} : Dropped(step, m) \in Machine
<1>. USE ThingTypes DEF Thing
<1>1. DarwinAccount(m) \in Machine /\ LinuxAccount(m) \in Machine
      /\ DarwinAccountPart(m) \subseteq Machine
  BY DEF DarwinAccount, LinuxAccount, DarwinAccountPart
<1>2. DarwinAccountGone(m) \in Machine /\ LinuxAccountGone(m) \in Machine
  BY DEF DarwinAccountGone, LinuxAccountGone
<1>3. WindowsJobs(m) \in Machine /\ UnixDirs(m) \in Machine /\ WindowsDirs(m) \in Machine
      /\ Published(m) \in Machine
  BY DEF WindowsJobs, UnixDirs, WindowsDirs, Published
<1>4. \A step \in {"dropJobs", "dropBinary", "dropPublic"} : Dropped(step, m) \in Machine
  BY DEF Dropped
<1>. QED  BY <1>1, <1>2, <1>3, <1>4

LEMMA EnvTypes ==
  ASSUME NEW m \in Machine
  PROVE  /\ DarwinEnv(m) \in Machine /\ LinuxEnv(m) \in Machine /\ WindowsEnv(m) \in Machine
         /\ DarwinEnvPart(m) \subseteq Machine /\ WindowsEnvPart(m) \subseteq Machine
         /\ DarwinEnvGone(m) \in Machine /\ LinuxEnvGone(m) \in Machine
         /\ WindowsEnvGone(m) \in Machine
<1>. USE ThingTypes DEF Thing
<1>1. DarwinEnv(m) \in Machine /\ LinuxEnv(m) \in Machine /\ DarwinEnvPart(m) \subseteq Machine
      /\ DarwinEnvGone(m) \in Machine /\ LinuxEnvGone(m) \in Machine
  BY DEF DarwinEnv, LinuxEnv, DarwinEnvPart, DarwinEnvGone, LinuxEnvGone
<1>2. WindowsEnvGone(m) \in Machine
  BY DEF WindowsEnvGone
<1>3. WindowsEnv(m) \in Machine /\ WindowsEnvPart(m) \subseteq Machine
  BY <1>2 DEF WindowsEnv, WindowsEnvPart
<1>. QED  BY <1>1, <1>2, <1>3

LEMMA MachineTypes ==
  ASSUME os \in {"darwin", "linux", "windows"}, NEW m \in Machine, NEW step \in Steps
  PROVE  Whole(step, m) \in Machine /\ Part(step, m) \subseteq Machine
<1>1. Part(step, m) \subseteq Machine
  BY ThingTypes, TrustTypes, AccountTypes, EnvTypes DEF Part, On, Steps, Thing
<1>. SUFFICES Whole(step, m) \in Machine
  BY <1>1
<1>2. CASE step = "key"
  BY <1>2, RootTypes DEF Whole
<1>3. CASE step = "cert"
  BY <1>3, RootTypes DEF Whole
<1>4. CASE step = "copy"
  BY <1>4, RootTypes DEF Whole, On
<1>5. CASE step = "account"
  BY <1>5, AccountTypes DEF Whole, On
<1>6. CASE step = "dirs"
  BY <1>6, AccountTypes DEF Whole, On
<1>7. CASE step = "binary"
  BY <1>7, ThingTypes DEF Whole, Thing
<1>8. CASE step = "jobs"
  BY <1>8, ThingTypes, AccountTypes DEF Whole, On, Thing
<1>9. CASE step = "trust"
  BY <1>9, TrustTypes DEF Whole, On
<1>10. CASE step = "untrust"
  BY <1>10, TrustTypes DEF Whole, On
<1>11. CASE step = "publish"
  BY <1>11, AccountTypes DEF Whole
<1>12. CASE step = "env"
  BY <1>12, EnvTypes DEF Whole, On
<1>13. CASE step = "removeEnv"
  BY <1>13, EnvTypes DEF Whole, On
<1>14. CASE step = "dropAccount"
  BY <1>14, AccountTypes DEF Whole, On
<1>15. CASE step \in {"dropJobs", "dropBinary", "dropPublic"}
  BY <1>15, AccountTypes DEF Whole
<1>. QED  BY <1>1, <1>2, <1>3, <1>4, <1>5, <1>6, <1>7, <1>8, <1>9, <1>10, <1>11, <1>12, <1>13,
             <1>14, <1>15 DEF Steps

(* What the plans are made of, and what install still has to do at each    *)
(* point of its plan.                                                      *)
LEMMA PlanParts ==
  /\ {Generate, Prepared, <<"jobs", "startHelper", "startWorker">>, WindowsInstall,
      <<"wait", "trust", "publish", "env", "setProxy">>} \subseteq Seq(AllSteps)
  /\ {<<"unsetProxy", "removeEnv">>, DarwinUninstall, LinuxUninstall, WindowsUninstall,
      <<"untrust">>, <<>>} \subseteq Seq(AllSteps)
BY DEF AllSteps, Steps, ProcessSteps, ProxySteps, Generate, Prepared, WindowsInstall,
       DarwinUninstall, LinuxUninstall, WindowsUninstall

LEMMA PlanTypes ==
  ASSUME os \in {"darwin", "linux", "windows"}
  PROVE  /\ InstallPlan \in Seq(AllSteps)
         /\ RollbackPlan \in Seq(AllSteps) /\ UninstallPlan \in Seq(AllSteps)
         /\ EnsurePlan(machine) \in Seq(AllSteps)
         /\ \A c \in Commands : PlanOf(c) \in Seq(AllSteps)
<1>1. ServiceInstall \in Seq(AllSteps) /\ ServiceUninstall \in Seq(AllSteps)
  BY PlanParts, ConcatProperties DEF ServiceInstall, ServiceUninstall, DarwinInstall, LinuxInstall
<1>2. /\ InstallPlan \in Seq(AllSteps) /\ RollbackPlan \in Seq(AllSteps)
      /\ UninstallPlan \in Seq(AllSteps)
  BY <1>1, PlanParts, ConcatProperties DEF InstallPlan, RollbackPlan, UninstallPlan
<1>3. EnsurePlan(machine) \in Seq(AllSteps)
  BY PlanParts, ConcatProperties DEF EnsurePlan
<1>. QED  BY <1>2, <1>3, PlanParts DEF PlanOf, Commands

LEMMA UnixInstall ==
  ASSUME os \in {"darwin", "linux"}
  PROVE  /\ Len(InstallPlan) = 12
         /\ InstallPlan[1] = "account" /\ InstallPlan[2] = "dirs" /\ InstallPlan[3] = "copy"
         /\ InstallPlan[4] = "binary" /\ InstallPlan[5] = "jobs"
         /\ InstallPlan[6] = "startHelper" /\ InstallPlan[7] = "startWorker"
         /\ InstallPlan[8] = "wait" /\ InstallPlan[9] = "trust" /\ InstallPlan[10] = "publish"
         /\ InstallPlan[11] = "env" /\ InstallPlan[12] = "setProxy"
BY DEF InstallPlan, ServiceInstall, DarwinInstall, LinuxInstall, Prepared

LEMMA OnWindowsInstall ==
  ASSUME os = "windows"
  PROVE  /\ Len(InstallPlan) = 13
         /\ InstallPlan[1] = "stopWorker" /\ InstallPlan[2] = "stopHelper"
         /\ InstallPlan[3] = "dirs" /\ InstallPlan[4] = "binary" /\ InstallPlan[5] = "jobs"
         /\ InstallPlan[6] = "copy"
         /\ InstallPlan[7] = "startHelper" /\ InstallPlan[8] = "startWorker"
         /\ InstallPlan[9] = "wait" /\ InstallPlan[10] = "trust" /\ InstallPlan[11] = "publish"
         /\ InstallPlan[12] = "env" /\ InstallPlan[13] = "setProxy"
BY DEF InstallPlan, ServiceInstall, WindowsInstall

(* An undoing plan takes our setting away first, and never writes it.      *)
LEMMA UndoPlans ==
  ASSUME os \in {"darwin", "linux", "windows"}, NEW plan \in {RollbackPlan, UninstallPlan}
  PROVE  /\ plan # <<>> /\ plan[1] = "unsetProxy"
         /\ \A i \in 2..Len(plan) : plan[i] \notin ProxySteps
BY DEF RollbackPlan, UninstallPlan, ServiceUninstall, DarwinUninstall, LinuxUninstall,
       WindowsUninstall, ProxySteps

LEMMA EnsurePlans ==
  ASSUME NEW m, NEW plan \in {EnsurePlan(m), Generate}, NEW i \in 1..Len(plan)
  PROVE  plan[i] \in {"untrust", "key", "cert"}
BY DEF EnsurePlan, Generate

-----------------------------------------------------------------------------
(* Every step keeps the types.                                             *)
LEMMA AdminMoves ==
  ASSUME ProxyOK, AdminOK, admin.doing # "idle", admin.plan # <<>>
  PROVE  /\ Command(Advanced) /\ Command(AfterFailure) /\ Command(Idle)
         /\ \A sweep \in Sweep : Command([admin EXCEPT !.sweep = sweep])
<1>1. NoSweep \in Sweep /\ Command(Idle)
  BY PlanParts DEF NoSweep, Sweep, Command, Idle, Commands
<1>2. Command(Advanced)
  <2>1. Tail(admin.plan) \in Seq(AllSteps)
    BY DEF AdminOK, Command
  <2>. QED  BY <1>1, <2>1 DEF Advanced, AdminOK, Command, NoSweep
<1>3. Command(AfterFailure)
  <2>1. CASE admin.doing = "install"
    <3>1. RollbackPlan \in Seq(AllSteps)
      BY PlanTypes DEF ProxyOK
    <3>2. AfterFailure = [doing |-> "rollback", plan |-> RollbackPlan, sweep |-> NoSweep,
                          ended |-> "nothing"]
      BY <2>1 DEF AfterFailure, Idle
    <3>. QED  BY <1>1, <3>1, <3>2 DEF Command, Commands, NoSweep
  <2>2. CASE admin.doing # "install"
    BY <1>1, <1>2, <2>2 DEF AfterFailure, AdminOK, Command, Commands
  <2>. QED  BY <2>1, <2>2
<1>4. ASSUME NEW sweep \in Sweep PROVE Command([admin EXCEPT !.sweep = sweep])
  BY DEF AdminOK, Command
<1>. QED  BY <1>1, <1>2, <1>3, <1>4

LEMMA AnsweredTypes ==
  ASSUME WorkerOK, NEW who \in Callers, Wants(who), Answered(who)
  PROVE  WorkerOK'
BY DEF WorkerOK, Worker, WorkerOff, Callers, Wants, Answered

(* Requests to the helper.                                                 *)
LEMMA CallTypes ==
  ASSUME TypeInv,
         \/ \E who \in Callers : Ask(who) \/ Refused(who)
         \/ Serve \/ Return \/ ServeLate \/ TimeOut
  PROVE  TypeInv'
<1>. USE DEF TypeInv
<1>1. NoSweep \in Sweep
  BY DEF NoSweep, Sweep
<1>2. ASSUME NEW who \in Callers, Ask(who) PROVE TypeInv'
  <2>1. Kind(who) \in {"set", "unset"}
    BY <1>2 DEF Ask, Wants, Kind
  <2>2. Start(Kind(who)) \in Sweep
    BY <2>1, StartTypes
  <2>3. CallOK'
    BY <1>2, <2>2 DEF Ask, CallOK, Wants
  <2>4. excused' \subseteq Places
    BY <1>2, PassOverTypes DEF Ask
  <2>. QED  BY <1>2, <2>3, <2>4 DEF Ask, ProxyOK, SystemOK, AdminOK, WorkerOK, proxyVars
<1>3. ASSUME NEW who \in Callers, Refused(who) PROVE TypeInv'
  <2>1. WorkerOK'
    BY <1>3, AnsweredTypes DEF Refused
  <2>2. CallOK'
    BY <1>3 DEF Refused, CallOK
  <2>. QED  BY <1>3, <2>1, <2>2 DEF Refused, ProxyOK, SystemOK, AdminOK, proxyVars
<1>4. CASE Serve
  <2>1. call.sweep \in Sweep
    BY DEF CallOK
  <2>2. PICK ok \in BOOLEAN :
          /\ SweepStep(call.sweep, Next1(call.sweep, ok))
          /\ call' = [call EXCEPT !.sweep = Next1(call.sweep, ok)]
    BY <1>4 DEF Serve
  <2>3. ProxyOK' /\ Next1(call.sweep, ok) \in Sweep
    BY <2>1, <2>2, SweepTypes
  <2>4. excused' \subseteq Places
    BY <1>4, <2>1, ExcuseTypes DEF Serve
  <2>5. CallOK'
    <3>1. call # NoCall
      BY <1>4 DEF Serve, NoCall, NoSweep
    <3>2. call'.who = call.who /\ call' \in [who : Callers \cup {"nobody"}, sweep : Sweep]
      BY <2>2, <2>3 DEF CallOK
    <3>. QED  BY <1>4, <3>1, <3>2 DEF Serve, CallOK, Wants
  <2>. QED  BY <1>4, <2>3, <2>4, <2>5 DEF Serve, SystemOK, AdminOK, WorkerOK
<1>5. CASE Return
  <2>1. WorkerOK'
    BY <1>5, AnsweredTypes DEF Return, CallOK
  <2>2. CallOK'
    BY <1>1, <1>5 DEF Return, CallOK, NoCall
  <2>. QED  BY <1>5, <2>1, <2>2 DEF Return, ProxyOK, SystemOK, AdminOK, proxyVars
<1>6. CASE ServeLate
  <2>1. late \in Sweep
    BY DEF CallOK
  <2>2. PICK ok \in BOOLEAN :
          /\ SweepStep(late, Next1(late, ok))
          /\ late' = IF Next1(late, ok).left = {} THEN NoSweep ELSE Next1(late, ok)
    BY <1>6 DEF ServeLate
  <2>3. ProxyOK' /\ Next1(late, ok) \in Sweep
    BY <2>1, <2>2, SweepTypes
  <2>4. excused' \subseteq Places
    BY <1>6, <2>1, ExcuseTypes DEF ServeLate
  <2>5. CallOK'
    BY <1>1, <1>6, <2>2, <2>3 DEF ServeLate, CallOK, Wants
  <2>. QED  BY <1>6, <2>3, <2>4, <2>5 DEF ServeLate, SystemOK, AdminOK, WorkerOK
<1>7. CASE TimeOut
  <2>1. call # NoCall
    BY <1>7 DEF TimeOut, NoCall, NoSweep
  <2>2. WorkerOK'
    BY <1>7, <2>1, AnsweredTypes DEF TimeOut, CallOK
  <2>3. CallOK'
    BY <1>1, <1>7 DEF TimeOut, Abandon, CallOK, NoCall
  <2>4. ProxyOK'
    BY <1>7, FaultyTypes DEF TimeOut, ProxyOK
  <2>. QED  BY <1>7, <2>2, <2>3, <2>4 DEF TimeOut, SystemOK, AdminOK
<1>. QED  BY <1>2, <1>3, <1>4, <1>5, <1>6, <1>7

(* The worker's own steps, and what ends it.                               *)
LEMMA WorkerTypes ==
  ASSUME TypeInv,
         WorkerStarts \/ Listen \/ Dial \/ Look \/ WorkerExits \/ ListenerFails \/ WorkerKilled
  PROVE  TypeInv'
<1>. USE DEF TypeInv
<1>1. NoSweep \in Sweep
  BY DEF NoSweep, Sweep
<1>2. CASE WorkerStarts
  BY <1>2 DEF WorkerStarts, WorkerOK, Worker, WorkerOff, CallOK, Callers, Wants, ProxyOK, SystemOK,
              AdminOK, proxyVars
<1>3. CASE Listen
  BY <1>3 DEF Listen, WorkerOK, Worker, WorkerOff, CallOK, Callers, Wants, ProxyOK, SystemOK,
              AdminOK, proxyVars
<1>4. CASE Dial
  BY <1>4 DEF Dial, WorkerOK, Worker, WorkerOff, CallOK, Callers, Wants, ProxyOK, SystemOK,
              AdminOK, proxyVars
<1>5. CASE Look
  BY <1>5 DEF Look, WorkerOK, Worker, WorkerOff, CallOK, Callers, Wants, ProxyOK, SystemOK,
              AdminOK, proxyVars
<1>6. CASE ListenerFails
  <2>1. ProxyOK'
    BY <1>6, FaultyTypes DEF ListenerFails, ProxyOK
  <2>. QED  BY <1>6, <2>1 DEF ListenerFails, WorkerOK, Worker, WorkerOff, CallOK, Callers, Wants,
                              SystemOK, AdminOK
<1>7. ASSUME EndWorker PROVE WorkerOK' /\ CallOK'
  <2>1. WorkerOK'
    BY <1>7 DEF EndWorker, WorkerOK, Worker, WorkerOff
  <2>2. CallOK'
    BY <1>1, <1>7 DEF EndWorker, Abandon, CallOK, NoCall
  <2>. QED  BY <2>1, <2>2
<1>8. CASE WorkerExits
  BY <1>7, <1>8 DEF WorkerExits, ProxyOK, SystemOK, AdminOK, proxyVars
<1>9. CASE WorkerKilled
  <2>1. ProxyOK'
    BY <1>9, FaultyTypes DEF WorkerKilled, ProxyOK
  <2>. QED  BY <1>7, <1>9, <2>1 DEF WorkerKilled, SystemOK, AdminOK
<1>. QED  BY <1>2, <1>3, <1>4, <1>5, <1>6, <1>8, <1>9

LEMMA HelperTypes ==
  ASSUME TypeInv, HelperStarts \/ HelperUnsets \/ HelperExits \/ HelperKilled \/ Reboot
  PROVE  TypeInv'
<1>. USE DEF TypeInv
<1>1. NoSweep \in Sweep /\ HelperOff \in Helper
  BY DEF NoSweep, Sweep, HelperOff, Helper
<1>2. ASSUME EndHelper PROVE WorkerOK' /\ CallOK' /\ helper' \in Helper
  <2>1. WorkerOK'
    BY <1>2, AnsweredTypes DEF EndHelper, CallOK, WorkerOK
  <2>2. CallOK'
    BY <1>1, <1>2 DEF EndHelper, CallOK, NoCall
  <2>. QED  BY <1>1, <1>2, <2>1, <2>2 DEF EndHelper
<1>3. CASE HelperStarts
  <2>1. helper' \in Helper
    BY <1>1, <1>3 DEF HelperStarts, Helper
  <2>. QED  BY <1>3, <2>1 DEF HelperStarts, WorkerOK, CallOK, Wants, ProxyOK, SystemOK, AdminOK,
                              proxyVars
<1>4. CASE HelperUnsets
  <2>1. helper.sweep \in Sweep
    BY DEF Helper
  <2>2. PICK ok \in BOOLEAN :
          /\ SweepStep(helper.sweep, Next1(helper.sweep, ok))
          /\ helper' = [helper EXCEPT !.sweep = Next1(helper.sweep, ok)]
    BY <1>4 DEF HelperUnsets
  <2>3. ProxyOK' /\ Next1(helper.sweep, ok) \in Sweep
    BY <2>1, <2>2, SweepTypes
  <2>4. excused' \subseteq Places
    BY <1>4, <2>1, ExcuseTypes DEF HelperUnsets
  <2>5. helper' \in Helper
    BY <2>2, <2>3 DEF Helper
  <2>. QED  BY <1>4, <2>3, <2>4, <2>5 DEF HelperUnsets, SystemOK, AdminOK, WorkerOK, CallOK, Wants
<1>5. CASE HelperExits
  BY <1>2, <1>5 DEF HelperExits, ProxyOK, SystemOK, AdminOK, proxyVars, Jobs
<1>6. CASE HelperKilled
  <2>1. ProxyOK'
    BY <1>6, FaultyTypes DEF HelperKilled, ProxyOK
  <2>. QED  BY <1>2, <1>6, <2>1 DEF HelperKilled, SystemOK, AdminOK
<1>7. CASE Reboot
  <2>1. ProxyOK'
    BY <1>7, FaultyTypes DEF Reboot, ProxyOK
  <2>2. SystemOK'
    BY <1>7 DEF Reboot, SystemOK, Enabled, On, DarwinEnabled, LinuxEnabled, WindowsEnabled, Jobs,
                ProxyOK
  <2>3. AdminOK'
    BY <1>1, <1>7, PlanParts DEF Reboot, AdminOK, Command, Idle, Commands, NoSweep
  <2>4. WorkerOK' /\ CallOK'
    BY <1>1, <1>7 DEF Reboot, WorkerOK, Worker, WorkerOff, CallOK, NoCall
  <2>. QED  BY <1>1, <1>7, <2>1, <2>2, <2>3, <2>4 DEF Reboot
<1>. QED  BY <1>3, <1>4, <1>5, <1>6, <1>7

LEMMA SettingTypes ==
  ASSUME TypeInv, Outside PROVE TypeInv'
<1>. USE DEF TypeInv
<1>1. faults' \in 0..MaxFaults
  BY FaultyTypes DEF Outside
<1>2. None \in Setting /\ Own \in Setting
  BY DEF None, Own, Setting, Value
<1>3. \/ setting' = setting /\ present' = present
      \/ \E t \in Places : ComeOrGo(t)
      \/ \E t \in Places, s \in {None, Own} : Drift(t, s)
  BY DEF Outside
<1>4. os' = os /\ setting' \in [Places -> Setting] /\ present' \subseteq Places
  <2>1. os' = os
    BY <1>3 DEF Outside, ComeOrGo, Drift
  <2>. QED  BY <1>2, <1>3, <2>1 DEF ComeOrGo, Drift, ProxyOK
<1>5. outside' \in [refusing : BOOLEAN, answering : BOOLEAN]
  BY DEF Outside, SystemOK
<1>. QED  BY <1>1, <1>4, <1>5 DEF Outside, ProxyOK, SystemOK, AdminOK, WorkerOK, CallOK, Wants

(* The commands.                                                           *)
LEMMA StepTypes ==
  ASSUME TypeInv, NEW step \in Steps, MachineStep(step) PROVE TypeInv'
<1>. USE DEF TypeInv
<1>1. admin.doing # "idle" /\ admin.plan # <<>>
  BY DEF MachineStep, Step
<1>2. Command(Advanced) /\ Command(AfterFailure) /\ Command(Idle)
  BY <1>1, AdminMoves
<1>3. machine \in Machine /\ os \in {"darwin", "linux", "windows"}
  BY DEF SystemOK, ProxyOK
<1>4. machine' \in Machine
  BY <1>3, MachineTypes DEF MachineStep
<1>5. AdminOK'
  BY <1>2 DEF MachineStep, AdminOK
<1>6. ProxyOK'
  BY FaultyTypes DEF MachineStep, ProxyOK
<1>. QED  BY <1>4, <1>5, <1>6 DEF MachineStep, SystemOK, WorkerOK, CallOK, Wants, processes

LEMMA AdminSweepTypes ==
  ASSUME TypeInv,
         BeginSweep("setProxy", "set") \/ BeginSweep("unsetProxy", "unset") \/ AdminSweeps
  PROVE  TypeInv'
<1>. USE DEF TypeInv
<1>1. ASSUME NEW step, NEW kind \in {"set", "unset"}, BeginSweep(step, kind) PROVE TypeInv'
  <2>1. admin.doing # "idle" /\ admin.plan # <<>>
    BY <1>1 DEF BeginSweep, Step
  <2>2. Start(kind) \in Sweep
    BY StartTypes
  <2>3. AdminOK'
    BY <1>1, <2>1, <2>2, AdminMoves DEF BeginSweep, AdminOK
  <2>4. excused' \subseteq Places
    BY <1>1, PassOverTypes DEF BeginSweep
  <2>. QED  BY <1>1, <2>3, <2>4 DEF BeginSweep, ProxyOK, SystemOK, WorkerOK, CallOK, Wants,
                                    processes, proxyVars
<1>2. CASE AdminSweeps
  <2>1. admin.sweep \in Sweep /\ admin.sweep.left # {}
    BY <1>2 DEF AdminSweeps, AdminOK, Command
  <2>2. PICK ok \in BOOLEAN :
          /\ SweepStep(admin.sweep, Next1(admin.sweep, ok))
          /\ admin' = IF Next1(admin.sweep, ok).left # {}
                      THEN [admin EXCEPT !.sweep = Next1(admin.sweep, ok)]
                      ELSE IF Next1(admin.sweep, ok).failed THEN AfterFailure ELSE Advanced
    BY <1>2 DEF AdminSweeps
  <2>3. ProxyOK' /\ Next1(admin.sweep, ok) \in Sweep
    BY <2>1, <2>2, SweepTypes
  <2>4. admin.doing # "idle" /\ admin.plan # <<>>
    BY <2>1 DEF AdminOK, Command, NoSweep
  <2>5. AdminOK'
    BY <2>2, <2>3, <2>4, AdminMoves DEF AdminOK
  <2>6. excused' \subseteq Places
    BY <1>2, <2>1, ExcuseTypes DEF AdminSweeps
  <2>. QED  BY <1>2, <2>3, <2>5, <2>6 DEF AdminSweeps, SystemOK, WorkerOK, CallOK, Wants, processes
<1>. QED  BY <1>1, <1>2

LEMMA ProcessTypes ==
  ASSUME TypeInv, Signal \/ (\E job \in Jobs : Stopped(job) \/ Started(job)) PROVE TypeInv'
<1>. USE DEF TypeInv
<1>1. ASSUME NEW step, AwaitWorker(step) PROVE TypeInv'
  <2>1. WorkerOK' /\ CallOK'
    BY <1>1 DEF AwaitWorker, StopWorker, WorkerOK, Worker, WorkerOff, CallOK, Callers, Wants
  <2>. QED  BY <1>1, <2>1 DEF AwaitWorker, ProxyOK, SystemOK, AdminOK, proxyVars
<1>2. ASSUME NEW step, AwaitHelper(step) PROVE TypeInv'
  <2>1. Start("unset") \in Sweep
    BY StartTypes
  <2>2. helper' \in Helper
    BY <1>2, <2>1 DEF AwaitHelper, Helper
  <2>3. excused' \subseteq Places
    BY <1>2, PassOverTypes DEF AwaitHelper
  <2>. QED  BY <1>2, <2>2, <2>3 DEF AwaitHelper, ProxyOK, SystemOK, AdminOK, WorkerOK, CallOK, Wants,
                                    proxyVars
<1>3. ASSUME NEW job \in Jobs, Stopped(job) \/ Started(job) PROVE TypeInv'
  <2>1. admin.doing # "idle" /\ admin.plan # <<>>
    BY <1>3 DEF Stopped, Started, Step
  <2>2. AdminOK'
    BY <1>3, <2>1, AdminMoves DEF Stopped, Started, AdminOK
  <2>. QED  BY <1>3, <2>2 DEF Stopped, Started, ProxyOK, SystemOK, WorkerOK, CallOK, Wants, proxyVars
<1>. QED  BY <1>1, <1>2, <1>3 DEF Signal

LEMMA CommandTypes ==
  ASSUME TypeInv, Waited \/ AdminEnds \/ (\E c \in Commands : Begin(c)) PROVE TypeInv'
<1>. USE DEF TypeInv
<1>1. CASE Waited
  <2>1. admin.doing # "idle" /\ admin.plan # <<>>
    BY <1>1 DEF Waited, Step
  <2>2. AdminOK'
    BY <1>1, <2>1, AdminMoves DEF Waited, AdminOK
  <2>3. ProxyOK'
    BY <1>1, FaultyTypes DEF Waited, ProxyOK
  <2>. QED  BY <1>1, <2>2, <2>3 DEF Waited, SystemOK, WorkerOK, CallOK, Wants, processes
<1>2. CASE AdminEnds
  <2>1. NoSweep \in Sweep /\ <<>> \in Seq(AllSteps)
    BY DEF NoSweep, Sweep
  <2>2. AdminOK'
    BY <1>2, <2>1 DEF AdminEnds, AdminOK, Command, Idle, NoSweep
  <2>. QED  BY <1>2, <2>2 DEF AdminEnds, ProxyOK, SystemOK, WorkerOK, CallOK, Wants, processes,
                              proxyVars
<1>3. ASSUME NEW c \in Commands, Begin(c) PROVE TypeInv'
  <2>1. PlanOf(c) \in Seq(AllSteps)
    BY PlanTypes DEF ProxyOK
  <2>2. NoSweep \in Sweep
    BY DEF NoSweep, Sweep
  <2>3. AdminOK'
    BY <1>3, <2>1, <2>2 DEF Begin, AdminOK, Command, Idle, NoSweep, Commands
  <2>. QED  BY <1>3, <2>3 DEF Begin, ProxyOK, SystemOK, WorkerOK, CallOK, Wants, processes, proxyVars
<1>. QED  BY <1>1, <1>2, <1>3

LEMMA NextTypes == TypeInv /\ [Next]_vars => TypeInv'
<1>. SUFFICES ASSUME TypeInv, [Next]_vars PROVE TypeInv'
  OBVIOUS
<1>1. CASE AdminGoesOn
  BY <1>1, StepTypes, AdminSweepTypes, ProcessTypes, CommandTypes DEF AdminGoesOn
<1>2. CASE Mishap
  BY <1>2, CallTypes, WorkerTypes, HelperTypes, SettingTypes DEF Mishap
<1>3. CASE Next
  BY <1>1, <1>2, <1>3, CallTypes, WorkerTypes, HelperTypes, CommandTypes DEF Next
<1>4. CASE UNCHANGED vars
  BY <1>4 DEF vars, TypeInv, ProxyOK, SystemOK, AdminOK, WorkerOK, CallOK, Wants, proxyVars, processes
<1>. QED  BY <1>3, <1>4

LEMMA TypesAlways == Spec => []TypeInv
<1>. QED  BY InitTypes, NextTypes, PTL DEF Spec

(* The types hold, and a request is somebody's who waits for it, in every  *)
(* reachable state: LifecycleTypeOK, the run's type invariant.             *)
THEOREM TypesHold == Spec => []LifecycleTypeOK
<1>1. TypeInv => LifecycleTypeOK
  BY DEF TypeInv, ProxyOK, SystemOK, WorkerOK, CallOK, Machine, LifecycleTypeOK
<1>. QED  BY <1>1, TypesAlways, PTL

-----------------------------------------------------------------------------
(* The plan of a command under way: what is left of install's, in order;   *)
(* nothing but roots for ensure; for the undoing commands, our setting is  *)
(* taken away by the first step if at all. A sweep is a step of those.     *)
Undoers == {"rollback", "uninstall"}
Planned(a) ==
  /\ a.doing = "install" =>
       /\ Len(a.plan) <= Len(InstallPlan)
       /\ \A i \in 1..Len(a.plan) :
            a.plan[i] = InstallPlan[Len(InstallPlan) - Len(a.plan) + i]
  /\ a.doing \in {"ensure", "force"} =>
       \A i \in 1..Len(a.plan) : a.plan[i] \in {"untrust", "key", "cert"}
  /\ a.doing \in Undoers =>
       /\ \A i \in 1..Len(a.plan) : a.plan[i] # "setProxy"
       /\ \A i \in 2..Len(a.plan) : a.plan[i] # "unsetProxy"
  /\ a.sweep.left # {} =>
       \/ a.doing = "install" /\ Len(a.plan) = 1 /\ a.sweep.kind = "set"
       \/ a.doing \in Undoers /\ a.plan[1] = "unsetProxy" /\ a.sweep.kind = "unset"
PlanInv == Planned(admin)

(* Where install is, by how many steps it has left.                        *)
ToGo == Len(admin.plan)

LEMMA InstallHead ==
  ASSUME TypeInv, PlanInv, admin.doing = "install", admin.plan # <<>>
  PROVE  /\ ToGo \in Nat /\ ToGo >= 1 /\ ToGo <= Len(InstallPlan)
         /\ Head(admin.plan) = InstallPlan[Len(InstallPlan) - ToGo + 1]
<1>1. admin.plan \in Seq(AllSteps)
  BY DEF TypeInv, AdminOK, Command
<1>2. ToGo \in Nat /\ ToGo >= 1 /\ Head(admin.plan) = admin.plan[1]
  BY <1>1 DEF ToGo
<1>3. ToGo <= Len(InstallPlan) /\ 1 \in 1..ToGo
  BY <1>2 DEF PlanInv, Planned, ToGo
<1>. QED  BY <1>2, <1>3 DEF PlanInv, Planned, ToGo

LEMMA InstallAt ==
  ASSUME TypeInv, PlanInv, admin.doing = "install", admin.plan # <<>>
  PROVE  /\ ToGo \in 1..13 /\ (os # "windows" => ToGo <= 12)
         /\ ToGo = 1 <=> Head(admin.plan) = "setProxy"
         /\ ToGo = 2 <=> Head(admin.plan) = "env"
         /\ ToGo = 3 <=> Head(admin.plan) = "publish"
         /\ ToGo = 4 <=> Head(admin.plan) = "trust"
         /\ ToGo = 5 <=> Head(admin.plan) = "wait"
         /\ ToGo = 6 <=> Head(admin.plan) = "startWorker"
         /\ ToGo = 7 <=> Head(admin.plan) = "startHelper"
         /\ ToGo = 13 <=> Head(admin.plan) = "stopWorker"
         /\ ToGo >= 8 => Head(admin.plan) \in {"stopWorker", "stopHelper", "account", "dirs",
                                              "copy", "binary", "jobs"}
         /\ ToGo = 8 /\ os = "windows" => Head(admin.plan) = "copy"
         /\ ToGo = 10 /\ os # "windows" => Head(admin.plan) = "copy"
<1>1. PICK n \in Nat : n = ToGo
  BY InstallHead
<1>2. PICK h : h = Head(admin.plan)
  OBVIOUS
<1>3. CASE os = "windows"
  <2>1. n >= 1 /\ n <= 13 /\ h = InstallPlan[13 - n + 1]
    BY <1>1, <1>2, <1>3, InstallHead, OnWindowsInstall
  <2>2. \/ n = 1 /\ h = "setProxy"
        \/ n = 2 /\ h = "env"
        \/ n = 3 /\ h = "publish"
        \/ n = 4 /\ h = "trust"
        \/ n = 5 /\ h = "wait"
        \/ n = 6 /\ h = "startWorker"
        \/ n = 7 /\ h = "startHelper"
        \/ n = 8 /\ h = "copy"
        \/ n = 9 /\ h = "jobs"
        \/ n = 10 /\ h = "binary"
        \/ n = 11 /\ h = "dirs"
        \/ n = 12 /\ h = "stopHelper"
        \/ n = 13 /\ h = "stopWorker"
    BY <1>3, <2>1, OnWindowsInstall
  <2>. QED  BY <1>1, <1>2, <1>3, <2>2
<1>4. CASE os # "windows"
  <2>1. os \in {"darwin", "linux"}
    BY <1>4 DEF TypeInv, ProxyOK
  <2>2. n >= 1 /\ n <= 12 /\ h = InstallPlan[12 - n + 1]
    BY <1>1, <1>2, <2>1, InstallHead, UnixInstall
  <2>3. \/ n = 1 /\ h = "setProxy"
        \/ n = 2 /\ h = "env"
        \/ n = 3 /\ h = "publish"
        \/ n = 4 /\ h = "trust"
        \/ n = 5 /\ h = "wait"
        \/ n = 6 /\ h = "startWorker"
        \/ n = 7 /\ h = "startHelper"
        \/ n = 8 /\ h = "jobs"
        \/ n = 9 /\ h = "binary"
        \/ n = 10 /\ h = "copy"
        \/ n = 11 /\ h = "dirs"
        \/ n = 12 /\ h = "account"
    BY <2>1, <2>2, UnixInstall
  <2>. QED  BY <1>1, <1>2, <1>4, <2>3
<1>. QED  BY <1>3, <1>4

LEMMA PlanMoves ==
  ASSUME TypeInv, PlanInv, admin.doing # "idle", admin.plan # <<>>
  PROVE  Planned(Advanced) /\ Planned(AfterFailure) /\ Planned(Idle)
<1>1. admin.plan \in Seq(AllSteps) /\ os \in {"darwin", "linux", "windows"}
  BY DEF TypeInv, AdminOK, Command, ProxyOK
<1>2. /\ Advanced.doing = admin.doing /\ Advanced.plan = Tail(admin.plan)
      /\ Advanced.sweep = NoSweep
  BY DEF Advanced, TypeInv, AdminOK, Command
<1>3. /\ Len(Tail(admin.plan)) = Len(admin.plan) - 1
      /\ \A i \in 1..Len(admin.plan) - 1 : Tail(admin.plan)[i] = admin.plan[i + 1]
  BY <1>1
<1>4. Planned(Advanced)
  <2>1. Len(InstallPlan) \in Nat
    BY <1>1, PlanTypes
  <2>2. ASSUME admin.doing = "install"
        PROVE  /\ Len(Advanced.plan) <= Len(InstallPlan)
               /\ \A i \in 1..Len(Advanced.plan) :
                    Advanced.plan[i] = InstallPlan[Len(InstallPlan) - Len(Advanced.plan) + i]
    <3>1. PICK n \in Nat : n = Len(admin.plan) /\ n >= 1
      BY <1>1
    <3>2. PICK all \in Nat : all = Len(InstallPlan)
      BY <2>1
    <3>3. n <= all /\ \A i \in 1..n : admin.plan[i] = InstallPlan[all - n + i]
      BY <2>2, <3>1, <3>2 DEF PlanInv, Planned
    <3>4. ASSUME NEW i \in 1..n - 1
          PROVE  Tail(admin.plan)[i] = InstallPlan[all - (n - 1) + i]
      <4>1. i + 1 \in 1..n /\ all - n + (i + 1) = all - (n - 1) + i
        BY <3>1, <3>2
      <4>. QED  BY <1>3, <3>1, <3>3, <4>1
    <3>5. Len(Advanced.plan) = n - 1
      BY <1>2, <1>3, <3>1
    <3>6. \A i \in 1..n - 1 : Advanced.plan[i] = InstallPlan[all - (n - 1) + i]
      BY <1>2, <3>4
    <3>7. n - 1 <= all
      BY <3>1, <3>2, <3>3
    <3>. QED  BY <3>2, <3>5, <3>6, <3>7
  <2>3. ASSUME admin.doing \in {"ensure", "force"}
        PROVE  \A i \in 1..Len(Advanced.plan) : Advanced.plan[i] \in {"untrust", "key", "cert"}
    BY <1>1, <1>2, <1>3, <2>3 DEF PlanInv, Planned
  <2>4. ASSUME admin.doing \in Undoers
        PROVE  /\ \A i \in 1..Len(Advanced.plan) : Advanced.plan[i] # "setProxy"
               /\ \A i \in 2..Len(Advanced.plan) : Advanced.plan[i] # "unsetProxy"
    <3>1. PICK n \in Nat : n = Len(admin.plan) /\ n >= 1
      BY <1>1
    <3>2. /\ \A i \in 1..n : admin.plan[i] # "setProxy"
          /\ \A i \in 2..n : admin.plan[i] # "unsetProxy"
      BY <2>4, <3>1 DEF PlanInv, Planned
    <3>3. \A i \in 1..n - 1 : i + 1 \in 2..n /\ i + 1 \in 1..n
      BY <3>1
    <3>4. /\ \A i \in 1..n - 1 : Tail(admin.plan)[i] # "setProxy"
          /\ \A i \in 1..n - 1 : Tail(admin.plan)[i] # "unsetProxy"
      BY <1>3, <3>1, <3>2, <3>3
    <3>. QED  BY <1>2, <1>3, <3>1, <3>4
  <2>5. Advanced.sweep.left = {}
    BY <1>2 DEF NoSweep
  <2>. QED
    <3>1. PICK a : a = Advanced
      OBVIOUS
    <3>2. a.doing = admin.doing /\ a.sweep.left = {}
      BY <1>2, <2>5, <3>1
    <3>3. Planned(a)
      BY <2>2, <2>3, <2>4, <3>1, <3>2 DEF Planned
    <3>. QED  BY <3>1, <3>3
<1>5. Planned(Idle)
  BY DEF Planned, Idle, NoSweep, Undoers
<1>6. Planned(AfterFailure)
  <2>1. CASE admin.doing = "install"
    <3>1. /\ AfterFailure.doing = "rollback" /\ AfterFailure.plan = RollbackPlan
          /\ AfterFailure.sweep = NoSweep
      BY <2>1 DEF AfterFailure, Idle
    <3>2. /\ RollbackPlan \in Seq(AllSteps)
          /\ RollbackPlan[1] = "unsetProxy"
          /\ \A i \in 2..Len(RollbackPlan) : RollbackPlan[i] \notin ProxySteps
      BY <1>1, UndoPlans, PlanTypes
    <3>3. \A i \in 1..Len(RollbackPlan) : i = 1 \/ i \in 2..Len(RollbackPlan)
      BY <3>2
    <3>. QED  BY <3>1, <3>2, <3>3 DEF Planned, NoSweep, Undoers, ProxySteps
  <2>2. CASE admin.doing # "install"
    <3>1. AfterFailure \in {Idle, Advanced}
      BY <2>2 DEF AfterFailure, TypeInv, AdminOK, Command, Commands
    <3>. QED  BY <1>4, <1>5, <3>1
  <2>. QED  BY <2>1, <2>2
<1>. QED  BY <1>4, <1>5, <1>6

(* What a step makes of the command.                                       *)
LEMMA AdminChanges ==
  ASSUME TypeInv, PlanInv, [Next]_vars
  PROVE  /\ os' = os
         /\ \/ admin' = admin
            \/ admin.doing # "idle" /\ admin.plan # <<>> /\ admin' \in {Advanced, AfterFailure}
            \/ admin' = Idle
            \/ BeginSweep("setProxy", "set") \/ BeginSweep("unsetProxy", "unset") \/ AdminSweeps
            \/ AdminEnds
            \/ \E c \in Commands : Begin(c)
<1>1. CASE AdminGoesOn
  BY <1>1 DEF AdminGoesOn, MachineStep, BeginSweep, AdminSweeps, SweepStep, Signal, AwaitWorker,
              AwaitHelper, Stopped, Started, Waited, AdminEnds, Step, proxyVars
<1>2. CASE Mishap
  BY <1>2 DEF Mishap, TimeOut, ListenerFails, WorkerKilled, HelperKilled, Reboot, Outside, ComeOrGo,
              Drift
<1>3. CASE Next /\ ~AdminGoesOn /\ ~Mishap
  BY <1>3 DEF Next, Ask, Refused, Serve, Return, ServeLate, SweepStep, WorkerStarts, Listen, Dial,
              Look, WorkerExits, HelperStarts, HelperUnsets, HelperExits, Begin, proxyVars
<1>4. CASE UNCHANGED vars
  BY <1>4 DEF vars, proxyVars
<1>. QED  BY <1>1, <1>2, <1>3, <1>4

LEMMA StartedPlans ==
  ASSUME TypeInv, NEW c \in Commands, NEW sweep, sweep.left = {}
  PROVE  Planned([doing |-> c, plan |-> PlanOf(c), sweep |-> sweep, ended |-> "nothing"])
<1>1. os \in {"darwin", "linux", "windows"}
  BY DEF TypeInv, ProxyOK
<1>2. CASE c = "install"
  <2>1. InstallPlan \in Seq(AllSteps)
    BY <1>1, PlanTypes
  <2>2. \A i \in 1..Len(InstallPlan) : Len(InstallPlan) - Len(InstallPlan) + i = i
    BY <2>1
  <2>. QED  BY <1>2, <2>1, <2>2 DEF PlanOf, Planned, Undoers
<1>3. CASE c \in {"ensure", "force"}
  BY <1>3, EnsurePlans DEF PlanOf, Planned, Undoers
<1>4. CASE c = "uninstall"
  <2>1. /\ UninstallPlan \in Seq(AllSteps) /\ UninstallPlan[1] = "unsetProxy"
        /\ \A i \in 2..Len(UninstallPlan) : UninstallPlan[i] \notin ProxySteps
    BY <1>1, UndoPlans, PlanTypes
  <2>2. \A i \in 1..Len(UninstallPlan) : i = 1 \/ i \in 2..Len(UninstallPlan)
    BY <2>1
  <2>. QED  BY <1>4, <2>1, <2>2 DEF PlanOf, Planned, Undoers, ProxySteps
<1>. QED  BY <1>2, <1>3, <1>4 DEF Commands

(* Whose plan a sweep is a step of.                                        *)
LEMMA SetIsInstall ==
  ASSUME TypeInv, PlanInv, Step("setProxy")
  PROVE  admin.doing = "install" /\ ToGo = 1
<1>1. admin.plan \in Seq(AllSteps) /\ Len(admin.plan) >= 1 /\ admin.plan[1] = "setProxy"
  BY DEF TypeInv, AdminOK, Command, Step
<1>2. 1 \in 1..Len(admin.plan)
  BY <1>1
<1>3. admin.doing = "install"
  BY <1>1, <1>2 DEF PlanInv, Planned, TypeInv, AdminOK, Command, Commands, Undoers, Step
<1>. QED  BY <1>3, InstallAt DEF Step

LEMMA UnsetIsUndoing ==
  ASSUME TypeInv, PlanInv, Step("unsetProxy")
  PROVE  admin.doing \in Undoers /\ admin.plan[1] = "unsetProxy"
<1>1. admin.plan \in Seq(AllSteps) /\ Len(admin.plan) >= 1 /\ admin.plan[1] = "unsetProxy"
  BY DEF TypeInv, AdminOK, Command, Step
<1>2. 1 \in 1..Len(admin.plan)
  BY <1>1
<1>3. admin.doing # "install"
  BY InstallAt DEF Step
<1>. QED  BY <1>1, <1>2, <1>3 DEF PlanInv, Planned, TypeInv, AdminOK, Command, Commands, Undoers, Step

LEMMA PlanStep ==
  ASSUME TypeInv, PlanInv, [Next]_vars PROVE PlanInv'
<1>1. os' = os /\ InstallPlan' = InstallPlan
  BY AdminChanges DEF InstallPlan, ServiceInstall
<1>2. ASSUME Planned(admin') PROVE PlanInv'
  BY <1>1, <1>2 DEF PlanInv, Planned
<1>3. CASE admin' = admin
  BY <1>2, <1>3 DEF PlanInv
<1>4. CASE admin.doing # "idle" /\ admin.plan # <<>> /\ admin' \in {Advanced, AfterFailure}
  BY <1>2, <1>4, PlanMoves
<1>5. CASE admin' = Idle
  BY <1>2, <1>5 DEF Planned, Idle, NoSweep, Undoers
<1>6. ASSUME NEW step, NEW kind, BeginSweep(step, kind),
             \/ step = "setProxy" /\ kind = "set"
             \/ step = "unsetProxy" /\ kind = "unset"
      PROVE  Planned(admin')
  <2>1. admin.doing # "idle" /\ admin.plan # <<>>
    BY <1>6 DEF BeginSweep, Step
  <2>2. CASE admin' = [admin EXCEPT !.sweep = Start(kind)]
    <3>1. /\ admin'.doing = admin.doing /\ admin'.plan = admin.plan
          /\ admin'.sweep.kind = kind
      BY <2>2 DEF TypeInv, AdminOK, Command, Start
    <3>2. \/ admin.doing = "install" /\ Len(admin.plan) = 1 /\ kind = "set"
          \/ admin.doing \in Undoers /\ admin.plan[1] = "unsetProxy" /\ kind = "unset"
      BY <1>6, SetIsInstall, UnsetIsUndoing DEF BeginSweep, ToGo
    <3>. QED  BY <3>1, <3>2 DEF PlanInv, Planned
  <2>3. CASE admin' \in {Advanced, AfterFailure}
    BY <2>1, <2>3, PlanMoves
  <2>. QED  BY <1>6, <2>2, <2>3 DEF BeginSweep
<1>7. CASE AdminSweeps
  <2>1. admin.sweep \in Sweep /\ admin.sweep.left # {}
    BY <1>7 DEF AdminSweeps, TypeInv, AdminOK, Command
  <2>2. admin.doing # "idle" /\ admin.plan # <<>>
    BY <2>1 DEF TypeInv, AdminOK, Command, NoSweep
  <2>3. PICK next : /\ next.kind = admin.sweep.kind
                    /\ admin' \in {[admin EXCEPT !.sweep = next], Advanced, AfterFailure}
    BY <1>7, <2>1 DEF AdminSweeps, Next1, Sweep
  <2>4. CASE admin' = [admin EXCEPT !.sweep = next]
    <3>1. /\ admin'.doing = admin.doing /\ admin'.plan = admin.plan
          /\ admin'.sweep.kind = admin.sweep.kind
      BY <2>3, <2>4 DEF TypeInv, AdminOK, Command
    <3>2. Planned(admin')
      BY <2>1, <3>1 DEF PlanInv, Planned
    <3>. QED  BY <1>2, <3>2
  <2>. QED  BY <1>2, <2>2, <2>3, <2>4, PlanMoves
<1>8. CASE AdminEnds
  BY <1>2, <1>8 DEF AdminEnds, Planned, Idle, NoSweep, Undoers
<1>9. ASSUME NEW c \in Commands, Begin(c) PROVE Planned(admin')
  <2>1. admin' = [doing |-> c, plan |-> PlanOf(c), sweep |-> NoSweep, ended |-> "nothing"]
    BY <1>9 DEF Begin, Idle
  <2>. QED  BY <2>1, StartedPlans DEF NoSweep
<1>. QED  BY <1>2, <1>3, <1>4, <1>5, <1>6, <1>7, <1>8, <1>9, AdminChanges

LEMMA PlanAlways == Spec => []PlanInv
<1>1. Init => PlanInv
  BY DEF Init, PlanInv, Planned, Idle, NoSweep, Undoers
<1>. QED  BY <1>1, TypesAlways, PlanStep, PTL DEF Spec

-----------------------------------------------------------------------------
(* What install has achieved when it has n steps left. A worker that runs  *)
(* from here on was started on this machine; on Windows the old one stays  *)
(* away until the new one is started; and unless something went wrong, the *)
(* one that answered is still there, and nobody told it to stop.           *)
Achieved(n) ==
  /\ n <= 7 \/ (os # "windows" /\ n <= 9) => machine.copy.current
  /\ n <= 5 /\ worker.pc # "off" => CanStart(machine)
  /\ n <= 4 => CanStart(machine)
  /\ n <= 3 => "current" \in machine.trusted
  /\ n <= 2 => "public" \in machine.things
  /\ n <= 1 => "vars" \in machine.things
  /\ os = "windows" /\ n \in 6..12 => worker.pc = "off" /\ "worker" \notin loaded
  /\ n <= 5 /\ faults = 0 => worker.stop = "no"
  /\ n <= 4 /\ faults = 0 => worker.pc = "serving"
Complete ==
  /\ CanStart(machine)
  /\ machine.copy.current /\ "current" \in machine.trusted
  /\ {"vars", "public"} \subseteq machine.things
InstallInv ==
  /\ admin.doing = "install" => Achieved(ToGo)
  /\ admin.ended = "install" => Complete

(* Whatever the worker, the helper and the world do: only a worker that    *)
(* can start starts, and without a fault nothing ends one that serves.     *)
OnTheirOwn ==
  \/ \E who \in Callers : Ask(who) \/ Refused(who)
  \/ Serve \/ Return \/ ServeLate \/ TimeOut
  \/ WorkerStarts \/ Listen \/ Dial \/ Look \/ WorkerExits \/ ListenerFails \/ WorkerKilled
  \/ HelperStarts \/ HelperUnsets \/ HelperExits \/ HelperKilled
  \/ Outside \/ \E step \in {"stopHelper", "startHelper"} : AwaitHelper(step)
  \/ UNCHANGED vars
Undisturbed ==
  /\ admin' = admin /\ machine' = machine /\ os' = os
  /\ worker.pc = "off" /\ worker'.pc # "off" => CanStart(machine) /\ "worker" \in loaded
  /\ "worker" \in loaded' => "worker" \in loaded
  /\ faults' = 0 => faults = 0
  /\ faults' = 0 /\ worker.stop = "no" => worker'.stop = "no"
  /\ faults' = 0 /\ worker.stop = "no" /\ worker.pc = "serving" => worker'.pc = "serving"

LEMMA AnsweredUndisturbed ==
  ASSUME WorkerOK, NEW who \in Callers, Wants(who), Answered(who)
  PROVE  /\ worker.pc = "off" => worker'.pc = "off"
         /\ worker.stop = "no" => worker'.stop = "no"
         /\ worker.stop = "no" /\ worker.pc = "serving" => worker'.pc = "serving"
BY DEF WorkerOK, Worker, WorkerOff, Callers, Wants, Answered

LEMMA SweepFaults ==
  ASSUME ProxyOK, NEW sweep \in Sweep, NEW next, SweepStep(sweep, next)
  PROVE  /\ os' = os /\ (faults' = 0 => faults = 0)
<1>1. PICK out \in Outcomes(sweep.kind, Min(sweep.left)) :
        faults' = faults + (IF out.fault THEN 1 ELSE 0)
  BY DEF SweepStep
<1>. QED  BY <1>1, SystemProxyAssumption DEF SweepStep, ProxyOK

LEMMA NothingDisturbed ==
  ASSUME TypeInv, OnTheirOwn PROVE Undisturbed
<1>. USE DEF TypeInv
<1>1. \A who \in Callers : Wants(who) /\ Answered(who) =>
        /\ worker.pc = "off" => worker'.pc = "off"
        /\ worker.stop = "no" => worker'.stop = "no"
        /\ worker.stop = "no" /\ worker.pc = "serving" => worker'.pc = "serving"
  BY AnsweredUndisturbed
<1>2. Faulty => faults' # 0
  BY FaultyTypes
<1>3. ASSUME NEW who \in Callers, Ask(who) PROVE Undisturbed
  BY <1>3 DEF Ask, Undisturbed, proxyVars
<1>4. ASSUME NEW who \in Callers, Refused(who) PROVE Undisturbed
  BY <1>1, <1>4 DEF Refused, Undisturbed, proxyVars
<1>5. CASE Serve
  <2>1. os' = os /\ (faults' = 0 => faults = 0)
    BY <1>5, SweepFaults DEF Serve, CallOK
  <2>. QED  BY <1>5, <2>1 DEF Serve, Undisturbed
<1>6. CASE Return
  BY <1>1, <1>6 DEF Return, CallOK, Undisturbed, proxyVars
<1>7. CASE ServeLate
  <2>1. os' = os /\ (faults' = 0 => faults = 0)
    BY <1>7, SweepFaults DEF ServeLate, CallOK
  <2>. QED  BY <1>7, <2>1 DEF ServeLate, Undisturbed
<1>8. CASE TimeOut
  <2>1. call # NoCall
    BY <1>8 DEF TimeOut, NoCall, NoSweep
  <2>. QED  BY <1>1, <1>2, <1>8, <2>1 DEF TimeOut, CallOK, Undisturbed
<1>9. CASE WorkerStarts \/ Listen \/ Dial \/ Look
  BY <1>9 DEF WorkerStarts, Listen, Dial, Look, Undisturbed, WorkerOK, Worker, WorkerOff, proxyVars
<1>10. CASE WorkerExits
  BY <1>10 DEF WorkerExits, EndWorker, Undisturbed, WorkerOK, Worker, WorkerOff, proxyVars
<1>11. CASE ListenerFails \/ WorkerKilled
  BY <1>2, <1>11 DEF ListenerFails, WorkerKilled, EndWorker, Undisturbed, WorkerOK, Worker, WorkerOff
<1>12. ASSUME EndHelper
       PROVE  /\ worker.pc = "off" => worker'.pc = "off"
              /\ worker.stop = "no" => worker'.stop = "no"
              /\ worker.stop = "no" /\ worker.pc = "serving" => worker'.pc = "serving"
  BY <1>1, <1>12 DEF EndHelper, CallOK
<1>13. CASE HelperStarts
  BY <1>13 DEF HelperStarts, Undisturbed, proxyVars
<1>14. CASE HelperUnsets
  <2>1. os' = os /\ (faults' = 0 => faults = 0)
    BY <1>14, SweepFaults DEF HelperUnsets, Helper
  <2>. QED  BY <1>14, <2>1 DEF HelperUnsets, Undisturbed
<1>15. CASE HelperExits
  BY <1>12, <1>15 DEF HelperExits, Undisturbed, proxyVars
<1>16. CASE HelperKilled
  BY <1>2, <1>12, <1>16 DEF HelperKilled, Undisturbed
<1>17. CASE Outside
  BY <1>2, <1>17 DEF Outside, ComeOrGo, Drift, Undisturbed
<1>18. ASSUME NEW step \in {"stopHelper", "startHelper"}, AwaitHelper(step) PROVE Undisturbed
  BY <1>18 DEF AwaitHelper, Undisturbed, proxyVars
<1>19. CASE UNCHANGED vars
  BY <1>19 DEF vars, processes, proxyVars, Undisturbed
<1>. QED  BY <1>3, <1>4, <1>5, <1>6, <1>7, <1>8, <1>9, <1>10, <1>11, <1>13, <1>14, <1>15, <1>16,
             <1>17, <1>18, <1>19 DEF OnTheirOwn

LEMMA ToGoTypes == TypeInv => ToGo \in Nat
BY DEF TypeInv, AdminOK, Command, ToGo

LEMMA QuietInstall ==
  ASSUME TypeInv, InstallInv, OnTheirOwn PROVE InstallInv'
<1>1. Undisturbed
  BY NothingDisturbed
<1>2. ToGo' = ToGo
  BY <1>1 DEF Undisturbed, ToGo
<1>3. PICK n : n = ToGo
  OBVIOUS
<1>4. ASSUME Achieved(n) PROVE Achieved(n)'
  <2>1. /\ n <= 7 \/ (os # "windows" /\ n <= 9) => machine'.copy.current
        /\ n <= 4 => CanStart(machine')
        /\ n <= 3 => "current" \in machine'.trusted
        /\ n <= 2 => "public" \in machine'.things
        /\ n <= 1 => "vars" \in machine'.things
    BY <1>1, <1>4 DEF Undisturbed, Achieved
  <2>2. n <= 5 /\ worker'.pc # "off" => CanStart(machine')
    BY <1>1, <1>4 DEF Undisturbed, Achieved
  <2>3. os = "windows" /\ n \in 6..12 => worker'.pc = "off" /\ "worker" \notin loaded'
    BY <1>1, <1>4 DEF Undisturbed, Achieved
  <2>4. n <= 5 /\ faults' = 0 => worker'.stop = "no"
    BY <1>1, <1>4 DEF Undisturbed, Achieved
  <2>5. n <= 4 /\ faults' = 0 => worker'.pc = "serving"
    <3>1. n <= 4 => n <= 5
      BY <1>3, ToGoTypes
    <3>. QED  BY <1>1, <1>4, <3>1 DEF Undisturbed, Achieved
  <2>. QED  BY <1>1, <2>1, <2>2, <2>3, <2>4, <2>5 DEF Undisturbed, Achieved
<1>5. Complete => Complete'
  BY <1>1 DEF Undisturbed, Complete
<1>6. admin.doing = "install" => Achieved(n)'
  BY <1>3, <1>4 DEF InstallInv
<1>7. admin.doing = "install" => Achieved(ToGo)'
  BY <1>2, <1>3, <1>6
<1>. QED  BY <1>1, <1>5, <1>7 DEF InstallInv, Undisturbed

(* One step of install's plan.                                             *)
LEMMA InstallAdvances ==
  ASSUME TypeInv, admin.doing # "idle", admin.plan # <<>>
  PROVE  /\ Advanced.doing = admin.doing /\ Advanced.ended = "nothing"
         /\ Len(Advanced.plan) = ToGo - 1 /\ ToGo >= 1
         /\ AfterFailure.doing # "install" \/ AfterFailure = Advanced
         /\ admin.doing = "install" => AfterFailure.doing = "rollback"
         /\ AfterFailure.ended = "nothing"
<1>1. admin.plan \in Seq(AllSteps) /\ admin.ended = "nothing"
  BY DEF TypeInv, AdminOK, Command
<1>2. Advanced.doing = admin.doing /\ Advanced.ended = "nothing" /\ Advanced.plan = Tail(admin.plan)
  BY <1>1 DEF Advanced, TypeInv, AdminOK, Command
<1>3. Len(Tail(admin.plan)) = ToGo - 1 /\ ToGo >= 1
  BY <1>1 DEF ToGo
<1>4. admin.doing \in {"install", "ensure", "force", "rollback", "uninstall"}
  BY DEF TypeInv, AdminOK, Command, Commands
<1>5. CASE admin.doing = "install"
  BY <1>2, <1>3, <1>5 DEF AfterFailure, Idle
<1>6. CASE admin.doing \in {"ensure", "force"}
  BY <1>2, <1>3, <1>6 DEF AfterFailure, Idle
<1>7. CASE admin.doing \in {"rollback", "uninstall"}
  BY <1>2, <1>3, <1>7 DEF AfterFailure
<1>. QED  BY <1>4, <1>5, <1>6, <1>7

LEMMA NotInstalling ==
  ASSUME admin'.doing # "install", admin'.ended # "install" PROVE InstallInv'
BY DEF InstallInv

LEMMA InstallSteps ==
  ASSUME TypeInv, NEW step \in {"account", "dirs", "copy", "binary", "jobs", "trust", "publish", "env"},
         NEW m, m = Whole(step, machine)
  PROVE  /\ step # "copy" => m.copy = machine.copy
         /\ step = "copy" => m.copy.current
         /\ step # "copy" /\ CanStart(machine) => CanStart(m)
         /\ step = "trust" \/ "current" \in machine.trusted => "current" \in m.trusted
         /\ step = "publish" \/ "public" \in machine.things => "public" \in m.things
         /\ step = "env" => "vars" \in m.things
<1>1. PICK o \in Machine : o = machine
  BY DEF TypeInv, SystemOK
<1>2. os \in {"darwin", "linux", "windows"}
  BY DEF TypeInv, ProxyOK
<1>3. \A S : /\ With(o, S).things = o.things \cup S /\ With(o, S).copy = o.copy
             /\ With(o, S).trusted = o.trusted
             /\ Without(o, S).things = o.things \ S /\ Without(o, S).copy = o.copy
             /\ Without(o, S).trusted = o.trusted
  BY DEF With, Without, Machine
<1>4. CASE step = "copy"
  <2>1. m = [o EXCEPT !.copy = [of |-> o.root, current |-> TRUE]]
    BY <1>1, <1>2, <1>4 DEF Whole, On, UnixCopy, WindowsCopy
  <2>2. m.copy.current /\ m.trusted = o.trusted /\ m.things = o.things
    BY <2>1 DEF Machine
  <2>. QED  BY <1>1, <1>4, <2>2
<1>5. CASE step \in {"account", "dirs", "binary", "jobs", "publish"}
  <2>1. PICK S : m = With(o, S) /\ (step = "publish" => "public" \in S)
    <3>1. CASE step = "account"
      <4>1. With(o, {}) = o
        BY DEF With, Machine
      <4>2. CASE os = "darwin"
        BY <1>1, <3>1, <4>2 DEF Whole, On, DarwinAccount
      <4>3. CASE os = "linux"
        BY <1>1, <3>1, <4>3 DEF Whole, On, LinuxAccount
      <4>4. CASE os = "windows"
        BY <1>1, <3>1, <4>1, <4>4 DEF Whole, On
      <4>. QED  BY <1>2, <4>2, <4>3, <4>4
    <3>2. CASE step = "dirs"
      BY <1>1, <1>2, <3>2 DEF Whole, On, UnixDirs, WindowsDirs
    <3>3. CASE step = "binary"
      BY <1>1, <3>3 DEF Whole
    <3>4. CASE step = "jobs"
      BY <1>1, <1>2, <3>4 DEF Whole, On, WindowsJobs
    <3>5. CASE step = "publish"
      BY <1>1, <3>5 DEF Whole, Published
    <3>. QED  BY <1>5, <3>1, <3>2, <3>3, <3>4, <3>5
  <2>2. m.things = o.things \cup S /\ m.copy = o.copy /\ m.trusted = o.trusted
    BY <1>3, <2>1
  <2>3. CanStart(o) => CanStart(m)
    BY <2>2 DEF CanStart
  <2>. QED  BY <1>1, <1>5, <2>1, <2>2, <2>3
<1>6. CASE step = "trust"
  <2>1. m \in {[o EXCEPT !.trusted = @ \cup {"current"}], [o EXCEPT !.trusted = {"current"}]}
    BY <1>1, <1>2, <1>6 DEF Whole, On, DarwinTrusts, LinuxTrusts, WindowsTrusts
  <2>2. m.things = o.things /\ m.copy = o.copy /\ "current" \in m.trusted
    BY <2>1 DEF Machine
  <2>3. CanStart(o) => CanStart(m)
    BY <2>2 DEF CanStart
  <2>. QED  BY <1>1, <1>6, <2>2, <2>3
<1>7. CASE step = "env"
  <2>1. PICK g \in {o, Without(o, {"vars", "list"})}, S \in SUBSET Thing :
          m = With(g, S) /\ "vars" \in S
    BY <1>1, <1>2, <1>7 DEF Whole, On, DarwinEnv, LinuxEnv, WindowsEnv, WindowsEnvGone, Thing
  <2>2. g \in Machine
    BY ThingTypes DEF Thing
  <2>3. m.things = g.things \cup S /\ m.copy = g.copy /\ m.trusted = g.trusted
    BY <2>1, <2>2 DEF With, Machine
  <2>4. g.copy = o.copy /\ g.trusted = o.trusted /\ o.things \ {"vars", "list"} \subseteq g.things
    BY <1>3
  <2>5. CanStart(o) => CanStart(m)
    BY <2>3, <2>4 DEF CanStart
  <2>. QED  BY <1>1, <1>7, <2>1, <2>3, <2>4, <2>5
<1>. QED  BY <1>4, <1>5, <1>6, <1>7

LEMMA MachineInstall ==
  ASSUME TypeInv, PlanInv, InstallInv, NEW step \in Steps, MachineStep(step)
  PROVE  InstallInv'
<1>1. admin.doing # "idle" /\ admin.plan # <<>> /\ Head(admin.plan) = step
  BY DEF MachineStep, Step
<1>2. CASE admin' \in {AfterFailure, Idle} /\ ~(admin' = Advanced /\ machine' = Whole(step, machine))
  <2>1. CASE admin'.doing # "install"
    BY <1>1, <1>2, <2>1, InstallAdvances, NotInstalling DEF Idle
  <2>2. CASE admin'.doing = "install"
    BY <1>1, <1>2, <2>2, InstallAdvances DEF Idle
  <2>. QED  BY <2>1, <2>2
<1>3. CASE admin' = Advanced /\ machine' = Whole(step, machine)
  <2>1. CASE admin.doing # "install"
    BY <1>1, <1>3, <2>1, InstallAdvances, NotInstalling
  <2>2. CASE admin.doing = "install"
    <3>1. PICK n \in Nat : n = ToGo
      BY ToGoTypes
    <3>2. /\ ToGo' = n - 1 /\ n >= 1 /\ admin'.doing = "install" /\ admin'.ended = "nothing"
      BY <1>1, <1>3, <2>2, <3>1, InstallAdvances DEF ToGo
    <3>3. /\ step \in {"account", "dirs", "copy", "binary", "jobs", "trust", "publish", "env"}
          /\ n \in 2..12 /\ n \notin {5, 6, 7}
          /\ step \in {"account", "dirs", "copy", "binary", "jobs"} <=> n >= 8
          /\ step = "trust" <=> n = 4
          /\ step = "publish" <=> n = 3
          /\ step = "env" <=> n = 2
          /\ n = 8 /\ os = "windows" => step = "copy"
          /\ n = 10 /\ os # "windows" => step = "copy"
      BY <1>1, <2>2, <3>1, InstallAt DEF Steps
    <3>4. PICK m : m = machine'
      OBVIOUS
    <3>5. /\ step # "copy" => m.copy = machine.copy
          /\ step = "copy" => m.copy.current
          /\ step # "copy" /\ CanStart(machine) => CanStart(m)
          /\ step = "trust" \/ "current" \in machine.trusted => "current" \in m.trusted
          /\ step = "publish" \/ "public" \in machine.things => "public" \in m.things
          /\ step = "env" => "vars" \in m.things
      BY <1>3, <3>3, <3>4, InstallSteps
    <3>6. Achieved(n)
      BY <2>2, <3>1 DEF InstallInv
    <3>7. worker' = worker /\ loaded' = loaded /\ os' = os /\ (faults' = 0 => faults = 0)
      BY FaultyTypes DEF MachineStep, processes, TypeInv
    <3>8. /\ n - 1 <= 7 \/ (os # "windows" /\ n - 1 <= 9) => m.copy.current
          /\ n - 1 <= 5 /\ worker.pc # "off" => CanStart(m)
          /\ n - 1 <= 4 => CanStart(m)
          /\ n - 1 <= 3 => "current" \in m.trusted
          /\ n - 1 <= 2 => "public" \in m.things
          /\ n - 1 <= 1 => "vars" \in m.things
      BY <3>3, <3>5, <3>6 DEF Achieved
    <3>9. /\ os = "windows" /\ n - 1 \in 6..12 => worker.pc = "off" /\ "worker" \notin loaded
          /\ n - 1 <= 5 /\ faults = 0 => worker.stop = "no"
          /\ n - 1 <= 4 /\ faults = 0 => worker.pc = "serving"
      BY <3>3, <3>6 DEF Achieved
    <3>10. Achieved(n - 1)'
      BY <3>4, <3>7, <3>8, <3>9 DEF Achieved
    <3>. QED  BY <3>2, <3>10 DEF InstallInv
  <2>. QED  BY <2>1, <2>2
<1>. QED  BY <1>2, <1>3 DEF MachineStep

(* A step of install that leaves the machine and the worker as they are.   *)
LEMMA InstallGoesOn ==
  ASSUME TypeInv, PlanInv, InstallInv, admin.doing = "install", admin.plan # <<>>,
         admin' = Advanced, machine' = machine, os' = os, NEW n \in Nat, n = ToGo,
         Achieved(n) => Achieved(n - 1)'
  PROVE  InstallInv'
<1>1. ToGo' = n - 1 /\ admin'.doing = "install" /\ admin'.ended = "nothing"
  BY InstallAdvances DEF ToGo
<1>2. Achieved(n)
  BY DEF InstallInv
<1>. QED  BY <1>1, <1>2 DEF InstallInv

LEMMA ProcessInstall ==
  ASSUME TypeInv, PlanInv, InstallInv, NEW job \in Jobs, Stopped(job) \/ Started(job)
  PROVE  InstallInv'
<1>1. admin.doing # "idle" /\ admin.plan # <<>> /\ admin' = Advanced
  BY DEF Stopped, Started, Step
<1>2. CASE admin.doing # "install"
  BY <1>1, <1>2, InstallAdvances, NotInstalling
<1>3. CASE admin.doing = "install"
  <2>1. PICK n \in Nat : n = ToGo
    BY ToGoTypes
  <2>2. machine' = machine /\ os' = os /\ worker' = worker /\ faults' = faults
    BY DEF Stopped, Started, proxyVars
  <2>3. Achieved(n) => Achieved(n - 1)'
    <3>1. CASE Stopped("worker")
      <4>1. n = 13 /\ worker.pc = "off" /\ loaded' = loaded \ {"worker"}
        BY <1>1, <1>3, <2>1, <3>1, InstallAt DEF Stopped, Stopping, Step, Gone
      <4>. QED  BY <2>2, <4>1 DEF Achieved
    <3>2. CASE Stopped("helper")
      <4>1. n >= 8 /\ n <= 12 /\ Head(admin.plan) = "stopHelper" /\ loaded' = loaded \ {"helper"}
        BY <1>1, <1>3, <2>1, <3>2, InstallAt DEF Stopped, Stopping, Step
      <4>2. ~(n = 8 /\ os = "windows") /\ ~(n = 10 /\ os # "windows")
        BY <1>1, <1>3, <2>1, <4>1, InstallAt
      <4>. QED  BY <2>2, <4>1, <4>2 DEF Achieved
    <3>3. CASE Started("helper")
      <4>1. n = 7 /\ loaded' = loaded \cup {"helper"}
        BY <1>1, <1>3, <2>1, <3>3, InstallAt DEF Started, Starting, Step
      <4>. QED  BY <2>2, <4>1 DEF Achieved
    <3>4. CASE Started("worker")
      <4>1. n = 6 /\ (worker.pc = "off" \/ os = "windows")
        BY <1>1, <1>3, <2>1, <3>4, InstallAt DEF Started, Starting, Step, Gone
      <4>2. ASSUME Achieved(n)
            PROVE  machine.copy.current /\ worker.pc = "off" /\ worker.stop = "no"
        <5>1. machine.copy.current /\ worker.pc = "off"
          BY <4>1, <4>2 DEF Achieved
        <5>. QED  BY <5>1 DEF TypeInv, WorkerOK, WorkerOff
      <4>. QED  BY <2>2, <4>1, <4>2 DEF Achieved
    <3>. QED  BY <3>1, <3>2, <3>3, <3>4 DEF Jobs
  <2>. QED  BY <1>1, <1>3, <2>1, <2>2, <2>3, InstallGoesOn
<1>. QED  BY <1>2, <1>3

LEMMA SignalInstall ==
  ASSUME TypeInv, PlanInv, InstallInv, Signal
  PROVE  InstallInv'
<1>1. CASE \E step \in {"stopHelper", "startHelper"} : AwaitHelper(step)
  BY <1>1, QuietInstall DEF OnTheirOwn
<1>2. ASSUME NEW step, AwaitWorker(step),
             step = "stopWorker" \/ (step = "startWorker" /\ os # "windows")
      PROVE  InstallInv'
  <2>1. admin.doing # "idle" /\ admin.plan # <<>> /\ Head(admin.plan) = step
    BY <1>2 DEF AwaitWorker, Step
  <2>2. /\ admin' = admin /\ machine' = machine /\ os' = os /\ faults' = faults /\ ToGo' = ToGo
        /\ admin.ended = "nothing"
    BY <1>2, <2>1 DEF AwaitWorker, ToGo, proxyVars, TypeInv, AdminOK, Command
  <2>3. CASE admin.doing # "install"
    BY <2>2, <2>3, NotInstalling
  <2>4. CASE admin.doing = "install"
    <3>1. PICK n \in Nat : n = ToGo
      BY ToGoTypes
    <3>2. n = 13 \/ (n = 6 /\ os # "windows")
      BY <1>2, <2>1, <2>4, <3>1, InstallAt
    <3>3. Achieved(n)
      BY <2>4, <3>1 DEF InstallInv
    <3>4. Achieved(n)'
      BY <2>2, <3>2, <3>3 DEF Achieved
    <3>. QED  BY <2>2, <3>1, <3>4 DEF InstallInv
  <2>. QED  BY <2>3, <2>4
<1>. QED  BY <1>1, <1>2 DEF Signal

LEMMA CommandInstall ==
  ASSUME TypeInv, PlanInv, InstallInv,
         \/ BeginSweep("setProxy", "set") \/ BeginSweep("unsetProxy", "unset") \/ AdminSweeps
         \/ Waited \/ AdminEnds \/ (\E c \in Commands : Begin(c)) \/ Reboot
  PROVE  InstallInv'
<1>1. CASE BeginSweep("unsetProxy", "unset")
  <2>1. admin.doing # "install" /\ admin.doing # "idle" /\ admin.plan # <<>>
    BY <1>1, UnsetIsUndoing DEF BeginSweep, Undoers, Step
  <2>2. admin'.doing # "install" /\ admin'.ended # "install"
    BY <1>1, <2>1, InstallAdvances DEF BeginSweep, TypeInv, AdminOK, Command
  <2>. QED  BY <2>2, NotInstalling
<1>2. CASE AdminSweeps \/ BeginSweep("setProxy", "set")
  <2>1. machine' = machine /\ worker' = worker /\ loaded' = loaded /\ os' = os
        /\ (faults' = 0 => faults = 0)
    BY <1>2, SweepFaults DEF AdminSweeps, BeginSweep, TypeInv, AdminOK, Command, processes, proxyVars
  <2>2. admin.doing # "idle" /\ admin.plan # <<>>
    BY <1>2 DEF AdminSweeps, BeginSweep, Step, TypeInv, AdminOK, Command, NoSweep
  <2>3. PICK sweep : admin' \in {[admin EXCEPT !.sweep = sweep], Advanced, AfterFailure}
    BY <1>2 DEF AdminSweeps, BeginSweep
  <2>4. CASE admin'.doing # "install"
    <3>1. admin'.ended # "install"
      BY <2>2, <2>3, InstallAdvances DEF TypeInv, AdminOK, Command
    <3>. QED  BY <2>4, <3>1, NotInstalling
  <2>5. CASE admin'.doing = "install"
    <3>1. /\ admin.doing = "install" /\ admin' \in {[admin EXCEPT !.sweep = sweep], Advanced}
          /\ admin'.ended = "nothing"
      BY <2>2, <2>3, <2>5, InstallAdvances DEF TypeInv, AdminOK, Command
    <3>2. ToGo = 1
      <4>1. CASE AdminSweeps
        BY <3>1, <4>1 DEF AdminSweeps, PlanInv, Planned, ToGo, Undoers
      <4>2. CASE BeginSweep("setProxy", "set")
        BY <4>2, SetIsInstall DEF BeginSweep
      <4>. QED  BY <1>2, <4>1, <4>2
    <3>3. ToGo' \in {0, 1}
      <4>1. CASE admin' = [admin EXCEPT !.sweep = sweep]
        BY <3>2, <4>1 DEF ToGo, TypeInv, AdminOK, Command
      <4>2. CASE admin' = Advanced
        BY <2>2, <3>2, <4>2, InstallAdvances DEF ToGo
      <4>. QED  BY <3>1, <4>1, <4>2
    <3>4. Achieved(1)
      BY <3>1, <3>2 DEF InstallInv
    <3>5. Achieved(0)' /\ Achieved(1)'
      BY <2>1, <3>4 DEF Achieved
    <3>. QED  BY <3>1, <3>3, <3>5 DEF InstallInv
  <2>. QED  BY <2>4, <2>5
<1>3. CASE Waited
  <2>1. admin.doing # "idle" /\ admin.plan # <<>> /\ Head(admin.plan) = "wait"
    BY <1>3 DEF Waited, Step
  <2>2. machine' = machine /\ worker' = worker /\ loaded' = loaded /\ os' = os
    BY <1>3 DEF Waited, processes
  <2>3. CASE admin'.doing # "install"
    BY <1>3, <2>1, <2>3, InstallAdvances, NotInstalling DEF Waited
  <2>4. CASE admin'.doing = "install"
    <3>1. PICK n \in Nat : n = ToGo
      BY ToGoTypes
    <3>2. admin.doing = "install" /\ Answers /\ admin' = Advanced /\ faults' = faults
      BY <1>3, <2>1, <2>4, InstallAdvances DEF Waited
    <3>3. n = 5 /\ worker.pc = "serving"
      BY <2>1, <3>1, <3>2, InstallAt DEF Answers
    <3>4. Achieved(n) => Achieved(n - 1)'
      BY <2>2, <3>2, <3>3 DEF Achieved
    <3>. QED  BY <2>1, <2>2, <3>1, <3>2, <3>4, InstallGoesOn
  <2>. QED  BY <2>3, <2>4
<1>4. CASE AdminEnds
  <2>1. machine' = machine /\ admin'.doing = "idle" /\ admin'.ended = admin.doing
    BY <1>4 DEF AdminEnds, Idle
  <2>2. CASE admin.doing # "install"
    BY <2>1, <2>2, NotInstalling
  <2>3. CASE admin.doing = "install"
    <3>1. ToGo = 0
      BY <1>4 DEF AdminEnds, ToGo
    <3>2. Achieved(0)
      BY <2>3, <3>1 DEF InstallInv
    <3>3. Complete
      BY <3>2 DEF Achieved, Complete
    <3>. QED  BY <2>1, <3>3 DEF InstallInv, Complete
  <2>. QED  BY <2>2, <2>3
<1>5. ASSUME NEW c \in Commands, Begin(c) PROVE InstallInv'
  <2>1. admin'.doing = c /\ admin'.ended = "nothing" /\ admin'.plan = PlanOf(c) /\ os' = os
    BY <1>5 DEF Begin, Idle, proxyVars
  <2>2. CASE c # "install"
    BY <2>1, <2>2, NotInstalling
  <2>3. CASE c = "install"
    <3>1. ToGo' = IF os = "windows" THEN 13 ELSE 12
      BY <2>1, <2>3, UnixInstall, OnWindowsInstall DEF ToGo, PlanOf, TypeInv, ProxyOK
    <3>2. PICK n \in {12, 13} : n = ToGo' /\ (os = "windows" => n = 13)
      BY <3>1
    <3>3. Achieved(n)'
      BY <2>1, <3>2 DEF Achieved
    <3>. QED  BY <2>1, <3>2, <3>3 DEF InstallInv
  <2>. QED  BY <2>2, <2>3
<1>6. CASE Reboot
  BY <1>6, NotInstalling DEF Reboot, Idle
<1>. QED  BY <1>1, <1>2, <1>3, <1>4, <1>5, <1>6

LEMMA InstallStep ==
  ASSUME TypeInv, PlanInv, InstallInv, [Next]_vars PROVE InstallInv'
<1>1. CASE AdminGoesOn
  BY <1>1, MachineInstall, CommandInstall, SignalInstall, ProcessInstall DEF AdminGoesOn
<1>2. CASE Mishap
  BY <1>2, QuietInstall, CommandInstall DEF Mishap, OnTheirOwn
<1>3. CASE Next /\ ~AdminGoesOn /\ ~Mishap
  BY <1>3, QuietInstall, CommandInstall DEF Next, OnTheirOwn
<1>4. CASE UNCHANGED vars
  BY <1>4, QuietInstall DEF OnTheirOwn
<1>. QED  BY <1>1, <1>2, <1>3, <1>4

LEMMA InstallAlways == Spec => []InstallInv
<1>1. Init => InstallInv
  BY DEF Init, InstallInv, Idle
<1>. QED  BY <1>1, TypesAlways, PlanAlways, InstallStep, PTL DEF Spec

(* An install that says it is done has left a worker that can start, with  *)
(* the root that is trusted, the variables and the public certificate,     *)
(* whatever was on the machine before and whatever happens later, as long  *)
(* as no other command is begun.                                           *)
THEOREM InstallsAreComplete == Spec => []InstalledIsComplete
<1>1. InstallInv => InstalledIsComplete
  BY DEF InstallInv, Complete, InstalledIsComplete
<1>. QED  BY <1>1, InstallAlways, PTL

(* As long as nothing goes wrong, install writes our setting to no place   *)
(* while the worker is not there or about to leave.                        *)
THEOREM PointsAtARunningWorker == Spec => []PointedAtARunningWorker
<1>1. TypeInv /\ PlanInv /\ InstallInv => PointedAtARunningWorker
  <2>1. SUFFICES ASSUME TypeInv, PlanInv, InstallInv, faults = 0, admin.sweep.left # {},
                        admin.sweep.kind = "set"
                 PROVE  worker.pc = "serving" /\ worker.stop = "no"
    BY DEF PointedAtARunningWorker
  <2>2. admin.doing = "install" /\ ToGo = 1
    BY <2>1 DEF PlanInv, Planned, ToGo
  <2>. QED  BY <2>1, <2>2 DEF InstallInv, Achieved
<1>. QED  BY <1>1, TypesAlways, PlanAlways, InstallAlways, PTL

-----------------------------------------------------------------------------
(* Nobody's request outlives the helper, and a helper that stops takes our *)
(* setting away.                                                           *)
HelperInv ==
  /\ helper.pc = "off" => call = NoCall /\ late = NoSweep
  /\ helper.pc = "stopping" => helper.sweep.kind = "unset"

LEMMA HelperStep ==
  ASSUME TypeInv, HelperInv, [Next]_vars PROVE HelperInv'
<1>. USE DEF HelperInv
<1>1. CASE AdminGoesOn
  <2>1. CASE call' = call /\ late' = late /\ helper' = helper
    BY <2>1
  <2>2. CASE \E step : AwaitHelper(step)
    BY <2>2 DEF AwaitHelper, Start
  <2>. QED  BY <1>1, <2>1, <2>2 DEF AdminGoesOn, MachineStep, BeginSweep, AdminSweeps, Signal,
                                    AwaitWorker, Stopped, Started, Waited, AdminEnds, processes
<1>2. CASE Mishap
  <2>1. CASE TimeOut
    BY <2>1 DEF TimeOut, Abandon, NoCall, NoSweep
  <2>2. CASE WorkerKilled
    BY <2>2 DEF WorkerKilled, EndWorker, Abandon
  <2>3. CASE HelperKilled \/ Reboot
    BY <2>3 DEF HelperKilled, EndHelper, Reboot, HelperOff
  <2>4. CASE ListenerFails \/ Outside
    BY <2>4 DEF ListenerFails, Outside
  <2>. QED  BY <1>2, <2>1, <2>2, <2>3, <2>4 DEF Mishap
<1>3. ASSUME NEW who \in Callers, Ask(who) \/ Refused(who) PROVE HelperInv'
  BY <1>3 DEF Ask, Refused
<1>4. CASE Serve
  BY <1>4 DEF Serve, NoCall, NoSweep
<1>5. CASE Return \/ ServeLate
  BY <1>5 DEF Return, ServeLate, NoSweep
<1>6. CASE WorkerExits
  BY <1>6 DEF WorkerExits, EndWorker, Abandon
<1>7. CASE WorkerStarts \/ Listen \/ Dial \/ Look
  BY <1>7 DEF WorkerStarts, Listen, Dial, Look
<1>8. CASE HelperStarts
  BY <1>8 DEF HelperStarts, HelperOff
<1>9. CASE HelperUnsets
  <2>1. PICK next : helper' = [helper EXCEPT !.sweep = next] /\ next.kind = helper.sweep.kind
    BY <1>9 DEF HelperUnsets, Next1, TypeInv, Helper, Sweep
  <2>. QED  BY <1>9, <2>1 DEF HelperUnsets, TypeInv, Helper
<1>10. CASE HelperExits
  BY <1>10 DEF HelperExits, EndHelper, HelperOff
<1>11. ASSUME NEW c \in Commands, Begin(c) PROVE HelperInv'
  BY <1>11 DEF Begin, processes
<1>12. CASE UNCHANGED vars
  BY <1>12 DEF vars, processes
<1>. QED  BY <1>1, <1>2, <1>3, <1>4, <1>5, <1>6, <1>7, <1>8, <1>9, <1>10, <1>11, <1>12 DEF Next

-----------------------------------------------------------------------------
(* A place is tidy when it does not need our port, or is excused. A half   *)
(* written setting that Unset on Linux does not recognise was left by a    *)
(* fault, or by a request that overtook an undoing.                        *)
Tidy(t) == DependsOnUs(setting[t]) => t \in excused
HalfInv ==
  \A t \in Places :
    os = "linux" /\ setting[t].on /\ setting[t].a = "ours" /\ setting[t].b # "ours" => t \in excused

(* What one step of a sweep can leave at its place, when nothing goes      *)
(* wrong: Unset leaves nothing of ours that it recognises, Set writes all  *)
(* of our setting or skips.                                                *)
LEMMA UnsetOutcomes ==
  ASSUME ProxyOK, NEW t \in Places, NEW out \in Outcomes("unset", t), ~out.fault,
         DependsOnUs(out.to)
  PROVE  os = "linux" /\ out.to = setting[t] /\ out.to.on /\ out.to.a = "ours" /\ out.to.b # "ours"
<1>1. PICK s \in Setting : s = setting[t]
  BY DEF ProxyOK
<1>. USE DEF Done, Fails, Missed, DependsOnUs
<1>2. CASE os = "darwin"
  <2>1. out.to = [s EXCEPT !.on = FALSE]
    BY <1>1, <1>2 DEF Outcomes, DarwinUnset
  <2>. QED  BY <1>2, <2>1 DEF Setting
<1>3. CASE os = "linux"
  <2>1. CASE s.on /\ s.b = "ours"
    <3>1. out.to = [s EXCEPT !.on = FALSE]
      BY <1>1, <1>3, <2>1 DEF Outcomes, LinuxUnset
    <3>. QED  BY <1>3, <3>1 DEF Setting
  <2>2. CASE ~(s.on /\ s.b = "ours")
    <3>1. out.to = s
      BY <1>1, <1>3, <2>2 DEF Outcomes, LinuxUnset
    <3>. QED  BY <1>1, <1>3, <2>2, <3>1 DEF Setting
  <2>. QED  BY <2>1, <2>2
<1>4. CASE os = "windows"
  <2>1. \A r \in Setting : \A o \in RecordUnset(r) : ~o.fault => o.to.b # "ours"
    <3>1. SUFFICES ASSUME NEW r \in Setting, NEW o \in RecordUnset(r), ~o.fault
                   PROVE  o.to.b # "ours"
      OBVIOUS
    <3>2. CASE r.b = "ours"
      BY <3>1, <3>2 DEF RecordUnset, Setting
    <3>3. CASE r.b # "ours"
      BY <3>1, <3>3 DEF RecordUnset, Setting
    <3>. QED  BY <3>2, <3>3
  <2>2. [s EXCEPT !.on = FALSE, !.a = "none"] \in Setting
    BY PartlyWritten
  <2>3. PICK r \in Setting : out \in RecordUnset(r)
    BY <1>1, <1>4, <2>2 DEF Outcomes, WindowsUnset
  <2>. QED  BY <1>4, <2>1, <2>3
<1>. QED  BY <1>2, <1>3, <1>4 DEF ProxyOK

LEMMA SetOutcomes ==
  ASSUME ProxyOK, NEW t \in Places, NEW out \in Outcomes("set", t), ~out.fault, os = "linux"
  PROVE  out.to \in {Ours, setting[t]}
<1>1. PICK s \in Setting : s = setting[t]
  BY DEF ProxyOK
<1>2. out \in LinuxSet(t, s)
  BY <1>1 DEF Outcomes
<1>3. CASE Skips(t) \/ s = Ours
  BY <1>1, <1>2, <1>3 DEF LinuxSet, Done
<1>4. CASE ~(Skips(t) \/ s = Ours)
  <2>1. PICK bad \in SUBSET {"host", "port", "mode"} :
          out = [ok |-> bad = {}, fault |-> bad # {},
                 to |-> [on |-> s.on \/ "mode" \notin bad,
                         a |-> IF "host" \in bad THEN s.a ELSE "ours",
                         b |-> IF "port" \in bad THEN s.b ELSE "ours"]]
    BY <1>2, <1>4 DEF LinuxSet
  <2>2. bad = {}
    BY <2>1
  <2>. QED  BY <2>1, <2>2 DEF Ours
<1>. QED  BY <1>3, <1>4

LEMMA SweepEffects ==
  ASSUME TypeInv, HalfInv, NEW sweep \in Sweep, NEW next, SweepStep(sweep, next), Excuse(sweep)
  PROVE  /\ Min(sweep.left) \in sweep.left
         /\ os' = os
         /\ \A t \in Places : t # Min(sweep.left) =>
              setting'[t] = setting[t] /\ (t \in excused' <=> t \in excused)
         /\ HalfInv'
         /\ sweep.kind = "unset" \/ Undoing => Tidy(Min(sweep.left))'
<1>1. PICK t0 \in Places : t0 = Min(sweep.left) /\ t0 \in sweep.left
  BY FirstPlace DEF SweepStep, Sweep
<1>2. PICK out \in Outcomes(sweep.kind, t0) :
        /\ faults' = faults + (IF out.fault THEN 1 ELSE 0)
        /\ setting' = [setting EXCEPT ![t0] = out.to]
  BY <1>1 DEF SweepStep
<1>3. sweep.kind \in {"set", "unset"} /\ faults \in Nat /\ setting \in [Places -> Setting]
  BY SystemProxyAssumption DEF Sweep, TypeInv, ProxyOK
<1>4. out.to \in Setting /\ out.fault \in BOOLEAN
  BY <1>1, <1>2, <1>3, OutcomeTypes DEF Outcome, TypeInv
<1>5. faults' > faults <=> out.fault
  BY <1>2, <1>3, <1>4
<1>6. os' = os /\ setting'[t0] = out.to /\ \A t \in Places : t # t0 => setting'[t] = setting[t]
  BY <1>2, <1>3 DEF SweepStep
<1>7. excused' = IF out.fault \/ (sweep.kind = "set" /\ Undoing)
                 THEN excused \cup {t0}
                 ELSE IF DependsOnUs(out.to) /\ (sweep.kind = "unset" \/ out.to # Ours)
                 THEN excused ELSE excused \ {t0}
  BY <1>1, <1>5, <1>6 DEF Excuse
<1>8. \A t \in Places : t # t0 => (t \in excused' <=> t \in excused)
  BY <1>7
<1>9. sweep.kind = "unset" /\ ~out.fault /\ DependsOnUs(out.to) => t0 \in excused
  <2>1. SUFFICES ASSUME sweep.kind = "unset", ~out.fault, DependsOnUs(out.to) PROVE t0 \in excused
    OBVIOUS
  <2>2. os = "linux" /\ out.to = setting[t0] /\ out.to.on /\ out.to.a = "ours" /\ out.to.b # "ours"
    BY <1>2, <2>1, UnsetOutcomes DEF TypeInv
  <2>. QED  BY <2>2 DEF HalfInv
<1>10. sweep.kind = "unset" \/ Undoing => (DependsOnUs(out.to) => t0 \in excused')
  BY <1>3, <1>4, <1>7, <1>9
<1>11. Tidy(t0)' <=> (DependsOnUs(out.to) => t0 \in excused')
  BY <1>6 DEF Tidy, DependsOnUs
<1>12. ASSUME os = "linux", out.to.on, out.to.a = "ours", out.to.b # "ours"
       PROVE  t0 \in excused'
  <2>1. DependsOnUs(out.to) /\ out.to # Ours
    BY <1>12 DEF DependsOnUs, Ours
  <2>2. CASE out.fault
    BY <1>7, <2>2
  <2>3. CASE ~out.fault /\ sweep.kind = "unset"
    BY <1>7, <1>9, <2>1, <2>3
  <2>4. CASE ~out.fault /\ sweep.kind = "set"
    <3>1. out.to = setting[t0]
      BY <1>2, <1>12, <2>1, <2>4, SetOutcomes DEF TypeInv
    <3>2. t0 \in excused
      BY <1>12, <3>1 DEF HalfInv
    <3>. QED  BY <1>7, <2>1, <2>4, <3>2
  <2>. QED  BY <1>3, <1>4, <2>2, <2>3, <2>4
<1>13. HalfInv'
  <2>1. SUFFICES ASSUME NEW t \in Places, os = "linux", setting'[t].on, setting'[t].a = "ours",
                        setting'[t].b # "ours"
                 PROVE  t \in excused'
    BY <1>6 DEF HalfInv
  <2>2. CASE t = t0
    BY <1>6, <1>12, <2>1, <2>2
  <2>3. CASE t # t0
    BY <1>6, <1>8, <2>1, <2>3 DEF HalfInv
  <2>. QED  BY <2>2, <2>3
<1>. QED
  <2>1. Min(sweep.left) = t0
    BY <1>1
  <2>2. sweep.kind = "unset" \/ Undoing => Tidy(Min(sweep.left))'
    <3>1. t0' = t0
      OBVIOUS
    <3>. QED  BY <1>10, <1>11, <2>1 DEF Tidy
  <2>. QED  BY <1>1, <1>6, <1>8, <1>13, <2>2

-----------------------------------------------------------------------------
(* Where an undoing has been: once it is over, everywhere; while it sweeps,*)
(* the places it has behind it.                                            *)
Undone(t) ==
  \/ admin.doing = "idle" /\ admin.ended \in Undoers
  \/ admin.doing \in Undoers /\
       \/ admin.plan = <<>> \/ admin.plan[1] # "unsetProxy"
       \/ admin.sweep.left # {} /\ t \notin admin.sweep.left

(* Such a place is tidy, or it will be: the helper that could have pointed *)
(* it at us again has not taken it away yet.                               *)
Handled(t) ==
  \/ Tidy(t) \/ helper.pc = "up"
  \/ helper.pc = "stopping" /\ t \in helper.sweep.left
UndoneInv == \A t \in Places : Undone(t) => Handled(t)
LeftInv == HelperInv /\ HalfInv /\ UndoneInv

(* A step that changes neither the settings nor who is excused.            *)
LEMMA SameSettings ==
  ASSUME os' = os, setting' = setting, excused \subseteq excused'
  PROVE  (HalfInv => HalfInv') /\ \A t : Tidy(t) => Tidy(t)'
BY DEF HalfInv, Tidy, DependsOnUs

LEMMA SameUndone ==
  ASSUME admin' = admin PROVE \A t : Undone(t)' => Undone(t)
BY DEF Undone

(* The helper and the worker's requests: what writes after an undoing has  *)
(* begun is the helper, and it tidies up or is excused.                    *)
LEMMA RequestSweeps ==
  ASSUME TypeInv, LeftInv, NEW sweep \in Sweep, NEW next, SweepStep(sweep, next), Excuse(sweep),
         admin' = admin, helper.pc # "off", helper' = helper
  PROVE  HalfInv' /\ UndoneInv'
<1>1. PICK t0 : t0 = Min(sweep.left)
  OBVIOUS
<1>2. /\ os' = os /\ HalfInv'
      /\ \A t \in Places : t # t0 => setting'[t] = setting[t] /\ (t \in excused' <=> t \in excused)
      /\ Undoing => Tidy(t0)'
  BY <1>1, SweepEffects DEF LeftInv
<1>3. ASSUME NEW t \in Places, Undone(t)' PROVE Handled(t)'
  <2>1. Handled(t)
    BY <1>3, SameUndone DEF LeftInv, UndoneInv
  <2>2. CASE helper.pc = "up"
    BY <2>2 DEF Handled
  <2>3. CASE helper.pc = "stopping" /\ t = t0
    BY <1>2, <2>3 DEF Handled, Undoing
  <2>4. CASE helper.pc = "stopping" /\ t # t0
    <3>1. Tidy(t) => Tidy(t)'
      BY <1>2, <2>4 DEF Tidy, DependsOnUs
    <3>. QED  BY <2>1, <2>4, <3>1 DEF Handled
  <2>. QED  BY <2>2, <2>3, <2>4 DEF TypeInv, Helper
<1>. QED  BY <1>2, <1>3 DEF UndoneInv

LEMMA CallLeft ==
  ASSUME TypeInv, LeftInv, Serve \/ ServeLate PROVE HalfInv' /\ UndoneInv'
<1>1. CASE Serve
  <2>1. helper.pc # "off" /\ call.sweep \in Sweep
    BY <1>1 DEF Serve, LeftInv, HelperInv, NoCall, NoSweep, TypeInv, CallOK
  <2>. QED  BY <1>1, <2>1, RequestSweeps DEF Serve
<1>2. CASE ServeLate
  <2>1. helper.pc # "off" /\ late \in Sweep
    BY <1>2 DEF ServeLate, LeftInv, HelperInv, NoSweep, TypeInv, CallOK
  <2>. QED  BY <1>2, <2>1, RequestSweeps DEF ServeLate
<1>. QED  BY <1>1, <1>2

LEMMA HelperLeft ==
  ASSUME TypeInv, LeftInv, HelperUnsets PROVE HalfInv' /\ UndoneInv'
<1>1. PICK sweep \in Sweep : sweep = helper.sweep /\ sweep.kind = "unset" /\ helper.pc = "stopping"
  BY DEF HelperUnsets, LeftInv, HelperInv, TypeInv, Helper
<1>2. PICK ok \in BOOLEAN :
        /\ SweepStep(sweep, Next1(sweep, ok))
        /\ helper' = [helper EXCEPT !.sweep = Next1(sweep, ok)]
  BY <1>1 DEF HelperUnsets
<1>3. PICK t0 : t0 = Min(sweep.left)
  OBVIOUS
<1>4. /\ os' = os /\ HalfInv'
      /\ \A t \in Places : t # t0 => setting'[t] = setting[t] /\ (t \in excused' <=> t \in excused)
      /\ Tidy(t0)'
  BY <1>1, <1>2, <1>3, SweepEffects DEF LeftInv, HelperUnsets
<1>5. helper'.pc = "stopping" /\ helper'.sweep.left = sweep.left \ {t0}
  <2>1. Next1(sweep, ok).left = sweep.left \ {t0}
    BY <1>1, <1>3 DEF Next1, Rest, Sweep
  <2>. QED  BY <1>1, <1>2, <2>1 DEF TypeInv, Helper
<1>6. ASSUME NEW t \in Places, Undone(t)' PROVE Handled(t)'
  <2>1. Handled(t)
    BY <1>6, SameUndone DEF LeftInv, UndoneInv, HelperUnsets
  <2>2. CASE t = t0
    BY <1>4, <2>2 DEF Handled
  <2>3. CASE t # t0
    <3>1. Tidy(t) => Tidy(t)'
      BY <1>4, <2>3 DEF Tidy, DependsOnUs
    <3>. QED  BY <1>1, <1>5, <2>1, <2>3, <3>1 DEF Handled
  <2>. QED  BY <2>2, <2>3
<1>. QED  BY <1>4, <1>6 DEF UndoneInv

(* Steps that write no setting and stop no helper.                         *)
LEMMA QuietLeft ==
  ASSUME LeftInv, admin' = admin, helper' = helper, os' = os, setting' = setting,
         excused \subseteq excused'
  PROVE  HalfInv' /\ UndoneInv'
<1>1. HalfInv'
  BY SameSettings DEF LeftInv
<1>2. ASSUME NEW t \in Places, Undone(t)' PROVE Handled(t)'
  <2>1. Handled(t)
    BY <1>2, SameUndone DEF LeftInv, UndoneInv
  <2>. QED  BY <2>1, SameSettings DEF Handled
<1>. QED  BY <1>1, <1>2 DEF UndoneInv

(* What is excused for good reason: the power goes, a process is killed.   *)
LEMMA AllExcused ==
  ASSUME excused' = Places PROVE HalfInv' /\ UndoneInv'
BY DEF HalfInv, UndoneInv, Handled, Tidy

LEMMA OwnLeft ==
  ASSUME TypeInv, LeftInv, OnTheirOwn PROVE HalfInv' /\ UndoneInv'
<1>1. ASSUME NEW who \in Callers, Ask(who) \/ Refused(who) PROVE HalfInv' /\ UndoneInv'
  BY <1>1, QuietLeft DEF Ask, Refused, PassOver, proxyVars
<1>2. CASE Return \/ TimeOut
  BY <1>2, QuietLeft DEF Return, TimeOut, proxyVars
<1>3. CASE WorkerStarts \/ Listen \/ Dial \/ Look \/ WorkerExits \/ ListenerFails
  BY <1>3, QuietLeft DEF WorkerStarts, Listen, Dial, Look, WorkerExits, ListenerFails, proxyVars
<1>4. CASE WorkerKilled \/ HelperKilled
  BY <1>4, AllExcused DEF WorkerKilled, HelperKilled
<1>5. CASE HelperStarts
  <2>1. os' = os /\ setting' = setting /\ excused' = excused /\ helper'.pc = "up"
    BY <1>5 DEF HelperStarts, HelperOff, proxyVars
  <2>. QED  BY <2>1, SameSettings DEF LeftInv, UndoneInv, Handled
<1>6. CASE HelperExits
  <2>1. /\ os' = os /\ setting' = setting /\ excused' = excused /\ admin' = admin
        /\ helper.pc = "stopping" /\ helper.sweep.left = {}
    BY <1>6 DEF HelperExits, proxyVars
  <2>2. ASSUME NEW t \in Places, Undone(t)' PROVE Tidy(t)'
    BY <2>1, <2>2, SameUndone, SameSettings DEF LeftInv, UndoneInv, Handled
  <2>. QED  BY <2>1, <2>2, SameSettings DEF LeftInv, UndoneInv, Handled
<1>7. ASSUME NEW step, AwaitHelper(step) PROVE HalfInv' /\ UndoneInv'
  <2>1. /\ os' = os /\ setting' = setting /\ excused \subseteq excused' /\ admin' = admin
        /\ helper'.pc = "stopping" /\ helper'.sweep.left = Visits("unset")
    BY <1>7 DEF AwaitHelper, PassOver, Start, proxyVars
  <2>2. \A t \in Places : t \in Visits("unset") \/ t \in excused'
    BY <1>7 DEF AwaitHelper, PassOver, Visits, TypeInv, ProxyOK
  <2>3. ASSUME NEW t \in Places PROVE Handled(t)'
    BY <2>1, <2>2 DEF Handled, Tidy
  <2>. QED  BY <2>1, <2>3, SameSettings DEF LeftInv, UndoneInv
<1>8. CASE Outside
  <2>1. CASE setting' = setting
    BY <1>8, <2>1, QuietLeft DEF Outside, ComeOrGo, Drift
  <2>2. ASSUME NEW t0 \in Places, NEW s \in {None, Own}, Drift(t0, s) PROVE HalfInv' /\ UndoneInv'
    <3>1. /\ os' = os /\ admin' = admin /\ helper' = helper /\ excused' = excused
          /\ setting'[t0] = s /\ \A t \in Places : t # t0 => setting'[t] = setting[t]
      BY <1>8, <2>2 DEF Outside, Drift, TypeInv, ProxyOK
    <3>2. ~DependsOnUs(s) /\ s.a # "ours"
      BY DEF None, Own, DependsOnUs
    <3>3. HalfInv'
      BY <3>1, <3>2 DEF LeftInv, HalfInv
    <3>4. ASSUME NEW t \in Places, Undone(t)' PROVE Handled(t)'
      <4>1. Handled(t)
        BY <3>1, <3>4, SameUndone DEF LeftInv, UndoneInv
      <4>2. Tidy(t) => Tidy(t)'
        BY <3>1, <3>2 DEF Tidy, DependsOnUs
      <4>. QED  BY <3>1, <4>1, <4>2 DEF Handled
    <3>. QED  BY <3>3, <3>4 DEF UndoneInv
  <2>. QED  BY <1>8, <2>1, <2>2 DEF Outside, ComeOrGo
<1>9. CASE UNCHANGED vars
  BY <1>9, QuietLeft DEF vars, processes, proxyVars
<1>. QED  BY <1>1, <1>2, <1>3, <1>4, <1>5, <1>6, <1>7, <1>8, <1>9, CallLeft, HelperLeft DEF OnTheirOwn

(* A step of the command that touches no setting: it is no further with    *)
(* the undoing than it was.                                                *)
LEMMA AdvancedUndone ==
  ASSUME TypeInv, PlanInv, admin.doing # "idle", admin.plan # <<>>,
         admin.plan[1] # "unsetProxy", admin' \in {Advanced, AfterFailure, Idle}
  PROVE  \A t : Undone(t)' => Undone(t)
<1>1. SUFFICES ASSUME NEW t, Undone(t)' PROVE Undone(t)
  OBVIOUS
<1>2. admin'.ended = "nothing"
  BY InstallAdvances DEF Idle
<1>3. admin'.doing \in Undoers
  BY <1>1, <1>2 DEF Undone, Undoers
<1>4. ~(admin'.doing = "rollback" /\ admin'.plan = RollbackPlan /\ admin'.sweep = NoSweep)
  BY <1>1, UndoPlans DEF Undone, TypeInv, ProxyOK, NoSweep
<1>5. admin.doing # "install"
  <2>1. SUFFICES ASSUME admin.doing = "install" PROVE FALSE
    OBVIOUS
  <2>2. admin' = AfterFailure
    BY <1>3, <2>1, InstallAdvances DEF Undoers, Idle
  <2>. QED  BY <1>4, <2>1, <2>2 DEF AfterFailure, Idle
<1>6. admin.doing \notin {"ensure", "force"}
  BY <1>3, InstallAdvances DEF Undoers, Idle, AfterFailure
<1>. QED  BY <1>5, <1>6 DEF Undone, Undoers, TypeInv, AdminOK, Command, Commands

LEMMA AdminLeft ==
  ASSUME TypeInv, PlanInv, LeftInv,
         \/ \E step \in Steps : MachineStep(step)
         \/ \E job \in Jobs : Stopped(job) \/ Started(job)
         \/ Waited
  PROVE  HalfInv' /\ UndoneInv'
<1>1. /\ os' = os /\ setting' = setting /\ excused' = excused /\ helper' = helper
      /\ admin' \in {Advanced, AfterFailure, Idle}
  BY DEF MachineStep, Stopped, Started, Waited, processes, proxyVars
<1>2. PICK step : Step(step) /\ step # "unsetProxy"
  <2>1. CASE \E step \in Steps : MachineStep(step)
    BY <2>1 DEF MachineStep, Steps
  <2>2. CASE \E job \in Jobs : Stopped(job) \/ Started(job)
    BY <2>2 DEF Stopped, Started, Stopping, Starting
  <2>3. CASE Waited
    BY <2>3 DEF Waited
  <2>. QED  BY <2>1, <2>2, <2>3
<1>3. admin.doing # "idle" /\ admin.plan # <<>> /\ admin.plan[1] # "unsetProxy"
  BY <1>2 DEF Step, TypeInv, AdminOK, Command
<1>4. \A t : Undone(t)' => Undone(t)
  BY <1>1, <1>3, AdvancedUndone
<1>5. \A t \in Places : Handled(t) => Handled(t)'
  BY <1>1, SameSettings DEF Handled
<1>. QED  BY <1>1, <1>4, <1>5, SameSettings DEF LeftInv, UndoneInv

LEMMA SignalLeft ==
  ASSUME TypeInv, LeftInv, Signal PROVE HalfInv' /\ UndoneInv'
<1>1. CASE \E step \in {"stopHelper", "startHelper"} : AwaitHelper(step)
  BY <1>1, OwnLeft DEF OnTheirOwn
<1>2. ASSUME NEW step, AwaitWorker(step) PROVE HalfInv' /\ UndoneInv'
  BY <1>2, QuietLeft DEF AwaitWorker, proxyVars
<1>. QED  BY <1>1, <1>2 DEF Signal

LEMMA CommandLeft ==
  ASSUME TypeInv, PlanInv, LeftInv, AdminEnds \/ (\E c \in Commands : Begin(c)) \/ Reboot
  PROVE  HalfInv' /\ UndoneInv'
<1>1. CASE Reboot
  BY <1>1, AllExcused DEF Reboot
<1>2. CASE AdminEnds
  <2>1. os' = os /\ setting' = setting /\ excused' = excused /\ helper' = helper
    BY <1>2 DEF AdminEnds, processes, proxyVars
  <2>2. \A t : Undone(t)' => Undone(t)
    BY <1>2 DEF AdminEnds, Undone, Idle, Undoers
  <2>3. \A t \in Places : Handled(t) => Handled(t)'
    BY <2>1, SameSettings DEF Handled
  <2>. QED  BY <2>1, <2>2, <2>3, SameSettings DEF LeftInv, UndoneInv
<1>3. ASSUME NEW c \in Commands, Begin(c) PROVE HalfInv' /\ UndoneInv'
  <2>1. os' = os /\ setting' = setting /\ excused' = excused
    BY <1>3 DEF Begin, proxyVars
  <2>2. /\ admin'.doing = c /\ admin'.ended = "nothing" /\ admin'.sweep = NoSweep
        /\ admin'.plan = PlanOf(c)
    BY <1>3 DEF Begin, Idle
  <2>3. ASSUME NEW t PROVE ~Undone(t)'
    <3>1. CASE c = "uninstall"
      BY <2>2, <3>1, UndoPlans DEF PlanOf, Undone, Undoers, NoSweep, TypeInv, ProxyOK
    <3>2. CASE c # "uninstall"
      BY <2>2, <3>2 DEF Undone, Undoers, Commands
    <3>. QED  BY <3>1, <3>2
  <2>. QED  BY <2>1, <2>3, SameSettings DEF LeftInv, UndoneInv
<1>. QED  BY <1>1, <1>2, <1>3

(* Our setting is written by install, which has undone nothing.            *)
LEMMA SetLeft ==
  ASSUME TypeInv, PlanInv, LeftInv,
         \/ BeginSweep("setProxy", "set")
         \/ AdminSweeps /\ admin.doing = "install"
  PROVE  HalfInv' /\ UndoneInv'
<1>1. admin.doing = "install" /\ admin.plan # <<>>
  <2>1. CASE BeginSweep("setProxy", "set")
    BY <2>1, SetIsInstall DEF BeginSweep, Step
  <2>2. CASE AdminSweeps /\ admin.doing = "install"
    BY <2>2 DEF AdminSweeps, TypeInv, AdminOK, Command
  <2>. QED  BY <2>1, <2>2
<1>2. PICK sweep : admin' \in {[admin EXCEPT !.sweep = sweep], Advanced, AfterFailure}
  BY DEF AdminSweeps, BeginSweep
<1>3. ASSUME NEW t PROVE ~Undone(t)'
  <2>1. CASE admin' = [admin EXCEPT !.sweep = sweep]
    BY <1>1, <2>1 DEF Undone, Undoers, TypeInv, AdminOK, Command
  <2>2. CASE admin' = Advanced
    BY <1>1, <2>2, InstallAdvances DEF Undone, Undoers
  <2>3. CASE admin' = AfterFailure
    <3>1. admin'.doing = "rollback" /\ admin'.plan = RollbackPlan /\ admin'.sweep = NoSweep
      BY <1>1, <2>3 DEF AfterFailure, Idle
    <3>. QED  BY <3>1, UndoPlans DEF Undone, NoSweep, TypeInv, ProxyOK
  <2>. QED  BY <1>2, <2>1, <2>2, <2>3
<1>4. HalfInv'
  <2>1. CASE BeginSweep("setProxy", "set")
    BY <2>1, SameSettings DEF BeginSweep, PassOver, LeftInv, proxyVars
  <2>2. CASE AdminSweeps
    BY <2>2, SweepEffects DEF AdminSweeps, LeftInv, TypeInv, AdminOK, Command
  <2>. QED  BY <2>1, <2>2
<1>. QED  BY <1>3, <1>4 DEF UndoneInv

LEMMA UnsetBegins ==
  ASSUME TypeInv, PlanInv, LeftInv, BeginSweep("unsetProxy", "unset")
  PROVE  HalfInv' /\ UndoneInv'
<1>1. admin.doing \in Undoers /\ admin.plan[1] = "unsetProxy" /\ admin.plan # <<>>
  BY UnsetIsUndoing DEF BeginSweep, Step
<1>2. os' = os /\ setting' = setting /\ excused \subseteq excused'
  BY DEF BeginSweep, PassOver, proxyVars
<1>3. \A t \in Places : t \in Start("unset").left \/ t \in excused'
  BY DEF BeginSweep, PassOver, Start, Visits, TypeInv, ProxyOK
<1>4. \/ Start("unset").left = {}
      \/ admin' = [admin EXCEPT !.sweep = Start("unset")]
  BY DEF BeginSweep
<1>5. ASSUME NEW t \in Places, Undone(t)' PROVE Tidy(t)'
  <2>1. CASE Start("unset").left = {}
    BY <1>3, <2>1 DEF Tidy
  <2>2. CASE admin' = [admin EXCEPT !.sweep = Start("unset")]
    <3>1. /\ admin'.doing = admin.doing /\ admin'.plan = admin.plan
          /\ admin'.sweep = Start("unset")
      BY <2>2 DEF TypeInv, AdminOK, Command
    <3>2. t \notin Start("unset").left
      BY <1>1, <1>5, <3>1 DEF Undone, Undoers
    <3>. QED  BY <1>3, <3>2 DEF Tidy
  <2>. QED  BY <1>4, <2>1, <2>2
<1>. QED  BY <1>2, <1>5, SameSettings DEF LeftInv, UndoneInv, Handled

LEMMA UnsetLeft ==
  ASSUME TypeInv, PlanInv, LeftInv, AdminSweeps, admin.doing # "install"
  PROVE  HalfInv' /\ UndoneInv'
<1>1. PICK sweep \in Sweep : sweep = admin.sweep /\ sweep.left # {}
  BY DEF AdminSweeps, TypeInv, AdminOK, Command
<1>2. /\ admin.doing \in Undoers /\ admin.plan # <<>> /\ admin.plan[1] = "unsetProxy"
      /\ sweep.kind = "unset"
  BY <1>1 DEF PlanInv, Planned, TypeInv, AdminOK, Command
<1>3. PICK ok \in BOOLEAN :
        /\ SweepStep(sweep, Next1(sweep, ok))
        /\ admin' = IF Next1(sweep, ok).left # {}
                    THEN [admin EXCEPT !.sweep = Next1(sweep, ok)]
                    ELSE IF Next1(sweep, ok).failed THEN AfterFailure ELSE Advanced
  BY <1>1 DEF AdminSweeps
<1>4. PICK t0 : t0 = Min(sweep.left)
  OBVIOUS
<1>5. /\ os' = os /\ HalfInv' /\ helper' = helper
      /\ \A t \in Places : t # t0 => setting'[t] = setting[t] /\ (t \in excused' <=> t \in excused)
      /\ Tidy(t0)'
  BY <1>1, <1>2, <1>3, <1>4, SweepEffects DEF LeftInv, AdminSweeps, processes
<1>6. Next1(sweep, ok).left = sweep.left \ {t0}
  BY <1>2, <1>4 DEF Next1, Rest, Sweep
<1>7. ASSUME NEW t \in Places, t # t0, Undone(t)' PROVE Undone(t)
  <2>1. t \notin sweep.left
    <3>1. CASE sweep.left \ {t0} = {}
      BY <1>7, <3>1
    <3>2. CASE sweep.left \ {t0} # {}
      <4>1. /\ admin'.doing = admin.doing /\ admin'.plan = admin.plan
            /\ admin'.sweep = Next1(sweep, ok)
        BY <1>3, <1>6, <3>2 DEF TypeInv, AdminOK, Command
      <4>2. t \notin Next1(sweep, ok).left
        BY <1>2, <1>7, <4>1 DEF Undone, Undoers
      <4>. QED  BY <1>6, <1>7, <4>2
    <3>. QED  BY <3>1, <3>2
  <2>. QED  BY <1>1, <1>2, <2>1 DEF Undone
<1>8. ASSUME NEW t \in Places, Undone(t)' PROVE Handled(t)'
  <2>1. CASE t = t0
    BY <1>5, <2>1 DEF Handled
  <2>2. CASE t # t0
    <3>1. Handled(t)
      BY <1>7, <1>8, <2>2 DEF LeftInv, UndoneInv
    <3>2. Tidy(t) => Tidy(t)'
      BY <1>5, <2>2 DEF Tidy, DependsOnUs
    <3>. QED  BY <1>5, <3>1, <3>2 DEF Handled
  <2>. QED  BY <2>1, <2>2
<1>. QED  BY <1>5, <1>8 DEF UndoneInv

LEMMA LeftStep ==
  ASSUME TypeInv, PlanInv, LeftInv, [Next]_vars PROVE LeftInv'
<1>. SUFFICES HalfInv' /\ UndoneInv'
  BY HelperStep DEF LeftInv
<1>1. CASE AdminGoesOn
  BY <1>1, AdminLeft, SetLeft, UnsetBegins, UnsetLeft, SignalLeft, CommandLeft DEF AdminGoesOn
<1>2. CASE Mishap
  BY <1>2, OwnLeft, CommandLeft DEF Mishap, OnTheirOwn
<1>3. CASE Next /\ ~AdminGoesOn /\ ~Mishap
  BY <1>3, OwnLeft, CommandLeft DEF Next, OnTheirOwn
<1>4. CASE UNCHANGED vars
  BY <1>4, OwnLeft DEF OnTheirOwn
<1>. QED  BY <1>1, <1>2, <1>3, <1>4

LEMMA LeftAlways == Spec => []LeftInv
<1>1. Init => LeftInv
  <2>1. Init => HelperInv /\ UndoneInv
    BY DEF Init, HelperInv, HelperOff, UndoneInv, Undone, Idle, Undoers
  <2>2. Init => HalfInv
    BY DEF Init, ProvisionInit, ProxyInit, HalfInv, None, Own
  <2>. QED  BY <2>1, <2>2 DEF LeftInv
<1>. QED  BY <1>1, TypesAlways, PlanAlways, LeftStep, PTL DEF Spec

(* Once an uninstall or a rollback is over and both processes are gone, a  *)
(* place needs our port only if its last write failed, if it was disabled  *)
(* at every Unset, if a request overtook the undoing, or if it was half    *)
(* written by one of those.                                                *)
THEOREM LeavesForAReason == Spec => []LeftBehindForAReason
<1>1. LeftInv => LeftBehindForAReason
  BY DEF LeftInv, UndoneInv, Undone, Undoers, Handled, Tidy, LeftBehindForAReason, Removed
<1>. QED  BY <1>1, LeftAlways, PTL
=============================================================================
