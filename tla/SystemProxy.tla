---------------------------- MODULE SystemProxy ----------------------------
(***************************************************************************)
(* The system's proxy setting on the three operating systems (agent/       *)
(* internal/platform: proxyconf_darwin.go, proxy_linux.go,                 *)
(* proxy_windows.go, wininet.go). It outlives the process that wrote it,   *)
(* it is written in several places one after the other, and other programs *)
(* write it too.                                                           *)
(*                                                                         *)
(* A place is a network service on macOS and a person on the other two. A  *)
(* setting has two halves, each nothing, somebody's own, or ours:          *)
(*   darwin   a = b: one command writes server, port and switch            *)
(*   linux    a: the host, b: the port, on: the mode                       *)
(*   windows  a: ProxyServer, on: ProxyEnable, b: the binary record that   *)
(*            WinINET treats as the real setting                           *)
(***************************************************************************)
EXTENDS Naturals, FiniteSetsExt

CONSTANTS
  NPlaces,   \* services or people, in the order they are listed
  MaxFaults  \* bound: commands that fail, processes that are killed

ASSUME SystemProxyAssumption == NPlaces \in Nat \ {0} /\ MaxFaults \in Nat

VARIABLES
  os,        \* the operating system: chosen once
  setting,   \* the proxy setting of each place
  present,   \* services that are enabled, people who are signed in
  faults     \* faults so far

proxyVars == <<os, setting, present, faults>>

Places == 1 .. NPlaces
Value == {"none", "own", "ours"}
Setting == [on : BOOLEAN, a : Value, b : Value]
None == [on |-> FALSE, a |-> "none", b |-> "none"]
Own == [on |-> TRUE, a |-> "own", b |-> "own"]
Ours == [on |-> TRUE, a |-> "ours", b |-> "ours"]

(* This place's traffic needs our port, or is sent nowhere.                *)
DependsOnUs(s) ==
  IF os = "windows" THEN s.b = "ours" ELSE s.on /\ "ours" \in {s.a, s.b}

(* A run of Set or Unset over the places that are left to it.              *)
Sweep == [kind : {"set", "unset"}, left : SUBSET Places, failed : BOOLEAN]

Skips(t) == t \notin present

(* Slip: nobody who is away is visited.                                    *)
VisitsPresent(kind) == present

(* Who a sweep visits. Linux asks for each person's session as it gets     *)
(* there; the others list their places first. Unset on Linux and Windows   *)
(* reaches people who are signed out; on macOS a disabled service is       *)
(* skipped by both.                                                        *)
Visits(kind) ==
  IF os = "linux" \/ (os = "windows" /\ kind = "unset") THEN Places ELSE present

(* Set on a Mac with no service enabled is an error.                       *)
Start(kind) ==
  [kind |-> kind, left |-> Visits(kind),
   failed |-> os = "darwin" /\ kind = "set" /\ present = {}]

(* What writing one place can come to. A place whose setting cannot be     *)
(* read is passed over in silence by Unset.                                *)
Done(to) == [to |-> to, ok |-> TRUE, fault |-> FALSE]
Fails(to) == [to |-> to, ok |-> FALSE, fault |-> TRUE]
Missed(to) == [to |-> to, ok |-> TRUE, fault |-> TRUE]

(* networksetup writes a service in one command; the list of exceptions is *)
(* a second one.                                                           *)
DarwinSet(s) == {Done(Ours), Fails(s), Fails(Ours)}
DarwinUnset(s) == {Done([s EXCEPT !.on = FALSE]), Fails(s)}

(* gsettings: one command a key, the mode last; a key that fails does not  *)
(* stop the others. Nothing is written when nothing differs.               *)
LinuxSet(t, s) ==
  IF Skips(t) \/ s = Ours THEN {Done(s)}
  ELSE {[ok |-> bad = {}, fault |-> bad # {},
         to |-> [on |-> s.on \/ "mode" \notin bad,
                 a |-> IF "host" \in bad THEN s.a ELSE "ours",
                 b |-> IF "port" \in bad THEN s.b ELSE "ours"]]
        : bad \in SUBSET {"host", "port", "mode"}}

(* Recognised as ours by its port.                                         *)
LinuxUnset(s) ==
  IF s.on /\ s.b = "ours" THEN {Done([s EXCEPT !.on = FALSE]), Fails(s), Missed(s)}
  ELSE {Done(s)}

(* ProxyEnable, ProxyServer, then the record; a failure stops this person. *)
WindowsSet(s) ==
  IF s = Ours THEN {Done(s)}
  ELSE {Done(Ours), Fails(s), Fails([s EXCEPT !.on = TRUE]), Fails([Ours EXCEPT !.b = s.b])}

(* withoutProxy: the record, only when it is ours.                         *)
RecordUnset(s) ==
  IF s.b = "ours" THEN {Done([s EXCEPT !.b = "none"]), Fails(s), Missed(s)} ELSE {Done(s)}

WindowsUnset(s) ==
  IF s.a = "ours" THEN RecordUnset([s EXCEPT !.on = FALSE, !.a = "none"]) \cup {Fails(s)}
  ELSE RecordUnset(s)

Outcomes(kind, t) ==
  LET s == setting[t]
  IN CASE os = "darwin"  -> IF kind = "set" THEN DarwinSet(s) ELSE DarwinUnset(s)
       [] os = "linux"   -> IF kind = "set" THEN LinuxSet(t, s) ELSE LinuxUnset(s)
       [] os = "windows" -> IF kind = "set" THEN WindowsSet(s) ELSE WindowsUnset(s)

(* Only macOS's Set gives up at the first failure.                         *)
Rest(sweep, ok) ==
  IF ~ok /\ os = "darwin" /\ sweep.kind = "set" THEN {} ELSE sweep.left \ {Min(sweep.left)}

Next1(sweep, ok) ==
  [sweep EXCEPT !.left = Rest(sweep, ok), !.failed = @ \/ ~ok]

(* One place of a sweep: the setting is written, the sweep becomes next.   *)
SweepStep(sweep, next) ==
  /\ sweep.left # {}
  /\ \E out \in Outcomes(sweep.kind, Min(sweep.left)) :
       /\ out.fault => faults < MaxFaults
       /\ faults' = faults + (IF out.fault THEN 1 ELSE 0)
       /\ setting' = [setting EXCEPT ![Min(sweep.left)] = out.to]
       /\ next = Next1(sweep, out.ok)
  /\ UNCHANGED <<os, present>>

(* Slip: any proxy that is switched on will do.                            *)
PointsSomewhere(t) == setting[t].on

(* What Current says of an enabled service on macOS. On the other two the  *)
(* worker's account cannot see the setting (ErrProxyStateHidden).          *)
PointsAtUs(t) == setting[t].on /\ setting[t].a = "ours"
StateHidden == os # "darwin"

(* The health check asks for the setting when it has drifted, and every    *)
(* time when it cannot look.                                               *)
WantsReapply == StateHidden \/ \E t \in present : ~PointsAtUs(t)

ProxyInit ==
  /\ os \in {"darwin", "linux", "windows"}
  /\ setting \in [Places -> {None, Own}]
  /\ present \in SUBSET Places
  /\ faults = 0

(* A VPN, another program or the person writes the setting; a service is   *)
(* enabled or disabled, a person signs in or out.                          *)
Drift(t, s) ==
  /\ t \in present /\ s # setting[t] /\ s \in {None, Own}
  /\ setting' = [setting EXCEPT ![t] = s]
  /\ UNCHANGED <<os, present>>

ComeOrGo(t) ==
  /\ present' = IF t \in present THEN present \ {t} ELSE present \cup {t}
  /\ UNCHANGED <<os, setting>>
=============================================================================
