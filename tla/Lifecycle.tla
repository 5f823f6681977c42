----------------------------- MODULE Lifecycle -----------------------------
(***************************************************************************)
(* The installed agent: the worker (`aiul run --manage-proxy`), the helper *)
(* (`aiul helper`), the service manager that keeps both running, and the   *)
(* administrator's commands (agent/cmd/aiul: run.go, helper.go, agent.go,  *)
(* privileged.go, stop.go, service_windows.go; agent/internal/helper).     *)
(*                                                                         *)
(* The system proxy setting outlives whoever wrote it, and four parties    *)
(* write it: the health check and the stop handler of the worker, through  *)
(* the helper's socket; the helper's own stop handler; and the commands.   *)
(***************************************************************************)
EXTENDS Provision

VARIABLES
  admin,    \* the administrator's command
  loaded,   \* the jobs the service manager keeps running
  worker, helper,
  call,     \* the request the client's mutex is held for
  late,     \* a request still carried out after its caller gave up or ended
  outside,  \* refusing: the worker may not start; answering: its port does
  excused   \* history: the places our setting may be left at

processes == <<loaded, worker, helper, call, late, outside>>
vars == <<proxyVars, machine, admin, processes, excused>>

Commands == {"ensure", "force", "install", "uninstall"}
NoSweep == [kind |-> "unset", left |-> {}, failed |-> FALSE]
NoCall == [who |-> "nobody", sweep |-> NoSweep]
Idle == [doing |-> "idle", plan |-> <<>>, sweep |-> NoSweep, ended |-> "nothing"]
WorkerOff == [pc |-> "off", source |-> "direct", health |-> "idle", stop |-> "no"]
HelperOff == [pc |-> "off", sweep |-> NoSweep]

Admin == [doing : Commands \cup {"idle", "rollback"}, plan : Seq(STRING), sweep : Sweep,
          ended : Commands \cup {"nothing", "rollback"}]
Worker == [pc : {"off", "started", "serving", "failing"}, source : {"helper", "direct"},
           health : {"idle", "dialled", "set", "unset"}, stop : {"no", "unset", "done"}]
Helper == [pc : {"off", "up", "stopping"}, sweep : Sweep]

Init ==
  /\ ProvisionInit
  /\ admin = Idle /\ loaded = {}
  /\ worker = WorkerOff /\ helper = HelperOff
  /\ call = NoCall /\ late = NoSweep
  /\ outside = [refusing |-> FALSE, answering |-> TRUE]
  /\ excused = {}

Faulty == faults < MaxFaults /\ faults' = faults + 1

(* A place is excused when its last write was a fault, or when our setting *)
(* was written to it while somebody was already undoing; a write that goes *)
(* through ends that, but not an Unset that does not recognise our setting *)
(* nor a Set that skips. macOS passes over a disabled service.             *)
Undoing == worker.stop # "no" \/ worker.pc = "off" \/ helper.pc = "stopping"
Excuse(sweep) ==
  LET t == Min(sweep.left)
  IN excused' = IF faults' > faults \/ (sweep.kind = "set" /\ Undoing)
                THEN excused \cup {t}
                ELSE IF DependsOnUs(setting'[t]) /\ (sweep.kind = "unset" \/ setting'[t] # Ours)
                THEN excused ELSE excused \ {t}
PassOver(kind) ==
  excused' = excused \cup
    (IF kind = "unset" /\ os = "darwin" THEN Places \ present ELSE {})

-----------------------------------------------------------------------------
(* The worker's requests to the helper, one at a time.                     *)

Wants(who) ==
  \/ who = "health" /\ worker.health \in {"set", "unset"}
  \/ who = "stop" /\ worker.stop = "unset"
  \/ who = "main" /\ worker.pc = "failing"
Kind(who) == IF who = "health" THEN worker.health ELSE "unset"

(* Whoever asked goes on, whatever the answer: errors are only logged.     *)
Answered(who) ==
  worker' = CASE who = "health" -> [worker EXCEPT !.health = "idle"]
              [] who = "stop"   -> [worker EXCEPT !.stop = "done"]
              [] who = "main"   -> WorkerOff

(* A worker that chose directOps cannot change the setting, and one whose  *)
(* helper is gone is refused at once.                                      *)
Refused(who) ==
  /\ Wants(who) /\ call = NoCall
  /\ worker.source = "direct" \/ helper.pc = "off"
  /\ Answered(who)
  /\ UNCHANGED <<proxyVars, machine, admin, loaded, helper, call, late, outside, excused>>

Ask(who) ==
  /\ Wants(who) /\ call = NoCall
  /\ worker.source = "helper" /\ helper.pc # "off"
  /\ call' = [who |-> who, sweep |-> Start(Kind(who))]
  /\ PassOver(Kind(who))
  /\ UNCHANGED <<proxyVars, machine, admin, loaded, worker, helper, late, outside>>

Serve ==
  /\ call.sweep.left # {}
  /\ \E next \in {Next1(call.sweep, ok) : ok \in BOOLEAN} :
       SweepStep(call.sweep, next) /\ call' = [call EXCEPT !.sweep = next]
  /\ Excuse(call.sweep)
  /\ UNCHANGED <<machine, admin, loaded, worker, helper, late, outside>>

Return ==
  /\ call # NoCall /\ call.sweep.left = {}
  /\ Answered(call.who) /\ call' = NoCall
  /\ UNCHANGED <<proxyVars, machine, admin, loaded, helper, late, outside, excused>>

(* The helper goes on with a request nobody waits for any more. Bound: one *)
(* of those at a time.                                                     *)
Abandon == late = NoSweep /\ late' = call.sweep /\ call' = NoCall

TimeOut ==
  /\ Faulty /\ call.sweep.left # {} /\ Abandon /\ Answered(call.who)
  /\ UNCHANGED <<os, setting, present, machine, admin, loaded, helper, outside, excused>>

ServeLate ==
  /\ late.left # {}
  /\ \E next \in {Next1(late, ok) : ok \in BOOLEAN} :
       SweepStep(late, next) /\ late' = IF next.left = {} THEN NoSweep ELSE next
  /\ Excuse(late)
  /\ UNCHANGED <<machine, admin, loaded, worker, helper, call, outside>>

-----------------------------------------------------------------------------
(* The worker. Its service manager starts it again whenever it ends.       *)

(* The early returns of cmdRun come before the source is chosen: then it   *)
(* is as if it had not started.                                            *)
WorkerStarts ==
  /\ "worker" \in loaded /\ worker.pc = "off"
  /\ CanStart(machine) /\ ~outside.refusing
  /\ worker' = [WorkerOff EXCEPT !.pc = "started",
                                 !.source = IF helper.pc = "off" THEN "direct" ELSE "helper"]
  /\ UNCHANGED <<proxyVars, machine, admin, loaded, helper, call, late, outside, excused>>

(* Listening, and the first health check at once.                          *)
Listen ==
  /\ worker.pc = "started" /\ worker' = [worker EXCEPT !.pc = "serving"]
  /\ UNCHANGED <<proxyVars, machine, admin, loaded, helper, call, late, outside, excused>>

(* Slip: a process that runs is taken for one that answers.                *)
DialItself ==
  /\ worker.pc \in {"serving", "failing"} /\ worker.health = "idle"
  /\ worker' = [worker EXCEPT !.health = IF worker.pc = "serving" THEN "dialled" ELSE "unset"]
  /\ UNCHANGED <<proxyVars, machine, admin, loaded, helper, call, late, outside, excused>>

(* One health check: the port is dialled, then the setting is looked at.   *)
Dial ==
  /\ worker.pc \in {"serving", "failing"} /\ worker.health = "idle"
  /\ worker' = [worker EXCEPT !.health =
                  IF outside.answering /\ worker.pc = "serving" THEN "dialled" ELSE "unset"]
  /\ UNCHANGED <<proxyVars, machine, admin, loaded, helper, call, late, outside, excused>>

Look ==
  /\ worker.health = "dialled"
  /\ worker' = [worker EXCEPT !.health = IF WantsReapply THEN "set" ELSE "idle"]
  /\ UNCHANGED <<proxyVars, machine, admin, loaded, helper, call, late, outside, excused>>

(* Slip: a request dies with the process that made it.                     *)
EndWorkerAlone == worker' = WorkerOff /\ UNCHANGED <<call, late>>

(* The process is gone; what it asked for is not.                          *)
EndWorker ==
  /\ worker' = WorkerOff
  /\ IF call = NoCall THEN UNCHANGED <<call, late>>
     ELSE IF call.sweep.left = {} THEN call' = NoCall /\ late' = late ELSE Abandon

(* Serve has returned: the setting is removed, and the process ends.       *)
ListenerFails ==
  /\ Faulty /\ worker.pc = "serving"
  /\ worker' = [worker EXCEPT !.pc = "failing"]
  /\ UNCHANGED <<os, setting, present, machine, admin, loaded, helper, call, late, outside, excused>>

WorkerExits ==
  /\ worker.stop = "done" /\ EndWorker
  /\ UNCHANGED <<proxyVars, machine, admin, loaded, helper, outside, excused>>

WorkerKilled ==
  /\ Faulty /\ worker.pc # "off" /\ EndWorker
  /\ excused' = Places
  /\ UNCHANGED <<os, setting, present, machine, admin, loaded, helper, outside>>

(* A signal that comes before the handler is there ends the process.       *)
StopWorker ==
  worker' = IF worker.pc = "started" THEN WorkerOff
            ELSE [worker EXCEPT !.stop = IF @ = "no" THEN "unset" ELSE @]

-----------------------------------------------------------------------------
(* The helper.                                                             *)

HelperStarts ==
  /\ "helper" \in loaded /\ helper.pc = "off" /\ {"jobs", "binary"} \subseteq machine.things
  /\ helper' = [HelperOff EXCEPT !.pc = "up"]
  /\ UNCHANGED <<proxyVars, machine, admin, loaded, worker, call, late, outside, excused>>

HelperUnsets ==
  /\ helper.pc = "stopping" /\ helper.sweep.left # {}
  /\ \E next \in {Next1(helper.sweep, ok) : ok \in BOOLEAN} :
       SweepStep(helper.sweep, next) /\ helper' = [helper EXCEPT !.sweep = next]
  /\ Excuse(helper.sweep)
  /\ UNCHANGED <<machine, admin, loaded, worker, call, late, outside>>

(* Every request ends with it; the caller reads an error.                  *)
EndHelper ==
  /\ helper' = HelperOff /\ late' = NoSweep /\ call' = NoCall
  /\ IF call = NoCall THEN UNCHANGED worker ELSE Answered(call.who)

(* Closing the listener makes Serve return an error beside exitProcess(0): *)
(* on Windows the first of the two decides, and an error is a failure that *)
(* the service manager answers with a restart.                             *)
HelperExits ==
  /\ helper.pc = "stopping" /\ helper.sweep.left = {} /\ EndHelper
  /\ loaded' \in {loaded} \cup (IF os = "windows" THEN {loaded \cup {"helper"}} ELSE {})
  /\ UNCHANGED <<proxyVars, machine, admin, outside, excused>>

HelperKilled ==
  /\ Faulty /\ helper.pc # "off" /\ EndHelper
  /\ excused' = Places
  /\ UNCHANGED <<os, setting, present, machine, admin, loaded, outside>>

(* What starts after a reboot: launchd's jobs that nobody unloaded, the    *)
(* units that are enabled, the services of an automatic start.             *)
DarwinEnabled == IF admin.doing = "install" THEN {"worker", "helper"} ELSE loaded
LinuxEnabled == IF admin.doing = "install" THEN {"worker", "helper"} ELSE loaded
WindowsEnabled == {"worker", "helper"}
Enabled ==
  IF "jobs" \notin machine.things THEN {} ELSE On(DarwinEnabled, LinuxEnabled, WindowsEnabled)

(* The power goes; the command does not come back.                         *)
Reboot ==
  /\ Faulty
  /\ worker' = WorkerOff /\ helper' = HelperOff /\ call' = NoCall /\ late' = NoSweep
  /\ admin' = Idle /\ loaded' = Enabled /\ excused' = Places
  /\ UNCHANGED <<os, setting, present, machine, outside>>

-----------------------------------------------------------------------------
(* The commands.                                                           *)

PlanOf(command) ==
  CASE command = "ensure"    -> EnsurePlan(machine)
    [] command = "force"     -> Generate
    [] command = "install"   -> InstallPlan
    [] command = "uninstall" -> UninstallPlan

(* install begins by loading the root, and ends there if it cannot.        *)
Begin(command) ==
  /\ admin.doing = "idle"
  /\ command = "install" => Loads(machine.root)
  /\ admin' = [Idle EXCEPT !.doing = command, !.plan = PlanOf(command)]
  /\ UNCHANGED <<proxyVars, machine, processes, excused>>

Step(step) == admin.doing # "idle" /\ admin.plan # <<>> /\ Head(admin.plan) = step

Advanced == [admin EXCEPT !.plan = Tail(@), !.sweep = NoSweep]

(* install rolls back, ensure gives up, the undoing commands go on.        *)
AfterFailure ==
  CASE admin.doing = "install" -> [Idle EXCEPT !.doing = "rollback", !.plan = RollbackPlan]
    [] admin.doing \in {"ensure", "force"} -> Idle
    [] admin.doing \in {"rollback", "uninstall"} -> Advanced

MachineStep(step) ==
  /\ Step(step) /\ step \notin ProcessSteps \cup ProxySteps
  /\ \/ machine' = Whole(step, machine) /\ admin' = Advanced /\ faults' = faults
     \/ Faulty /\ machine' \in Part(step, machine) /\ admin' = AfterFailure
     \/ Faulty /\ machine' \in Part(step, machine) /\ admin' = Idle
  /\ UNCHANGED <<os, setting, present, processes, excused>>

BeginSweep(step, kind) ==
  /\ Step(step) /\ admin.sweep.left = {}
  /\ LET sweep == Start(kind)
     IN admin' = IF sweep.left # {} THEN [admin EXCEPT !.sweep = sweep]
                 ELSE IF sweep.failed THEN AfterFailure ELSE Advanced
  /\ PassOver(kind)
  /\ UNCHANGED <<proxyVars, machine, processes>>

AdminSweeps ==
  /\ admin.sweep.left # {}
  /\ \E next \in {Next1(admin.sweep, ok) : ok \in BOOLEAN} :
       /\ SweepStep(admin.sweep, next)
       /\ admin' = IF next.left # {} THEN [admin EXCEPT !.sweep = next]
                   ELSE IF next.failed THEN AfterFailure ELSE Advanced
  /\ Excuse(admin.sweep)
  /\ UNCHANGED <<machine, processes>>

(* The service manager sends the signal and waits for the process.         *)
AwaitWorker(step) ==
  /\ Step(step) /\ worker.pc # "off" /\ worker.stop = "no"
  /\ StopWorker /\ loaded' = loaded \ {"worker"}
  /\ UNCHANGED <<proxyVars, machine, admin, helper, call, late, outside, excused>>

AwaitHelper(step) ==
  /\ Step(step) /\ helper.pc = "up"
  /\ helper' = [pc |-> "stopping", sweep |-> Start("unset")]
  /\ loaded' = loaded \ {"helper"} /\ PassOver("unset")
  /\ UNCHANGED <<proxyVars, machine, admin, worker, call, late, outside>>

(* A start stops what runs first, except on Windows.                       *)
Stopping(job) == IF job = "worker" THEN "stopWorker" ELSE "stopHelper"
Starting(job) == IF job = "worker" THEN "startWorker" ELSE "startHelper"
Gone(job) == IF job = "worker" THEN worker.pc = "off" ELSE helper.pc = "off"

Signal ==
  \/ AwaitWorker("stopWorker") \/ AwaitHelper("stopHelper")
  \/ os # "windows" /\ (AwaitWorker("startWorker") \/ AwaitHelper("startHelper"))

Stopped(job) ==
  /\ Step(Stopping(job)) /\ Gone(job)
  /\ loaded' = loaded \ {job} /\ admin' = Advanced
  /\ UNCHANGED <<proxyVars, machine, worker, helper, call, late, outside, excused>>

(* Slip: started, not restarted: what runs goes on with what it loaded.    *)
StartedBeside(job) ==
  /\ Step(Starting(job))
  /\ loaded' = loaded \cup {job} /\ admin' = Advanced
  /\ UNCHANGED <<proxyVars, machine, worker, helper, call, late, outside, excused>>

Started(job) ==
  /\ Step(Starting(job)) /\ (Gone(job) \/ os = "windows")
  /\ loaded' = loaded \cup {job} /\ admin' = Advanced
  /\ UNCHANGED <<proxyVars, machine, worker, helper, call, late, outside, excused>>

(* Both run, and the port answers.                                         *)
Answers == worker.pc = "serving" /\ helper.pc # "off" /\ outside.answering

Waited ==
  /\ Step("wait")
  /\ \/ Answers /\ admin' = Advanced /\ faults' = faults
     \/ ~Answers /\ Faulty /\ admin' = AfterFailure
     \/ ~Answers /\ (outside.refusing \/ ~CanStart(machine)) /\ admin' = AfterFailure /\ faults' = faults
  /\ UNCHANGED <<os, setting, present, machine, processes, excused>>

AdminEnds ==
  /\ admin.doing # "idle" /\ admin.plan = <<>>
  /\ admin' = [Idle EXCEPT !.ended = admin.doing]
  /\ UNCHANGED <<proxyVars, machine, processes, excused>>

-----------------------------------------------------------------------------
(* What happens around them, all of it counted.                            *)

Outside ==
  /\ Faulty
  /\ \/ outside' = [outside EXCEPT !.refusing = ~@] /\ UNCHANGED <<os, setting, present>>
     \/ outside' = [outside EXCEPT !.answering = ~@] /\ UNCHANGED <<os, setting, present>>
     \/ \E t \in Places : ComeOrGo(t) /\ outside' = outside
     \/ \E t \in Places, s \in {None, Own} : Drift(t, s) /\ outside' = outside
  /\ UNCHANGED <<machine, admin, loaded, worker, helper, call, late, excused>>

Callers == {"health", "stop", "main"}
Jobs == {"worker", "helper"}
Steps == {"key", "cert", "copy", "account", "dirs", "binary", "jobs", "trust", "publish", "env",
          "removeEnv", "dropJobs", "dropAccount", "dropBinary", "dropPublic", "untrust"}

AdminGoesOn ==
  \/ \E step \in Steps : MachineStep(step)
  \/ BeginSweep("setProxy", "set") \/ BeginSweep("unsetProxy", "unset") \/ AdminSweeps
  \/ Signal \/ (\E job \in Jobs : Stopped(job) \/ Started(job))
  \/ Waited \/ AdminEnds
Mishap == TimeOut \/ ListenerFails \/ WorkerKilled \/ HelperKilled \/ Reboot \/ Outside

Next ==
  \/ \E who \in Callers : Ask(who) \/ Refused(who)
  \/ Serve \/ Return \/ ServeLate
  \/ WorkerStarts \/ Listen \/ Dial \/ Look \/ WorkerExits
  \/ HelperStarts \/ HelperUnsets \/ HelperExits
  \/ AdminGoesOn \/ (\E c \in Commands : Begin(c)) \/ Mishap

(* Processes, the service manager and a command that was begun go on; a    *)
(* goroutine that waits for a Go mutex gets it. Nothing makes an           *)
(* administrator begin a command.                                          *)
Fairness ==
  /\ \A who \in Callers : SF_vars(Ask(who) \/ Refused(who))
  /\ WF_vars(Serve) /\ WF_vars(Return) /\ WF_vars(ServeLate)
  /\ WF_vars(WorkerStarts) /\ WF_vars(Listen) /\ WF_vars(Dial) /\ WF_vars(Look)
  /\ WF_vars(WorkerExits)
  /\ WF_vars(HelperStarts) /\ WF_vars(HelperUnsets) /\ WF_vars(HelperExits)
  /\ WF_vars(AdminGoesOn)

Spec == Init /\ [][Next]_vars /\ Fairness

-----------------------------------------------------------------------------
(* Properties.                                                             *)

(* The types, and that a request is somebody's who waits for it.           *)
LifecycleTypeOK ==
  /\ setting \in [Places -> Setting] /\ present \subseteq Places /\ faults \in 0 .. MaxFaults
  /\ machine.things \subseteq Thing /\ loaded \subseteq Jobs /\ excused \subseteq Places
  /\ worker \in Worker /\ helper \in Helper /\ late \in Sweep
  /\ call = NoCall \/ Wants(call.who)

(* Once an uninstall or a rollback is over and both processes are gone, a  *)
(* place needs our port only for a reason: its last write failed, it was   *)
(* disabled at every Unset, or a request overtook the undoing.             *)
Removed ==
  /\ admin.doing = "idle" /\ admin.ended \in {"uninstall", "rollback"}
  /\ worker.pc = "off" /\ helper.pc = "off"
LeftBehindForAReason == Removed => {t \in Places : DependsOnUs(setting[t])} \subseteq excused

(* An install that says it is done has left a worker that can start, with  *)
(* the root that is trusted, whatever was there before.                    *)
InstalledIsComplete ==
  admin.ended = "install" =>
    /\ CanStart(machine)
    /\ machine.copy.current /\ "current" \in machine.trusted
    /\ {"vars", "public"} \subseteq machine.things

(* As long as nothing goes wrong, install points no place at a worker that *)
(* is not there yet, or about to leave.                                    *)
PointedAtARunningWorker ==
  faults = 0 /\ admin.sweep.left # {} /\ admin.sweep.kind = "set" =>
    worker.pc = "serving" /\ worker.stop = "no"

(* The agent owns the setting: while it runs with its helper, every place  *)
(* that drifts or appears is pointed at it again.                          *)
Steady ==
  /\ worker.pc = "serving" /\ worker.source = "helper" /\ worker.stop = "no"
  /\ helper.pc = "up" /\ admin.doing = "idle"
Managed ==
  <>[](Steady /\ outside.answering) => []<>(\A t \in present : setting[t] = Ours)

(* A listener that stops answering loses the traffic: what is pointed at   *)
(* it is taken away, but for a half-written Linux setting, which Unset     *)
(* does not recognise.                                                     *)
HalfWritten(s) == os = "linux" /\ s.a # s.b
FailsOpen ==
  <>[](Steady /\ ~outside.answering) =>
    []<>(\A t \in present : DependsOnUs(setting[t]) => HalfWritten(setting[t]))

(* After an uninstall or a rollback nothing needs our port.                *)
NothingLeftBehind == Removed => \A t \in Places : ~DependsOnUs(setting[t])

(* `ca ensure` leaves a root the agent can use.                            *)
EnsuredIsUsable == admin.ended = "ensure" => machine.root = "good"
=============================================================================
