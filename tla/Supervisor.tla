----------------------------- MODULE Supervisor -----------------------------
(***************************************************************************)
(* monitord's supervisor (crates/monitord/src/supervisor.rs).               *)
(*                                                                         *)
(* One task boots the services in dependency order and then loops over      *)
(* three timers: reap and restart exited services, check health, kick the   *)
(* hardware watchdog.  Everything it does is sequential, including the      *)
(* waits inside start_service; what runs beside it are the services'        *)
(* processes, which may end at any moment.  No other task writes the table  *)
(* of services, so a status cannot change while start_service waits for it. *)
(***************************************************************************)
EXTENDS Naturals, Sequences, FiniteSets

CONSTANTS
  Services,      \* names of the services
  Order,         \* startup_order: the services, dependencies first
  Deps,          \* service -> the services its manifest depends on
  Critical,      \* services whose manifest says critical: true
  Policy,        \* service -> "always", "on-failure" or "never"
  Health,        \* service -> "none", "process", "bus" or "tcp"
  Bus,           \* the service behind the bus socket ("stardust")
  Present,       \* services whose binary exists
  MaxCrash,      \* service -> max_crash_count
  SpawnMayFail,  \* whether spawning a present binary may fail
  MapOutcomes,   \* what DashMap::get_mut may do on the shard that an iterator
                 \* of the same task still holds: "blocked" (the library's own
                 \* behaviour) or "borrowed" (what the code is written for)
  ExitKinds,     \* how a process may end: with code 0 ("exit0"), with another
                 \* one ("exit1"), or "gone": reaped by the kernel itself, as
                 \* it does when SIGCHLD is ignored, which a monitord started
                 \* from inis's main loop inherits and passes on
  MaxExits       \* bound: exits of processes over the supervisor's life

ASSUME ServicesAssumption ==
  /\ Critical \subseteq Services /\ Present \subseteq Services
  /\ Bus \in Services
  /\ Deps \in [Services -> SUBSET Services]
  /\ Policy \in [Services -> {"always", "on-failure", "never"}]
  /\ Health \in [Services -> {"none", "process", "bus", "tcp"}]
  /\ MaxCrash \in [Services -> Nat]
  /\ SpawnMayFail \in BOOLEAN
  /\ MapOutcomes \subseteq {"blocked", "borrowed"}
  /\ ExitKinds \subseteq {"exit0", "exit1", "gone"}
  /\ MaxExits \in Nat

(* What topological_sort delivers: every service once, after what it needs. *)
ASSUME OrderAssumption ==
  /\ Order \in Seq(Services)
  /\ \A s \in Services : \E i \in 1 .. Len(Order) : Order[i] = s
  /\ \A i, j \in 1 .. Len(Order) : Order[i] = Order[j] => i = j
  /\ \A i, j \in 1 .. Len(Order) : Order[j] \in Deps[Order[i]] => j < i

Status == {"Pending", "Starting", "Running", "Failed", "CrashedLoop", "Stopped"}
Proc == {"none", "up", "exit0", "exit1", "gone"}
MaxHealthFailures == 3

VARIABLES
  status,       \* service -> ServiceStatus (its reason left out)
  child,        \* service -> whether a Child handle is held
  proc,         \* service -> its process as the kernel sees it
  crashes,      \* service -> crash_timestamps inside the window
  healthFails,  \* service -> consecutive failed health checks
  pc,           \* where the supervisor task is
  caller,       \* who called start_service: "boot", "monitor" or "health"
  cur,          \* the service start_service or kill_service works on
  bootIdx,      \* position in Order during boot
  todo,         \* services the running iteration has still to visit
  restartQ,     \* to_restart
  exits,        \* process exits so far
  kicked        \* flips with every kick of the watchdog

taskVars == <<pc, caller, cur, bootIdx, todo, restartQ>>
vars == <<status, child, proc, crashes, healthFails, taskVars, exits, kicked>>

(* Where the task can be: the boot loop, the three parts of start_service,  *)
(* the select, the two iterations, the restarts after the first one,        *)
(* kill_service, and the two ends.                                          *)
Pc == {"boot", "deps", "spawn", "settle", "idle", "monitor", "restart",
       "health", "kill", "exited", "wedged"}

Init ==
  /\ status = [s \in Services |-> "Pending"]
  /\ child = [s \in Services |-> FALSE]
  /\ proc = [s \in Services |-> "none"]
  /\ crashes = [s \in Services |-> 0]
  /\ healthFails = [s \in Services |-> 0]
  /\ pc = "boot"
  /\ caller = "boot"
  /\ cur = Bus
  /\ bootIdx = 1
  /\ todo = {}
  /\ restartQ = <<>>
  /\ exits = 0
  /\ kicked = FALSE

----------------------------------------------------------------------------
(* The processes.                                                          *)

ProcExit(s, code) ==
  /\ proc[s] = "up"
  /\ exits < MaxExits
  /\ exits' = exits + 1
  /\ proc' = [proc EXCEPT ![s] = code]
  /\ UNCHANGED <<status, child, crashes, healthFails, taskVars, kicked>>

----------------------------------------------------------------------------
(* start_service, called with cur set and pc = "deps".                      *)

(* Fault: the critical flag is not looked at.                               *)
BootGoesOnAnyway(ok) == TRUE

(* Boot goes on without a service only if that is not critical.             *)
BootGoesOn(ok) == ok \/ cur \notin Critical

(* start_service returns: to the boot loop (or to main, which exits), to    *)
(* the restarts or to the health iteration.                                 *)
Return(ok) ==
  /\ \/ /\ caller = "boot"
        /\ BootGoesOn(ok)
        /\ pc' = "boot"
        /\ bootIdx' = bootIdx + 1
     \/ /\ caller = "boot"
        /\ ~BootGoesOn(ok)
        /\ pc' = "exited"
        /\ UNCHANGED bootIdx
     \/ /\ caller = "monitor"
        /\ pc' = "restart"
        /\ UNCHANGED bootIdx
     \/ /\ caller = "health"
        /\ pc' = "health"
        /\ UNCHANGED bootIdx
  /\ UNCHANGED <<caller, cur, todo, restartQ>>

(* Every dependency is Running when it is looked at.                        *)
DepsRunning ==
  /\ pc = "deps"
  /\ \A d \in Deps[cur] : status[d] = "Running"
  /\ pc' = "spawn"
  /\ UNCHANGED <<status, child, proc, crashes, healthFails, caller, cur,
                 bootIdx, todo, restartQ, exits, kicked>>

(* Fault: the wait for a dependency has no timeout.                         *)
DepsMissingNoTimeout ==
  /\ pc = "deps"
  /\ \E d \in Deps[cur] : status[d] \in {"Failed", "CrashedLoop"}
  /\ Return(FALSE)
  /\ UNCHANGED <<status, child, proc, crashes, healthFails, exits, kicked>>

(* Some dependency is not: an error at once if it is Failed or CrashedLoop, *)
(* after 30 s otherwise, as nothing else can make it Running meanwhile.     *)
DepsMissing ==
  /\ pc = "deps"
  /\ \E d \in Deps[cur] : status[d] # "Running"
  /\ Return(FALSE)
  /\ UNCHANGED <<status, child, proc, crashes, healthFails, exits, kicked>>

BinaryMissing ==
  /\ pc = "spawn"
  /\ cur \notin Present
  /\ status' = [status EXCEPT ![cur] = "Failed"]
  /\ Return(FALSE)
  /\ UNCHANGED <<child, proc, crashes, healthFails, exits, kicked>>

(* fork or exec fails: an error, and the status stays what it was.          *)
SpawnFails ==
  /\ pc = "spawn"
  /\ cur \in Present
  /\ SpawnMayFail
  /\ Return(FALSE)
  /\ UNCHANGED <<status, child, proc, crashes, healthFails, exits, kicked>>

Spawn ==
  /\ pc = "spawn"
  /\ cur \in Present
  /\ status' = [status EXCEPT ![cur] = "Starting"]
  /\ child' = [child EXCEPT ![cur] = TRUE]
  /\ proc' = [proc EXCEPT ![cur] = "up"]
  /\ pc' = "settle"
  /\ UNCHANGED <<crashes, healthFails, caller, cur, bootIdx, todo, restartQ,
                 exits, kicked>>

(* The wait for the first healthy answer ends, one way or the other.        *)
MarkRunning ==
  /\ pc = "settle"
  /\ status' = [status EXCEPT ![cur] = "Running"]
  /\ Return(TRUE)
  /\ UNCHANGED <<child, proc, crashes, healthFails, exits, kicked>>

StartService ==
  \/ DepsRunning \/ DepsMissing
  \/ BinaryMissing \/ SpawnFails \/ Spawn
  \/ MarkRunning

----------------------------------------------------------------------------
(* boot and the select of run.                                              *)

BootNext ==
  /\ pc = "boot"
  /\ bootIdx <= Len(Order)
  /\ cur' = Order[bootIdx]
  /\ pc' = "deps"
  /\ UNCHANGED <<status, child, proc, crashes, healthFails, caller, bootIdx,
                 todo, restartQ, exits, kicked>>

BootDone ==
  /\ pc = "boot"
  /\ bootIdx > Len(Order)
  /\ pc' = "idle"
  /\ UNCHANGED <<status, child, proc, crashes, healthFails, caller, cur,
                 bootIdx, todo, restartQ, exits, kicked>>

MonitorTick ==
  /\ pc = "idle"
  /\ pc' = "monitor"
  /\ todo' = Services
  /\ UNCHANGED <<status, child, proc, crashes, healthFails, caller, cur,
                 bootIdx, restartQ, exits, kicked>>

HealthTick ==
  /\ pc = "idle"
  /\ pc' = "health"
  /\ todo' = Services
  /\ UNCHANGED <<status, child, proc, crashes, healthFails, caller, cur,
                 bootIdx, restartQ, exits, kicked>>

WatchdogTick ==
  /\ pc = "idle"
  /\ kicked' = ~kicked
  /\ UNCHANGED <<status, child, proc, crashes, healthFails, taskVars, exits>>

----------------------------------------------------------------------------
(* monitor_services.                                                       *)

Visit(s) == s \in todo /\ todo' = todo \ {s}

(* Fault: only services that are still starting are looked at.              *)
WatchedWhileStarting(s) == status[s] = "Starting"

Watched(s) == status[s] \in {"Running", "Starting"}

(* try_wait is called on every watched service, through get_mut.            *)
MonitorSkip(s) ==
  /\ pc = "monitor"
  /\ Visit(s)
  /\ \/ ~Watched(s)
     \/ "borrowed" \in MapOutcomes /\ (~child[s] \/ proc[s] = "up")
  /\ UNCHANGED <<status, child, proc, crashes, healthFails, pc, caller, cur,
                 bootIdx, restartQ, exits, kicked>>

(* try_wait fails with ECHILD, as the process was reaped elsewhere: the     *)
(* entry is left as it is.                                                  *)
MonitorError(s) ==
  /\ pc = "monitor"
  /\ Visit(s)
  /\ Watched(s)
  /\ "borrowed" \in MapOutcomes
  /\ child[s]
  /\ proc[s] = "gone"
  /\ UNCHANGED <<status, child, proc, crashes, healthFails, pc, caller, cur,
                 bootIdx, restartQ, exits, kicked>>

(* get_mut waits for the iterator of the same task: for ever.               *)
MonitorWedge(s) ==
  /\ pc = "monitor"
  /\ Visit(s)
  /\ Watched(s)
  /\ "blocked" \in MapOutcomes
  /\ pc' = "wedged"
  /\ UNCHANGED <<status, child, proc, crashes, healthFails, caller, cur,
                 bootIdx, restartQ, exits, kicked>>

ShouldRestart(s) ==
  \/ Policy[s] = "always"
  \/ Policy[s] = "on-failure" /\ proc[s] # "exit0"

(* Fault: off by one in the crash budget.                                   *)
LoopingLate(s, n) == n > MaxCrash[s] + 1

(* n crashes inside the window are a crash loop.                            *)
Looping(s, n) == n > MaxCrash[s]

(* Fault: an exited service is put back to its initial status.              *)
AfterExitReset(s, n) == IF Looping(s, n) THEN "CrashedLoop" ELSE "Pending"

(* Fault: a crash loop does not keep the service out of to_restart.         *)
RequeuedLooping(s, n) == ShouldRestart(s)

(* What becomes of service s at its n-th crash, and whether to_restart      *)
(* takes it.                                                                *)
AfterExit(s, n) ==
  IF Looping(s, n) THEN "CrashedLoop"
  ELSE IF ShouldRestart(s) THEN "Failed" ELSE "Stopped"

Requeued(s, n) == ~Looping(s, n) /\ ShouldRestart(s)

(* Fault: the stale Child handle is kept.                                   *)
ReleaseKeepingChild(s) ==
  /\ UNCHANGED child
  /\ proc' = [proc EXCEPT ![s] = "none"]

(* The Child handle is given up and the process is gone.                    *)
Release(s) ==
  /\ child' = [child EXCEPT ![s] = FALSE]
  /\ proc' = [proc EXCEPT ![s] = "none"]

(* The exit is reaped.  Of the earlier crash timestamps, kept many are      *)
(* still inside the window.                                                 *)
Reap(s, kept) ==
  /\ pc = "monitor"
  /\ Visit(s)
  /\ Watched(s)
  /\ "borrowed" \in MapOutcomes
  /\ child[s]
  /\ proc[s] \in {"exit0", "exit1"}
  /\ crashes' = [crashes EXCEPT ![s] = kept + 1]
  /\ Release(s)
  /\ status' = [status EXCEPT ![s] = AfterExit(s, kept + 1)]
  /\ restartQ' = IF Requeued(s, kept + 1) THEN Append(restartQ, s) ELSE restartQ
  /\ UNCHANGED <<healthFails, pc, caller, cur, bootIdx, exits, kicked>>

MonitorEnd ==
  /\ pc = "monitor"
  /\ todo = {}
  /\ pc' = "restart"
  /\ UNCHANGED <<status, child, proc, crashes, healthFails, caller, cur,
                 bootIdx, todo, restartQ, exits, kicked>>

(* The restarts follow one another at once: restart_delay_ms is not used.   *)
RestartNext ==
  /\ pc = "restart"
  /\ restartQ # <<>>
  /\ cur' = Head(restartQ)
  /\ restartQ' = Tail(restartQ)
  /\ caller' = "monitor"
  /\ pc' = "deps"
  /\ UNCHANGED <<status, child, proc, crashes, healthFails, bootIdx, todo,
                 exits, kicked>>

RestartEnd ==
  /\ pc = "restart"
  /\ restartQ = <<>>
  /\ pc' = "idle"
  /\ UNCHANGED <<status, child, proc, crashes, healthFails, caller, cur,
                 bootIdx, todo, restartQ, exits, kicked>>

----------------------------------------------------------------------------
(* health_check_all.                                                       *)

Checked(s) == status[s] = "Running" /\ Health[s] # "none"

HealthSkip(s) ==
  /\ pc = "health"
  /\ Visit(s)
  /\ ~Checked(s)
  /\ UNCHANGED <<status, child, proc, crashes, healthFails, pc, caller, cur,
                 bootIdx, restartQ, exits, kicked>>

(* A check over the bus passes whenever the broker takes the connection,    *)
(* whatever the service itself does.                                        *)
HealthPass(s) ==
  /\ pc = "health"
  /\ Visit(s)
  /\ Checked(s)
  /\ Health[s] = "bus" => proc[Bus] = "up"
  /\ healthFails' = [healthFails EXCEPT ![s] = 0]
  /\ UNCHANGED <<status, child, proc, crashes, pc, caller, cur, bootIdx,
                 restartQ, exits, kicked>>

(* Fault: the failure threshold is not looked at.                           *)
HealthFailUnbounded(s) ==
  /\ pc = "health"
  /\ Visit(s)
  /\ Checked(s)
  /\ Health[s] # "process"
  /\ healthFails' = [healthFails EXCEPT ![s] = @ + 1]
  /\ UNCHANGED <<status, child, proc, crashes, pc, caller, cur, bootIdx,
                 restartQ, exits, kicked>>

HealthFail(s) ==
  /\ pc = "health"
  /\ Visit(s)
  /\ Checked(s)
  /\ Health[s] # "process"
  /\ healthFails[s] + 1 < MaxHealthFailures
  /\ healthFails' = [healthFails EXCEPT ![s] = @ + 1]
  /\ UNCHANGED <<status, child, proc, crashes, pc, caller, cur, bootIdx,
                 restartQ, exits, kicked>>

(* The third failure in a row: failures.remove would wait for the entry     *)
(* that is still borrowed, get_mut for the iterator.                        *)
HealthGiveUp(s) ==
  /\ pc = "health"
  /\ Visit(s)
  /\ Checked(s)
  /\ Health[s] # "process"
  /\ healthFails[s] + 1 >= MaxHealthFailures
  /\ \/ /\ "blocked" \in MapOutcomes
        /\ pc' = "wedged"
        /\ healthFails' = [healthFails EXCEPT ![s] = @ + 1]
        /\ UNCHANGED cur
     \/ /\ "borrowed" \in MapOutcomes
        /\ pc' = "kill"
        /\ healthFails' = [healthFails EXCEPT ![s] = 0]
        /\ cur' = s
  /\ UNCHANGED <<status, child, proc, crashes, caller, bootIdx, restartQ,
                 exits, kicked>>

(* SIGTERM, half a second, SIGKILL; then the service is restarted whatever  *)
(* its policy, and without counting as a crash.                             *)
KillService ==
  /\ pc = "kill"
  /\ Release(cur)
  /\ status' = [status EXCEPT ![cur] = "Failed"]
  /\ caller' = "health"
  /\ pc' = "deps"
  /\ UNCHANGED <<crashes, healthFails, cur, bootIdx, todo, restartQ, exits,
                 kicked>>

HealthEnd ==
  /\ pc = "health"
  /\ todo = {}
  /\ pc' = "idle"
  /\ UNCHANGED <<status, child, proc, crashes, healthFails, caller, cur,
                 bootIdx, todo, restartQ, exits, kicked>>

----------------------------------------------------------------------------
Monitor ==
  \/ \E s \in Services : \/ MonitorSkip(s) \/ MonitorError(s)
                         \/ MonitorWedge(s)
                         \/ \E kept \in 0 .. crashes[s] : Reap(s, kept)
  \/ MonitorEnd \/ RestartNext \/ RestartEnd

HealthCheck ==
  \/ \E s \in Services : \/ HealthSkip(s) \/ HealthPass(s)
                         \/ HealthFail(s) \/ HealthGiveUp(s)
  \/ KillService \/ HealthEnd

Task ==
  \/ BootNext \/ BootDone \/ StartService
  \/ MonitorTick \/ HealthTick \/ WatchdogTick
  \/ Monitor \/ HealthCheck

Next ==
  \/ Task
  \/ \E s \in Services, code \in ExitKinds : ProcExit(s, code)

Spec == Init /\ [][Next]_vars

(* The task is always rescheduled, and select! picks among the ready timers *)
(* at random: no timer is passed over for ever.                             *)
FairSpec ==
  /\ Spec
  /\ WF_vars(Task)
  /\ SF_vars(MonitorTick) /\ SF_vars(HealthTick) /\ SF_vars(WatchdogTick)

----------------------------------------------------------------------------
(* Properties.                                                             *)

(* The state is well formed.                                                *)
TypeOK ==
  /\ status \in [Services -> Status]
  /\ child \in [Services -> BOOLEAN]
  /\ proc \in [Services -> Proc]
  /\ crashes \in [Services -> Nat]
  /\ healthFails \in [Services -> 0 .. MaxHealthFailures]
  /\ pc \in Pc
  /\ caller \in {"boot", "monitor", "health"}
  /\ cur \in Services
  /\ bootIdx \in Nat \ {0}
  /\ todo \in SUBSET Services
  /\ restartQ \in Seq(Services)
  /\ exits \in Nat
  /\ kicked \in BOOLEAN

(* A Child handle is held exactly for the services monitor_services looks   *)
(* at, and every process has one, for as long as monitord itself runs: no   *)
(* process is left unsupervised, and none is watched without a handle.      *)
Supervised ==
  pc # "exited" =>
    \A s \in Services : /\ child[s] <=> Watched(s)
                        /\ proc[s] # "none" => child[s]

(* start_service only runs for a service that has no process and whose      *)
(* status allows it, on each of its three ways in: it never overwrites a    *)
(* live Child handle and never revives a CrashedLoop or Stopped service.    *)
StartsOnlyDead ==
  pc \in {"deps", "spawn"} =>
    status[cur] \in {"Pending", "Failed"} /\ proc[cur] = "none"

(* Crash-loop bound: a service that is still (re)started has crashed at     *)
(* most max_crash_count times inside the window.                            *)
CrashBudget ==
  \A s \in Services :
    /\ crashes[s] <= MaxCrash[s] + 1
    /\ crashes[s] > MaxCrash[s] => status[s] = "CrashedLoop"

(* Once boot is over, every critical service has been brought up, in        *)
(* dependency order: boot does not go on without one.                       *)
BootedCritical ==
  (pc \notin {"boot", "exited"}
     /\ ~(caller = "boot" /\ pc \in {"deps", "spawn", "settle"}))
    => \A s \in Critical : status[s] # "Pending"

Life == INSTANCE ServiceLifecycle
          WITH st <- status, alive <- [s \in Services |-> proc[s] = "up"]

(* Every service lives the life ServiceLifecycle promises: whatever the     *)
(* interleaving of exits, monitor passes and health checks, each step of    *)
(* the supervisor is one legal step of one service, or invisible.           *)
FollowsLifecycle == Life!LifeSpec

(* An exit that the kernel reports to monitord is noticed: the handle of    *)
(* the process is eventually given up (unless monitord itself has exited).  *)
(* One that try_wait answers with an error never is, whatever the comment   *)
(* on monitor_services ("cek yang mati, handle restart") says.              *)
ExitNoticed ==
  \A s \in Services :
    (child[s] /\ proc[s] \in {"exit0", "exit1"}) ~> (~child[s] \/ pc = "exited")

(* Boot comes to an end even if services fail to start: a dependency that   *)
(* will never be Running holds its dependents up, but not for ever.         *)
BootCompletes == <>(pc \in {"idle", "exited"})

(* The watchdog goes on being kicked, whatever the services do: "Watchdog   *)
(* tetap dikick oleh monitord yang masih hidup" (supervisor.rs).            *)
WatchdogKicked ==
  <>(pc = "exited") \/ ([]<>kicked /\ []<>~kicked)

=============================================================================
