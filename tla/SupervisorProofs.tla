-------------------------- MODULE SupervisorProofs --------------------------
(***************************************************************************)
(* Proofs about monitord's supervisor: its inductive invariant, the safety  *)
(* properties that follow from it, and that it implements ServiceLifecycle. *)
(***************************************************************************)
EXTENDS Supervisor, SequenceTheorems, TLAPS

USE DEF Status, Proc, Pc, MaxHealthFailures

(* start_service is under way.                                              *)
InStart == pc \in {"deps", "spawn", "settle"}

(* A handle for exactly the watched services, a handle for every process.   *)
Handles ==
  \A s \in Services : /\ child[s] <=> Watched(s)
                      /\ proc[s] # "none" => child[s]

(* Starting is the status of the one service start_service waits for.       *)
OneStarting ==
  /\ pc = "settle" => status[cur] = "Starting"
  /\ \A s \in Services : status[s] = "Starting" => pc = "settle" /\ s = cur

(* Only a Running service is killed.                                        *)
KillsRunning == pc = "kill" => status[cur] = "Running"

(* The services of to_restart are Failed, distinct, and not the one being   *)
(* started; outside the monitor pass there are none.                        *)
QueueFailed ==
  /\ \A i \in 1 .. Len(restartQ) : status[restartQ[i]] = "Failed"
  /\ \A i, j \in 1 .. Len(restartQ) : restartQ[i] = restartQ[j] => i = j
  /\ InStart => \A i \in 1 .. Len(restartQ) : restartQ[i] # cur
  /\ pc \in {"boot", "idle", "health", "kill"} => Len(restartQ) = 0
  /\ InStart /\ caller # "monitor" => Len(restartQ) = 0

(* The boot loop has come to bootIdx: what lies ahead is Pending, what lies *)
(* behind is not, if it is critical.                                        *)
BootProgress ==
  /\ bootIdx <= Len(Order) + 1
  /\ pc = "boot" =>
       /\ caller = "boot"
       /\ \A i \in bootIdx .. Len(Order) : status[Order[i]] = "Pending"
  /\ InStart /\ caller = "boot" =>
       /\ bootIdx <= Len(Order)
       /\ cur = Order[bootIdx]
       /\ \A i \in bootIdx + 1 .. Len(Order) : status[Order[i]] = "Pending"
  /\ \A i \in 1 .. bootIdx - 1 :
       Order[i] \in Critical => status[Order[i]] # "Pending"
  /\ pc \notin {"boot", "exited"} /\ ~(InStart /\ caller = "boot")
       => bootIdx = Len(Order) + 1

(* A service has fewer than three failed checks behind it until the task    *)
(* stops for ever.                                                          *)
Strikes ==
  pc # "wedged" => \A s \in Services : healthFails[s] < MaxHealthFailures

(* The inductive invariant.                                                 *)
SupInv ==
  /\ TypeOK
  /\ Handles
  /\ OneStarting
  /\ KillsRunning
  /\ QueueFailed
  /\ StartsOnlyDead
  /\ CrashBudget
  /\ BootProgress
  /\ Strikes

----------------------------------------------------------------------------
(* The steps, grouped by what they can disturb.                             *)

(* Only the place of the task, its work list or the watchdog changes.       *)
Move ==
  \/ DepsRunning \/ BootDone \/ MonitorTick \/ HealthTick \/ WatchdogTick
  \/ MonitorEnd \/ RestartEnd \/ HealthEnd

(* A service is visited and left as it is.                                  *)
Look(s) ==
  \/ MonitorSkip(s) \/ MonitorError(s) \/ MonitorWedge(s)
  \/ HealthSkip(s) \/ HealthPass(s) \/ HealthFail(s)

(* start_service fails without a trace in the table.                        *)
GiveBack == DepsMissing \/ SpawnFails

(* Every step is one of these.                                              *)
LEMMA NextCases ==
  ASSUME [Next]_vars
  PROVE  \/ Move
         \/ \E s \in Services : Look(s)
         \/ GiveBack
         \/ BinaryMissing
         \/ Spawn
         \/ MarkRunning
         \/ BootNext
         \/ RestartNext
         \/ KillService
         \/ \E s \in Services : \E kept \in 0 .. crashes[s] : Reap(s, kept)
         \/ \E s \in Services : HealthGiveUp(s)
         \/ \E s \in Services, code \in ExitKinds : ProcExit(s, code)
         \/ UNCHANGED vars
  BY DEF Next, Task, StartService, Monitor, HealthCheck, Move, Look, GiveBack

(* What the proofs use of the start order.                                  *)
LEMMA OrderFacts ==
  /\ Len(Order) \in Nat
  /\ \A i \in 1 .. Len(Order) : Order[i] \in Services
  /\ \A i, j \in 1 .. Len(Order) : Order[i] = Order[j] => i = j
<1>1. Order \in Seq(Services)
  BY OrderAssumption
<1>2. \A i, j \in 1 .. Len(Order) : Order[i] = Order[j] => i = j
  BY OrderAssumption
<1> QED
  BY <1>1, <1>2

(* The types are kept.                                                      *)
LEMMA TypeOKStep ==
  ASSUME TypeOK, Strikes, [Next]_vars
  PROVE  TypeOK'
<1> USE DEF TypeOK, Strikes
<1>1. CASE Move
  BY <1>1 DEF Move, DepsRunning, BootDone, MonitorTick, HealthTick,
       WatchdogTick, MonitorEnd, RestartEnd, HealthEnd, taskVars
<1>2. ASSUME NEW s \in Services, Look(s)
      PROVE  TypeOK'
  <2>1. healthFails' \in [Services -> 0 .. MaxHealthFailures]
    <3>1. CASE \/ MonitorSkip(s) \/ MonitorError(s)
               \/ MonitorWedge(s) \/ HealthSkip(s)
      BY <3>1 DEF MonitorSkip, MonitorError, MonitorWedge, HealthSkip
    <3>2. CASE HealthPass(s)
      BY <3>2 DEF HealthPass
    <3>3. CASE HealthFail(s)
      <4>1. healthFails[s] + 1 \in 0 .. MaxHealthFailures
        <5>1. healthFails[s] \in 0 .. 3
          OBVIOUS
        <5>2. healthFails[s] + 1 < 3
          BY <3>3 DEF HealthFail
        <5> QED
          BY <5>1, <5>2
      <4> QED
        BY <3>3, <4>1 DEF HealthFail
    <3> QED
      BY <1>2, <3>1, <3>2, <3>3 DEF Look
  <2> QED
    BY <1>2, <2>1 DEF Look, MonitorSkip, MonitorError,
         MonitorWedge, HealthSkip, HealthPass, HealthFail, Visit
<1>3. CASE GiveBack
  BY <1>3 DEF GiveBack, DepsMissing, SpawnFails, Return, BootGoesOn
<1>4. CASE BinaryMissing
  BY <1>4 DEF BinaryMissing, Return, BootGoesOn
<1>5. CASE Spawn
  BY <1>5 DEF Spawn
<1>6. CASE MarkRunning
  BY <1>6 DEF MarkRunning, Return, BootGoesOn
<1>7. CASE BootNext
  <2>1. Order[bootIdx] \in Services
    BY <1>7, OrderFacts DEF BootNext
  <2> QED
    BY <1>7, <2>1 DEF BootNext
<1>8. CASE RestartNext
  BY <1>8 DEF RestartNext
<1>9. CASE KillService
  BY <1>9 DEF KillService, Release
<1>10. ASSUME NEW s \in Services, NEW kept \in 0 .. crashes[s],
            Reap(s, kept)
      PROVE  TypeOK'
  BY <1>10 DEF Reap, Visit, Watched, Looping, AfterExit, Requeued, Release
<1>11. ASSUME NEW s \in Services, HealthGiveUp(s)
      PROVE  TypeOK'
  <2>1. healthFails' \in [Services -> 0 .. MaxHealthFailures]
    <3>1. healthFails[s] + 1 \in 0 .. MaxHealthFailures
      <4>1. healthFails[s] \in 0 .. 3 /\ healthFails[s] < 3
        BY <1>11 DEF HealthGiveUp
      <4> QED
        BY <4>1
    <3>2. CASE pc' = "wedged"
      BY <1>11, <3>1, <3>2 DEF HealthGiveUp
    <3>3. CASE pc' # "wedged"
      <4>1. healthFails' = [healthFails EXCEPT ![s] = 0]
        BY <1>11, <3>3 DEF HealthGiveUp
      <4> QED
        BY <4>1
    <3> QED
      BY <3>2, <3>3
  <2> QED
    BY <1>11, <2>1 DEF HealthGiveUp, Visit
<1>12. ASSUME NEW s \in Services, NEW code \in ExitKinds,
            ProcExit(s, code)
      PROVE  TypeOK'
  BY <1>12, ServicesAssumption DEF ProcExit, taskVars
<1>13. CASE UNCHANGED vars
  BY <1>13 DEF vars, taskVars
<1> QED
  BY <1>1, <1>2, <1>3, <1>4, <1>5, <1>6, <1>7, <1>8, <1>9, <1>10, <1>11,
       <1>12, <1>13, NextCases

(* Handles, processes and statuses change together.                         *)
LEMMA HandlesStep ==
  ASSUME TypeOK, Handles, StartsOnlyDead, OneStarting, [Next]_vars
  PROVE  Handles'
<1> USE DEF TypeOK, Handles, StartsOnlyDead, OneStarting, Watched
<1>1. CASE Move
  BY <1>1 DEF Move, DepsRunning, BootDone, MonitorTick, HealthTick,
       WatchdogTick, MonitorEnd, RestartEnd, HealthEnd, taskVars
<1>2. ASSUME NEW s \in Services, Look(s)
      PROVE  Handles'
  BY <1>2 DEF Look, MonitorSkip, MonitorError,
       MonitorWedge, HealthSkip, HealthPass, HealthFail, Visit
<1>3. CASE GiveBack
  BY <1>3 DEF GiveBack, DepsMissing, SpawnFails
<1>4. CASE BinaryMissing
  BY <1>4 DEF BinaryMissing
<1>5. CASE Spawn
  BY <1>5 DEF Spawn
<1>6. CASE MarkRunning
  BY <1>6 DEF MarkRunning
<1>7. CASE BootNext
  BY <1>7 DEF BootNext
<1>8. CASE RestartNext
  BY <1>8 DEF RestartNext
<1>9. CASE KillService
  BY <1>9 DEF KillService, Release
<1>10. ASSUME NEW s \in Services, NEW kept \in 0 .. crashes[s],
            Reap(s, kept)
      PROVE  Handles'
  BY <1>10 DEF Reap, Visit, Watched, Looping, AfterExit, Requeued, Release
<1>11. ASSUME NEW s \in Services, HealthGiveUp(s)
      PROVE  Handles'
  BY <1>11 DEF HealthGiveUp, Visit, Checked
<1>12. ASSUME NEW s \in Services, NEW code \in ExitKinds,
            ProcExit(s, code)
      PROVE  Handles'
  BY <1>12 DEF ProcExit, taskVars
<1>13. CASE UNCHANGED vars
  BY <1>13 DEF vars, taskVars
<1> QED
  BY <1>1, <1>2, <1>3, <1>4, <1>5, <1>6, <1>7, <1>8, <1>9, <1>10, <1>11,
       <1>12, <1>13, NextCases

(* Only start_service makes a service Starting, and it waits for it.        *)
LEMMA OneStartingStep ==
  ASSUME TypeOK, OneStarting, StartsOnlyDead, [Next]_vars
  PROVE  OneStarting'
<1> USE DEF TypeOK, OneStarting, StartsOnlyDead
<1>1. CASE Move
  BY <1>1 DEF Move, DepsRunning, BootDone, MonitorTick, HealthTick,
       WatchdogTick, MonitorEnd, RestartEnd, HealthEnd, taskVars
<1>2. ASSUME NEW s \in Services, Look(s)
      PROVE  OneStarting'
  BY <1>2 DEF Look, MonitorSkip, MonitorError,
       MonitorWedge, HealthSkip, HealthPass, HealthFail, Visit
<1>3. CASE GiveBack
  BY <1>3 DEF GiveBack, DepsMissing, SpawnFails, Return, BootGoesOn
<1>4. CASE BinaryMissing
  BY <1>4 DEF BinaryMissing, Return, BootGoesOn
<1>5. CASE Spawn
  BY <1>5 DEF Spawn
<1>6. CASE MarkRunning
  BY <1>6 DEF MarkRunning, Return, BootGoesOn
<1>7. CASE BootNext
  BY <1>7 DEF BootNext
<1>8. CASE RestartNext
  BY <1>8 DEF RestartNext
<1>9. CASE KillService
  BY <1>9 DEF KillService, Release
<1>10. ASSUME NEW s \in Services, NEW kept \in 0 .. crashes[s],
            Reap(s, kept)
      PROVE  OneStarting'
  BY <1>10 DEF Reap, Visit, Watched, Looping, AfterExit, Requeued, Release
<1>11. ASSUME NEW s \in Services, HealthGiveUp(s)
      PROVE  OneStarting'
  BY <1>11 DEF HealthGiveUp, Visit, Checked
<1>12. ASSUME NEW s \in Services, NEW code \in ExitKinds,
            ProcExit(s, code)
      PROVE  OneStarting'
  BY <1>12 DEF ProcExit, taskVars
<1>13. CASE UNCHANGED vars
  BY <1>13 DEF vars, taskVars
<1> QED
  BY <1>1, <1>2, <1>3, <1>4, <1>5, <1>6, <1>7, <1>8, <1>9, <1>10, <1>11,
       <1>12, <1>13, NextCases

(* kill_service is reached from a failed check of a Running service.        *)
LEMMA KillsRunningStep ==
  ASSUME TypeOK, KillsRunning, [Next]_vars
  PROVE  KillsRunning'
<1> USE DEF TypeOK, KillsRunning
<1>1. CASE Move
  BY <1>1 DEF Move, DepsRunning, BootDone, MonitorTick, HealthTick,
       WatchdogTick, MonitorEnd, RestartEnd, HealthEnd, taskVars
<1>2. ASSUME NEW s \in Services, Look(s)
      PROVE  KillsRunning'
  BY <1>2 DEF Look, MonitorSkip, MonitorError,
       MonitorWedge, HealthSkip, HealthPass, HealthFail, Visit
<1>3. CASE GiveBack
  BY <1>3 DEF GiveBack, DepsMissing, SpawnFails, Return, BootGoesOn
<1>4. CASE BinaryMissing
  BY <1>4 DEF BinaryMissing, Return, BootGoesOn
<1>5. CASE Spawn
  BY <1>5 DEF Spawn
<1>6. CASE MarkRunning
  BY <1>6 DEF MarkRunning, Return, BootGoesOn
<1>7. CASE BootNext
  BY <1>7 DEF BootNext
<1>8. CASE RestartNext
  BY <1>8 DEF RestartNext
<1>9. CASE KillService
  BY <1>9 DEF KillService, Release
<1>10. ASSUME NEW s \in Services, NEW kept \in 0 .. crashes[s],
            Reap(s, kept)
      PROVE  KillsRunning'
  BY <1>10 DEF Reap, Visit, Watched, Looping, AfterExit, Requeued, Release
<1>11. ASSUME NEW s \in Services, HealthGiveUp(s)
      PROVE  KillsRunning'
  BY <1>11 DEF HealthGiveUp, Visit, Checked
<1>12. ASSUME NEW s \in Services, NEW code \in ExitKinds,
            ProcExit(s, code)
      PROVE  KillsRunning'
  BY <1>12 DEF ProcExit, taskVars
<1>13. CASE UNCHANGED vars
  BY <1>13 DEF vars, taskVars
<1> QED
  BY <1>1, <1>2, <1>3, <1>4, <1>5, <1>6, <1>7, <1>8, <1>9, <1>10, <1>11,
       <1>12, <1>13, NextCases

(* to_restart is filled in one monitor pass and emptied after it.           *)
LEMMA QueueFailedStep ==
  ASSUME TypeOK, QueueFailed, StartsOnlyDead, [Next]_vars
  PROVE  QueueFailed'
<1> USE DEF TypeOK, QueueFailed, StartsOnlyDead, InStart
<1>1. CASE Move
  BY <1>1 DEF Move, DepsRunning, BootDone, MonitorTick, HealthTick,
       WatchdogTick, MonitorEnd, RestartEnd, HealthEnd, taskVars
<1>2. ASSUME NEW s \in Services, Look(s)
      PROVE  QueueFailed'
  <2>1. CASE MonitorSkip(s) \/ MonitorError(s) \/ MonitorWedge(s)
    BY <2>1 DEF MonitorSkip, MonitorError, MonitorWedge, Visit
  <2>2. CASE HealthSkip(s) \/ HealthPass(s)
    BY <2>2 DEF HealthSkip, HealthPass, Visit
  <2>3. CASE HealthFail(s)
    BY <2>3 DEF HealthFail, Visit
  <2> QED BY <1>2, <2>1, <2>2, <2>3 DEF Look
<1>3. CASE GiveBack
  BY <1>3 DEF GiveBack, DepsMissing, SpawnFails, Return, BootGoesOn
<1>4. CASE BinaryMissing
  BY <1>4 DEF BinaryMissing, Return, BootGoesOn
<1>5. CASE Spawn
  BY <1>5 DEF Spawn
<1>6. CASE MarkRunning
  BY <1>6 DEF MarkRunning, Return, BootGoesOn
<1>7. CASE BootNext
  BY <1>7 DEF BootNext
<1>8. CASE RestartNext
  BY <1>8 DEF RestartNext
<1>9. CASE KillService
  BY <1>9 DEF KillService, Release
<1>10. ASSUME NEW s \in Services, NEW kept \in 0 .. crashes[s],
            Reap(s, kept)
      PROVE  QueueFailed'
  <2>1. /\ pc = "monitor" /\ pc' = "monitor"
        /\ status[s] # "Failed"
        /\ status' = [status EXCEPT ![s] = AfterExit(s, kept + 1)]
    BY <1>10 DEF Reap, Watched
  <2>2. \A i \in 1 .. Len(restartQ) : restartQ[i] # s
    BY <2>1
  <2>3. CASE Requeued(s, kept + 1)
    <3>1. restartQ' = Append(restartQ, s)
      BY <1>10, <2>3 DEF Reap
    <3>2. AfterExit(s, kept + 1) = "Failed"
      BY <2>3 DEF AfterExit, Requeued
    <3>3. /\ Len(restartQ') = Len(restartQ) + 1
          /\ \A i \in 1 .. Len(restartQ) : restartQ'[i] = restartQ[i]
          /\ restartQ'[Len(restartQ) + 1] = s
      BY <3>1
    <3> DEFINE n == Len(restartQ)
    <3>n. n \in Nat /\ \A i \in 1 .. n : restartQ[i] \in Services
      OBVIOUS
    <3>i. \A i \in 1 .. n + 1 : i \in 1 .. n \/ i = n + 1
      BY <3>n
    <3>l. Len(restartQ') = n + 1
      BY <3>3
    <3>o. \A i \in 1 .. n : /\ restartQ'[i] = restartQ[i]
                           /\ restartQ[i] # s /\ restartQ[i] \in Services
                           /\ status[restartQ[i]] = "Failed"
      BY <2>2, <3>3, <3>n
    <3>s. restartQ'[n + 1] = s
      BY <3>3
    <3>d. \A i, j \in 1 .. n : restartQ[i] = restartQ[j] => i = j
      OBVIOUS
    <3> HIDE DEF n
    <3>4. \A i \in 1 .. Len(restartQ') : status'[restartQ'[i]] = "Failed"
      <4> SUFFICES ASSUME NEW i \in 1 .. n + 1
                   PROVE  status'[restartQ'[i]] = "Failed"
        BY <3>l
      <4>1. CASE i \in 1 .. n
        BY <2>1, <3>o, <4>1
      <4>2. CASE i = n + 1
        BY <2>1, <3>2, <3>s, <4>2
      <4> QED
        BY <3>i, <4>1, <4>2
    <3>5. \A i, j \in 1 .. Len(restartQ') : restartQ'[i] = restartQ'[j] => i = j
      <4> SUFFICES ASSUME NEW i \in 1 .. n + 1, NEW j \in 1 .. n + 1,
                          restartQ'[i] = restartQ'[j]
                   PROVE  i = j
        BY <3>l
      <4>1. CASE i \in 1 .. n /\ j \in 1 .. n
        <5>1. restartQ[i] = restartQ[j]
          BY <3>o, <4>1
        <5> QED BY <3>d, <4>1, <5>1, Zenon
      <4>2. CASE i \in 1 .. n /\ j = n + 1
        BY <3>o, <3>s, <4>2, Zenon
      <4>3. CASE i = n + 1 /\ j \in 1 .. n
        BY <3>o, <3>s, <4>3, Zenon
      <4> QED
        BY <3>i, <4>1, <4>2, <4>3, Zenon
    <3> QED
      BY <2>1, <3>4, <3>5
  <2>4. CASE ~Requeued(s, kept + 1)
    <3>1. restartQ' = restartQ
      BY <1>10, <2>4 DEF Reap
    <3>2. \A i \in 1 .. Len(restartQ) : status'[restartQ[i]] = "Failed"
      BY <2>1, <2>2
    <3> QED
      BY <2>1, <3>1, <3>2
  <2> QED
    BY <2>3, <2>4
<1>11. ASSUME NEW s \in Services, HealthGiveUp(s)
      PROVE  QueueFailed'
  BY <1>11 DEF HealthGiveUp, Visit, Checked
<1>12. ASSUME NEW s \in Services, NEW code \in ExitKinds,
            ProcExit(s, code)
      PROVE  QueueFailed'
  BY <1>12 DEF ProcExit, taskVars
<1>13. CASE UNCHANGED vars
  BY <1>13 DEF vars, taskVars
<1> QED
  BY <1>1, <1>2, <1>3, <1>4, <1>5, <1>6, <1>7, <1>8, <1>9, <1>10, <1>11,
       <1>12, <1>13, NextCases

(* Each of the three ways into start_service finds a dead service.          *)
LEMMA StartsOnlyDeadStep ==
  ASSUME TypeOK, StartsOnlyDead, Handles, QueueFailed, BootProgress,
       [Next]_vars
  PROVE  StartsOnlyDead'
<1> USE DEF TypeOK, StartsOnlyDead, Handles, QueueFailed, BootProgress,
     Watched, InStart
<1>1. CASE Move
  BY <1>1 DEF Move, DepsRunning, BootDone, MonitorTick, HealthTick,
       WatchdogTick, MonitorEnd, RestartEnd, HealthEnd, taskVars
<1>2. ASSUME NEW s \in Services, Look(s)
      PROVE  StartsOnlyDead'
  BY <1>2 DEF Look, MonitorSkip, MonitorError,
       MonitorWedge, HealthSkip, HealthPass, HealthFail, Visit
<1>3. CASE GiveBack
  BY <1>3 DEF GiveBack, DepsMissing, SpawnFails, Return, BootGoesOn
<1>4. CASE BinaryMissing
  BY <1>4 DEF BinaryMissing, Return, BootGoesOn
<1>5. CASE Spawn
  BY <1>5 DEF Spawn
<1>6. CASE MarkRunning
  BY <1>6 DEF MarkRunning, Return, BootGoesOn
<1>7. CASE BootNext
  <2>1. bootIdx \in 1 .. Len(Order) /\ Order[bootIdx] \in Services
    BY <1>7, OrderFacts DEF BootNext
  <2>2. status[Order[bootIdx]] = "Pending"
    BY <1>7, <2>1 DEF BootNext
  <2> QED
    BY <1>7, <2>1, <2>2 DEF BootNext
<1>8. CASE RestartNext
  <2>1. Len(restartQ) >= 1 /\ Head(restartQ) = restartQ[1]
    BY <1>8 DEF RestartNext
  <2>2. cur' \in Services /\ status[cur'] = "Failed"
    BY <1>8, <2>1 DEF RestartNext
  <2> QED
    BY <1>8, <2>2 DEF RestartNext
<1>9. CASE KillService
  BY <1>9 DEF KillService, Release
<1>10. ASSUME NEW s \in Services, NEW kept \in 0 .. crashes[s],
            Reap(s, kept)
      PROVE  StartsOnlyDead'
  BY <1>10 DEF Reap, Visit, Watched, Looping, AfterExit, Requeued, Release
<1>11. ASSUME NEW s \in Services, HealthGiveUp(s)
      PROVE  StartsOnlyDead'
  BY <1>11 DEF HealthGiveUp, Visit, Checked
<1>12. ASSUME NEW s \in Services, NEW code \in ExitKinds,
            ProcExit(s, code)
      PROVE  StartsOnlyDead'
  BY <1>12 DEF ProcExit, taskVars
<1>13. CASE UNCHANGED vars
  BY <1>13 DEF vars, taskVars
<1> QED
  BY <1>1, <1>2, <1>3, <1>4, <1>5, <1>6, <1>7, <1>8, <1>9, <1>10, <1>11,
       <1>12, <1>13, NextCases

(* A crash past the budget makes the service CrashedLoop.                   *)
LEMMA CrashBudgetStep ==
  ASSUME TypeOK, CrashBudget, StartsOnlyDead, OneStarting, KillsRunning,
       [Next]_vars
  PROVE  CrashBudget'
<1> USE DEF TypeOK, CrashBudget, StartsOnlyDead, OneStarting, KillsRunning
<1>1. CASE Move
  BY <1>1 DEF Move, DepsRunning, BootDone, MonitorTick, HealthTick,
       WatchdogTick, MonitorEnd, RestartEnd, HealthEnd, taskVars
<1>2. ASSUME NEW s \in Services, Look(s)
      PROVE  CrashBudget'
  BY <1>2 DEF Look, MonitorSkip, MonitorError,
       MonitorWedge, HealthSkip, HealthPass, HealthFail, Visit
<1>3. CASE GiveBack
  BY <1>3 DEF GiveBack, DepsMissing, SpawnFails
<1>4. CASE BinaryMissing
  BY <1>4 DEF BinaryMissing
<1>5. CASE Spawn
  BY <1>5 DEF Spawn
<1>6. CASE MarkRunning
  BY <1>6 DEF MarkRunning
<1>7. CASE BootNext
  BY <1>7 DEF BootNext
<1>8. CASE RestartNext
  BY <1>8 DEF RestartNext
<1>9. CASE KillService
  BY <1>9 DEF KillService, Release
<1>10. ASSUME NEW s \in Services, NEW kept \in 0 .. crashes[s],
            Reap(s, kept)
      PROVE  CrashBudget'
  <2>1. crashes[s] \in Nat /\ MaxCrash[s] \in Nat /\ kept + 1 \in Nat
    BY ServicesAssumption
  <2>2. kept + 1 <= MaxCrash[s] + 1
    <3>1. status[s] # "CrashedLoop"
      BY <1>10 DEF Reap, Watched
    <3>2. crashes[s] <= MaxCrash[s] /\ kept \in Nat /\ kept <= crashes[s]
      BY <2>1, <3>1
    <3> QED
      BY <2>1, <3>2
  <2>3. /\ crashes' = [crashes EXCEPT ![s] = kept + 1]
        /\ status' = [status EXCEPT ![s] = AfterExit(s, kept + 1)]
    BY <1>10 DEF Reap
  <2>4. kept + 1 > MaxCrash[s] => AfterExit(s, kept + 1) = "CrashedLoop"
    BY DEF AfterExit, Looping
  <2> QED
    BY <2>1, <2>2, <2>3, <2>4
<1>11. ASSUME NEW s \in Services, HealthGiveUp(s)
      PROVE  CrashBudget'
  BY <1>11 DEF HealthGiveUp, Visit, Checked
<1>12. ASSUME NEW s \in Services, NEW code \in ExitKinds,
            ProcExit(s, code)
      PROVE  CrashBudget'
  BY <1>12 DEF ProcExit, taskVars
<1>13. CASE UNCHANGED vars
  BY <1>13 DEF vars, taskVars
<1> QED
  BY <1>1, <1>2, <1>3, <1>4, <1>5, <1>6, <1>7, <1>8, <1>9, <1>10, <1>11,
       <1>12, <1>13, NextCases

(* The boot loop leaves no critical service behind.                         *)
LEMMA BootProgressStep ==
  ASSUME TypeOK, BootProgress, [Next]_vars
  PROVE  BootProgress'
<1> USE DEF TypeOK, BootProgress, InStart
<1>1. CASE Move
  BY <1>1 DEF Move, DepsRunning, BootDone, MonitorTick, HealthTick,
       WatchdogTick, MonitorEnd, RestartEnd, HealthEnd, taskVars
<1>2. ASSUME NEW s \in Services, Look(s)
      PROVE  BootProgress'
  BY <1>2 DEF Look, MonitorSkip, MonitorError,
       MonitorWedge, HealthSkip, HealthPass, HealthFail, Visit
<1>3. CASE GiveBack
  BY SMTT(30), <1>3 DEF GiveBack, DepsMissing, SpawnFails, Return, BootGoesOn
<1>4. CASE BinaryMissing
  BY <1>4, OrderFacts DEF BinaryMissing, Return, BootGoesOn
<1>5. CASE Spawn
  BY <1>5, OrderFacts DEF Spawn
<1>6. CASE MarkRunning
  BY <1>6, OrderFacts DEF MarkRunning, Return, BootGoesOn
<1>7. CASE BootNext
  BY <1>7 DEF BootNext
<1>8. CASE RestartNext
  BY <1>8 DEF RestartNext
<1>9. CASE KillService
  BY <1>9 DEF KillService, Release
<1>10. ASSUME NEW s \in Services, NEW kept \in 0 .. crashes[s],
            Reap(s, kept)
      PROVE  BootProgress'
  BY <1>10 DEF Reap, Visit, Watched, Looping, AfterExit, Requeued, Release
<1>11. ASSUME NEW s \in Services, HealthGiveUp(s)
      PROVE  BootProgress'
  BY <1>11 DEF HealthGiveUp, Visit, Checked
<1>12. ASSUME NEW s \in Services, NEW code \in ExitKinds,
            ProcExit(s, code)
      PROVE  BootProgress'
  BY <1>12 DEF ProcExit, taskVars
<1>13. CASE UNCHANGED vars
  BY <1>13 DEF vars, taskVars
<1> QED
  BY <1>1, <1>2, <1>3, <1>4, <1>5, <1>6, <1>7, <1>8, <1>9, <1>10, <1>11,
       <1>12, <1>13, NextCases

(* The third failed check in a row is acted upon.                           *)
LEMMA StrikesStep ==
  ASSUME TypeOK, Strikes, [Next]_vars
  PROVE  Strikes'
<1> USE DEF TypeOK, Strikes
<1>1. CASE Move
  BY <1>1 DEF Move, DepsRunning, BootDone, MonitorTick, HealthTick,
       WatchdogTick, MonitorEnd, RestartEnd, HealthEnd, taskVars
<1>2. ASSUME NEW s \in Services, Look(s)
      PROVE  Strikes'
  <2>1. CASE \/ MonitorSkip(s) \/ MonitorError(s)
             \/ MonitorWedge(s) \/ HealthSkip(s)
    BY <2>1 DEF MonitorSkip, MonitorError, MonitorWedge, HealthSkip
  <2>2. CASE HealthPass(s)
    BY <2>2 DEF HealthPass
  <2>3. CASE HealthFail(s)
    BY <2>3 DEF HealthFail
  <2> QED
    BY <1>2, <2>1, <2>2, <2>3 DEF Look
<1>3. CASE GiveBack
  BY <1>3 DEF GiveBack, DepsMissing, SpawnFails, Return, BootGoesOn
<1>4. CASE BinaryMissing
  BY <1>4 DEF BinaryMissing, Return, BootGoesOn
<1>5. CASE Spawn
  BY <1>5 DEF Spawn
<1>6. CASE MarkRunning
  BY <1>6 DEF MarkRunning, Return, BootGoesOn
<1>7. CASE BootNext
  BY <1>7 DEF BootNext
<1>8. CASE RestartNext
  BY <1>8 DEF RestartNext
<1>9. CASE KillService
  BY <1>9 DEF KillService, Release
<1>10. ASSUME NEW s \in Services, NEW kept \in 0 .. crashes[s],
            Reap(s, kept)
      PROVE  Strikes'
  BY <1>10 DEF Reap, Visit, Watched, Looping, AfterExit, Requeued, Release
<1>11. ASSUME NEW s \in Services, HealthGiveUp(s)
      PROVE  Strikes'
  <2>1. CASE pc' = "wedged"
    BY <1>11, <2>1 DEF HealthGiveUp
  <2>2. CASE pc' # "wedged"
    <3>1. /\ healthFails' = [healthFails EXCEPT ![s] = 0]
          /\ pc = "health"
      BY <1>11, <2>2 DEF HealthGiveUp
    <3>2. 0 < MaxHealthFailures
      BY DEF MaxHealthFailures
    <3> QED
      BY <3>1, <3>2
  <2> QED
    BY <2>1, <2>2
<1>12. ASSUME NEW s \in Services, NEW code \in ExitKinds,
            ProcExit(s, code)
      PROVE  Strikes'
  BY <1>12 DEF ProcExit, taskVars
<1>13. CASE UNCHANGED vars
  BY <1>13 DEF vars, taskVars
<1> QED
  BY <1>1, <1>2, <1>3, <1>4, <1>5, <1>6, <1>7, <1>8, <1>9, <1>10, <1>11,
       <1>12, <1>13, NextCases

(* The invariant holds when monitord starts.                                *)
LEMMA InitSupInv == Init => SupInv
<1> SUFFICES ASSUME Init PROVE SupInv
  OBVIOUS
<1> USE DEF Init
<1>1. TypeOK
  <2>1. Bus \in Services
    BY ServicesAssumption
  <2>2. restartQ \in Seq(Services)
    OBVIOUS
  <2>3. healthFails \in [Services -> 0 .. MaxHealthFailures]
    BY DEF MaxHealthFailures
  <2>4. /\ status \in [Services -> Status] /\ child \in [Services -> BOOLEAN]
        /\ proc \in [Services -> Proc] /\ crashes \in [Services -> Nat]
    OBVIOUS
  <2>5. /\ pc \in Pc /\ caller \in {"boot", "monitor", "health"}
        /\ cur \in Services /\ bootIdx \in Nat \ {0}
        /\ todo \in SUBSET Services /\ exits \in Nat
    BY <2>1
  <2>6. kicked \in BOOLEAN
    OBVIOUS
  <2> HIDE DEF Init
  <2> QED
    BY <2>2, <2>3, <2>4, <2>5, <2>6 DEF TypeOK
<1>2. Handles
  BY DEF Handles, Watched
<1>3. OneStarting
  BY DEF OneStarting
<1>4. KillsRunning
  BY DEF KillsRunning
<1>5. QueueFailed
  BY DEF QueueFailed, InStart
<1>6. StartsOnlyDead
  BY DEF StartsOnlyDead
<1>7. CrashBudget
  BY ServicesAssumption DEF CrashBudget
<1>8. BootProgress
  BY OrderFacts DEF BootProgress, InStart
<1>9. Strikes
  BY DEF Strikes
<1> QED
  BY <1>1, <1>2, <1>3, <1>4, <1>5, <1>6, <1>7, <1>8, <1>9 DEF SupInv

(* Every reachable state of the supervisor satisfies the inductive          *)
(* invariant (all of supervisor.rs but shutdown_all).                       *)
THEOREM Invariant == Spec => []SupInv
<1>1. SupInv /\ [Next]_vars => SupInv'
  BY TypeOKStep, HandlesStep, OneStartingStep, KillsRunningStep,
       QueueFailedStep,
     StartsOnlyDeadStep, CrashBudgetStep, BootProgressStep,
          StrikesStep DEF SupInv
<1> QED
  BY InitSupInv, <1>1, PTL DEF Spec

(* The state of the supervisor is always well formed.                       *)
THEOREM TypeCorrect == Spec => []TypeOK
<1>1. SupInv => TypeOK
  BY DEF SupInv
<1> QED
  BY <1>1, Invariant, PTL

(* No process is without a handle and no handle without a watched service,  *)
(* for any set of services, dependencies, policies and any interleaving of  *)
(* exits with boot, monitor passes and health checks.                       *)
THEOREM SupervisedAlways == Spec => []Supervised
<1>1. SupInv => Supervised
  BY DEF SupInv, Handles, Supervised
<1> QED
  BY <1>1, Invariant, PTL

(* start_service never runs for a live, stopped or crash-looping service.   *)
THEOREM StartsOnlyDeadAlways == Spec => []StartsOnlyDead
<1>1. SupInv => StartsOnlyDead
  BY DEF SupInv
<1> QED
  BY <1>1, Invariant, PTL

(* No service is started again beyond its max_crash_count.                  *)
THEOREM CrashBudgetKept == Spec => []CrashBudget
<1>1. SupInv => CrashBudget
  BY DEF SupInv
<1> QED
  BY <1>1, Invariant, PTL

(* Boot never gets past a critical service that was not brought up.         *)
THEOREM BootedCriticalAlways == Spec => []BootedCritical
<1>1. SupInv => BootedCritical
  <2> SUFFICES ASSUME SupInv,
                      pc \notin {"boot", "exited"},
                      ~(caller = "boot" /\ pc \in {"deps", "spawn",
                           "settle"}),
                      NEW s \in Critical
               PROVE  status[s] # "Pending"
    BY DEF BootedCritical
  <2>1. PICK i \in 1 .. Len(Order) : Order[i] = s
    BY OrderAssumption, ServicesAssumption
  <2>2. bootIdx = Len(Order) + 1
    BY DEF SupInv, BootProgress, InStart
  <2>3. i \in 1 .. bootIdx - 1
    BY <2>1, <2>2, OrderFacts
  <2> QED
    BY <2>1, <2>3 DEF SupInv, BootProgress
<1> QED
  BY <1>1, Invariant, PTL

----------------------------------------------------------------------------
(* The supervisor implements the abstract life of its services.             *)

(* A step of one service is a step of the abstract specification.           *)
LEMMA OneService ==
  ASSUME NEW s \in Services,
         \/ Life!Start(s) \/ Life!CannotStart(s) \/ Life!Up(s)
         \/ Life!Die(s) \/ Life!Notice(s) \/ Life!Kill(s)
  PROVE  Life!LifeNext
  BY DEF Life!LifeNext

(* Every step of the supervisor maps to an abstract step or a stutter.      *)
LEMMA LifecycleStep ==
  ASSUME SupInv, [Next]_vars
  PROVE  [Life!LifeNext]_(Life!lifeVars)
<1> DEFINE up == [s \in Services |-> proc[s] = "up"]
<1> USE DEF SupInv, TypeOK
<1>1. ASSUME UNCHANGED <<status, proc>> PROVE UNCHANGED Life!lifeVars
  BY <1>1 DEF Life!lifeVars
<1>2. CASE Move \/ GiveBack \/ BootNext \/ RestartNext \/ UNCHANGED vars
  BY <1>1, <1>2 DEF Move, DepsRunning, BootDone, MonitorTick, HealthTick,
     WatchdogTick, MonitorEnd, RestartEnd, HealthEnd, GiveBack, DepsMissing,
     SpawnFails, BootNext, RestartNext, vars
<1>3. ASSUME NEW s \in Services, Look(s) \/ HealthGiveUp(s)
      PROVE  UNCHANGED Life!lifeVars
  BY <1>1, <1>3 DEF Look, MonitorSkip, MonitorError,
       MonitorWedge, HealthSkip, HealthPass, HealthFail, HealthGiveUp
<1>4. CASE BinaryMissing
  <2>1. Life!CannotStart(cur)
    BY <1>4 DEF BinaryMissing, StartsOnlyDead, Life!CannotStart, Life!Become
  <2> QED
    BY <2>1 DEF Life!LifeNext
<1>5. CASE Spawn
  <2>1. PICK s \in Services : s = cur
    OBVIOUS
  <2>2. up' = [up EXCEPT ![s] = TRUE] /\ ~up[s]
    BY <1>5, <2>1 DEF Spawn, StartsOnlyDead
  <2>3. Life!Start(s)
    BY <1>5, <2>1, <2>2 DEF Spawn, StartsOnlyDead, Life!Start, Life!Become
  <2> QED
    BY <2>3, OneService
<1>6. CASE MarkRunning
  <2>1. Life!Up(cur)
    BY <1>6 DEF MarkRunning, OneStarting, Life!Up, Life!Become
  <2> QED
    BY <2>1 DEF Life!LifeNext
<1>7. ASSUME NEW s \in Services, NEW kept \in 0 .. crashes[s], Reap(s, kept)
      PROVE  Life!LifeNext
  <2>1. up' = up /\ ~up[s]
    BY <1>7 DEF Reap, Release
  <2>2. status[s] = "Running"
    BY <1>7 DEF Reap, Watched, OneStarting
  <2>3. \E end \in {"Failed", "CrashedLoop", "Stopped"} : Life!Become(s, end)
    BY <1>7 DEF Reap, AfterExit, Life!Become
  <2>4. Life!Notice(s)
    BY <2>1, <2>2, <2>3 DEF Life!Notice
  <2> QED
    BY <2>4 DEF Life!LifeNext
<1>8. CASE KillService
  <2>1. PICK s \in Services : s = cur
    OBVIOUS
  <2>2. up' = [up EXCEPT ![s] = FALSE]
    BY <1>8, <2>1 DEF KillService, Release
  <2>3. Life!Kill(s)
    BY <1>8, <2>1, <2>2 DEF KillService, KillsRunning, Life!Kill, Life!Become
  <2> QED
    BY <2>3, OneService
<1>9. ASSUME NEW s \in Services, NEW code \in ExitKinds,
             ProcExit(s, code)
      PROVE  Life!LifeNext
  <2>1. up' = [up EXCEPT ![s] = FALSE] /\ up[s]
    BY <1>9, ServicesAssumption DEF ProcExit
  <2>2. Life!Die(s)
    BY <1>9, <2>1 DEF ProcExit, Life!Die
  <2> QED
    BY <2>2 DEF Life!LifeNext
<1> QED
  BY <1>2, <1>3, <1>4, <1>5, <1>6, <1>7, <1>8, <1>9, NextCases

(* Refinement: under every interleaving each service lives the life         *)
(* ServiceLifecycle promises, one process at a time, and is never revived   *)
(* from CrashedLoop or Stopped.                                             *)
THEOREM Implementation == Spec => FollowsLifecycle
<1>1. Init => Life!LifeInit
  BY DEF Init, Life!LifeInit
<1>2. SupInv /\ [Next]_vars => [Life!LifeNext]_(Life!lifeVars)
  BY LifecycleStep
<1> QED
  BY <1>1, <1>2, Invariant, PTL DEF Spec, FollowsLifecycle, Life!LifeSpec
=============================================================================
