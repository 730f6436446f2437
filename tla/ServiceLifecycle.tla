-------------------------- MODULE ServiceLifecycle --------------------------
(***************************************************************************)
(* What monitord promises about its services, without saying how or when it *)
(* looks at them: a status follows the life of one process at a time, a     *)
(* process is started only where there is none, and a service that is       *)
(* CrashedLoop or Stopped stays so (enum ServiceStatus in                   *)
(* crates/monitord/src/supervisor.rs).                                      *)
(***************************************************************************)
CONSTANT Services

VARIABLES
  st,      \* service -> its ServiceStatus
  alive    \* service -> whether its process runs

lifeVars == <<st, alive>>

LifeInit ==
  /\ st = [s \in Services |-> "Pending"]
  /\ alive = [s \in Services |-> FALSE]

Become(s, status) == st' = [st EXCEPT ![s] = status]

(* A process is spawned for a service that has none.                        *)
Start(s) ==
  /\ st[s] \in {"Pending", "Failed"}
  /\ ~alive[s]
  /\ Become(s, "Starting")
  /\ alive' = [alive EXCEPT ![s] = TRUE]

(* The binary is missing.                                                   *)
CannotStart(s) ==
  /\ st[s] \in {"Pending", "Failed"}
  /\ Become(s, "Failed")
  /\ UNCHANGED alive

(* Startup is over.                                                         *)
Up(s) == st[s] = "Starting" /\ Become(s, "Running") /\ UNCHANGED alive

(* The process ends by itself; the status lags behind.                      *)
Die(s) ==
  /\ alive[s]
  /\ alive' = [alive EXCEPT ![s] = FALSE]
  /\ UNCHANGED st

(* The end of the process is noticed.                                       *)
Notice(s) ==
  /\ st[s] = "Running"
  /\ ~alive[s]
  /\ \E end \in {"Failed", "CrashedLoop", "Stopped"} : Become(s, end)
  /\ UNCHANGED alive

(* An unhealthy service is killed.                                          *)
Kill(s) ==
  /\ st[s] = "Running"
  /\ Become(s, "Failed")
  /\ alive' = [alive EXCEPT ![s] = FALSE]

LifeNext ==
  \E s \in Services : \/ Start(s) \/ CannotStart(s) \/ Up(s)
                      \/ Die(s) \/ Notice(s) \/ Kill(s)

LifeSpec == LifeInit /\ [][LifeNext]_lifeVars
=============================================================================
