------------------------------- MODULE Notifd -------------------------------
(***************************************************************************)
(* notifd (crates/notifd/src/main.rs): three tasks, one per command topic,  *)
(* share the store behind a mutex.  Each takes the mutex once to change the *)
(* store and once more to publish it, and every publication is handed to a  *)
(* task of its own, so that publications may overtake one another.          *)
(***************************************************************************)
EXTENDS Naturals, Sequences, FiniteSets

CONSTANTS
  MaxNotifs,    \* bound: notifications ever shown
  Stamps,       \* what the clock may say: SystemTime in milliseconds, which
                \* may be the same twice, and may be set back
  MaxVisible,   \* max_visible, 3 in the code
  MaxCommands   \* bound: dismiss and dismiss_all commands

ASSUME NotifdAssumption ==
  /\ MaxNotifs \in Nat /\ MaxVisible \in Nat /\ MaxCommands \in Nat
  /\ Stamps \subseteq Nat

VARIABLES
  notifStore,  \* the notifications, numbered as they were shown
  notifTime,   \* the timestamps of all notifications shown
  notifNext,   \* notifications shown so far
  notifCmds,   \* dismiss and dismiss_all commands handled so far
  notifTask,   \* task -> whether it has yet to publish its change
  notifOut,    \* publications whose task has not yet sent them
  notifSent    \* notifications some publication that was sent contains

notifVars == <<notifStore, notifTime, notifNext, notifCmds, notifTask,
               notifOut, notifSent>>

NotifTasks == {"show", "dismiss", "dismiss_all"}

NotifdInit ==
  /\ notifStore = {}
  /\ notifTime = <<>>
  /\ notifNext = 0
  /\ notifCmds = 0
  /\ notifTask = [t \in NotifTasks |-> "waiting"]
  /\ notifOut = {}
  /\ notifSent = {}

(* visible: max_visible of the newest, or all; of those with the same       *)
(* timestamp any may be left out, as a HashMap is sorted.                   *)
Visible(list) ==
  /\ list \subseteq notifStore
  /\ Cardinality(list) <= MaxVisible
  /\ list # notifStore => Cardinality(list) = MaxVisible
  /\ \A n \in list, m \in notifStore \ list : notifTime[m] <= notifTime[n]

Changed(t) ==
  /\ notifTask[t] = "waiting"
  /\ notifTask' = [notifTask EXCEPT ![t] = "publish"]
  /\ UNCHANGED <<notifOut, notifSent>>

Show ==
  /\ notifNext < MaxNotifs
  /\ notifNext' = notifNext + 1
  /\ notifStore' = notifStore \cup {notifNext + 1}
  /\ \E now \in Stamps : notifTime' = Append(notifTime, now)
  /\ Changed("show")
  /\ UNCHANGED notifCmds

(* An id that is not there is ignored, and published all the same.          *)
Dismiss(n) ==
  /\ notifCmds < MaxCommands
  /\ notifCmds' = notifCmds + 1
  /\ notifStore' = notifStore \ {n}
  /\ Changed("dismiss")
  /\ UNCHANGED <<notifNext, notifTime>>

DismissAll ==
  /\ notifCmds < MaxCommands
  /\ notifCmds' = notifCmds + 1
  /\ notifStore' = {}
  /\ Changed("dismiss_all")
  /\ UNCHANGED <<notifNext, notifTime>>

(* Fault: one publication waits at a time; a later one is skipped.          *)
PublishSkips(t) ==
  /\ notifTask[t] = "publish"
  /\ notifTask' = [notifTask EXCEPT ![t] = "waiting"]
  /\ \E list \in SUBSET notifStore :
       /\ Visible(list)
       /\ notifOut' = IF notifOut = {} THEN {list} ELSE notifOut
  /\ UNCHANGED <<notifStore, notifTime, notifNext, notifCmds, notifSent>>

(* publish_notifications: the list is made under the mutex, and sent by a   *)
(* spawned task.                                                            *)
Publish(t) ==
  /\ notifTask[t] = "publish"
  /\ notifTask' = [notifTask EXCEPT ![t] = "waiting"]
  /\ \E list \in SUBSET notifStore :
       Visible(list) /\ notifOut' = notifOut \cup {list}
  /\ UNCHANGED <<notifStore, notifTime, notifNext, notifCmds, notifSent>>

SendList(list) ==
  /\ list \in notifOut
  /\ notifOut' = notifOut \ {list}
  /\ notifSent' = notifSent \cup list
  /\ UNCHANGED <<notifStore, notifTime, notifNext, notifCmds, notifTask>>

NotifdStep ==
  \/ \E t \in NotifTasks : Publish(t)
  \/ \E list \in notifOut : SendList(list)

NotifdNext ==
  \/ Show
  \/ \E n \in 1 .. MaxNotifs : Dismiss(n)
  \/ DismissAll
  \/ NotifdStep

NotifdSpec == NotifdInit /\ [][NotifdNext]_notifVars

(* tokio runs every task again.                                             *)
NotifdFairSpec == NotifdSpec /\ WF_notifVars(NotifdStep)

----------------------------------------------------------------------------
(* Properties.                                                             *)

(* The stored notifications that are not older than n, n included.          *)
NotOlder(n) == {m \in notifStore : notifTime[m] >= notifTime[n]}

(* Every notification is published to the screen unless, before that, it is *)
(* dismissed or as many as are shown are at least as new by their           *)
(* timestamps: none is lost between the two times the mutex is taken,       *)
(* whatever the other tasks do there.                                       *)
ShownIsPublished ==
  \A n \in 1 .. MaxNotifs :
    (n \in notifStore)
      ~> (n \in notifSent \/ n \notin notifStore
                          \/ Cardinality(NotOlder(n)) > MaxVisible)
=============================================================================
