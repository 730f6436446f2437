----------------------------- MODULE BusClient -----------------------------
(***************************************************************************)
(* stardust::Client (crates/stardust/src/client.rs): a cloneable handle, an *)
(* I/O task that owns the socket, and two tables both share: the calls that *)
(* wait for an answer and the receivers of each subscribed topic.           *)
(*                                                                         *)
(* The socket is open here: any frame may be written and any message may    *)
(* come in.  Module ClientBus connects clients with the broker.             *)
(***************************************************************************)
EXTENDS Naturals, Sequences
SeqExt == INSTANCE SequencesExt

CONSTANTS
  BusClients,    \* the clients
  Topics,        \* the topics they subscribe to and publish on; a message
                 \* matches (matches_topic) its own topic only
  MaxFrames,     \* bound: frames waiting for the I/O task
  MaxIds,        \* bound: messages and calls ever made
  MaxHandles     \* bound: clones of one client

ASSUME BusClientAssumption ==
  MaxFrames \in Nat /\ MaxIds \in Nat /\ MaxHandles \in Nat \ {0}

VARIABLES
  clientOpen,     \* clients whose I/O task runs
  clientHandles,  \* client -> clones of the handle that exist
  clientOut,      \* client -> frames for the I/O task (tx)
  clientTopics,   \* client -> topics with a receiver (subscribers)
  clientPending,  \* client -> ids in the table of pending calls
  clientWaiting,  \* client -> ids whose call has not returned
  clientGot,      \* client -> ids of the messages its receivers were sent
  clientIds       \* ids used so far

clientVars == <<clientOpen, clientHandles, clientOut, clientTopics,
                clientPending, clientWaiting, clientGot, clientIds>>

BusClientInit ==
  /\ clientOpen = {}
  /\ clientHandles = [c \in BusClients |-> 0]
  /\ clientOut = [c \in BusClients |-> <<>>]
  /\ clientTopics = [c \in BusClients |-> {}]
  /\ clientPending = [c \in BusClients |-> {}]
  /\ clientWaiting = [c \in BusClients |-> {}]
  /\ clientGot = [c \in BusClients |-> {}]
  /\ clientIds = 0

----------------------------------------------------------------------------
(* The handle.                                                             *)

(* A new client: its tables are empty.                                      *)
ClientConnect(c) ==
  /\ c \notin clientOpen /\ clientHandles[c] = 0
  /\ clientOpen' = clientOpen \cup {c}
  /\ clientHandles' = [clientHandles EXCEPT ![c] = 1]
  /\ clientTopics' = [clientTopics EXCEPT ![c] = {}]
  /\ clientPending' = [clientPending EXCEPT ![c] = {}]
  /\ clientGot' = [clientGot EXCEPT ![c] = {}]
  /\ UNCHANGED <<clientOut, clientWaiting, clientIds>>

ClientClone(c) ==
  /\ clientHandles[c] \in 1 .. MaxHandles - 1
  /\ clientHandles' = [clientHandles EXCEPT ![c] = @ + 1]
  /\ UNCHANGED <<clientOpen, clientOut, clientTopics, clientPending,
                 clientWaiting, clientGot, clientIds>>

(* tx.send: with the I/O task gone it fails.                                *)
Sends(c, frames) ==
  /\ clientHandles[c] > 0
  /\ Len(clientOut[c]) + Len(frames) <= MaxFrames
  /\ clientOut' = [clientOut EXCEPT ![c] =
                     IF c \in clientOpen THEN @ \o frames ELSE @]

TopicFrame(kind, t) == [kind |-> kind, topic |-> t, id |-> 0]

ClientRegister(c) ==
  /\ Sends(c, <<[kind |-> "register", topic |-> "", id |-> 0]>>)
  /\ UNCHANGED <<clientOpen, clientHandles, clientTopics, clientPending,
                 clientWaiting, clientGot, clientIds>>

(* The frame is sent first; the receiver is entered after it.               *)
ClientSubscribe(c, t) ==
  /\ Sends(c, <<TopicFrame("subscribe", t)>>)
  /\ clientTopics' = [clientTopics EXCEPT ![c] =
                        IF c \in clientOpen THEN @ \cup {t} ELSE @]
  /\ UNCHANGED <<clientOpen, clientHandles, clientPending, clientWaiting,
                 clientGot, clientIds>>

ClientUnsubscribe(c, t) ==
  /\ Sends(c, <<TopicFrame("unsubscribe", t)>>)
  /\ clientTopics' = [clientTopics EXCEPT ![c] =
                        IF c \in clientOpen THEN @ \ {t} ELSE @]
  /\ UNCHANGED <<clientOpen, clientHandles, clientPending, clientWaiting,
                 clientGot, clientIds>>

NewId == clientIds < MaxIds /\ clientIds' = clientIds + 1

MessageFrame(t) == [kind |-> "message", topic |-> t, id |-> clientIds + 1]

ClientPublish(c, t) ==
  /\ NewId
  /\ Sends(c, <<MessageFrame(t)>>)
  /\ UNCHANGED <<clientOpen, clientHandles, clientTopics, clientPending,
                 clientWaiting, clientGot>>

(* The call is entered before it is sent; when sending fails it returns an  *)
(* error and its entry stays.                                               *)
ClientCall(c, t) ==
  /\ NewId
  /\ Sends(c, <<MessageFrame(t)>>)
  /\ clientPending' = [clientPending EXCEPT ![c] = @ \cup {clientIds + 1}]
  /\ clientWaiting' = [clientWaiting EXCEPT ![c] =
                         IF c \in clientOpen THEN @ \cup {clientIds + 1} ELSE @]
  /\ UNCHANGED <<clientOpen, clientHandles, clientTopics, clientGot>>

(* Fault: the entry stays when the call times out.                          *)
CallTimeoutKeeps(c, id) ==
  /\ id \in clientWaiting[c]
  /\ clientWaiting' = [clientWaiting EXCEPT ![c] = @ \ {id}]
  /\ UNCHANGED <<clientOpen, clientHandles, clientOut, clientTopics,
                 clientPending, clientGot, clientIds>>

(* 30 seconds have passed without an answer.                                *)
CallTimeout(c, id) ==
  /\ id \in clientWaiting[c]
  /\ clientWaiting' = [clientWaiting EXCEPT ![c] = @ \ {id}]
  /\ clientPending' = [clientPending EXCEPT ![c] = @ \ {id}]
  /\ UNCHANGED <<clientOpen, clientHandles, clientOut, clientTopics, clientGot,
                 clientIds>>

(* Dropping any clone unsubscribes every topic of the shared table at the   *)
(* broker, whether or not other clones are left.                            *)
ClientDrop(c) ==
  /\ clientWaiting[c] = {} \/ clientHandles[c] > 1
  /\ \E topics \in SeqExt!SetToSeqs(clientTopics[c]) :
       Sends(c, [i \in DOMAIN topics |-> TopicFrame("unsubscribe", topics[i])])
  /\ clientHandles' = [clientHandles EXCEPT ![c] = @ - 1]
  /\ UNCHANGED <<clientOpen, clientTopics, clientPending, clientWaiting,
                 clientGot, clientIds>>

----------------------------------------------------------------------------
(* The I/O task.                                                           *)

(* It writes the next frame to the socket.                                  *)
WriteFrame(c) ==
  /\ c \in clientOpen
  /\ clientOut[c] # <<>>
  /\ clientOut' = [clientOut EXCEPT ![c] = Tail(@)]
  /\ UNCHANGED <<clientOpen, clientHandles, clientTopics, clientPending,
                 clientWaiting, clientGot, clientIds>>

(* A message comes in: the answer of a pending call, or, for any other, one *)
(* for the receivers of the topics it matches.                              *)
ReadFrame(c, t, id) ==
  /\ c \in clientOpen
  /\ IF id \in clientPending[c]
     THEN /\ clientPending' = [clientPending EXCEPT ![c] = @ \ {id}]
          /\ clientWaiting' = [clientWaiting EXCEPT ![c] = @ \ {id}]
          /\ UNCHANGED clientGot
     ELSE /\ clientGot' = IF t \in clientTopics[c]
                          THEN [clientGot EXCEPT ![c] = @ \cup {id}]
                          ELSE clientGot
          /\ UNCHANGED <<clientPending, clientWaiting>>
  /\ UNCHANGED <<clientOpen, clientHandles, clientOut, clientTopics, clientIds>>

(* The socket is closed or fails, or the last clone is gone and everything  *)
(* was written: the task ends, and frames not written are dropped.          *)
ClientEnds(c) ==
  /\ c \in clientOpen
  /\ clientOpen' = clientOpen \ {c}
  /\ clientOut' = [clientOut EXCEPT ![c] = <<>>]
  /\ UNCHANGED <<clientHandles, clientTopics, clientPending, clientWaiting,
                 clientGot, clientIds>>

----------------------------------------------------------------------------
(* What the program that holds the handle does.                             *)
UseClient(c) ==
  \/ ClientClone(c) \/ ClientDrop(c) \/ ClientRegister(c)
  \/ \E t \in Topics : \/ ClientSubscribe(c, t) \/ ClientUnsubscribe(c, t)
                       \/ ClientPublish(c, t) \/ ClientCall(c, t)
  \/ \E id \in clientWaiting[c] : CallTimeout(c, id)

BusClientNext ==
  \E c \in BusClients :
    \/ ClientConnect(c)
    \/ UseClient(c)
    \/ WriteFrame(c)
    \/ \E t \in Topics, id \in 1 .. MaxIds : ReadFrame(c, t, id)
    \/ ClientEnds(c)

BusClientSpec == BusClientInit /\ [][BusClientNext]_clientVars

----------------------------------------------------------------------------
(* Properties.                                                             *)

(* While the connection stands, the table of pending calls holds exactly    *)
(* the calls somebody waits for, however answers, timeouts, clones and      *)
(* calls interleave: no entry leaks, and no caller waits without one.  (A   *)
(* call made after the connection broke leaves its entry.)                  *)
PendingAwaited ==
  \A c \in clientOpen : clientPending[c] = clientWaiting[c]
=============================================================================
