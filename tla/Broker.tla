------------------------------- MODULE Broker -------------------------------
(***************************************************************************)
(* stardustd's message broker (crates/stardust/src/broker.rs).              *)
(*                                                                         *)
(* Every Unix connection runs its own task (handle_connection) and every    *)
(* WebSocket client acts through a BrokerHandle.  All of them append        *)
(* commands to one unbounded FIFO channel, which a single actor task        *)
(* (run_broker) drains.  The one thing done outside the actor is inserting  *)
(* a new Unix connection's sender into `connections'.                       *)
(*                                                                         *)
(* Callers of BrokerHandle are an open environment here: any handle         *)
(* operation may be called at any time.  Module WsBridge closes it.         *)
(***************************************************************************)
EXTENDS Integers, Sequences, FiniteSets

CONSTANTS
  MaxConns,   \* bound: Unix connections accepted over the broker's life
  SynBase,    \* 100000 in the code: added to connections.len() for a direct id
  MaxChans,   \* bound: direct (WebSocket) subscriptions ever made
  MaxMsgs,    \* bound: messages and calls ever sent
  MaxCmds,    \* bound: commands waiting for the actor
  Names,      \* service names
  Methods,    \* message methods (published topics)
  Patterns,   \* subscription patterns
  Matching    \* the pairs <<method, pattern>> that Message::matches_topic accepts

ASSUME BoundsAssumption ==
  /\ MaxConns \in Nat /\ SynBase \in Nat /\ MaxChans \in Nat
  /\ MaxMsgs \in Nat /\ MaxCmds \in Nat

ASSUME TopicAssumption ==
  /\ IsFiniteSet(Patterns)
  /\ Matching \subseteq Methods \X Patterns

(* A connection id no connection carries: u64::MAX, which is -1 in u64.     *)
NoConn == -1

(* The empty destination of a message that is only routed by topic.         *)
NoName == ""

(* The sender_conn that BrokerHandle::publish puts on every message.        *)
WsSender == 0

UnixId == 0 .. MaxConns - 1
WsChanId == 1 .. MaxChans

(* Channels (mpsc sender/receiver pairs) a message can be sent into.        *)
UnixChan(c) == <<"unix", c>>
WsChan(k) == <<"ws", k>>
Chan == ({"unix"} \X UnixId) \cup ({"ws"} \X WsChanId)

(* src is the connection that wrote the message, NoConn for a WebSocket     *)
(* client; id stands for the uuid and grows in the order of publication.    *)
Msg == [id : 1 .. MaxMsgs, method : Methods, dst : Names \cup {NoName},
        src : UnixId \cup {NoConn}]

Cmd == [op : {"Register"}, conn : UnixId, name : Names]
  \cup [op : {"RegisterService"}, name : Names]
  \cup [op : {"Unregister"}, conn : UnixId]
  \cup [op : {"Subscribe", "Unsubscribe"}, conn : UnixId, topic : Patterns]
  \cup [op : {"SubscribeDirect"}, chan : WsChanId, topic : Patterns]
  \cup [op : {"UnsubscribeDirect"}, topic : Patterns]
  \cup [op : {"Route"}, msg : Msg, sender : UnixId \cup {WsSender}]
  \cup [op : {"Call"}, msg : Msg]

VARIABLES
  nextId,         \* next Unix connection id
  live,           \* Unix connections whose task is in its select loop
  services,       \* service name -> connection id (a partial function)
  subscriptions,  \* pattern -> set of connection ids
  connections,    \* connection id -> channel (a partial function)
  cmds,           \* the actor's command channel
  nChans,         \* direct channels created so far
  nMsgs,          \* messages created so far
  outbox,         \* channel -> messages sent into it and not yet received
  received,       \* Unix connection -> messages written to its socket
  replies         \* ids of the calls whose oneshot the actor has answered

vars == <<nextId, live, services, subscriptions, connections, cmds, nChans,
          nMsgs, outbox, received, replies>>

----------------------------------------------------------------------------
(* Helpers.                                                                *)

(* Fault: the entries stay.                                                 *)
RemoveNothing(f, S) == f

(* HashMap/DashMap insert and remove.                                       *)
Insert(f, k, v) == [x \in DOMAIN f \cup {k} |-> IF x = k THEN v ELSE f[x]]
Remove(f, S) == [x \in DOMAIN f \ S |-> f[x]]

(* The receiving end still exists: the connection task, or the forwarding   *)
(* task of a direct subscription, which ends only with its sender.          *)
HasReceiver(ch) == ch[1] = "ws" \/ ch[2] \in live

(* The actor sends m to services[m.dst] unless that is the sender itself.   *)
DirectTargets(m, sender) ==
  {i \in DOMAIN connections : /\ m.dst \in DOMAIN services
                              /\ services[m.dst] = i
                              /\ i # sender}

(* Fault: the sender is not left out.                                       *)
TopicTargetsAll(m, sender) ==
  {t \in Patterns \X DOMAIN connections :
       /\ <<m.method, t[1]>> \in Matching
       /\ t[2] \in subscriptions[t[1]]}

(* One send for every matching pattern and every other id under it.         *)
TopicTargets(m, sender) ==
  {t \in Patterns \X DOMAIN connections :
       /\ <<m.method, t[1]>> \in Matching
       /\ t[2] \in subscriptions[t[1]]
       /\ t[2] # sender}

(* How many copies of m one Route sends into channel ch.                    *)
Copies(m, sender, ch) ==
    Cardinality({i \in DirectTargets(m, sender) : connections[i] = ch})
  + Cardinality({t \in TopicTargets(m, sender) : connections[t[2]] = ch})

Enqueue(cmd) == Len(cmds) < MaxCmds /\ cmds' = Append(cmds, cmd)

----------------------------------------------------------------------------
Init ==
  /\ nextId = 0
  /\ live = {}
  /\ services = [n \in {} |-> NoConn]
  /\ subscriptions = [p \in Patterns |-> {}]
  /\ connections = [i \in {} |-> UnixChan(i)]
  /\ cmds = <<>>
  /\ nChans = 0
  /\ nMsgs = 0
  /\ outbox = [ch \in Chan |-> <<>>]
  /\ received = [c \in UnixId |-> <<>>]
  /\ replies = {}

----------------------------------------------------------------------------
(* The accept loop and the per-connection tasks.                            *)

(* A connection is accepted and its task inserts its sender, directly.      *)
Accept ==
  /\ nextId < MaxConns
  /\ nextId' = nextId + 1
  /\ live' = live \cup {nextId}
  /\ connections' = Insert(connections, nextId, UnixChan(nextId))
  /\ UNCHANGED <<services, subscriptions, cmds, nChans, nMsgs, outbox,
                 received, replies>>

(* A frame read from connection c becomes a command.                        *)
Read(c, cmd) ==
  /\ c \in live
  /\ Enqueue(cmd)
  /\ UNCHANGED <<nextId, live, services, subscriptions, connections, nChans,
                 outbox, received, replies>>

ReadRegister(c, n) ==
  Read(c, [op |-> "Register", conn |-> c, name |-> n]) /\ UNCHANGED nMsgs

ReadSubscribe(c, p) ==
  Read(c, [op |-> "Subscribe", conn |-> c, topic |-> p]) /\ UNCHANGED nMsgs

ReadUnsubscribe(c, p) ==
  Read(c, [op |-> "Unsubscribe", conn |-> c, topic |-> p]) /\ UNCHANGED nMsgs

ReadMessage(c, m, d) ==
  /\ nMsgs < MaxMsgs
  /\ nMsgs' = nMsgs + 1
  /\ Read(c, [op |-> "Route", sender |-> c,
              msg |-> [id |-> nMsgs + 1, method |-> m, dst |-> d, src |-> c]])

(* Fault: the message is taken from the channel and not written.            *)
ForwardDrops(c) ==
  /\ c \in live
  /\ outbox[UnixChan(c)] # <<>>
  /\ outbox' = [outbox EXCEPT ![UnixChan(c)] = Tail(@)]
  /\ UNCHANGED <<nextId, live, services, subscriptions, connections, cmds,
                 nChans, nMsgs, received, replies>>

(* The task writes the next message of its channel to the socket.           *)
Forward(c) ==
  /\ c \in live
  /\ outbox[UnixChan(c)] # <<>>
  /\ outbox' = [outbox EXCEPT ![UnixChan(c)] = Tail(@)]
  /\ received' = [received EXCEPT ![c] = Append(@, Head(outbox[UnixChan(c)]))]
  /\ UNCHANGED <<nextId, live, services, subscriptions, connections, cmds,
                 nChans, nMsgs, replies>>

(* Fault: the task returns early, without Unregister.                       *)
CloseSilently(c) ==
  /\ c \in live
  /\ live' = live \ {c}
  /\ outbox' = [outbox EXCEPT ![UnixChan(c)] = <<>>]
  /\ UNCHANGED <<nextId, services, subscriptions, connections, cmds, nChans,
                 nMsgs, received, replies>>

(* EOF, a decode error or a failed write ends the task: its receiver is     *)
(* dropped with what it holds, and the last thing it does is Unregister.    *)
Close(c) ==
  /\ c \in live
  /\ live' = live \ {c}
  /\ outbox' = [outbox EXCEPT ![UnixChan(c)] = <<>>]
  /\ Enqueue([op |-> "Unregister", conn |-> c])
  /\ UNCHANGED <<nextId, services, subscriptions, connections, nChans, nMsgs,
                 received, replies>>

----------------------------------------------------------------------------
(* BrokerHandle: the calls of the WebSocket bridge.                         *)

Handle(cmd) ==
  /\ Enqueue(cmd)
  /\ UNCHANGED <<nextId, live, services, subscriptions, connections, outbox,
                 received, replies>>

HandleSubscribe(p) ==
  /\ nChans < MaxChans
  /\ nChans' = nChans + 1
  /\ Handle([op |-> "SubscribeDirect", chan |-> nChans + 1, topic |-> p])
  /\ UNCHANGED nMsgs

(* The command carries a sender that was never subscribed.                  *)
HandleUnsubscribe(p) ==
  /\ Handle([op |-> "UnsubscribeDirect", topic |-> p])
  /\ UNCHANGED <<nChans, nMsgs>>

WsMessage(m) ==
  [id |-> nMsgs + 1, method |-> m, dst |-> NoName, src |-> NoConn]

HandlePublish(m) ==
  /\ nMsgs < MaxMsgs
  /\ nMsgs' = nMsgs + 1
  /\ Handle([op |-> "Route", sender |-> WsSender, msg |-> WsMessage(m)])
  /\ UNCHANGED nChans

HandleCall(m) ==
  /\ nMsgs < MaxMsgs
  /\ nMsgs' = nMsgs + 1
  /\ Handle([op |-> "Call", msg |-> WsMessage(m)])
  /\ UNCHANGED nChans

HandleRegister(n) ==
  Handle([op |-> "RegisterService", name |-> n]) /\ UNCHANGED <<nChans, nMsgs>>

(* A forwarding task of the bridge takes the next message of its channel.   *)
HandleTake(k) ==
  /\ outbox[WsChan(k)] # <<>>
  /\ outbox' = [outbox EXCEPT ![WsChan(k)] = Tail(@)]
  /\ UNCHANGED <<nextId, live, services, subscriptions, connections, cmds,
                 nChans, nMsgs, received, replies>>

----------------------------------------------------------------------------
(* run_broker: the actor takes one command and carries it out.              *)

Dequeue(op) ==
  /\ cmds # <<>>
  /\ Head(cmds).op = op
  /\ cmds' = Tail(cmds)

DoRegister ==
  /\ Dequeue("Register")
  /\ services' = Insert(services, Head(cmds).name, Head(cmds).conn)
  /\ UNCHANGED <<nextId, live, subscriptions, connections, nChans, nMsgs,
                 outbox, received, replies>>

DoRegisterService ==
  /\ Dequeue("RegisterService")
  /\ services' = Insert(services, Head(cmds).name, NoConn)
  /\ UNCHANGED <<nextId, live, subscriptions, connections, nChans, nMsgs,
                 outbox, received, replies>>

DoUnregister ==
  /\ Dequeue("Unregister")
  /\ LET c == Head(cmds).conn IN
       /\ services' = Remove(services, {n \in DOMAIN services : services[n] = c})
       /\ subscriptions' = [p \in Patterns |-> subscriptions[p] \ {c}]
       /\ connections' = Remove(connections, {c})
  /\ UNCHANGED <<nextId, live, nChans, nMsgs, outbox, received, replies>>

DoSubscribe ==
  /\ Dequeue("Subscribe")
  /\ subscriptions' =
       [subscriptions EXCEPT ![Head(cmds).topic] = @ \cup {Head(cmds).conn}]
  /\ UNCHANGED <<nextId, live, services, connections, nChans, nMsgs, outbox,
                 received, replies>>

(* Fault: the offset is subtracted.                                         *)
SyntheticIdBelow == Cardinality(DOMAIN connections) - SynBase

SyntheticId == Cardinality(DOMAIN connections) + SynBase

DoSubscribeDirect ==
  /\ Dequeue("SubscribeDirect")
  /\ connections' =
       Insert(connections, SyntheticId, WsChan(Head(cmds).chan))
  /\ subscriptions' =
       [subscriptions EXCEPT ![Head(cmds).topic] = @ \cup {SyntheticId}]
  /\ UNCHANGED <<nextId, live, services, nChans, nMsgs, outbox, received,
                 replies>>

(* The handler's body is empty: the subscription stays.                     *)
DoUnsubscribeDirect ==
  /\ Dequeue("UnsubscribeDirect")
  /\ UNCHANGED <<nextId, live, services, subscriptions, connections, nChans,
                 nMsgs, outbox, received, replies>>

DoUnsubscribe ==
  /\ Dequeue("Unsubscribe")
  /\ subscriptions' =
       [subscriptions EXCEPT ![Head(cmds).topic] = @ \ {Head(cmds).conn}]
  /\ UNCHANGED <<nextId, live, services, connections, nChans, nMsgs, outbox,
                 received, replies>>

(* Fault: the newest message overtakes the others.                          *)
RoutedFirst(m, sender) ==
  [ch \in Chan |->
     IF HasReceiver(ch)
     THEN [i \in 1 .. Copies(m, sender, ch) |-> m] \o outbox[ch]
     ELSE outbox[ch]]

(* What the channels hold after m was sent everywhere it goes.              *)
Routed(m, sender) ==
  [ch \in Chan |->
     IF HasReceiver(ch)
     THEN outbox[ch] \o [i \in 1 .. Copies(m, sender, ch) |-> m]
     ELSE outbox[ch]]

DoRoute ==
  /\ Dequeue("Route")
  /\ outbox' = Routed(Head(cmds).msg, Head(cmds).sender)
  /\ UNCHANGED <<nextId, live, services, subscriptions, connections, nChans,
                 nMsgs, received, replies>>

(* Fault: the call is kept and never answered.                              *)
DoCallParked ==
  /\ Dequeue("Call")
  /\ UNCHANGED <<nextId, live, services, subscriptions, connections, nChans,
                 nMsgs, outbox, received, replies>>

(* A call is answered ServiceNotFound at once and routed nowhere.           *)
DoCall ==
  /\ Dequeue("Call")
  /\ replies' = replies \cup {Head(cmds).msg.id}
  /\ UNCHANGED <<nextId, live, services, subscriptions, connections, nChans,
                 nMsgs, outbox, received>>

----------------------------------------------------------------------------
Connection(c) ==
  \/ \E n \in Names : ReadRegister(c, n)
  \/ \E p \in Patterns : ReadSubscribe(c, p) \/ ReadUnsubscribe(c, p)
  \/ \E m \in Methods, d \in Names \cup {NoName} : ReadMessage(c, m, d)
  \/ Forward(c)
  \/ Close(c)

Environment ==
  \/ \E p \in Patterns : HandleSubscribe(p) \/ HandleUnsubscribe(p)
  \/ \E m \in Methods : HandlePublish(m) \/ HandleCall(m)
  \/ \E n \in Names : HandleRegister(n)
  \/ \E k \in WsChanId : HandleTake(k)

Actor ==
  \/ DoRegister \/ DoRegisterService \/ DoUnregister
  \/ DoSubscribe \/ DoSubscribeDirect
  \/ DoUnsubscribeDirect \/ DoUnsubscribe
  \/ DoRoute \/ DoCall

Next ==
  \/ Accept
  \/ \E c \in UnixId : Connection(c)
  \/ Environment
  \/ Actor

Spec == Init /\ [][Next]_vars

(* The actor task and the connection tasks are always rescheduled by tokio. *)
Fairness ==
  /\ WF_vars(Actor)
  /\ \A c \in UnixId : WF_vars(Forward(c))

FairSpec == Spec /\ Fairness
----------------------------------------------------------------------------
(* Properties.                                                             *)

(* The state is well formed.                                               *)
TypeOK ==
  /\ nextId \in 0 .. MaxConns
  /\ live \in SUBSET (0 .. nextId - 1)
  /\ DOMAIN services \subseteq Names
  /\ \A n \in DOMAIN services : services[n] \in UnixId \cup {NoConn}
  /\ DOMAIN subscriptions = Patterns
  /\ \A p \in Patterns : subscriptions[p] \subseteq Nat
  /\ DOMAIN connections \subseteq Nat
  /\ IsFiniteSet(DOMAIN connections)
  /\ \A i \in DOMAIN connections : connections[i] \in Chan
  /\ cmds \in Seq(Cmd)
  /\ Len(cmds) <= MaxCmds
  /\ nChans \in 0 .. MaxChans
  /\ nMsgs \in 0 .. MaxMsgs
  /\ outbox \in [Chan -> Seq(Msg)]
  /\ received \in [UnixId -> Seq(Msg)]
  /\ replies \in SUBSET (1 .. MaxMsgs)

(* An Unregister of connection c waits in the queue behind position i.      *)
UnregisterAfter(i, c) ==
  \E j \in DOMAIN cmds : /\ i < j
                         /\ cmds[j].op = "Unregister"
                         /\ cmds[j].conn = c

(* Some table of the broker mentions connection c.                          *)
Known(c) ==
  \/ c \in DOMAIN connections
  \/ \E n \in DOMAIN services : services[n] = c
  \/ \E p \in Patterns : c \in subscriptions[p]

(* The broker remembers a Unix connection only while its task runs or its   *)
(* Unregister is queued: whatever the order in which connection tasks and   *)
(* the actor run, no table entry outlives the connection (a Subscribe       *)
(* handled after the Unregister would leave one for ever).                  *)
NoDanglingRoute ==
  \A c \in 0 .. nextId - 1 : Known(c) => c \in live \/ UnregisterAfter(0, c)

(* Sender exclusion: no Unix client is ever sent its own message, by topic  *)
(* or by service name, although routing runs long after the send and looks  *)
(* ids up again then.                                                       *)
NoEcho ==
  \A c \in UnixId :
    /\ \A i \in DOMAIN outbox[UnixChan(c)] : outbox[UnixChan(c)][i].src # c
    /\ \A i \in DOMAIN received[c] : received[c][i].src # c

(* Everything written to, or on its way to, connection c.                   *)
Stream(c) == received[c] \o outbox[UnixChan(c)]

(* Two messages of one sender reach a Unix client in the order in which     *)
(* they were sent (copies of one message may repeat).                       *)
PerSenderOrder ==
  \A c \in UnixId : \A i, j \in DOMAIN Stream(c) :
    (i < j /\ Stream(c)[i].src = Stream(c)[j].src)
      => Stream(c)[i].id <= Stream(c)[j].id

(* The other Unix connections that are subscribed to m.                     *)
Subscribers(m) ==
  {c \in live : /\ c # m.src
                /\ \E p \in Patterns : /\ <<m.method, p>> \in Matching
                                       /\ c \in subscriptions[p]}

(* The actor is about to handle message id with command op, and connection  *)
(* c is one of its subscribers.                                             *)
Due(op, c, id) ==
  /\ cmds # <<>>
  /\ Head(cmds).op = op
  /\ Head(cmds).msg.id = id
  /\ c \in Subscribers(Head(cmds).msg)

(* Message id was written to connection c's socket.                         *)
Delivered(c, id) == \E i \in DOMAIN received[c] : received[c][i].id = id

(* A message published over a Unix socket is written to every client that   *)
(* is subscribed when the actor handles it, unless that client goes away.   *)
PublishReachesSubscribers ==
  \A c \in UnixId, id \in 1 .. MaxMsgs :
    (Due("Route", c, id) /\ Head(cmds).msg.src # NoConn)
      ~> (Delivered(c, id) \/ c \notin live)

(* A closed connection is eventually forgotten: its service names, its      *)
(* subscriptions and its sender are all gone.                               *)
ClosedIsForgotten ==
  \A c \in UnixId : (c < nextId /\ c \notin live) ~> ~Known(c)
=============================================================================
