---------------------------- MODULE BrokerProofs ----------------------------
(* Proofs about the broker, for every value of its constants.               *)
EXTENDS Broker, FiniteSetTheorems, SequenceTheorems, TLAPS

(* The number of copies a Route sends into a channel is a natural number.   *)
LEMMA CopiesIsNat ==
  ASSUME TypeOK, NEW m, NEW s, NEW ch
  PROVE  Copies(m, s, ch) \in Nat
<1> DEFINE D == {i \in DirectTargets(m, s) : connections[i] = ch}
           T == {t \in TopicTargets(m, s) : connections[t[2]] = ch}
<1>1. IsFiniteSet(D)
  <2>1. D \subseteq DOMAIN connections
    BY DEF DirectTargets
  <2> QED BY <2>1, FS_Subset DEF TypeOK
<1>2. IsFiniteSet(T)
  <2>1. IsFiniteSet(Patterns \X DOMAIN connections)
    BY TopicAssumption, FS_Product DEF TypeOK
  <2>2. T \subseteq Patterns \X DOMAIN connections
    BY DEF TopicTargets
  <2> QED BY <2>1, <2>2, FS_Subset
<1>3. Cardinality(D) \in Nat /\ Cardinality(T) \in Nat
  BY <1>1, <1>2, FS_CardinalityType
<1> QED BY <1>3 DEF Copies

(* A command taken off the queue has a known type and leaves a queue of     *)
(* commands behind.                                                         *)
LEMMA DequeueFacts ==
  ASSUME TypeOK, NEW op, Dequeue(op)
  PROVE  /\ Head(cmds) \in Cmd
         /\ Head(cmds).op = op
         /\ cmds' \in Seq(Cmd)
         /\ Len(cmds') <= MaxCmds
         /\ Len(cmds') = Len(cmds) - 1
         /\ \A i \in 1 .. Len(cmds') : cmds'[i] = cmds[i + 1]
  BY BoundsAssumption DEF TypeOK, Dequeue

(* A command appended to the queue leaves the others where they are.        *)
LEMMA EnqueueFacts ==
  ASSUME TypeOK, NEW cmd \in Cmd, Enqueue(cmd)
  PROVE  /\ cmds' \in Seq(Cmd)
         /\ Len(cmds') <= MaxCmds
         /\ Len(cmds') = Len(cmds) + 1
         /\ \A i \in 1 .. Len(cmds) : cmds'[i] = cmds[i]
         /\ cmds'[Len(cmds) + 1] = cmd
  BY BoundsAssumption DEF TypeOK, Enqueue

----------------------------------------------------------------------------
(* Type correctness.                                                       *)

(* Routing keeps every channel a sequence of messages.                      *)
LEMMA RoutedType ==
  ASSUME TypeOK, NEW m \in Msg, NEW s
  PROVE  Routed(m, s) \in [Chan -> Seq(Msg)]
<1> SUFFICES ASSUME NEW ch \in Chan
             PROVE  outbox[ch] \o [i \in 1 .. Copies(m, s, ch) |-> m] \in Seq(Msg)
  BY DEF Routed, TypeOK
<1>1. Copies(m, s, ch) \in Nat
  BY CopiesIsNat
<1>2. [i \in 1 .. Copies(m, s, ch) |-> m] \in Seq(Msg)
  BY <1>1, IsASeq
<1>3. outbox[ch] \in Seq(Msg)
  BY DEF TypeOK
<1> QED BY <1>2, <1>3, ConcatProperties

(* A frame read from a connection keeps the types.                          *)
LEMMA ReadType ==
  ASSUME TypeOK, NEW c \in UnixId, NEW cmd \in Cmd, Read(c, cmd),
         nMsgs' \in 0 .. MaxMsgs
  PROVE  TypeOK'
  BY EnqueueFacts DEF Read, TypeOK

(* A call of a BrokerHandle keeps the types.                                *)
LEMMA HandleType ==
  ASSUME TypeOK, NEW cmd \in Cmd, Handle(cmd),
         nMsgs' \in 0 .. MaxMsgs, nChans' \in 0 .. MaxChans
  PROVE  TypeOK'
  BY EnqueueFacts DEF Handle, TypeOK

(* Accepting a connection keeps the types.                                  *)
LEMMA AcceptType == TypeOK /\ Accept => TypeOK'
<1> SUFFICES ASSUME TypeOK, Accept PROVE TypeOK'
  OBVIOUS
<1>1. nextId \in UnixId /\ nextId \in Nat
  BY BoundsAssumption DEF TypeOK, Accept, UnixId
<1>2. UnixChan(nextId) \in Chan
  BY <1>1 DEF UnixChan, Chan
<1>3. IsFiniteSet(DOMAIN connections \cup {nextId})
  BY FS_AddElement DEF TypeOK
<1>4. /\ DOMAIN connections' = DOMAIN connections \cup {nextId}
      /\ \A i \in DOMAIN connections' : connections'[i] \in Chan
  BY <1>2 DEF Accept, Insert, TypeOK
<1>5. DOMAIN connections' \subseteq Nat /\ IsFiniteSet(DOMAIN connections')
  BY <1>1, <1>3, <1>4 DEF TypeOK
<1>6. nextId' \in 0 .. MaxConns /\ live' \in SUBSET (0 .. nextId' - 1)
  BY BoundsAssumption DEF Accept, TypeOK
<1> QED BY <1>4, <1>5, <1>6 DEF Accept, TypeOK

(* The steps of one connection task keep the types.                         *)
LEMMA ConnectionType ==
  ASSUME TypeOK, NEW c \in UnixId, Connection(c)
  PROVE  TypeOK'
<1>1. ASSUME NEW n \in Names, ReadRegister(c, n) PROVE TypeOK'
  <2>1. [op |-> "Register", conn |-> c, name |-> n] \in Cmd
    BY DEF Cmd
  <2> QED BY <1>1, <2>1, ReadType DEF ReadRegister, TypeOK
<1>2. ASSUME NEW p \in Patterns, ReadSubscribe(c, p) PROVE TypeOK'
  <2>1. [op |-> "Subscribe", conn |-> c, topic |-> p] \in Cmd
    BY DEF Cmd
  <2> QED BY <1>2, <2>1, ReadType DEF ReadSubscribe, TypeOK
<1>3. ASSUME NEW p \in Patterns, ReadUnsubscribe(c, p) PROVE TypeOK'
  <2>1. [op |-> "Unsubscribe", conn |-> c, topic |-> p] \in Cmd
    BY DEF Cmd
  <2> QED BY <1>3, <2>1, ReadType DEF ReadUnsubscribe, TypeOK
<1>4. ASSUME NEW m \in Methods, NEW d \in Names \cup {NoName},
             ReadMessage(c, m, d)
      PROVE  TypeOK'
  <2>1. nMsgs + 1 \in 1 .. MaxMsgs
    BY <1>4, BoundsAssumption DEF ReadMessage, TypeOK
  <2> DEFINE msg == [id |-> nMsgs + 1, method |-> m, dst |-> d, src |-> c]
  <2>2. msg \in Msg
    BY <2>1 DEF Msg
  <2>3. [op |-> "Route", sender |-> c, msg |-> msg] \in Cmd
    BY <2>2 DEF Cmd
  <2>4. nMsgs' \in 0 .. MaxMsgs
    BY <1>4, <2>1 DEF ReadMessage, TypeOK
  <2> QED BY <1>4, <2>3, <2>4, ReadType DEF ReadMessage
<1>5. CASE Forward(c)
  <2>1. UnixChan(c) \in Chan
    BY DEF UnixChan, Chan
  <2>2. /\ outbox[UnixChan(c)] \in Seq(Msg)
        /\ outbox[UnixChan(c)] # <<>>
    BY <1>5, <2>1 DEF Forward, TypeOK
  <2>3. /\ Head(outbox[UnixChan(c)]) \in Msg
        /\ Tail(outbox[UnixChan(c)]) \in Seq(Msg)
    BY <2>2
  <2>4. outbox' \in [Chan -> Seq(Msg)] /\ received' \in [UnixId -> Seq(Msg)]
    BY <1>5, <2>1, <2>3 DEF Forward, TypeOK
  <2> QED BY <1>5, <2>4 DEF Forward, TypeOK
<1>6. CASE Close(c)
  <2>1. [op |-> "Unregister", conn |-> c] \in Cmd
    BY DEF Cmd
  <2>2. outbox' \in [Chan -> Seq(Msg)]
    <3>1. <<>> \in Seq(Msg)
      OBVIOUS
    <3>2. outbox' = [outbox EXCEPT ![UnixChan(c)] = <<>>]
      BY <1>6 DEF Close
    <3> QED BY <3>1, <3>2 DEF TypeOK
  <2>3. cmds' \in Seq(Cmd) /\ Len(cmds') <= MaxCmds
    BY <1>6, <2>1, EnqueueFacts DEF Close
  <2> QED BY <1>6, <2>2, <2>3 DEF Close, TypeOK
<1> QED BY <1>1, <1>2, <1>3, <1>4, <1>5, <1>6 DEF Connection

(* The calls of the WebSocket bridge keep the types.                        *)
LEMMA EnvironmentType == TypeOK /\ Environment => TypeOK'
<1> SUFFICES ASSUME TypeOK, Environment PROVE TypeOK'
  OBVIOUS
<1>0. /\ nMsgs < MaxMsgs => nMsgs + 1 \in 1 .. MaxMsgs
      /\ nChans < MaxChans => nChans + 1 \in 1 .. MaxChans
  BY BoundsAssumption DEF TypeOK
<1>1. ASSUME NEW p \in Patterns, HandleSubscribe(p) PROVE TypeOK'
  <2>1. [op |-> "SubscribeDirect", chan |-> nChans + 1, topic |-> p] \in Cmd
    BY <1>0, <1>1 DEF Cmd, WsChanId, HandleSubscribe
  <2> QED BY <1>0, <1>1, <2>1, HandleType DEF HandleSubscribe, TypeOK
<1>2. ASSUME NEW p \in Patterns, HandleUnsubscribe(p) PROVE TypeOK'
  <2>1. [op |-> "UnsubscribeDirect", topic |-> p] \in Cmd
    BY DEF Cmd
  <2> QED BY <1>2, <2>1, HandleType DEF HandleUnsubscribe, TypeOK
<1>3. ASSUME NEW m \in Methods, nMsgs < MaxMsgs PROVE WsMessage(m) \in Msg
  BY <1>0, <1>3 DEF WsMessage, Msg
<1>4. ASSUME NEW m \in Methods, HandlePublish(m) PROVE TypeOK'
  <2>1. [op |-> "Route", sender |-> WsSender, msg |-> WsMessage(m)] \in Cmd
    BY <1>3, <1>4 DEF Cmd, HandlePublish
  <2> QED BY <1>0, <1>4, <2>1, HandleType DEF HandlePublish, TypeOK
<1>5. ASSUME NEW m \in Methods, HandleCall(m) PROVE TypeOK'
  <2>1. [op |-> "Call", msg |-> WsMessage(m)] \in Cmd
    BY <1>3, <1>5 DEF Cmd, HandleCall
  <2> QED BY <1>0, <1>5, <2>1, HandleType DEF HandleCall, TypeOK
<1>6. ASSUME NEW n \in Names, HandleRegister(n) PROVE TypeOK'
  <2>1. [op |-> "RegisterService", name |-> n] \in Cmd
    BY DEF Cmd
  <2> QED BY <1>6, <2>1, HandleType DEF HandleRegister, TypeOK
<1>7. ASSUME NEW k \in WsChanId, HandleTake(k) PROVE TypeOK'
  <2>1. WsChan(k) \in Chan
    BY DEF WsChan, Chan
  <2>2. Tail(outbox[WsChan(k)]) \in Seq(Msg)
    BY <1>7, <2>1 DEF HandleTake, TypeOK
  <2>3. outbox' \in [Chan -> Seq(Msg)]
    BY <1>7, <2>2 DEF HandleTake, TypeOK
  <2> QED BY <1>7, <2>3 DEF HandleTake, TypeOK
<1> QED BY <1>1, <1>2, <1>4, <1>5, <1>6, <1>7 DEF Environment

(* A dequeued command carries the fields its handler reads.                 *)
LEMMA CmdFields ==
  ASSUME NEW cmd \in Cmd
  PROVE  /\ cmd.op = "Register" => cmd.conn \in UnixId /\ cmd.name \in Names
         /\ cmd.op = "RegisterService" => cmd.name \in Names
         /\ cmd.op = "Unregister" => cmd.conn \in UnixId
         /\ cmd.op \in {"Subscribe", "Unsubscribe"} =>
               cmd.conn \in UnixId /\ cmd.topic \in Patterns
         /\ cmd.op = "SubscribeDirect" =>
               cmd.chan \in WsChanId /\ cmd.topic \in Patterns
         /\ cmd.op \in {"Route", "Call"} => cmd.msg \in Msg
  BY DEF Cmd

(* A synthetic id is a natural number not below SynBase.                    *)
LEMMA SyntheticIdType ==
  TypeOK => SyntheticId \in Nat /\ SyntheticId >= SynBase
<1> SUFFICES ASSUME TypeOK
             PROVE  SyntheticId \in Nat /\ SyntheticId >= SynBase
  OBVIOUS
<1>1. Cardinality(DOMAIN connections) \in Nat
  BY FS_CardinalityType DEF TypeOK
<1> QED BY <1>1, BoundsAssumption DEF SyntheticId

(* Every command the actor carries out keeps the types.                     *)
LEMMA ActorType == TypeOK /\ Actor => TypeOK'
<1> SUFFICES ASSUME TypeOK, Actor PROVE TypeOK'
  OBVIOUS
<1> DEFINE h == Head(cmds)
<1>0. ASSUME NEW op, Dequeue(op)
      PROVE  /\ h \in Cmd /\ h.op = op
             /\ cmds' \in Seq(Cmd) /\ Len(cmds') <= MaxCmds
  BY <1>0, DequeueFacts
<1>1. CASE DoRegister
  <2>1. Dequeue("Register") BY <1>1 DEF DoRegister
  <2>2. h.conn \in UnixId /\ h.name \in Names
    BY <1>0, <2>1, CmdFields
  <2>3. /\ DOMAIN services' \subseteq Names
        /\ \A n \in DOMAIN services' : services'[n] \in UnixId \cup {NoConn}
    BY <1>1, <2>2 DEF DoRegister, Insert, TypeOK
  <2> QED BY <1>0, <1>1, <2>1, <2>3 DEF DoRegister, TypeOK
<1>2. CASE DoRegisterService
  <2>1. Dequeue("RegisterService") BY <1>2 DEF DoRegisterService
  <2>2. h.name \in Names
    BY <1>0, <2>1, CmdFields
  <2>3. /\ DOMAIN services' \subseteq Names
        /\ \A n \in DOMAIN services' : services'[n] \in UnixId \cup {NoConn}
    BY <1>2, <2>2 DEF DoRegisterService, Insert, TypeOK
  <2> QED BY <1>0, <1>2, <2>1, <2>3 DEF DoRegisterService, TypeOK
<1>3. CASE DoUnregister
  <2>1. Dequeue("Unregister") BY <1>3 DEF DoUnregister
  <2>2. /\ DOMAIN services' \subseteq DOMAIN services
        /\ \A n \in DOMAIN services' : services'[n] = services[n]
        /\ DOMAIN connections' = DOMAIN connections \ {h.conn}
        /\ \A i \in DOMAIN connections' : connections'[i] = connections[i]
        /\ DOMAIN subscriptions' = Patterns
        /\ \A p \in Patterns : subscriptions'[p] \subseteq subscriptions[p]
    BY <1>3 DEF DoUnregister, Remove, TypeOK
  <2>3. IsFiniteSet(DOMAIN connections')
    BY <2>2, FS_Subset DEF TypeOK
  <2> QED BY <1>0, <1>3, <2>1, <2>2, <2>3 DEF DoUnregister, TypeOK
<1>4. CASE DoSubscribe
  <2>1. Dequeue("Subscribe") BY <1>4 DEF DoSubscribe
  <2>2. h.conn \in Nat /\ h.topic \in Patterns
    BY <1>0, <2>1, CmdFields, BoundsAssumption DEF UnixId
  <2>3. /\ DOMAIN subscriptions' = Patterns
        /\ \A p \in Patterns : subscriptions'[p] \subseteq Nat
    BY <1>4, <2>2 DEF DoSubscribe, TypeOK
  <2> QED BY <1>0, <1>4, <2>1, <2>3 DEF DoSubscribe, TypeOK
<1>5. CASE DoSubscribeDirect
  <2>1. Dequeue("SubscribeDirect") BY <1>5 DEF DoSubscribeDirect
  <2>2. h.chan \in WsChanId /\ h.topic \in Patterns
    BY <1>0, <2>1, CmdFields
  <2>3. SyntheticId \in Nat /\ WsChan(h.chan) \in Chan
    BY <2>2, SyntheticIdType DEF WsChan, Chan
  <2>4. /\ DOMAIN connections' = DOMAIN connections \cup {SyntheticId}
        /\ \A i \in DOMAIN connections' : connections'[i] \in Chan
    BY <1>5, <2>3 DEF DoSubscribeDirect, Insert, TypeOK
  <2>5. IsFiniteSet(DOMAIN connections') /\ DOMAIN connections' \subseteq Nat
    <3>1. IsFiniteSet(DOMAIN connections \cup {SyntheticId})
      BY FS_AddElement DEF TypeOK
    <3> QED BY <2>3, <2>4, <3>1 DEF TypeOK
  <2>6. /\ DOMAIN subscriptions' = Patterns
        /\ \A p \in Patterns : subscriptions'[p] \subseteq Nat
    BY <1>5, <2>2, <2>3 DEF DoSubscribeDirect, TypeOK
  <2> QED BY <1>0, <1>5, <2>1, <2>4, <2>5, <2>6 DEF DoSubscribeDirect, TypeOK
<1>6. CASE DoUnsubscribeDirect
  <2>1. Dequeue("UnsubscribeDirect") BY <1>6 DEF DoUnsubscribeDirect
  <2> QED BY <1>0, <1>6, <2>1 DEF DoUnsubscribeDirect, TypeOK
<1>7. CASE DoUnsubscribe
  <2>1. Dequeue("Unsubscribe") BY <1>7 DEF DoUnsubscribe
  <2>2. /\ DOMAIN subscriptions' = Patterns
        /\ \A p \in Patterns : subscriptions'[p] \subseteq Nat
    BY <1>7 DEF DoUnsubscribe, TypeOK
  <2> QED BY <1>0, <1>7, <2>1, <2>2 DEF DoUnsubscribe, TypeOK
<1>8. CASE DoRoute
  <2>1. Dequeue("Route") BY <1>8 DEF DoRoute
  <2>2. outbox' \in [Chan -> Seq(Msg)]
    BY <1>0, <1>8, <2>1, CmdFields, RoutedType DEF DoRoute
  <2> QED BY <1>0, <1>8, <2>1, <2>2 DEF DoRoute, TypeOK
<1>9. CASE DoCall
  <2>1. Dequeue("Call") BY <1>9 DEF DoCall
  <2>2. h.msg.id \in 1 .. MaxMsgs
    BY <1>0, <2>1, CmdFields DEF Msg
  <2> QED BY <1>0, <1>9, <2>1, <2>2 DEF DoCall, TypeOK
<1> QED BY <1>1, <1>2, <1>3, <1>4, <1>5, <1>6, <1>7, <1>8, <1>9 DEF Actor

(* A fresh broker is well formed.                                           *)
LEMMA InitType == Init => TypeOK
<1> SUFFICES ASSUME Init PROVE TypeOK
  OBVIOUS
<1>1. DOMAIN services = {} /\ DOMAIN connections = {}
  BY DEF Init
<1>2. IsFiniteSet(DOMAIN connections)
  BY <1>1, FS_EmptySet
<1>3. <<>> \in Seq(Msg) /\ <<>> \in Seq(Cmd) /\ Len(cmds) = 0
  BY DEF Init
<1>4. outbox \in [Chan -> Seq(Msg)] /\ received \in [UnixId -> Seq(Msg)]
  BY <1>3 DEF Init
<1> QED BY <1>1, <1>2, <1>3, <1>4, BoundsAssumption DEF Init, TypeOK

(* Every step of the broker keeps the types.                                *)
LEMMA StepType == TypeOK /\ [Next]_vars => TypeOK'
<1>1. TypeOK /\ UNCHANGED vars => TypeOK'
  BY DEF vars, TypeOK
<1> QED
  BY <1>1, AcceptType, ConnectionType, EnvironmentType, ActorType DEF Next

(* Whatever connection tasks, bridge and actor do, the broker's tables,     *)
(* queues and channels stay well formed.                                    *)
THEOREM TypeCorrect == Spec => []TypeOK
  BY InitType, StepType, PTL DEF Spec

----------------------------------------------------------------------------
(* Sender exclusion.                                                       *)

(* Only id c leads to connection c's channel, and a queued message from     *)
(* connection c carries c as its sender: so excluding the sender's id       *)
(* excludes the sender's channel.                                           *)
OwnChannel ==
  \A i \in DOMAIN connections : \A c \in UnixId :
    connections[i] = UnixChan(c) => i = c

SenderIsSource ==
  \A i \in DOMAIN cmds :
    cmds[i].op = "Route" =>
      cmds[i].msg.src = NoConn \/ cmds[i].sender = cmds[i].msg.src

EchoInv == TypeOK /\ OwnChannel /\ SenderIsSource /\ NoEcho

(* Unix and direct channels are told apart.                                 *)
LEMMA ChanFacts ==
  ASSUME NEW c, NEW d
  PROVE  /\ UnixChan(c) = UnixChan(d) => c = d
         /\ UnixChan(c) # WsChan(d)
  BY DEF UnixChan, WsChan

(* The actor sends nothing into the channel of a message's own sender.      *)
LEMMA NoCopyToSender ==
  ASSUME TypeOK, OwnChannel, NEW m, NEW c \in UnixId
  PROVE  Copies(m, c, UnixChan(c)) = 0
<1>1. {i \in DirectTargets(m, c) : connections[i] = UnixChan(c)} = {}
  BY DEF DirectTargets, OwnChannel
<1>2. {t \in TopicTargets(m, c) : connections[t[2]] = UnixChan(c)} = {}
  BY DEF TopicTargets, OwnChannel
<1> QED BY <1>1, <1>2, FS_EmptySet DEF Copies

(* The tables and the queue keep ids and senders apart in every step.       *)
LEMMA OwnChannelStep == EchoInv /\ [Next]_vars => OwnChannel'
<1> SUFFICES ASSUME EchoInv, [Next]_vars PROVE OwnChannel'
  OBVIOUS
<1>1. CASE Accept
  BY <1>1, ChanFacts DEF Accept, Insert, EchoInv, OwnChannel
<1>2. CASE DoUnregister
  BY <1>2 DEF DoUnregister, Remove, EchoInv, OwnChannel
<1>3. CASE DoSubscribeDirect
  BY <1>3, ChanFacts DEF DoSubscribeDirect, Insert, EchoInv, OwnChannel
<1>4. CASE UNCHANGED connections
  BY <1>4 DEF EchoInv, OwnChannel
<1>5. (\E c \in UnixId : Connection(c)) => UNCHANGED connections
  BY DEF Connection, ReadRegister, ReadSubscribe, ReadUnsubscribe,
         ReadMessage, Read, Forward, Close
<1>6. Environment => UNCHANGED connections
  BY DEF Environment, HandleSubscribe, HandleUnsubscribe, HandlePublish,
         HandleCall, HandleRegister, HandleTake, Handle
<1>7. Actor => DoUnregister \/ DoSubscribeDirect \/ UNCHANGED connections
  BY DEF Actor, DoRegister, DoRegisterService, DoSubscribe,
         DoUnsubscribeDirect, DoUnsubscribe, DoRoute, DoCall
<1> QED BY <1>1, <1>2, <1>3, <1>4, <1>5, <1>6, <1>7 DEF Next, vars

(* How a step changes the queue: one command at the end, one from the       *)
(* front, or none.                                                          *)
LEMMA QueueStep ==
  ASSUME TypeOK, [Next]_vars
  PROVE  \/ \E cmd \in Cmd :
               /\ Enqueue(cmd)
               /\ cmd.op = "Route" =>
                    cmd.msg.src = NoConn \/ cmd.sender = cmd.msg.src
         \/ \E op : Dequeue(op)
         \/ UNCHANGED cmds
<1> DEFINE Fine(cmd) == /\ cmd \in Cmd
                        /\ Enqueue(cmd)
                        /\ cmd.op = "Route" =>
                             cmd.msg.src = NoConn \/ cmd.sender = cmd.msg.src
<1>1. CASE Accept
  BY <1>1 DEF Accept
<1>2. ASSUME NEW c \in UnixId, Connection(c)
      PROVE  (\E cmd \in Cmd : Fine(cmd)) \/ UNCHANGED cmds
  <2>1. ASSUME NEW n \in Names, ReadRegister(c, n)
        PROVE  \E cmd \in Cmd : Fine(cmd)
    <3>1. Fine([op |-> "Register", conn |-> c, name |-> n])
      BY <2>1 DEF ReadRegister, Read, Cmd
    <3> QED BY <3>1
  <2>2. ASSUME NEW p \in Patterns, ReadSubscribe(c, p)
        PROVE  \E cmd \in Cmd : Fine(cmd)
    <3>1. Fine([op |-> "Subscribe", conn |-> c, topic |-> p])
      BY <2>2 DEF ReadSubscribe, Read, Cmd
    <3> QED BY <3>1
  <2>3. ASSUME NEW p \in Patterns, ReadUnsubscribe(c, p)
        PROVE  \E cmd \in Cmd : Fine(cmd)
    <3>1. Fine([op |-> "Unsubscribe", conn |-> c, topic |-> p])
      BY <2>3 DEF ReadUnsubscribe, Read, Cmd
    <3> QED BY <3>1
  <2>4. ASSUME NEW m \in Methods, NEW d \in Names \cup {NoName},
               ReadMessage(c, m, d)
        PROVE  \E cmd \in Cmd : Fine(cmd)
    <3> DEFINE msg == [id |-> nMsgs + 1, method |-> m, dst |-> d, src |-> c]
    <3>1. msg \in Msg
      BY <2>4, BoundsAssumption DEF ReadMessage, TypeOK, Msg
    <3>2. [op |-> "Route", sender |-> c, msg |-> msg] \in Cmd
      BY <3>1 DEF Cmd
    <3>3. Fine([op |-> "Route", sender |-> c, msg |-> msg])
      BY <2>4, <3>2 DEF ReadMessage, Read
    <3> QED BY <3>3
  <2>5. CASE Forward(c)
    BY <2>5 DEF Forward
  <2>6. CASE Close(c)
    <3>1. Fine([op |-> "Unregister", conn |-> c])
      BY <2>6 DEF Close, Cmd
    <3> QED BY <3>1
  <2> QED BY <1>2, <2>1, <2>2, <2>3, <2>4, <2>5, <2>6 DEF Connection
<1>3. CASE Environment
  <2>0. /\ nMsgs < MaxMsgs => nMsgs + 1 \in 1 .. MaxMsgs
        /\ nChans < MaxChans => nChans + 1 \in WsChanId
    BY BoundsAssumption DEF TypeOK, WsChanId
  <2>1. ASSUME NEW p \in Patterns, HandleSubscribe(p)
        PROVE  \E cmd \in Cmd : Fine(cmd)
    <3>1. Fine([op |-> "SubscribeDirect", chan |-> nChans + 1, topic |-> p])
      BY <2>0, <2>1 DEF HandleSubscribe, Handle, Cmd
    <3> QED BY <3>1
  <2>2. ASSUME NEW p \in Patterns, HandleUnsubscribe(p)
        PROVE  \E cmd \in Cmd : Fine(cmd)
    <3>1. Fine([op |-> "UnsubscribeDirect", topic |-> p])
      BY <2>2 DEF HandleUnsubscribe, Handle, Cmd
    <3> QED BY <3>1
  <2>3. ASSUME NEW m \in Methods, nMsgs < MaxMsgs
        PROVE  WsMessage(m) \in Msg /\ WsMessage(m).src = NoConn
    BY <2>0, <2>3 DEF WsMessage, Msg
  <2>4. ASSUME NEW m \in Methods, HandlePublish(m)
        PROVE  \E cmd \in Cmd : Fine(cmd)
    <3>1. [op |-> "Route", sender |-> WsSender, msg |-> WsMessage(m)] \in Cmd
      BY <2>3, <2>4 DEF HandlePublish, Cmd
    <3>2. Fine([op |-> "Route", sender |-> WsSender, msg |-> WsMessage(m)])
      BY <2>3, <2>4, <3>1 DEF HandlePublish, Handle
    <3> QED BY <3>2
  <2>5. ASSUME NEW m \in Methods, HandleCall(m)
        PROVE  \E cmd \in Cmd : Fine(cmd)
    <3>1. Fine([op |-> "Call", msg |-> WsMessage(m)])
      BY <2>3, <2>5 DEF HandleCall, Handle, Cmd
    <3> QED BY <3>1
  <2>6. ASSUME NEW n \in Names, HandleRegister(n)
        PROVE  \E cmd \in Cmd : Fine(cmd)
    <3>1. Fine([op |-> "RegisterService", name |-> n])
      BY <2>6 DEF HandleRegister, Handle, Cmd
    <3> QED BY <3>1
  <2>7. ASSUME NEW k \in WsChanId, HandleTake(k)
        PROVE  UNCHANGED cmds
    BY <2>7 DEF HandleTake
  <2> QED
    BY <1>3, <2>1, <2>2, <2>4, <2>5, <2>6, <2>7 DEF Environment
<1>4. Actor => \E op : Dequeue(op)
  BY DEF Actor, DoRegister, DoRegisterService, DoUnregister, DoSubscribe,
         DoSubscribeDirect, DoUnsubscribeDirect, DoUnsubscribe, DoRoute, DoCall
<1>5. CASE UNCHANGED vars
  BY <1>5 DEF vars
<1> QED BY <1>1, <1>2, <1>3, <1>4, <1>5 DEF Next

(* Queued messages keep the sender they were read with.                     *)
LEMMA SenderIsSourceStep == EchoInv /\ [Next]_vars => SenderIsSource'
<1> SUFFICES ASSUME EchoInv, [Next]_vars PROVE SenderIsSource'
  OBVIOUS
<1>1. TypeOK /\ SenderIsSource /\ cmds \in Seq(Cmd)
  BY DEF EchoInv, TypeOK
<1>2. ASSUME NEW cmd \in Cmd, Enqueue(cmd),
             cmd.op = "Route" => cmd.msg.src = NoConn \/ cmd.sender = cmd.msg.src
      PROVE  SenderIsSource'
  <2>1. /\ DOMAIN cmds' = 1 .. Len(cmds) + 1
        /\ \A i \in 1 .. Len(cmds) : cmds'[i] = cmds[i]
        /\ cmds'[Len(cmds) + 1] = cmd
    BY <1>1, <1>2, EnqueueFacts
  <2> QED BY <1>1, <1>2, <2>1 DEF SenderIsSource
<1>3. ASSUME NEW op, Dequeue(op) PROVE SenderIsSource'
  <2>1. /\ DOMAIN cmds' = 1 .. Len(cmds) - 1
        /\ \A i \in 1 .. Len(cmds) - 1 : cmds'[i] = cmds[i + 1]
    BY <1>1, <1>3, DequeueFacts
  <2>2. \A i \in 1 .. Len(cmds) - 1 : i + 1 \in DOMAIN cmds
    BY <1>1
  <2> QED BY <1>1, <2>1, <2>2 DEF SenderIsSource
<1>4. CASE UNCHANGED cmds
  BY <1>1, <1>4 DEF SenderIsSource
<1> QED BY <1>1, <1>2, <1>3, <1>4, QueueStep

(* Copies of a message appended to a queue of messages are the only         *)
(* messages a Route adds to it.                                             *)
LEMMA AppendedMessages ==
  ASSUME NEW s \in Seq(Msg), NEW n \in Nat, NEW m \in Msg,
         NEW i \in DOMAIN (s \o [j \in 1 .. n |-> m])
  PROVE  \/ i \in DOMAIN s /\ (s \o [j \in 1 .. n |-> m])[i] = s[i]
         \/ n > 0 /\ i > Len(s) /\ (s \o [j \in 1 .. n |-> m])[i] = m
<1> DEFINE t == [j \in 1 .. n |-> m]
<1>1. t \in Seq(Msg) /\ Len(t) = n
  BY IsASeq
<1>2. /\ Len(s \o t) = Len(s) + n
      /\ \A k \in 1 .. Len(s) + n :
           (s \o t)[k] = IF k <= Len(s) THEN s[k] ELSE t[k - Len(s)]
  BY <1>1, ConcatProperties
<1>3. i \in 1 .. Len(s) + n
  BY <1>1, <1>2
<1>4. CASE i <= Len(s)
  BY <1>2, <1>3, <1>4
<1>5. CASE i > Len(s)
  <2>1. i - Len(s) \in 1 .. n /\ n > 0
    BY <1>3, <1>5
  <2>2. t[i - Len(s)] = m
    BY <2>1
  <2> QED BY <1>2, <1>3, <1>5, <2>1, <2>2
<1> QED BY <1>3, <1>4, <1>5

(* No step puts a message into its own sender's channel or socket.          *)
LEMMA NoEchoStep == EchoInv /\ [Next]_vars => NoEcho'
<1> SUFFICES ASSUME EchoInv, [Next]_vars, NEW c \in UnixId
             PROVE  /\ \A i \in DOMAIN outbox'[UnixChan(c)] :
                          outbox'[UnixChan(c)][i].src # c
                    /\ \A i \in DOMAIN received'[c] : received'[c][i].src # c
  BY DEF NoEcho
<1> DEFINE u == UnixChan(c)
<1>1. TypeOK /\ OwnChannel /\ SenderIsSource
  BY DEF EchoInv
<1>2. /\ u \in Chan
      /\ outbox \in [Chan -> Seq(Msg)] /\ outbox[u] \in Seq(Msg)
      /\ received \in [UnixId -> Seq(Msg)] /\ received[c] \in Seq(Msg)
  BY <1>1 DEF TypeOK, UnixChan, Chan
<1>3. /\ \A i \in DOMAIN outbox[u] : outbox[u][i].src # c
      /\ \A i \in DOMAIN received[c] : received[c][i].src # c
  BY DEF EchoInv, NoEcho
<1>4. CASE UNCHANGED <<outbox, received>>
  BY <1>3, <1>4
<1>5. ASSUME NEW d \in UnixId, Forward(d)
      PROVE  /\ \A i \in DOMAIN outbox'[u] : outbox'[u][i].src # c
             /\ \A i \in DOMAIN received'[c] : received'[c][i].src # c
  <2>1. CASE d # c
    <3>1. UnixChan(d) # u
      BY <2>1, ChanFacts
    <3>2. outbox'[u] = outbox[u] /\ received'[c] = received[c]
      BY <1>2, <1>5, <2>1, <3>1 DEF Forward
    <3> QED BY <1>3, <3>2
  <2>2. CASE d = c
    <3>1. /\ outbox[u] # <<>>
          /\ outbox'[u] = Tail(outbox[u])
          /\ received'[c] = Append(received[c], Head(outbox[u]))
      BY <1>2, <1>5, <2>2 DEF Forward
    <3>2. \A i \in DOMAIN Tail(outbox[u]) :
            i + 1 \in DOMAIN outbox[u] /\ Tail(outbox[u])[i] = outbox[u][i + 1]
      BY <1>2, <3>1
    <3>3. Head(outbox[u]) = outbox[u][1] /\ 1 \in DOMAIN outbox[u]
      BY <1>2, <3>1
    <3>4. \A i \in DOMAIN Append(received[c], Head(outbox[u])) :
            \/ /\ i \in DOMAIN received[c]
               /\ Append(received[c], Head(outbox[u]))[i] = received[c][i]
            \/ Append(received[c], Head(outbox[u]))[i] = Head(outbox[u])
      BY <1>2
    <3> QED BY <1>3, <3>1, <3>2, <3>3, <3>4
  <2> QED BY <2>1, <2>2
<1>6. ASSUME NEW d \in UnixId, Close(d)
      PROVE  /\ \A i \in DOMAIN outbox'[u] : outbox'[u][i].src # c
             /\ \A i \in DOMAIN received'[c] : received'[c][i].src # c
  <2>1. received'[c] = received[c]
    BY <1>6 DEF Close
  <2>2. outbox'[u] = outbox[u] \/ outbox'[u] = <<>>
    BY <1>2, <1>6 DEF Close
  <2> QED BY <1>3, <2>1, <2>2
<1>7. ASSUME NEW k \in WsChanId, HandleTake(k)
      PROVE  outbox'[u] = outbox[u] /\ received'[c] = received[c]
  BY <1>2, <1>7, ChanFacts DEF HandleTake
<1>8. CASE DoRoute
  <2> DEFINE m == Head(cmds).msg
             s == Head(cmds).sender
  <2>1. m \in Msg /\ Head(cmds).op = "Route" /\ cmds # <<>>
    BY <1>1, <1>8, DequeueFacts, CmdFields DEF DoRoute, Dequeue
  <2>2. m.src = NoConn \/ s = m.src
    <3>1. 1 \in DOMAIN cmds /\ Head(cmds) = cmds[1]
      BY <1>1, <2>1 DEF TypeOK
    <3> QED BY <1>1, <2>1, <3>1 DEF SenderIsSource
  <2>3. m.src = c => Copies(m, s, u) = 0
    BY <1>1, <2>2, NoCopyToSender, BoundsAssumption DEF NoConn, UnixId
  <2>4. Copies(m, s, u) \in Nat
    BY <1>1, CopiesIsNat
  <2>5. \/ outbox'[u] = outbox[u]
        \/ outbox'[u] = outbox[u] \o [j \in 1 .. Copies(m, s, u) |-> m]
    BY <1>2, <1>8 DEF DoRoute, Routed
  <2>6. \A i \in DOMAIN outbox'[u] : outbox'[u][i].src # c
    <3>1. CASE outbox'[u] = outbox[u]
      BY <1>3, <3>1
    <3>2. CASE outbox'[u] = outbox[u] \o [j \in 1 .. Copies(m, s, u) |-> m]
      <4> SUFFICES ASSUME NEW i \in DOMAIN outbox'[u]
                   PROVE  outbox'[u][i].src # c
        OBVIOUS
      <4>1. \/ i \in DOMAIN outbox[u] /\ outbox'[u][i] = outbox[u][i]
            \/ Copies(m, s, u) > 0 /\ outbox'[u][i] = m
        BY <1>2, <2>1, <2>4, <3>2, AppendedMessages
      <4> QED BY <1>3, <2>3, <4>1
    <3> QED BY <2>5, <3>1, <3>2
  <2>7. received' = received
    BY <1>8 DEF DoRoute
  <2> QED BY <1>3, <2>6, <2>7
<1>9. CASE Accept
  BY <1>4, <1>9 DEF Accept
<1>10. ASSUME NEW d \in UnixId, Connection(d)
       PROVE  Forward(d) \/ Close(d) \/ UNCHANGED <<outbox, received>>
  BY <1>10 DEF Connection, ReadRegister, ReadSubscribe, ReadUnsubscribe,
               ReadMessage, Read
<1>11. Environment => \/ \E k \in WsChanId : HandleTake(k)
                      \/ UNCHANGED <<outbox, received>>
  BY DEF Environment, HandleSubscribe, HandleUnsubscribe, HandlePublish,
         HandleCall, HandleRegister, Handle
<1>12. Actor => DoRoute \/ UNCHANGED <<outbox, received>>
  BY DEF Actor, DoRegister, DoRegisterService, DoUnregister, DoSubscribe,
         DoSubscribeDirect, DoUnsubscribeDirect, DoUnsubscribe, DoCall
<1>13. UNCHANGED vars => UNCHANGED <<outbox, received>>
  BY DEF vars
<1> QED BY <1>3, <1>4, <1>5, <1>6, <1>7, <1>8, <1>9, <1>10, <1>11, <1>12, <1>13
        DEF Next

(* No Unix client is ever sent its own message (the checks against          *)
(* sender_conn in the Route command), in every order of tasks and actor.    *)
THEOREM SenderExclusion == Spec => []NoEcho
<1>1. Init => EchoInv
  <2> SUFFICES ASSUME Init PROVE OwnChannel /\ SenderIsSource /\ NoEcho
    BY InitType DEF EchoInv
  <2>1. DOMAIN connections = {} /\ DOMAIN cmds = {}
    BY DEF Init
  <2>2. \A c \in UnixId : UnixChan(c) \in Chan
    BY DEF UnixChan, Chan
  <2>3. NoEcho
    BY <2>2 DEF Init, NoEcho
  <2> QED BY <2>1, <2>3 DEF OwnChannel, SenderIsSource
<1>2. EchoInv /\ [Next]_vars => EchoInv'
  BY StepType, OwnChannelStep, SenderIsSourceStep, NoEchoStep DEF EchoInv
<1>3. EchoInv => NoEcho
  BY DEF EchoInv
<1> QED BY <1>1, <1>2, <1>3, PTL DEF Spec

----------------------------------------------------------------------------
(* No table entry outlives its connection.                                 *)

(* A queued command that will enter connection c into a table is ahead of   *)
(* c's Unregister, unless c's task still runs and will queue one.           *)
QueueOwned ==
  \A i \in DOMAIN cmds : \A c \in UnixId :
    (cmds[i].op \in {"Register", "Subscribe"} /\ cmds[i].conn = c) =>
      c \in live \/ UnregisterAfter(i, c)

RouteInv == TypeOK /\ QueueOwned /\ NoDanglingRoute

(* A queued Unregister stays queued when another command is appended.       *)
LEMMA EnqueueKeeps ==
  ASSUME TypeOK, NEW cmd \in Cmd, Enqueue(cmd), NEW i, NEW c,
         UnregisterAfter(i, c)
  PROVE  UnregisterAfter(i, c)'
<1>1. /\ DOMAIN cmds = 1 .. Len(cmds)
      /\ DOMAIN cmds' = 1 .. Len(cmds) + 1
      /\ \A j \in 1 .. Len(cmds) : cmds'[j] = cmds[j]
  BY EnqueueFacts DEF TypeOK
<1>2. PICK j \in DOMAIN cmds :
        i < j /\ cmds[j].op = "Unregister" /\ cmds[j].conn = c
  BY DEF UnregisterAfter
<1>3. j \in DOMAIN cmds' /\ cmds'[j] = cmds[j]
  BY <1>1, <1>2 DEF TypeOK
<1> QED BY <1>2, <1>3 DEF UnregisterAfter

(* Taking a command off the queue moves a later Unregister one place up.    *)
LEMMA DequeueKeeps ==
  ASSUME TypeOK, NEW op, Dequeue(op), NEW i \in Nat, NEW c,
         UnregisterAfter(i + 1, c)
  PROVE  UnregisterAfter(i, c)'
<1>1. /\ DOMAIN cmds = 1 .. Len(cmds)
      /\ DOMAIN cmds' = 1 .. Len(cmds) - 1
      /\ \A j \in 1 .. Len(cmds) - 1 : cmds'[j] = cmds[j + 1]
  BY DequeueFacts DEF TypeOK
<1>2. PICK j \in DOMAIN cmds :
        i + 1 < j /\ cmds[j].op = "Unregister" /\ cmds[j].conn = c
  BY DEF UnregisterAfter
<1>3. j - 1 \in DOMAIN cmds' /\ i < j - 1 /\ cmds'[j - 1] = cmds[j]
  BY SMTT(30), <1>1, <1>2 DEF TypeOK
<1> QED BY <1>2, <1>3 DEF UnregisterAfter

(* An Unregister that is not itself taken off the queue stays in it.        *)
LEMMA DequeueOther ==
  ASSUME TypeOK, NEW op, Dequeue(op), NEW c, UnregisterAfter(0, c),
         op # "Unregister" \/ Head(cmds).conn # c
  PROVE  UnregisterAfter(0, c)'
<1>1. PICK j \in DOMAIN cmds :
        0 < j /\ cmds[j].op = "Unregister" /\ cmds[j].conn = c
  BY DEF UnregisterAfter
<1>2. j # 1
  BY <1>1 DEF Dequeue, TypeOK
<1>3. UnregisterAfter(0 + 1, c)
  BY <1>1, <1>2 DEF UnregisterAfter, TypeOK
<1> QED BY <1>3, DequeueKeeps

(* A step of a connection or of the bridge keeps both parts.                *)
LEMMA EnqueueRoute ==
  ASSUME RouteInv, NEW cmd \in Cmd, Enqueue(cmd),
         UNCHANGED <<nextId, live, services, subscriptions, connections>>,
         cmd.op \in {"Register", "Subscribe"} => cmd.conn \in live
  PROVE  QueueOwned' /\ NoDanglingRoute'
<1>1. TypeOK /\ QueueOwned /\ NoDanglingRoute
  BY DEF RouteInv
<1>2. /\ DOMAIN cmds = 1 .. Len(cmds) /\ Len(cmds) \in Nat
      /\ DOMAIN cmds' = 1 .. Len(cmds) + 1
      /\ \A j \in 1 .. Len(cmds) : cmds'[j] = cmds[j]
      /\ cmds'[Len(cmds) + 1] = cmd
  BY <1>1, EnqueueFacts DEF TypeOK
<1>3. QueueOwned'
  <2> SUFFICES ASSUME NEW i \in DOMAIN cmds', NEW c \in UnixId,
                      cmds'[i].op \in {"Register", "Subscribe"},
                      cmds'[i].conn = c
               PROVE  c \in live' \/ UnregisterAfter(i, c)'
    BY DEF QueueOwned
  <2>1. CASE i = Len(cmds) + 1
    BY <1>2, <2>1
  <2>2. CASE i \in 1 .. Len(cmds)
    <3>1. c \in live \/ UnregisterAfter(i, c)
      BY <1>1, <1>2, <2>2 DEF QueueOwned
    <3> QED BY <1>1, <1>2, <2>2, <3>1, EnqueueKeeps
  <2> QED BY <1>2, <2>1, <2>2
<1>4. NoDanglingRoute'
  <2> SUFFICES ASSUME NEW c \in 0 .. nextId' - 1, Known(c)'
               PROVE  c \in live' \/ UnregisterAfter(0, c)'
    BY DEF NoDanglingRoute
  <2>1. c \in 0 .. nextId - 1 /\ Known(c)
    BY DEF Known
  <2> QED BY <1>1, <2>1, EnqueueKeeps DEF NoDanglingRoute
<1> QED BY <1>3, <1>4

(* A handler of the actor shortens the queue and leaves its rest in order.  *)
LEMMA DequeueOwned ==
  ASSUME RouteInv, NEW op, Dequeue(op), UNCHANGED live
  PROVE  QueueOwned'
<1>1. TypeOK /\ QueueOwned
  BY DEF RouteInv
<1>2. /\ DOMAIN cmds = 1 .. Len(cmds) /\ Len(cmds) \in Nat
      /\ DOMAIN cmds' = 1 .. Len(cmds) - 1
      /\ \A j \in 1 .. Len(cmds) - 1 : cmds'[j] = cmds[j + 1]
  BY <1>1, DequeueFacts DEF TypeOK
<1> SUFFICES ASSUME NEW i \in DOMAIN cmds', NEW c \in UnixId,
                    cmds'[i].op \in {"Register", "Subscribe"},
                    cmds'[i].conn = c
             PROVE  c \in live' \/ UnregisterAfter(i, c)'
  BY DEF QueueOwned
<1>3. i \in Nat /\ i + 1 \in DOMAIN cmds /\ cmds'[i] = cmds[i + 1]
  BY <1>2
<1>4. c \in live \/ UnregisterAfter(i + 1, c)
  BY <1>1, <1>3 DEF QueueOwned
<1> QED BY <1>1, <1>3, <1>4, DequeueKeeps

(* A handler that makes at most the sender of the command known, or that    *)
(* unregisters it, leaves no dangling entry.                                *)
LEMMA DequeueRoute ==
  ASSUME RouteInv, NEW op, Dequeue(op), UNCHANGED <<live, nextId>>,
         \A c \in 0 .. nextId - 1 :
           Known(c)' => \/ Known(c) /\ (op # "Unregister" \/ Head(cmds).conn # c)
                        \/ /\ op \in {"Register", "Subscribe"}
                           /\ Head(cmds).conn = c
  PROVE  QueueOwned' /\ NoDanglingRoute'
<1>1. TypeOK /\ QueueOwned /\ NoDanglingRoute
  BY DEF RouteInv
<1>2. QueueOwned'
  BY DequeueOwned
<1>3. NoDanglingRoute'
  <2> SUFFICES ASSUME NEW c \in 0 .. nextId' - 1, Known(c)'
               PROVE  c \in live' \/ UnregisterAfter(0, c)'
    BY DEF NoDanglingRoute
  <2>1. CASE Known(c) /\ (op # "Unregister" \/ Head(cmds).conn # c)
    BY <1>1, <2>1, DequeueOther DEF NoDanglingRoute
  <2>2. CASE op \in {"Register", "Subscribe"} /\ Head(cmds).conn = c
    <3>1. 1 \in DOMAIN cmds /\ Head(cmds) = cmds[1] /\ cmds[1].op = op
      BY <1>1 DEF Dequeue, TypeOK
    <3>2. c \in UnixId
      BY <1>1, BoundsAssumption DEF TypeOK, UnixId
    <3>3. c \in live \/ UnregisterAfter(0 + 1, c)
      BY <1>1, <2>2, <3>1, <3>2 DEF QueueOwned
    <3> QED BY <1>1, <3>3, DequeueKeeps
  <2> QED BY <2>1, <2>2
<1> QED BY <1>2, <1>3

(* Every step keeps the tables free of dangling ids, as long as Unix ids    *)
(* stay below the synthetic ones.                                           *)
LEMMA RouteStep ==
  ASSUME MaxConns <= SynBase, RouteInv, [Next]_vars
  PROVE  QueueOwned' /\ NoDanglingRoute'
<1>1. TypeOK /\ QueueOwned /\ NoDanglingRoute
  BY DEF RouteInv
<1>2. CASE Accept
  <2>1. QueueOwned'
    BY <1>1, <1>2 DEF Accept, QueueOwned, UnregisterAfter
  <2>2. DOMAIN connections' = DOMAIN connections \cup {nextId}
    BY <1>2 DEF Accept, Insert
  <2>3. ASSUME NEW c \in 0 .. nextId' - 1, Known(c)'
        PROVE  c \in live' \/ UnregisterAfter(0, c)'
    <3>1. c = nextId \/ (c \in 0 .. nextId - 1 /\ Known(c))
      BY <1>1, <1>2, <2>2, <2>3 DEF Accept, Known, TypeOK
    <3>2. UnregisterAfter(0, c) => UnregisterAfter(0, c)'
      BY <1>2 DEF Accept, UnregisterAfter
    <3> QED BY <1>1, <1>2, <3>1, <3>2 DEF Accept, NoDanglingRoute
  <2>4. NoDanglingRoute'
    BY <2>3 DEF NoDanglingRoute
  <2> QED BY <2>1, <2>4
<1>3. ASSUME NEW d \in UnixId, Close(d)
      PROVE  QueueOwned' /\ NoDanglingRoute'
  <2> DEFINE un == [op |-> "Unregister", conn |-> d]
  <2>1. un \in Cmd /\ Enqueue(un)
    BY <1>3 DEF Close, Cmd
  <2>2. /\ DOMAIN cmds = 1 .. Len(cmds) /\ Len(cmds) \in Nat
        /\ DOMAIN cmds' = 1 .. Len(cmds) + 1
        /\ \A j \in 1 .. Len(cmds) : cmds'[j] = cmds[j]
        /\ cmds'[Len(cmds) + 1] = un
    BY <1>1, <2>1, EnqueueFacts DEF TypeOK
  <2>3. \A i \in 0 .. Len(cmds) : UnregisterAfter(i, d)'
    BY <2>2 DEF UnregisterAfter
  <2>4. \A c : c \in live => c \in live' \/ c = d
    BY <1>3 DEF Close
  <2>5. ASSUME NEW i \in DOMAIN cmds', NEW c \in UnixId,
               cmds'[i].op \in {"Register", "Subscribe"}, cmds'[i].conn = c
        PROVE  c \in live' \/ UnregisterAfter(i, c)'
    <3>1. i \in 1 .. Len(cmds) /\ cmds'[i] = cmds[i]
      BY <2>2, <2>5
    <3>2. c \in live \/ UnregisterAfter(i, c)
      BY <1>1, <2>2, <2>5, <3>1 DEF QueueOwned
    <3> QED BY <1>1, <2>1, <2>3, <2>4, <3>1, <3>2, EnqueueKeeps
  <2>6. ASSUME NEW c \in 0 .. nextId' - 1, Known(c)'
        PROVE  c \in live' \/ UnregisterAfter(0, c)'
    <3>1. c \in 0 .. nextId - 1 /\ Known(c)
      BY <1>3, <2>6 DEF Close, Known
    <3> QED BY <1>1, <2>1, <2>2, <2>3, <2>4, <3>1, EnqueueKeeps
            DEF NoDanglingRoute
  <2> QED BY <2>5, <2>6 DEF QueueOwned, NoDanglingRoute
<1>4. ASSUME UNCHANGED <<nextId, live, services, subscriptions, connections,
                         cmds>>
      PROVE  QueueOwned' /\ NoDanglingRoute'
  BY <1>1, <1>4 DEF QueueOwned, NoDanglingRoute, Known, UnregisterAfter
<1>5. ASSUME NEW d \in UnixId, Connection(d), ~Close(d)
      PROVE  QueueOwned' /\ NoDanglingRoute'
  <2>1. ASSUME NEW n \in Names, ReadRegister(d, n)
        PROVE  QueueOwned' /\ NoDanglingRoute'
    <3>1. [op |-> "Register", conn |-> d, name |-> n] \in Cmd
      BY DEF Cmd
    <3> QED BY <2>1, <3>1, EnqueueRoute DEF ReadRegister, Read
  <2>2. ASSUME NEW p \in Patterns, ReadSubscribe(d, p)
        PROVE  QueueOwned' /\ NoDanglingRoute'
    <3>1. [op |-> "Subscribe", conn |-> d, topic |-> p] \in Cmd
      BY DEF Cmd
    <3> QED BY <2>2, <3>1, EnqueueRoute DEF ReadSubscribe, Read
  <2>3. ASSUME NEW p \in Patterns, ReadUnsubscribe(d, p)
        PROVE  QueueOwned' /\ NoDanglingRoute'
    <3>1. [op |-> "Unsubscribe", conn |-> d, topic |-> p] \in Cmd
      BY DEF Cmd
    <3> QED BY <2>3, <3>1, EnqueueRoute DEF ReadUnsubscribe, Read
  <2>4. ASSUME NEW m \in Methods, NEW e \in Names \cup {NoName},
               ReadMessage(d, m, e)
        PROVE  QueueOwned' /\ NoDanglingRoute'
    <3> DEFINE msg == [id |-> nMsgs + 1, method |-> m, dst |-> e, src |-> d]
    <3>1. msg \in Msg
      BY <1>1, <2>4, BoundsAssumption DEF ReadMessage, TypeOK, Msg
    <3>2. [op |-> "Route", sender |-> d, msg |-> msg] \in Cmd
      BY <3>1 DEF Cmd
    <3> QED BY <2>4, <3>2, EnqueueRoute DEF ReadMessage, Read
  <2>5. CASE Forward(d)
    BY <1>4, <2>5 DEF Forward
  <2> QED BY <1>5, <2>1, <2>2, <2>3, <2>4, <2>5 DEF Connection
<1>6. CASE Environment
  <2>1. ASSUME NEW k \in WsChanId, HandleTake(k)
        PROVE  QueueOwned' /\ NoDanglingRoute'
    BY <1>4, <2>1 DEF HandleTake
  <2>2. ASSUME NEW cmd \in Cmd, Handle(cmd),
               cmd.op \notin {"Register", "Subscribe"}
        PROVE  QueueOwned' /\ NoDanglingRoute'
    BY <2>2, EnqueueRoute DEF Handle
  <2>3. ASSUME ~ \E k \in WsChanId : HandleTake(k)
        PROVE  \E cmd \in Cmd :
                 Handle(cmd) /\ cmd.op \notin {"Register", "Subscribe"}
    <3>0. /\ nMsgs < MaxMsgs => nMsgs + 1 \in 1 .. MaxMsgs
          /\ nChans < MaxChans => nChans + 1 \in WsChanId
      BY <1>1, BoundsAssumption DEF TypeOK, WsChanId
    <3>1. ASSUME NEW p \in Patterns, HandleSubscribe(p)
          PROVE  [op |-> "SubscribeDirect", chan |-> nChans + 1,
                  topic |-> p] \in Cmd
      BY <3>0, <3>1 DEF HandleSubscribe, Cmd
    <3>2. \A p \in Patterns : [op |-> "UnsubscribeDirect", topic |-> p] \in Cmd
      BY DEF Cmd
    <3>3. ASSUME NEW m \in Methods, nMsgs < MaxMsgs
          PROVE  /\ [op |-> "Route", sender |-> WsSender,
                     msg |-> WsMessage(m)] \in Cmd
                 /\ [op |-> "Call", msg |-> WsMessage(m)] \in Cmd
      <4>1. WsMessage(m) \in Msg
        BY <3>0, <3>3 DEF WsMessage, Msg
      <4> QED BY <4>1 DEF Cmd
    <3>4. \A n \in Names : [op |-> "RegisterService", name |-> n] \in Cmd
      BY DEF Cmd
    <3>5. ASSUME NEW p \in Patterns, HandleSubscribe(p)
          PROVE  \E cmd \in Cmd :
                   Handle(cmd) /\ cmd.op \notin {"Register", "Subscribe"}
      <4> DEFINE cmd0 == [op |-> "SubscribeDirect", chan |-> nChans + 1,
                          topic |-> p]
      <4>1. cmd0 \in Cmd /\ Handle(cmd0) /\ cmd0.op = "SubscribeDirect"
        BY <3>1, <3>5 DEF HandleSubscribe
      <4> QED BY <4>1
    <3>6. ASSUME NEW p \in Patterns, HandleUnsubscribe(p)
          PROVE  \E cmd \in Cmd :
                   Handle(cmd) /\ cmd.op \notin {"Register", "Subscribe"}
      BY <3>2, <3>6 DEF HandleUnsubscribe
    <3>7. ASSUME NEW m \in Methods, HandlePublish(m)
          PROVE  \E cmd \in Cmd :
                   Handle(cmd) /\ cmd.op \notin {"Register", "Subscribe"}
      <4> DEFINE cmd0 == [op |-> "Route", sender |-> WsSender,
                          msg |-> WsMessage(m)]
      <4>1. cmd0 \in Cmd /\ Handle(cmd0) /\ cmd0.op = "Route"
        BY <3>3, <3>7 DEF HandlePublish
      <4> QED BY <4>1
    <3>8. ASSUME NEW m \in Methods, HandleCall(m)
          PROVE  \E cmd \in Cmd :
                   Handle(cmd) /\ cmd.op \notin {"Register", "Subscribe"}
      <4> DEFINE cmd0 == [op |-> "Call", msg |-> WsMessage(m)]
      <4>1. cmd0 \in Cmd /\ Handle(cmd0) /\ cmd0.op = "Call"
        BY <3>3, <3>8 DEF HandleCall
      <4> QED BY <4>1
    <3>9. ASSUME NEW n \in Names, HandleRegister(n)
          PROVE  \E cmd \in Cmd :
                   Handle(cmd) /\ cmd.op \notin {"Register", "Subscribe"}
      BY <3>4, <3>9 DEF HandleRegister
    <3> QED BY <1>6, <2>3, <3>5, <3>6, <3>7, <3>8, <3>9 DEF Environment
  <2> QED BY <2>1, <2>2, <2>3
<1>7. CASE Actor
  <2> DEFINE h == Head(cmds)
  <2>1. CASE DoRegister
    <3>1. Dequeue("Register") /\ h \in Cmd
      BY <1>1, <2>1, DequeueFacts DEF DoRegister
    <3>2. \A c \in 0 .. nextId - 1 : Known(c)' => Known(c) \/ h.conn = c
      BY <2>1 DEF DoRegister, Known, Insert
    <3> QED BY <2>1, <3>1, <3>2, DequeueRoute DEF DoRegister
  <2>2. CASE DoRegisterService
    <3>1. Dequeue("RegisterService")
      BY <2>2 DEF DoRegisterService
    <3>2. \A c \in 0 .. nextId - 1 : Known(c)' => Known(c)
      BY <2>2 DEF DoRegisterService, Known, Insert, NoConn
    <3> QED BY <2>2, <3>1, <3>2, DequeueRoute DEF DoRegisterService
  <2>3. CASE DoUnregister
    <3>1. Dequeue("Unregister")
      BY <2>3 DEF DoUnregister
    <3>2. \A c \in 0 .. nextId - 1 : Known(c)' => Known(c) /\ h.conn # c
      BY <2>3 DEF DoUnregister, Known, Remove
    <3> QED BY <2>3, <3>1, <3>2, DequeueRoute DEF DoUnregister
  <2>4. CASE DoSubscribe
    <3>1. Dequeue("Subscribe")
      BY <2>4 DEF DoSubscribe
    <3>2. \A c \in 0 .. nextId - 1 : Known(c)' => Known(c) \/ h.conn = c
      BY <1>1, <2>4 DEF DoSubscribe, Known, TypeOK
    <3> QED BY <2>4, <3>1, <3>2, DequeueRoute DEF DoSubscribe
  <2>5. CASE DoSubscribeDirect
    <3>1. Dequeue("SubscribeDirect")
      BY <2>5 DEF DoSubscribeDirect
    <3>2. \A c \in 0 .. nextId - 1 : c # SyntheticId
      BY <1>1, SyntheticIdType, BoundsAssumption DEF TypeOK
    <3>3. \A c \in 0 .. nextId - 1 : Known(c)' => Known(c)
      BY <1>1, <2>5, <3>2 DEF DoSubscribeDirect, Known, Insert, TypeOK
    <3> QED BY <2>5, <3>1, <3>3, DequeueRoute DEF DoSubscribeDirect
  <2>6. CASE DoUnsubscribeDirect
    <3>1. Dequeue("UnsubscribeDirect")
      BY <2>6 DEF DoUnsubscribeDirect
    <3>2. \A c \in 0 .. nextId - 1 : Known(c)' => Known(c)
      BY <2>6 DEF DoUnsubscribeDirect, Known
    <3> QED BY <2>6, <3>1, <3>2, DequeueRoute DEF DoUnsubscribeDirect
  <2>7. CASE DoUnsubscribe
    <3>1. Dequeue("Unsubscribe")
      BY <2>7 DEF DoUnsubscribe
    <3>2. \A c \in 0 .. nextId - 1 : Known(c)' => Known(c)
      BY <1>1, <2>7 DEF DoUnsubscribe, Known, TypeOK
    <3> QED BY <2>7, <3>1, <3>2, DequeueRoute DEF DoUnsubscribe
  <2>8. CASE DoRoute
    <3>1. Dequeue("Route")
      BY <2>8 DEF DoRoute
    <3>2. \A c \in 0 .. nextId - 1 : Known(c)' => Known(c)
      BY <2>8 DEF DoRoute, Known
    <3> QED BY <2>8, <3>1, <3>2, DequeueRoute DEF DoRoute
  <2>9. CASE DoCall
    <3>1. Dequeue("Call")
      BY <2>9 DEF DoCall
    <3>2. \A c \in 0 .. nextId - 1 : Known(c)' => Known(c)
      BY <2>9 DEF DoCall, Known
    <3> QED BY <2>9, <3>1, <3>2, DequeueRoute DEF DoCall
  <2> QED BY <1>7, <2>1, <2>2, <2>3, <2>4, <2>5, <2>6, <2>7, <2>8, <2>9
          DEF Actor
<1>8. CASE UNCHANGED vars
  BY <1>4, <1>8 DEF vars
<1> QED BY <1>2, <1>3, <1>5, <1>6, <1>7, <1>8 DEF Next

(* The broker forgets a Unix connection with its Unregister command, for    *)
(* every number of connections up to SynBase: a Subscribe or Register never *)
(* overtakes the Unregister of its connection (handle_connection sends it   *)
(* last, run_broker is the only writer of the tables).                      *)
THEOREM NoDangling == MaxConns <= SynBase => (Spec => []NoDanglingRoute)
<1> SUFFICES ASSUME MaxConns <= SynBase PROVE Spec => []NoDanglingRoute
  OBVIOUS
<1>1. Init => RouteInv
  <2> SUFFICES ASSUME Init PROVE QueueOwned /\ NoDanglingRoute
    BY InitType DEF RouteInv
  <2> QED BY DEF Init, QueueOwned, NoDanglingRoute
<1>2. RouteInv /\ [Next]_vars => RouteInv'
  BY StepType, RouteStep DEF RouteInv
<1>3. RouteInv => NoDanglingRoute
  BY DEF RouteInv
<1> QED BY <1>1, <1>2, <1>3, PTL DEF Spec

----------------------------------------------------------------------------
(* Delivery order.                                                          *)

(* Messages are numbered as they enter the queue, so the queue is in order, *)
(* everything in a stream comes before everything queued, and a stream is   *)
(* in order itself.                                                         *)
IsRoute(i) == i \in DOMAIN cmds /\ cmds[i].op = "Route"

QueueOrder ==
  /\ \A i : IsRoute(i) => cmds[i].msg.id <= nMsgs
  /\ \A i, j \in DOMAIN cmds :
       IsRoute(i) /\ IsRoute(j) /\ i < j => cmds[i].msg.id < cmds[j].msg.id

StreamOrder ==
  \A c \in UnixId :
    /\ \A i, j \in DOMAIN Stream(c) :
         i < j => Stream(c)[i].id <= Stream(c)[j].id
    /\ \A i \in DOMAIN Stream(c) : Stream(c)[i].id <= nMsgs
    /\ \A i \in DOMAIN Stream(c), j \in DOMAIN cmds :
         IsRoute(j) => Stream(c)[i].id < cmds[j].msg.id

OrderInv == TypeOK /\ QueueOrder /\ StreamOrder

(* A stream is a sequence of messages, each with its number.                *)
LEMMA StreamType ==
  ASSUME TypeOK, NEW c \in UnixId
  PROVE  /\ Stream(c) \in Seq(Msg)
         /\ Len(Stream(c)) \in Nat
         /\ DOMAIN Stream(c) = 1 .. Len(Stream(c))
         /\ \A i \in DOMAIN Stream(c) : Stream(c)[i].id \in Nat
<1>1. received[c] \in Seq(Msg) /\ outbox[UnixChan(c)] \in Seq(Msg)
  BY DEF TypeOK, UnixChan, Chan
<1>2. Stream(c) \in Seq(Msg)
  BY <1>1, ConcatProperties DEF Stream
<1>3. \A m \in Msg : m.id \in Nat
  BY BoundsAssumption DEF Msg
<1>4. Len(Stream(c)) \in Nat /\ DOMAIN Stream(c) = 1 .. Len(Stream(c))
  BY <1>2, LenProperties
<1>5. \A i \in 1 .. Len(Stream(c)) : Stream(c)[i] \in Msg
  BY <1>2, ElementOfSeq
<1> QED BY <1>2, <1>3, <1>4, <1>5

(* Moving the head of one sequence to the end of another changes nothing in *)
(* the two put together.                                                    *)
LEMMA HeadToLast ==
  ASSUME NEW S, NEW r \in Seq(S), NEW o \in Seq(S), o # <<>>
  PROVE  Append(r, Head(o)) \o Tail(o) = r \o o
<1>1. /\ Tail(o) \in Seq(S) /\ <<Head(o)>> \in Seq(S)
      /\ Append(r, Head(o)) = r \o <<Head(o)>>
      /\ o = <<Head(o)>> \o Tail(o)
  BY HeadTailProperties, AppendIsConcat
<1>2. (r \o <<Head(o)>>) \o Tail(o) = r \o (<<Head(o)>> \o Tail(o))
  BY <1>1, ConcatAssociative
<1> QED BY <1>1, <1>2

(* What connection c's stream becomes is a prefix of what it was.           *)
Shrinks(c) ==
  /\ Len(Stream(c)') <= Len(Stream(c))
  /\ \A i \in 1 .. Len(Stream(c)') : Stream(c)'[i] = Stream(c)[i]

(* Writing a message to the socket moves it within the stream, closing cuts *)
(* the stream short, and no other step of a connection touches a stream.    *)
LEMMA ForwardShrinks ==
  ASSUME TypeOK, TypeOK', NEW d \in UnixId, Forward(d), NEW c \in UnixId
  PROVE  Shrinks(c)
<1> DEFINE r == received[d]
           o == outbox[UnixChan(d)]
<1>1. /\ r \in Seq(Msg) /\ o \in Seq(Msg) /\ o # <<>>
      /\ outbox' = [outbox EXCEPT ![UnixChan(d)] = Tail(o)]
      /\ received' = [received EXCEPT ![d] = Append(r, Head(o))]
      /\ UnixChan(d) \in Chan /\ UnixChan(c) \in Chan
  BY DEF Forward, TypeOK, UnixChan, Chan
<1>2. CASE c = d
  <2>1. received'[d] = Append(r, Head(o)) /\ outbox'[UnixChan(d)] = Tail(o)
    BY <1>1 DEF TypeOK
  <2>2. Append(r, Head(o)) \o Tail(o) = r \o o
    BY <1>1, HeadToLast
  <2>3. Stream(c)' = Stream(c)
    BY <1>2, <2>1, <2>2 DEF Stream
  <2> QED BY <2>3, StreamType DEF Shrinks
<1>3. CASE c # d
  <2>1. UnixChan(c) # UnixChan(d)
    BY <1>3, ChanFacts
  <2>2. received'[c] = received[c] /\ outbox'[UnixChan(c)] = outbox[UnixChan(c)]
    BY <1>1, <1>3, <2>1 DEF TypeOK
  <2>3. Stream(c)' = Stream(c)
    BY <2>2 DEF Stream
  <2> QED BY <2>3, StreamType DEF Shrinks
<1> QED BY <1>2, <1>3

LEMMA PrefixOfConcat ==
  ASSUME NEW S, NEW r \in Seq(S), NEW o \in Seq(S)
  PROVE  /\ Len(r) <= Len(r \o o)
         /\ \A i \in 1 .. Len(r) : (r \o o)[i] = r[i]
  OBVIOUS

LEMMA CloseShrinks ==
  ASSUME TypeOK, NEW d \in UnixId, Close(d), NEW c \in UnixId
  PROVE  Shrinks(c)
<1>1. /\ received[c] \in Seq(Msg) /\ outbox[UnixChan(c)] \in Seq(Msg)
      /\ UNCHANGED received
      /\ outbox'[UnixChan(c)] = <<>> \/ outbox'[UnixChan(c)] = outbox[UnixChan(c)]
  BY DEF Close, TypeOK, UnixChan, Chan
<1>2. CASE outbox'[UnixChan(c)] = <<>>
  <2>1. Stream(c)' = received[c]
    BY <1>1, <1>2, ConcatEmptySeq DEF Stream
  <2>2. /\ Len(received[c]) <= Len(Stream(c))
        /\ \A i \in 1 .. Len(received[c]) : Stream(c)[i] = received[c][i]
    BY <1>1, PrefixOfConcat DEF Stream
  <2> QED BY <2>1, <2>2 DEF Shrinks
<1>3. CASE outbox'[UnixChan(c)] = outbox[UnixChan(c)]
  <2>1. Stream(c)' = Stream(c)
    BY <1>1, <1>3 DEF Stream
  <2> QED BY <2>1, StreamType DEF Shrinks
<1> QED BY <1>1, <1>2, <1>3

(* A stream nobody writes to stays what it is.                              *)
LEMMA SameShrinks ==
  ASSUME TypeOK, UNCHANGED received, NEW c \in UnixId,
         outbox'[UnixChan(c)] = outbox[UnixChan(c)]
  PROVE  Shrinks(c)
<1>1. Stream(c)' = Stream(c)
  BY DEF Stream
<1> QED BY <1>1, StreamType DEF Shrinks

(* What the queue and the counter become: a message is numbered as it is    *)
(* queued, and everything else leaves the counter alone.                    *)
Numbered(cmd) ==
  /\ nMsgs' \in {nMsgs, nMsgs + 1}
  /\ cmd.op = "Route" => nMsgs' = nMsgs + 1 /\ cmd.msg.id = nMsgs + 1

(* Queueing a command keeps the order.                                      *)
LEMMA EnqueueOrder ==
  ASSUME OrderInv, TypeOK', NEW cmd \in Cmd, Enqueue(cmd), Numbered(cmd),
         \A c \in UnixId : Shrinks(c)
  PROVE  OrderInv'
<1>1. TypeOK /\ QueueOrder /\ StreamOrder
  BY DEF OrderInv
<1>2. /\ DOMAIN cmds = 1 .. Len(cmds) /\ Len(cmds) \in Nat
      /\ DOMAIN cmds' = 1 .. Len(cmds) + 1
      /\ \A j \in 1 .. Len(cmds) : cmds'[j] = cmds[j]
      /\ cmds'[Len(cmds) + 1] = cmd
  BY <1>1, EnqueueFacts DEF TypeOK
<1>3. nMsgs \in Nat /\ nMsgs' \in Nat /\ nMsgs <= nMsgs'
  BY <1>1, BoundsAssumption DEF TypeOK, Numbered
<1>4. \A i : IsRoute(i)' =>
        \/ i \in 1 .. Len(cmds) /\ IsRoute(i) /\ cmds'[i] = cmds[i]
        \/ i = Len(cmds) + 1 /\ cmds'[i].msg.id = nMsgs + 1 /\ nMsgs' = nMsgs + 1
  BY <1>2 DEF IsRoute, Numbered
<1>5. \A i : IsRoute(i) => cmds[i].msg.id \in Nat /\ cmds[i].msg.id <= nMsgs
  <2> SUFFICES ASSUME NEW i, IsRoute(i)
               PROVE  cmds[i].msg.id \in Nat /\ cmds[i].msg.id <= nMsgs
    OBVIOUS
  <2>1. cmds[i] \in Cmd
    BY <1>1 DEF IsRoute, TypeOK
  <2>2. cmds[i].msg \in Msg
    BY <2>1, CmdFields DEF IsRoute
  <2> QED BY <1>1, <2>2, BoundsAssumption DEF Msg, QueueOrder
<1>6. QueueOrder'
  BY <1>1, <1>2, <1>3, <1>4, <1>5 DEF QueueOrder
<1>7. StreamOrder'
  <2> SUFFICES ASSUME NEW c \in UnixId
               PROVE  /\ \A i, j \in DOMAIN Stream(c)' :
                           i < j => Stream(c)'[i].id <= Stream(c)'[j].id
                      /\ \A i \in DOMAIN Stream(c)' : Stream(c)'[i].id <= nMsgs'
                      /\ \A i \in DOMAIN Stream(c)', j \in DOMAIN cmds' :
                           IsRoute(j)' => Stream(c)'[i].id < cmds'[j].msg.id
    BY DEF StreamOrder
  <2>1. /\ DOMAIN Stream(c) = 1 .. Len(Stream(c))
        /\ Len(Stream(c)) \in Nat
        /\ \A i \in DOMAIN Stream(c) : Stream(c)[i].id \in Nat
    BY <1>1, StreamType
  <2>2. DOMAIN Stream(c)' = 1 .. Len(Stream(c)') /\ Len(Stream(c)') \in Nat
    BY StreamType
  <2>3. \A i \in DOMAIN Stream(c)' :
          i \in DOMAIN Stream(c) /\ Stream(c)'[i] = Stream(c)[i]
    BY <2>1, <2>2 DEF Shrinks
  <2>4. \A i, j \in DOMAIN Stream(c) :
          i < j => Stream(c)[i].id <= Stream(c)[j].id
    BY <1>1 DEF StreamOrder
  <2>5. /\ \A i \in DOMAIN Stream(c) : Stream(c)[i].id <= nMsgs
        /\ \A i \in DOMAIN Stream(c), j \in DOMAIN cmds :
             IsRoute(j) => Stream(c)[i].id < cmds[j].msg.id
    BY <1>1 DEF StreamOrder
  <2>6. \A i \in DOMAIN Stream(c)' : Stream(c)'[i].id <= nMsgs'
    BY <1>3, <2>1, <2>3, <2>5
  <2>7. ASSUME NEW i \in DOMAIN Stream(c)', NEW j \in DOMAIN cmds', IsRoute(j)'
        PROVE  Stream(c)'[i].id < cmds'[j].msg.id
    <3>1. /\ i \in DOMAIN Stream(c) /\ Stream(c)'[i].id = Stream(c)[i].id
          /\ Stream(c)[i].id \in Nat /\ Stream(c)[i].id <= nMsgs
      BY <2>1, <2>3, <2>5
    <3> QED BY <1>2, <1>3, <1>4, <2>5, <2>7, <3>1
  <2> QED BY <2>3, <2>4, <2>6, <2>7
<1> QED BY <1>6, <1>7 DEF OrderInv

(* So does shortening the streams alone.                                    *)
LEMMA ShrinkOrder ==
  ASSUME OrderInv, TypeOK', UNCHANGED <<cmds, nMsgs>>,
         \A c \in UnixId : Shrinks(c)
  PROVE  OrderInv'
<1>1. TypeOK /\ QueueOrder /\ StreamOrder
  BY DEF OrderInv
<1>2. QueueOrder' /\ \A j : IsRoute(j)' <=> IsRoute(j)
  BY <1>1 DEF QueueOrder, IsRoute
<1>3. \A c \in UnixId : \A i \in DOMAIN Stream(c)' :
        i \in DOMAIN Stream(c) /\ Stream(c)'[i] = Stream(c)[i]
  <2> SUFFICES ASSUME NEW c \in UnixId
               PROVE  \A i \in DOMAIN Stream(c)' :
                        i \in DOMAIN Stream(c) /\ Stream(c)'[i] = Stream(c)[i]
    OBVIOUS
  <2>1. DOMAIN Stream(c) = 1 .. Len(Stream(c)) /\ Len(Stream(c)) \in Nat
    BY <1>1, StreamType
  <2>2. DOMAIN Stream(c)' = 1 .. Len(Stream(c)') /\ Len(Stream(c)') \in Nat
    BY StreamType
  <2> QED BY <2>1, <2>2 DEF Shrinks
<1>4. StreamOrder'
  BY <1>1, <1>2, <1>3 DEF StreamOrder
<1> QED BY <1>2, <1>4 DEF OrderInv

(* Taking a command off the queue keeps the order, as long as the streams   *)
(* only grow by the message it carries.                                     *)
LEMMA DequeueOrder ==
  ASSUME OrderInv, TypeOK', NEW op, Dequeue(op), UNCHANGED nMsgs,
         \A c \in UnixId : \A i \in DOMAIN Stream(c)' :
           \/ /\ i \in DOMAIN Stream(c)
              /\ Stream(c)'[i] = Stream(c)[i]
           \/ /\ i > Len(Stream(c))
              /\ op = "Route"
              /\ Stream(c)'[i] = Head(cmds).msg
  PROVE  OrderInv'
<1>1. TypeOK /\ QueueOrder /\ StreamOrder
  BY DEF OrderInv
<1>2. /\ DOMAIN cmds = 1 .. Len(cmds) /\ Len(cmds) \in Nat /\ Len(cmds) # 0
      /\ DOMAIN cmds' = 1 .. Len(cmds) - 1
      /\ \A j \in 1 .. Len(cmds) - 1 : cmds'[j] = cmds[j + 1]
      /\ Head(cmds) = cmds[1]
      /\ cmds[1].op = op
  BY <1>1, DequeueFacts DEF TypeOK, Dequeue
<1>3. \A j : IsRoute(j)' => IsRoute(j + 1) /\ cmds'[j] = cmds[j + 1] /\ j \in Nat
  BY <1>2 DEF IsRoute
<1>4. nMsgs \in Nat /\ nMsgs' = nMsgs
  BY <1>1, BoundsAssumption DEF TypeOK
<1>5. \A j : IsRoute(j) => cmds[j].msg.id \in Nat
  <2> SUFFICES ASSUME NEW j, IsRoute(j)
               PROVE  cmds[j].msg.id \in Nat
    OBVIOUS
  <2>1. cmds[j] \in Cmd
    BY <1>1 DEF IsRoute, TypeOK
  <2>2. cmds[j].msg \in Msg
    BY <2>1, CmdFields DEF IsRoute
  <2> QED BY <2>2, BoundsAssumption DEF Msg
<1>6. QueueOrder'
  <2>1. \A i : IsRoute(i)' => cmds'[i].msg.id <= nMsgs'
    BY <1>1, <1>3, <1>4 DEF QueueOrder
  <2>2. ASSUME NEW i \in DOMAIN cmds', NEW j \in DOMAIN cmds',
               IsRoute(i)', IsRoute(j)', i < j
        PROVE  cmds'[i].msg.id < cmds'[j].msg.id
    <3>1. /\ IsRoute(i + 1) /\ IsRoute(j + 1) /\ i + 1 < j + 1
          /\ i + 1 \in DOMAIN cmds /\ j + 1 \in DOMAIN cmds
          /\ cmds'[i] = cmds[i + 1] /\ cmds'[j] = cmds[j + 1]
      BY <1>2, <1>3, <2>2
    <3> QED BY <1>1, <3>1 DEF QueueOrder
  <2> QED BY <2>1, <2>2 DEF QueueOrder
<1>7. StreamOrder'
  <2> SUFFICES ASSUME NEW c \in UnixId
               PROVE  /\ \A i, j \in DOMAIN Stream(c)' :
                           i < j => Stream(c)'[i].id <= Stream(c)'[j].id
                      /\ \A i \in DOMAIN Stream(c)' : Stream(c)'[i].id <= nMsgs'
                      /\ \A i \in DOMAIN Stream(c)', j \in DOMAIN cmds' :
                           IsRoute(j)' => Stream(c)'[i].id < cmds'[j].msg.id
    BY DEF StreamOrder
  <2> DEFINE s == Stream(c)
             t == Stream(c)'
             h == cmds[1].msg
  <2>1. /\ DOMAIN s = 1 .. Len(s) /\ Len(s) \in Nat
        /\ \A i \in DOMAIN s : s[i].id \in Nat
        /\ DOMAIN t \subseteq Nat
    <3>1. DOMAIN t = 1 .. Len(t) /\ Len(t) \in Nat
      BY StreamType
    <3> QED BY <1>1, <3>1, StreamType
  <2>2. /\ \A i, j \in DOMAIN s : i < j => s[i].id <= s[j].id
        /\ \A i \in DOMAIN s : s[i].id <= nMsgs
        /\ \A i \in DOMAIN s, j \in DOMAIN cmds :
             IsRoute(j) => s[i].id < cmds[j].msg.id
    BY <1>1 DEF StreamOrder
  <2>3. \A i \in DOMAIN t :
          \/ i \in DOMAIN s /\ t[i] = s[i]
          \/ i > Len(s) /\ op = "Route" /\ t[i] = h
    BY <1>2
  <2>4. op = "Route" =>
          /\ IsRoute(1) /\ 1 \in DOMAIN cmds /\ h.id \in Nat /\ h.id <= nMsgs
          /\ \A i \in DOMAIN s : s[i].id < h.id
          /\ \A j : IsRoute(j)' => h.id < cmds'[j].msg.id
    <3> SUFFICES ASSUME op = "Route"
                 PROVE  /\ IsRoute(1) /\ 1 \in DOMAIN cmds
                        /\ h.id \in Nat /\ h.id <= nMsgs
                        /\ \A i \in DOMAIN s : s[i].id < h.id
                        /\ \A j : IsRoute(j)' => h.id < cmds'[j].msg.id
      OBVIOUS
    <3>1. IsRoute(1) /\ 1 \in DOMAIN cmds
      BY <1>2 DEF IsRoute
    <3>2. h.id \in Nat /\ h.id <= nMsgs
      BY <1>1, <1>5, <3>1 DEF QueueOrder
    <3>3. \A i \in DOMAIN s : s[i].id < h.id
      BY <2>2, <3>1
    <3>4. ASSUME NEW j, IsRoute(j)'
          PROVE  h.id < cmds'[j].msg.id
      <4>1. /\ IsRoute(j + 1) /\ cmds'[j] = cmds[j + 1] /\ 1 < j + 1
            /\ j + 1 \in DOMAIN cmds
        BY <1>2, <1>3, <3>4 DEF IsRoute
      <4> QED BY <1>1, <3>1, <4>1 DEF QueueOrder
    <3> QED BY <3>1, <3>2, <3>3, <3>4
  <2> HIDE DEF s, t, h
  <2>5. \A i, j \in DOMAIN t : i < j => t[i].id <= t[j].id
    BY <2>1, <2>2, <2>3, <2>4
  <2>6. \A i \in DOMAIN t : t[i].id <= nMsgs'
    BY <1>4, <2>2, <2>3, <2>4
  <2>7. ASSUME NEW i \in DOMAIN t, NEW j \in DOMAIN cmds', IsRoute(j)'
        PROVE  t[i].id < cmds'[j].msg.id
    <3>1. IsRoute(j + 1) /\ cmds'[j] = cmds[j + 1] /\ j + 1 \in DOMAIN cmds
      BY <1>2, <1>3, <2>7
    <3> QED BY <2>2, <2>3, <2>4, <2>7, <3>1
  <2> QED BY <2>5, <2>6, <2>7 DEF t
<1> QED BY <1>6, <1>7 DEF OrderInv

(* A Route adds to a stream copies of its message and nothing else.         *)
LEMMA RouteGrows ==
  ASSUME TypeOK, DoRoute, NEW c \in UnixId, NEW i \in DOMAIN Stream(c)'
  PROVE  \/ i \in DOMAIN Stream(c) /\ Stream(c)'[i] = Stream(c)[i]
         \/ i > Len(Stream(c)) /\ Stream(c)'[i] = Head(cmds).msg
<1> DEFINE m == Head(cmds).msg
           n == Copies(m, Head(cmds).sender, UnixChan(c))
           r == received[c]
           o == outbox[UnixChan(c)]
           t == [j \in 1 .. n |-> m]
<1>1. m \in Msg
  BY DequeueFacts, CmdFields DEF DoRoute
<1>2. n \in Nat
  BY CopiesIsNat
<1>3. r \in Seq(Msg) /\ o \in Seq(Msg) /\ t \in Seq(Msg)
  <2>1. r \in Seq(Msg) /\ o \in Seq(Msg)
    BY DEF TypeOK, UnixChan, Chan
  <2> HIDE DEF n, m
  <2>2. t \in Seq(Msg)
    BY <1>1, <1>2, IsASeq
  <2> QED BY <2>1, <2>2
<1>4. /\ received' = received
      /\ outbox'[UnixChan(c)] = o \/ outbox'[UnixChan(c)] = o \o t
  BY DEF DoRoute, Routed, UnixChan, Chan
<1>5. CASE outbox'[UnixChan(c)] = o
  <2>1. Stream(c)' = Stream(c)
    BY <1>4, <1>5 DEF Stream
  <2> QED BY <2>1
<1>6. CASE outbox'[UnixChan(c)] = o \o t
  <2>1. Stream(c)' = r \o (o \o t)
    BY <1>4, <1>6 DEF Stream
  <2>2. r \o (o \o t) = (r \o o) \o t
    <3> HIDE DEF r, o, t
    <3> QED BY SMTT(30), <1>3, ConcatAssociative
  <2>3. Stream(c)' = Stream(c) \o t
    BY <2>1, <2>2 DEF Stream
  <2>4. Stream(c) \in Seq(Msg)
    BY StreamType
  <2> HIDE DEF n, m
  <2> QED BY <1>1, <1>2, <2>3, <2>4, AppendedMessages DEF m
<1> QED BY <1>4, <1>5, <1>6

(* What a connection task does to the order.                                *)
LEMMA ConnectionOrder ==
  ASSUME OrderInv, TypeOK', NEW d \in UnixId, Connection(d)
  PROVE  OrderInv'
<1>1. TypeOK
  BY DEF OrderInv
<1>2. ASSUME NEW cmd \in Cmd, Read(d, cmd), Numbered(cmd)
      PROVE  OrderInv'
  <2>1. \A c \in UnixId : Shrinks(c)
    BY <1>1, <1>2, SameShrinks DEF Read
  <2> QED BY <1>2, <2>1, EnqueueOrder DEF Read
<1>3. ASSUME NEW n \in Names, ReadRegister(d, n) PROVE OrderInv'
  <2>1. [op |-> "Register", conn |-> d, name |-> n] \in Cmd
    BY DEF Cmd
  <2> QED BY <1>2, <1>3, <2>1 DEF ReadRegister, Numbered
<1>4. ASSUME NEW p \in Patterns, ReadSubscribe(d, p) PROVE OrderInv'
  <2>1. [op |-> "Subscribe", conn |-> d, topic |-> p] \in Cmd
    BY DEF Cmd
  <2> QED BY <1>2, <1>4, <2>1 DEF ReadSubscribe, Numbered
<1>5. ASSUME NEW p \in Patterns, ReadUnsubscribe(d, p) PROVE OrderInv'
  <2>1. [op |-> "Unsubscribe", conn |-> d, topic |-> p] \in Cmd
    BY DEF Cmd
  <2> QED BY <1>2, <1>5, <2>1 DEF ReadUnsubscribe, Numbered
<1>6. ASSUME NEW m \in Methods, NEW e \in Names \cup {NoName},
             ReadMessage(d, m, e)
      PROVE  OrderInv'
  <2> DEFINE msg == [id |-> nMsgs + 1, method |-> m, dst |-> e, src |-> d]
  <2>1. msg \in Msg
    BY <1>1, <1>6, BoundsAssumption DEF ReadMessage, TypeOK, Msg
  <2>2. [op |-> "Route", sender |-> d, msg |-> msg] \in Cmd
    BY <2>1 DEF Cmd
  <2> QED BY <1>2, <1>6, <2>2 DEF ReadMessage, Numbered
<1>7. CASE Forward(d)
  <2>1. \A c \in UnixId : Shrinks(c)
    BY <1>1, <1>7, ForwardShrinks
  <2>2. UNCHANGED <<cmds, nMsgs>>
    BY <1>7 DEF Forward
  <2> QED BY <2>1, <2>2, ShrinkOrder
<1>8. CASE Close(d)
  <2>1. \A c \in UnixId : Shrinks(c)
    BY <1>1, <1>8, CloseShrinks
  <2>2. [op |-> "Unregister", conn |-> d] \in Cmd
    BY DEF Cmd
  <2> QED BY <1>8, <2>1, <2>2, EnqueueOrder DEF Close, Numbered
<1> QED BY <1>3, <1>4, <1>5, <1>6, <1>7, <1>8 DEF Connection

(* What a call of a BrokerHandle does to the order.                         *)
LEMMA EnvironmentOrder ==
  ASSUME OrderInv, TypeOK', Environment
  PROVE  OrderInv'
<1>1. /\ TypeOK
      /\ nMsgs < MaxMsgs => nMsgs + 1 \in 1 .. MaxMsgs
      /\ nChans < MaxChans => nChans + 1 \in WsChanId
  BY BoundsAssumption DEF OrderInv, TypeOK, WsChanId
<1>2. ASSUME NEW cmd \in Cmd, Handle(cmd), Numbered(cmd)
      PROVE  OrderInv'
  <2>1. \A c \in UnixId : Shrinks(c)
    BY <1>1, <1>2, SameShrinks DEF Handle
  <2> QED BY <1>2, <2>1, EnqueueOrder DEF Handle
<1>3. ASSUME NEW p \in Patterns, HandleSubscribe(p) PROVE OrderInv'
  <2>1. [op |-> "SubscribeDirect", chan |-> nChans + 1, topic |-> p] \in Cmd
    BY <1>1, <1>3 DEF Cmd, HandleSubscribe
  <2> QED BY <1>2, <1>3, <2>1 DEF HandleSubscribe, Numbered
<1>4. ASSUME NEW p \in Patterns, HandleUnsubscribe(p) PROVE OrderInv'
  <2>1. [op |-> "UnsubscribeDirect", topic |-> p] \in Cmd
    BY DEF Cmd
  <2> QED BY <1>2, <1>4, <2>1 DEF HandleUnsubscribe, Numbered
<1>5. ASSUME NEW m \in Methods, nMsgs < MaxMsgs PROVE WsMessage(m) \in Msg
  BY <1>1, <1>5 DEF WsMessage, Msg
<1>6. ASSUME NEW m \in Methods, HandlePublish(m) PROVE OrderInv'
  <2>1. [op |-> "Route", sender |-> WsSender, msg |-> WsMessage(m)] \in Cmd
    BY <1>5, <1>6 DEF Cmd, HandlePublish
  <2>2. WsMessage(m).id = nMsgs + 1
    BY DEF WsMessage
  <2> QED BY <1>2, <1>6, <2>1, <2>2 DEF HandlePublish, Numbered
<1>7. ASSUME NEW m \in Methods, HandleCall(m) PROVE OrderInv'
  <2>1. [op |-> "Call", msg |-> WsMessage(m)] \in Cmd
    BY <1>5, <1>7 DEF Cmd, HandleCall
  <2> QED BY <1>2, <1>7, <2>1 DEF HandleCall, Numbered
<1>8. ASSUME NEW n \in Names, HandleRegister(n) PROVE OrderInv'
  <2>1. [op |-> "RegisterService", name |-> n] \in Cmd
    BY DEF Cmd
  <2> QED BY <1>2, <1>8, <2>1 DEF HandleRegister, Numbered
<1>9. ASSUME NEW k \in WsChanId, HandleTake(k) PROVE OrderInv'
  <2>1. \A c \in UnixId : UnixChan(c) # WsChan(k) /\ UnixChan(c) \in Chan
    BY ChanFacts DEF UnixChan, Chan
  <2>2. \A c \in UnixId : outbox'[UnixChan(c)] = outbox[UnixChan(c)]
    BY <1>1, <1>9, <2>1 DEF HandleTake, TypeOK
  <2>3. UNCHANGED <<cmds, nMsgs, received>>
    BY <1>9 DEF HandleTake
  <2>4. \A c \in UnixId : Shrinks(c)
    BY <1>1, <2>2, <2>3, SameShrinks
  <2> QED BY <2>3, <2>4, ShrinkOrder
<1> QED BY <1>3, <1>4, <1>6, <1>7, <1>8, <1>9 DEF Environment

(* What a command the actor carries out does to the order.                  *)
LEMMA ActorOrder ==
  ASSUME OrderInv, TypeOK', Actor
  PROVE  OrderInv'
<1>1. TypeOK
  BY DEF OrderInv
<1>2. ASSUME NEW op, Dequeue(op), UNCHANGED <<nMsgs, received, outbox>>
      PROVE  OrderInv'
  <2>1. \A c \in UnixId : Stream(c)' = Stream(c)
    BY <1>2 DEF Stream
  <2> QED BY <1>2, <2>1, DequeueOrder
<1>3. CASE DoRoute
  <2>1. \A c \in UnixId : \A i \in DOMAIN Stream(c)' :
          \/ i \in DOMAIN Stream(c) /\ Stream(c)'[i] = Stream(c)[i]
          \/ i > Len(Stream(c)) /\ Stream(c)'[i] = Head(cmds).msg
    BY <1>1, <1>3, RouteGrows
  <2>2. Dequeue("Route") /\ UNCHANGED nMsgs
    BY <1>3 DEF DoRoute
  <2> QED BY <2>1, <2>2, DequeueOrder
<1>4. ASSUME Actor, ~DoRoute
      PROVE  \E op : Dequeue(op) /\ UNCHANGED <<nMsgs, received, outbox>>
  BY <1>4
  DEF Actor, DoRegister, DoRegisterService, DoUnregister, DoSubscribe,
      DoSubscribeDirect, DoUnsubscribeDirect, DoUnsubscribe, DoCall
<1> QED BY <1>2, <1>3, <1>4

(* The order survives every step.                                           *)
LEMMA OrderStep ==
  ASSUME OrderInv, [Next]_vars
  PROVE  OrderInv'
<1>1. TypeOK /\ TypeOK'
  BY StepType DEF OrderInv
<1>2. ASSUME UNCHANGED <<cmds, nMsgs, received>>,
             \A c \in UnixId : outbox'[UnixChan(c)] = outbox[UnixChan(c)]
      PROVE  OrderInv'
  <2>1. \A c \in UnixId : Shrinks(c)
    BY <1>1, <1>2, SameShrinks
  <2> QED BY <1>1, <1>2, <2>1, ShrinkOrder
<1>3. CASE Accept
  BY <1>2, <1>3 DEF Accept
<1>4. CASE UNCHANGED vars
  BY <1>2, <1>4 DEF vars
<1> QED
  BY <1>1, <1>3, <1>4, ConnectionOrder, EnvironmentOrder, ActorOrder DEF Next

(* Order per sender: two messages of one sender reach a client in the order *)
(* in which they were sent, whatever subscribing, routing and forwarding    *)
(* tasks do in between.  The queue of commands is a FIFO, one actor drains  *)
(* it (run_broker), and each connection's channel is a FIFO as well.        *)
THEOREM InOrder == Spec => []PerSenderOrder
<1>1. Init => OrderInv
  <2> SUFFICES ASSUME Init PROVE OrderInv
    OBVIOUS
  <2>1. DOMAIN cmds = {} /\ \A c \in UnixId : Stream(c) = <<>>
    BY DEF Init, Stream, UnixChan, Chan
  <2>2. QueueOrder /\ StreamOrder
    BY <2>1 DEF QueueOrder, StreamOrder, IsRoute
  <2> QED BY <2>2, InitType DEF OrderInv
<1>2. OrderInv /\ [Next]_vars => OrderInv'
  BY OrderStep
<1>3. OrderInv => PerSenderOrder
  BY DEF OrderInv, StreamOrder, PerSenderOrder
<1> QED BY <1>1, <1>2, <1>3, PTL DEF Spec
=============================================================================
