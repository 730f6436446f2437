--------------------------- MODULE WsBridgeProofs ---------------------------
(* Proofs about the WebSocket bridge, for every value of its constants.     *)
EXTENDS WsBridge, BrokerProofs

----------------------------------------------------------------------------
(* The bridge is a caller of the open broker.                               *)

(* A client's step is a BrokerHandle call or leaves the broker alone.       *)
LEMMA ClientSteps ==
  ASSUME NEW w \in WsClients, Client(w)
  PROVE  Environment \/ UNCHANGED vars
<1>1. ASSUME NEW p \in Patterns, WsSubscribe(w, p) \/ WsUnsubscribe(w, p)
      PROVE  Environment
  BY <1>1 DEF WsSubscribe, WsUnsubscribe, Environment
<1>2. ASSUME NEW m \in Methods, WsPublish(w, m) \/ WsCall(w, m)
      PROVE  Environment
  BY <1>2 DEF WsPublish, WsCall, Environment
<1>3. ASSUME NEW n \in Names, WsRegister(w, n)
      PROVE  Environment
  BY <1>3 DEF WsRegister, Environment
<1>4. ASSUME \/ WsConnect(w) \/ WsClose(w) \/ WsAnswer(w) \/ WsTimeout(w)
             \/ WsBadFrame(w)
      PROVE  UNCHANGED vars
  BY <1>4 DEF WsConnect, WsClose, WsAnswer, WsTimeout, WsBadFrame, vars
<1> QED BY <1>1, <1>2, <1>3, <1>4 DEF Client

(* Every step of the bridge is one the broker's specification allows: the   *)
(* channels a forwarding task reads are among those ever created.           *)
LEMMA BridgeStep ==
  ASSUME TypeOK, [WsNext]_allVars
  PROVE  [Next]_vars
<1>1. ASSUME NEW w \in WsClients, Client(w)
      PROVE  [Next]_vars
  BY <1>1, ClientSteps DEF Next
<1>2. ASSUME NEW k \in 1 .. nChans, WsForward(k)
      PROVE  Environment
  <2>1. k \in WsChanId
    BY BoundsAssumption DEF TypeOK, WsChanId
  <2> QED BY <1>2, <2>1 DEF WsForward, Environment
<1>3. CASE Accept \/ Actor \/ \E c \in UnixId : Connection(c)
  BY <1>3 DEF Next
<1>4. CASE UNCHANGED allVars
  BY <1>4 DEF allVars
<1> QED BY <1>1, <1>2, <1>3, <1>4 DEF WsNext, Next

(* The bridge of ws.rs reaches the broker by BrokerHandle only, so what is  *)
(* proved of broker.rs with open callers can be used with the bridge on     *)
(* top.                                                                     *)
LEMMA BrokerWithin == WsSpec => Spec
<1>1. WsInit => Init
  BY DEF WsInit
<1>2. Init => TypeOK
  BY InitType
<1>3. TypeOK /\ [WsNext]_allVars => TypeOK' /\ [Next]_vars
  BY BridgeStep, StepType
<1> QED BY <1>1, <1>2, <1>3, PTL DEF WsSpec, Spec

(* With the bridge on top, the broker's state stays well formed, no Unix    *)
(* client gets its own message back and each gets a sender's messages in    *)
(* order.                                                                   *)
COROLLARY BrokerUnderBridge == WsSpec => [](TypeOK /\ NoEcho /\ PerSenderOrder)
  BY BrokerWithin, TypeCorrect, SenderExclusion, InOrder, PTL

----------------------------------------------------------------------------
(* Type correctness of the bridge.                                          *)

(* What a client's socket is written.                                       *)
WsEvent == [kind : {"Event"}, id : 1 .. MaxMsgs, method : Methods]
      \cup [kind : {"Error"}, id : 0 .. MaxMsgs]

EventsTyped == wsEvents \in [WsClients -> Seq(WsEvent)]

BridgeTypes == TypeOK /\ WsTypeOK /\ EventsTyped

(* An event written to one socket leaves the others alone.                  *)
LEMMA EmitTypes ==
  ASSUME EventsTyped, NEW w \in WsClients, NEW e \in WsEvent, Emit(w, e)
  PROVE  EventsTyped'
  BY DEF EventsTyped, Emit

(* Typed events have one of the two kinds.                                  *)
LEMMA EventKinds ==
  ASSUME EventsTyped
  PROVE  \A w \in WsClients : \A i \in DOMAIN wsEvents[w] :
           wsEvents[w][i].kind \in {"Event", "Error"}
<1> SUFFICES ASSUME NEW w \in WsClients, NEW i \in DOMAIN wsEvents[w]
             PROVE  wsEvents[w][i].kind \in {"Event", "Error"}
  OBVIOUS
<1>1. wsEvents[w][i] \in WsEvent
  BY DEF EventsTyped
<1> QED BY <1>1 DEF WsEvent

(* The number of direct channels grows with a subscription only.            *)
LEMMA ChannelsFixed ==
  ASSUME Accept \/ Actor \/ \E c \in UnixId : Connection(c)
  PROVE  UNCHANGED nChans
<1>1. Accept => UNCHANGED nChans
  BY DEF Accept
<1>2. Actor => UNCHANGED nChans
  BY DEF Actor, DoRegister, DoRegisterService, DoUnregister, DoSubscribe,
         DoSubscribeDirect, DoUnsubscribeDirect, DoUnsubscribe, DoRoute, DoCall
<1>3. \A c \in UnixId : Connection(c) => UNCHANGED nChans
  BY DEF Connection, ReadRegister, ReadSubscribe, ReadUnsubscribe,
         ReadMessage, Read, Forward, Close
<1> QED BY <1>1, <1>2, <1>3

(* The number of messages never goes down.                                  *)
LEMMA MessagesGrow ==
  ASSUME TypeOK, Accept \/ Actor \/ \E c \in UnixId : Connection(c)
  PROVE  nMsgs <= nMsgs'
<1>1. nMsgs \in Nat
  BY BoundsAssumption DEF TypeOK
<1>2. Accept => nMsgs' = nMsgs
  BY DEF Accept
<1>3. Actor => nMsgs' = nMsgs
  BY DEF Actor, DoRegister, DoRegisterService, DoUnregister, DoSubscribe,
         DoSubscribeDirect, DoUnsubscribeDirect, DoUnsubscribe, DoRoute, DoCall
<1>4. \A c \in UnixId : Connection(c) => nMsgs' \in {nMsgs, nMsgs + 1}
  BY DEF Connection, ReadRegister, ReadSubscribe, ReadUnsubscribe,
         ReadMessage, Read, Forward, Close
<1> QED BY <1>1, <1>2, <1>3, <1>4

(* The next message of a direct channel is an event.                        *)
LEMMA ForwardedEvent ==
  ASSUME TypeOK, NEW k \in 1 .. nChans, HandleTake(k)
  PROVE  Event(Head(outbox[WsChan(k)])) \in WsEvent
<1>1. WsChan(k) \in Chan
  BY BoundsAssumption DEF TypeOK, WsChanId, WsChan, Chan
<1>2. Head(outbox[WsChan(k)]) \in Msg
  BY <1>1 DEF TypeOK, HandleTake
<1> QED BY <1>2 DEF Event, WsEvent, Msg

(* Every step keeps the bridge's own state well formed.                     *)
LEMMA BridgeTypesStep ==
  ASSUME BridgeTypes, [WsNext]_allVars
  PROVE  BridgeTypes'
<1>0. /\ TypeOK /\ WsTypeOK /\ EventsTyped
      /\ TypeOK'
      /\ nMsgs \in Nat /\ MaxMsgs \in Nat /\ nChans \in Nat
      /\ wsWait \in [WsClients -> 0 .. MaxMsgs]
  <2>1. TypeOK /\ WsTypeOK /\ EventsTyped
    BY DEF BridgeTypes
  <2>2. TypeOK'
    BY <2>1, BridgeStep, StepType
  <2>3. nMsgs \in Nat /\ MaxMsgs \in Nat /\ nChans \in Nat
    BY <2>1, BoundsAssumption DEF TypeOK
  <2> QED BY <2>1, <2>2, <2>3 DEF WsTypeOK
<1> SUFFICES /\ wsState' \in [WsClients -> {"new", "open", "closed"}]
             /\ wsSubs' \in Seq(WsClients)
             /\ Len(wsSubs') = nChans'
             /\ wsWait' \in [WsClients -> 0 .. MaxMsgs]
             /\ EventsTyped'
  <2>1. ASSUME EventsTyped', NEW w \in WsClients,
               NEW i \in DOMAIN wsEvents'[w]
        PROVE  wsEvents'[w][i].kind \in {"Event", "Error"}
    <3>1. wsEvents'[w][i] \in WsEvent
      BY <2>1 DEF EventsTyped
    <3> QED BY <3>1 DEF WsEvent
  <2> QED BY <1>0, <2>1 DEF BridgeTypes, WsTypeOK
<1>1. ASSUME NEW w \in WsClients, WsConnect(w) \/ WsClose(w)
      PROVE  /\ wsState' \in [WsClients -> {"new", "open", "closed"}]
             /\ UNCHANGED <<nChans, wsSubs, wsWait, wsEvents>>
  BY <1>0, <1>1 DEF WsConnect, WsClose, WsTypeOK, vars
<1>2. ASSUME NEW w \in WsClients, NEW p \in Patterns, WsSubscribe(w, p)
      PROVE  /\ wsSubs' \in Seq(WsClients)
             /\ Len(wsSubs') = nChans'
             /\ UNCHANGED <<wsState, wsWait, wsEvents>>
  <2>1. wsSubs' = Append(wsSubs, w) /\ nChans' = nChans + 1
    BY <1>2 DEF WsSubscribe, HandleSubscribe
  <2>2. wsSubs \in Seq(WsClients) /\ Len(wsSubs) = nChans
    BY <1>0 DEF WsTypeOK
  <2>3. /\ Append(wsSubs, w) \in Seq(WsClients)
        /\ Len(Append(wsSubs, w)) = Len(wsSubs) + 1
    BY <2>2, AppendProperties
  <2>4. UNCHANGED <<wsState, wsWait, wsEvents>>
    BY <1>2 DEF WsSubscribe
  <2> QED  BY <2>1, <2>2, <2>3, <2>4
<1>3. ASSUME NEW w \in WsClients,
             \/ \E p \in Patterns : WsUnsubscribe(w, p)
             \/ \E m \in Methods : WsPublish(w, m)
             \/ \E n \in Names : WsRegister(w, n)
      PROVE  UNCHANGED <<nChans, wsVars>>
  BY <1>3 DEF WsUnsubscribe, WsPublish, WsRegister, HandleUnsubscribe,
              HandlePublish, HandleRegister
<1>4. ASSUME NEW w \in WsClients, NEW m \in Methods, WsCall(w, m)
      PROVE  /\ wsWait' \in [WsClients -> 0 .. MaxMsgs]
             /\ UNCHANGED <<nChans, wsState, wsSubs, wsEvents>>
  BY <1>0, <1>4 DEF WsCall, HandleCall
<1>5. ASSUME NEW w \in WsClients, WsAnswer(w) \/ WsTimeout(w)
      PROVE  /\ wsWait' \in [WsClients -> 0 .. MaxMsgs]
             /\ EventsTyped'
             /\ UNCHANGED <<nChans, wsState, wsSubs>>
  <2>1. ErrorFor(wsWait[w]) \in WsEvent
    BY <1>0 DEF ErrorFor, WsEvent
  <2>2. Emit(w, ErrorFor(wsWait[w]))
    BY <1>5 DEF WsAnswer, WsTimeout
  <2>3. EventsTyped'
    BY <1>0, <2>1, <2>2, EmitTypes
  <2> QED BY <1>0, <1>5, <2>3 DEF WsAnswer, WsTimeout, NoId, vars
<1>6. ASSUME NEW w \in WsClients, WsBadFrame(w)
      PROVE  EventsTyped' /\ UNCHANGED <<nChans, wsState, wsSubs, wsWait>>
  <2>1. ErrorFor(NoId) \in WsEvent
    BY <1>0 DEF ErrorFor, NoId, WsEvent
  <2> QED BY <1>0, <1>6, <2>1, EmitTypes DEF WsBadFrame, vars
<1>7. ASSUME NEW k \in 1 .. nChans, WsForward(k)
      PROVE  EventsTyped' /\ UNCHANGED <<nChans, wsState, wsSubs, wsWait>>
  <2>1. HandleTake(k)
    BY <1>7 DEF WsForward
  <2>2. Event(Head(outbox[WsChan(k)])) \in WsEvent
    BY <1>0, <2>1, ForwardedEvent
  <2>3. wsSubs[k] \in WsClients
    BY <1>0 DEF WsTypeOK
  <2>4. EventsTyped'
    BY <1>0, <1>7, <2>2, <2>3, EmitTypes DEF WsForward, EventsTyped
  <2> QED BY <1>7, <2>1, <2>4 DEF WsForward, HandleTake
<1>8. CASE /\ Accept \/ Actor \/ \E c \in UnixId : Connection(c)
           /\ UNCHANGED wsVars
  BY <1>0, <1>8, ChannelsFixed DEF wsVars, WsTypeOK, EventsTyped
<1>9. CASE UNCHANGED allVars
  BY <1>0, <1>9 DEF allVars, vars, wsVars, WsTypeOK, EventsTyped
<1> QED
  BY <1>0, <1>1, <1>2, <1>3, <1>4, <1>5, <1>6, <1>7, <1>8, <1>9
  DEF WsNext, Client, wsVars, WsTypeOK, EventsTyped

(* A bridge nobody has connected to is well formed.                         *)
LEMMA BridgeTypesInit == WsInit => BridgeTypes
<1> SUFFICES ASSUME WsInit PROVE BridgeTypes
  OBVIOUS
<1>1. TypeOK
  BY InitType DEF WsInit
<1>2. <<>> \in Seq(WsEvent) /\ <<>> \in Seq(WsClients) /\ Len(<<>>) = 0
  OBVIOUS
<1>3. EventsTyped
  BY <1>2 DEF WsInit, EventsTyped
<1> QED BY <1>1, <1>2, <1>3, EventKinds, BoundsAssumption
        DEF WsInit, Init, NoId, BridgeTypes, WsTypeOK

(* One forwarding task per direct channel, at most one awaited call per     *)
(* client, and only events on the sockets (handle_ws_connection).           *)
THEOREM BridgeTypeCorrect == WsSpec => []WsTypeOK
<1>1. BridgeTypes => WsTypeOK
  BY DEF BridgeTypes
<1> QED BY <1>1, BridgeTypesInit, BridgeTypesStep, PTL DEF WsSpec

----------------------------------------------------------------------------
(* Calls are answered once.                                                 *)

(* The id a call is awaited by was handed out already.                      *)
AwaitedIsSent == \A w \in WsClients : wsWait[w] <= nMsgs

(* Two clients never await the same call.                                   *)
AwaitedByOne ==
  \A v, w \in WsClients : v # w /\ wsWait[v] = wsWait[w] => wsWait[v] = NoId

(* An awaited call was answered to nobody, and an answered one was sent.    *)
AwaitedUnanswered ==
  \A v, w \in WsClients : wsWait[w] # NoId => Answers(v, wsWait[w]) = {}
AnsweredIsSent ==
  \A w \in WsClients, id \in 1 .. MaxMsgs : Answers(w, id) # {} => id <= nMsgs

(* Why a call has one answer: ids are handed out in order, so the next call *)
(* is one nobody awaits and nobody was answered.                            *)
CallInv ==
  /\ BridgeTypes
  /\ AwaitedIsSent /\ AwaitedByOne
  /\ AwaitedUnanswered /\ AnsweredIsSent
  /\ CallAnsweredOnce

(* Writing an event adds it to the answers of its own call only.            *)
LEMMA EmitAnswers ==
  ASSUME EventsTyped, NEW w \in WsClients, NEW e \in WsEvent, Emit(w, e),
         NEW v \in WsClients, NEW id
  PROVE  Answers(v, id)' =
           IF v = w /\ e = ErrorFor(id)
           THEN Answers(v, id) \cup {Len(wsEvents[w]) + 1}
           ELSE Answers(v, id)
<1>1. wsEvents[v] \in Seq(WsEvent)
  BY DEF EventsTyped
<1>2. CASE v # w
  <2>1. wsEvents'[v] = wsEvents[v]
    BY <1>2 DEF EventsTyped, Emit
  <2> QED BY <1>2, <2>1 DEF Answers
<1>3. CASE v = w
  <2>1. wsEvents'[v] = Append(wsEvents[v], e)
    BY <1>3 DEF EventsTyped, Emit
  <2>2. /\ DOMAIN wsEvents'[v] = DOMAIN wsEvents[v] \cup {Len(wsEvents[v]) + 1}
        /\ \A i \in DOMAIN wsEvents[v] : wsEvents'[v][i] = wsEvents[v][i]
        /\ wsEvents'[v][Len(wsEvents[v]) + 1] = e
    BY <1>1, <2>1
  <2> QED BY <1>3, <2>2 DEF Answers
<1> QED BY <1>2, <1>3

(* A step that writes no answer to a call and hands out at most new ids     *)
(* keeps the invariant.                                                     *)
LEMMA QuietStep ==
  ASSUME CallInv, BridgeTypes', UNCHANGED wsWait, nMsgs <= nMsgs',
         \A w \in WsClients, id \in 1 .. MaxMsgs :
           Answers(w, id)' = Answers(w, id)
  PROVE  CallInv'
<1>1. /\ nMsgs \in Nat /\ nMsgs' \in Nat
      /\ \A w \in WsClients : wsWait[w] \in 0 .. MaxMsgs
  BY BoundsAssumption DEF CallInv, BridgeTypes, TypeOK, WsTypeOK
<1>2. AwaitedIsSent' /\ AwaitedByOne'
  BY <1>1 DEF CallInv, AwaitedIsSent, AwaitedByOne
<1>3. AwaitedUnanswered'
  <2> SUFFICES ASSUME NEW v \in WsClients, NEW w \in WsClients,
                      wsWait'[w] # NoId
               PROVE  Answers(v, wsWait[w])' = {}
    BY DEF AwaitedUnanswered
  <2>1. wsWait'[w] \in 1 .. MaxMsgs /\ wsWait'[w] = wsWait[w]
    BY <1>1 DEF NoId
  <2> QED BY <2>1 DEF CallInv, AwaitedUnanswered
<1>4. AnsweredIsSent'
  BY <1>1 DEF CallInv, AnsweredIsSent
<1>5. CallAnsweredOnce'
  BY DEF CallInv, CallAnsweredOnce
<1> QED BY <1>2, <1>3, <1>4, <1>5 DEF CallInv

(* No client has an answer to a call that was not made yet.                 *)
LEMMA NextCallUnanswered ==
  ASSUME CallInv, nMsgs < MaxMsgs, NEW v \in WsClients
  PROVE  Answers(v, nMsgs + 1) = {}
<1>1. nMsgs \in Nat /\ nMsgs + 1 \in 1 .. MaxMsgs
  BY BoundsAssumption DEF CallInv, BridgeTypes, TypeOK
<1> QED BY <1>1 DEF CallInv, AnsweredIsSent

(* Making a call keeps the invariant.                                       *)
LEMMA CallStep ==
  ASSUME CallInv, BridgeTypes', NEW w \in WsClients, NEW m \in Methods,
         WsCall(w, m)
  PROVE  CallInv'
<1>1. /\ nMsgs \in Nat /\ nMsgs < MaxMsgs /\ nMsgs' = nMsgs + 1
      /\ wsWait' = [wsWait EXCEPT ![w] = nMsgs + 1]
      /\ \A v \in WsClients : wsWait[v] \in 0 .. MaxMsgs /\ wsWait[v] <= nMsgs
      /\ DOMAIN wsWait = WsClients
      /\ wsWait[w] = NoId
      /\ \A v \in WsClients, id \in 1 .. MaxMsgs :
           Answers(v, id)' = Answers(v, id)
  BY BoundsAssumption
  DEF CallInv, BridgeTypes, TypeOK, WsTypeOK, AwaitedIsSent, WsCall,
      HandleCall, Answers, Reading
<1>2. nMsgs + 1 \in 1 .. MaxMsgs
  BY <1>1, BoundsAssumption
<1>3. \A v \in WsClients : Answers(v, nMsgs + 1) = {}
  BY <1>1, NextCallUnanswered
<1>4. AwaitedIsSent'
  BY <1>1 DEF AwaitedIsSent
<1>5. AwaitedByOne'
  BY <1>1 DEF CallInv, AwaitedByOne, NoId
<1>6. AwaitedUnanswered'
  <2> SUFFICES ASSUME NEW v \in WsClients, NEW u \in WsClients,
                      wsWait'[u] # NoId
               PROVE  Answers(v, wsWait[u])' = {}
    BY DEF AwaitedUnanswered
  <2>1. CASE u = w
    BY <1>1, <1>2, <1>3, <2>1
  <2>2. CASE u # w
    <3>1. wsWait'[u] = wsWait[u] /\ wsWait[u] \in 1 .. MaxMsgs
      BY <1>1, <2>2 DEF NoId
    <3> QED BY <1>1, <3>1 DEF CallInv, AwaitedUnanswered
  <2> QED BY <2>1, <2>2
<1>7. AnsweredIsSent'
  BY <1>1 DEF CallInv, AnsweredIsSent
<1>8. CallAnsweredOnce'
  BY <1>1, <1>3 DEF CallInv, CallAnsweredOnce
<1> QED BY <1>4, <1>5, <1>6, <1>7, <1>8 DEF CallInv

(* So does an answer, by the actor or by the timeout: the call it answers   *)
(* is no longer awaited and will not be answered again.                     *)
LEMMA AnswerStep ==
  ASSUME CallInv, BridgeTypes', NEW w \in WsClients,
         WsAnswer(w) \/ WsTimeout(w)
  PROVE  CallInv'
<1> DEFINE a == wsWait[w]
           n == Len(wsEvents[w]) + 1
<1>1. /\ UNCHANGED vars
      /\ Emit(w, ErrorFor(a))
      /\ wsWait' = [wsWait EXCEPT ![w] = NoId]
      /\ wsWait \in [WsClients -> 0 .. MaxMsgs]
      /\ MaxMsgs \in Nat /\ nMsgs \in Nat
      /\ EventsTyped
      /\ a \in 0 .. MaxMsgs
  BY BoundsAssumption
  DEF CallInv, BridgeTypes, TypeOK, WsTypeOK, WsAnswer, WsTimeout
<1>2. a # NoId
  <2>1. replies \subseteq 1 .. MaxMsgs
    BY DEF CallInv, BridgeTypes, TypeOK
  <2> QED BY <2>1 DEF WsAnswer, WsTimeout, NoId
<1>3. a \in 1 .. MaxMsgs /\ a <= nMsgs /\ UNCHANGED nMsgs
  BY <1>1, <1>2 DEF NoId, CallInv, AwaitedIsSent, vars
<1>4. ErrorFor(a) \in WsEvent
  BY <1>1 DEF ErrorFor, WsEvent
<1>5. ASSUME NEW v \in WsClients, NEW id \in 1 .. MaxMsgs
      PROVE  Answers(v, id)' = IF v = w /\ id = a
                               THEN Answers(v, id) \cup {n}
                               ELSE Answers(v, id)
  <2>1. ErrorFor(a) = ErrorFor(id) <=> id = a
    BY DEF ErrorFor
  <2> QED BY <1>1, <1>4, <2>1, EmitAnswers
<1>6. \A v \in WsClients : Answers(v, a) = {}
  BY <1>2 DEF CallInv, AwaitedUnanswered
<1>7. AwaitedIsSent' /\ AwaitedByOne'
  BY <1>1, <1>3 DEF CallInv, AwaitedIsSent, AwaitedByOne, NoId
<1>8. \A u \in WsClients : wsWait'[u] # NoId =>
        /\ u # w
        /\ wsWait'[u] = wsWait[u]
        /\ wsWait[u] \in 1 .. MaxMsgs
        /\ wsWait[u] # a
  BY <1>1, <1>2 DEF CallInv, AwaitedByOne, NoId
<1>9. AwaitedUnanswered'
  <2> SUFFICES ASSUME NEW v \in WsClients, NEW u \in WsClients,
                      wsWait'[u] # NoId
               PROVE  Answers(v, wsWait[u])' = {}
    BY DEF AwaitedUnanswered
  <2>1. Answers(v, wsWait[u]) = {}
    BY <1>8 DEF CallInv, AwaitedUnanswered
  <2> QED BY <1>5, <1>8, <2>1
<1>10. AnsweredIsSent'
  BY <1>3, <1>5 DEF CallInv, AnsweredIsSent
<1>11. CallAnsweredOnce'
  <2> SUFFICES ASSUME NEW v \in WsClients, NEW id \in 1 .. MaxMsgs
               PROVE  /\ Cardinality(Answers(v, id))' <= 1
                      /\ wsWait'[v] = id => Answers(v, id)' = {}
                      /\ Answers(v, id)' # {} =>
                           \A u \in WsClients \ {v} : Answers(u, id)' = {}
    BY DEF CallAnsweredOnce
  <2>1. CASE id = a
    <3>1. Cardinality({}) = 0 /\ Cardinality({n}) = 1
      BY FS_EmptySet, FS_Singleton
    <3>2. wsWait'[v] # id
      BY <1>1, <1>2, <1>3, <1>8, <2>1 DEF NoId
    <3>3. Answers(v, id)' = IF v = w THEN {n} ELSE {}
      BY <1>5, <1>6, <2>1
    <3>4. \A u \in WsClients \ {v} : Answers(u, id)' = IF u = w THEN {n} ELSE {}
      BY <1>5, <1>6, <2>1
    <3>5. Cardinality(Answers(v, id))' <= 1
      BY <3>1, <3>3
    <3> QED BY <3>2, <3>3, <3>4, <3>5
  <2>2. CASE id # a
    <3>1. \A u \in WsClients : Answers(u, id)' = Answers(u, id)
      BY <1>5, <2>2
    <3>2. wsWait'[v] = id => wsWait[v] = id
      BY <1>1 DEF NoId
    <3> QED BY <3>1, <3>2 DEF CallInv, CallAnsweredOnce
  <2> QED BY <2>1, <2>2
<1> QED BY <1>7, <1>9, <1>10, <1>11 DEF CallInv

(* Events, and errors without an id, are no answers to a call.              *)
LEMMA NoAnswer ==
  ASSUME EventsTyped, NEW w \in WsClients, NEW e \in WsEvent, Emit(w, e),
         e.kind = "Event" \/ e = ErrorFor(NoId)
  PROVE  \A v \in WsClients, id \in 1 .. MaxMsgs :
           Answers(v, id)' = Answers(v, id)
<1> SUFFICES ASSUME NEW v \in WsClients, NEW id \in 1 .. MaxMsgs
             PROVE  Answers(v, id)' = Answers(v, id)
  OBVIOUS
<1>1. e # ErrorFor(id)
  BY BoundsAssumption DEF ErrorFor, NoId
<1> QED BY <1>1, EmitAnswers

(* Every step of the bridge keeps the invariant.                            *)
LEMMA CallInvStep ==
  ASSUME CallInv, [WsNext]_allVars
  PROVE  CallInv'
<1> DEFINE SameAnswers == \A v \in WsClients, id \in 1 .. MaxMsgs :
                            Answers(v, id)' = Answers(v, id)
           Quiet == UNCHANGED wsWait /\ nMsgs <= nMsgs' /\ SameAnswers
<1>0. /\ TypeOK /\ EventsTyped /\ BridgeTypes'
      /\ nMsgs \in Nat
  <2>1. BridgeTypes'
    BY BridgeTypesStep DEF CallInv
  <2>2. TypeOK /\ EventsTyped
    BY DEF CallInv, BridgeTypes
  <2>3. nMsgs \in Nat
    BY <2>2, BoundsAssumption DEF TypeOK
  <2> QED BY <2>1, <2>2, <2>3
<1>1. UNCHANGED wsEvents => SameAnswers
  BY DEF Answers
<1>2. ASSUME NEW w \in WsClients,
             WsConnect(w) \/ WsClose(w) \/ WsBadFrame(w)
      PROVE  Quiet
  <2>1. UNCHANGED wsWait /\ nMsgs' = nMsgs
    BY <1>2 DEF WsConnect, WsClose, WsBadFrame, vars
  <2>2. CASE WsBadFrame(w)
    <3>1. ErrorFor(NoId) \in WsEvent
      BY BoundsAssumption DEF ErrorFor, NoId, WsEvent
    <3> QED BY <1>0, <2>1, <2>2, <3>1, NoAnswer DEF WsBadFrame
  <2> QED BY <1>0, <1>1, <1>2, <2>1, <2>2 DEF WsConnect, WsClose
<1>3. ASSUME NEW w \in WsClients,
             \/ \E p \in Patterns : WsSubscribe(w, p) \/ WsUnsubscribe(w, p)
             \/ \E m \in Methods : WsPublish(w, m)
             \/ \E n \in Names : WsRegister(w, n)
      PROVE  Quiet
  <2>1. nMsgs' \in {nMsgs, nMsgs + 1} /\ UNCHANGED <<wsWait, wsEvents>>
    BY <1>3
    DEF WsSubscribe, WsUnsubscribe, WsPublish, WsRegister, HandleSubscribe,
        HandleUnsubscribe, HandlePublish, HandleRegister, wsVars
  <2> QED BY <1>0, <1>1, <2>1
<1>4. ASSUME NEW k \in 1 .. nChans, WsForward(k)
      PROVE  Quiet
  <2>1. HandleTake(k) /\ UNCHANGED <<wsWait, nMsgs>>
    BY <1>4 DEF WsForward, HandleTake
  <2>2. Event(Head(outbox[WsChan(k)])) \in WsEvent
    BY <1>0, <2>1, ForwardedEvent
  <2>3. wsSubs[k] \in WsClients
    BY DEF CallInv, BridgeTypes, WsTypeOK
  <2>4. Event(Head(outbox[WsChan(k)])).kind = "Event"
    BY DEF Event
  <2>5. SameAnswers
    BY <1>0, <1>1, <1>4, <2>2, <2>3, <2>4, NoAnswer DEF WsForward
  <2> QED BY <1>0, <2>1, <2>5
<1>5. ASSUME Accept \/ Actor \/ \E c \in UnixId : Connection(c),
             UNCHANGED wsVars
      PROVE  Quiet
  BY <1>0, <1>1, <1>5, MessagesGrow DEF wsVars
<1>6. ASSUME UNCHANGED allVars
      PROVE  Quiet
  BY <1>0, <1>1, <1>6 DEF allVars, vars, wsVars
<1>7. Quiet => CallInv'
  BY <1>0, QuietStep
<1> QED
  BY <1>0, <1>2, <1>3, <1>4, <1>5, <1>6, <1>7, CallStep, AnswerStep
  DEF WsNext, Client

(* The race of handle_ws_message between the oneshot and its five-second    *)
(* timeout: the client is answered once, and a late answer of the actor is  *)
(* never taken for the answer to another call.                              *)
THEOREM CallAnsweredOnceAlways == WsSpec => []CallAnsweredOnce
<1>1. WsInit => CallInv
  <2> SUFFICES ASSUME WsInit PROVE CallInv
    OBVIOUS
  <2>1. BridgeTypes /\ nMsgs \in Nat
    BY BridgeTypesInit, BoundsAssumption DEF WsInit, Init
  <2>2. \A w \in WsClients : wsWait[w] = NoId /\ \A id : Answers(w, id) = {}
    BY DEF WsInit, Answers
  <2>3. Cardinality({}) = 0
    BY FS_EmptySet
  <2>4. AwaitedIsSent /\ AwaitedByOne /\ AwaitedUnanswered /\ AnsweredIsSent
    BY <2>1, <2>2
    DEF AwaitedIsSent, AwaitedByOne, AwaitedUnanswered, AnsweredIsSent, NoId
  <2>5. CallAnsweredOnce
    BY <2>2, <2>3 DEF CallAnsweredOnce, NoId
  <2> QED BY <2>1, <2>4, <2>5 DEF CallInv
<1>2. CallInv /\ [WsNext]_allVars => CallInv'
  BY CallInvStep
<1>3. CallInv => CallAnsweredOnce
  BY DEF CallInv
<1> QED BY <1>1, <1>2, <1>3, PTL DEF WsSpec
=============================================================================
