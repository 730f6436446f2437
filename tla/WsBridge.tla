------------------------------ MODULE WsBridge ------------------------------
(***************************************************************************)
(* The WebSocket bridge (crates/stardust/src/ws.rs) on top of the broker.   *)
(*                                                                         *)
(* A client's task reads one frame at a time and handles it to the end; a   *)
(* call keeps it from reading until the answer or the timeout.  A           *)
(* subscription spawns a forwarding task that owns the channel's receiver   *)
(* and a clone of the client's event sender, and outlives the client.       *)
(* Every step is a BrokerHandle call or leaves the broker alone.            *)
(***************************************************************************)
EXTENDS Broker

CONSTANTS
  WsClients,     \* WebSocket clients; each connects at most once
  MaxBadFrames   \* bound: unparsable frames a client sends

ASSUME BadFramesAssumption == MaxBadFrames \in Nat

VARIABLES
  wsState,   \* client -> "new", "open" or "closed"
  wsSubs,    \* direct channel -> the client its forwarding task serves
  wsWait,    \* client -> id of the call its task awaits, 0 for none
  wsEvents   \* client -> events written to its socket

wsVars == <<wsState, wsSubs, wsWait, wsEvents>>
allVars == <<vars, wsVars>>

(* Events a client sees.  A call is only ever answered with an Error.       *)
Event(m) == [kind |-> "Event", id |-> m.id, method |-> m.method]
ErrorFor(id) == [kind |-> "Error", id |-> id]
NoId == 0

Reading(w) == wsState[w] = "open" /\ wsWait[w] = NoId

Emit(w, e) == wsEvents' = [wsEvents EXCEPT ![w] = Append(@, e)]

WsInit ==
  /\ Init
  /\ wsState = [w \in WsClients |-> "new"]
  /\ wsSubs = <<>>
  /\ wsWait = [w \in WsClients |-> NoId]
  /\ wsEvents = [w \in WsClients |-> <<>>]

(* start_ws_server accepts and the handshake completes.                     *)
WsConnect(w) ==
  /\ wsState[w] = "new"
  /\ wsState' = [wsState EXCEPT ![w] = "open"]
  /\ UNCHANGED <<vars, wsSubs, wsWait, wsEvents>>

(* A close frame, an error or EOF: nothing is unsubscribed.                 *)
WsClose(w) ==
  /\ Reading(w)
  /\ wsState' = [wsState EXCEPT ![w] = "closed"]
  /\ UNCHANGED <<vars, wsSubs, wsWait, wsEvents>>

WsSubscribe(w, p) ==
  /\ Reading(w)
  /\ HandleSubscribe(p)
  /\ wsSubs' = Append(wsSubs, w)
  /\ UNCHANGED <<wsState, wsWait, wsEvents>>

(* The forwarding task goes on: the channel named is never a subscribed one. *)
WsUnsubscribe(w, p) ==
  /\ Reading(w)
  /\ HandleUnsubscribe(p)
  /\ UNCHANGED wsVars

WsPublish(w, m) ==
  /\ Reading(w)
  /\ HandlePublish(m)
  /\ UNCHANGED wsVars

WsRegister(w, n) ==
  /\ Reading(w)
  /\ HandleRegister(n)
  /\ UNCHANGED wsVars

WsCall(w, m) ==
  /\ Reading(w)
  /\ HandleCall(m)
  /\ wsWait' = [wsWait EXCEPT ![w] = nMsgs + 1]
  /\ UNCHANGED <<wsState, wsSubs, wsEvents>>

(* The awaited oneshot was answered: always with Err.                       *)
WsAnswer(w) ==
  /\ wsWait[w] \in replies
  /\ Emit(w, ErrorFor(wsWait[w]))
  /\ wsWait' = [wsWait EXCEPT ![w] = NoId]
  /\ UNCHANGED <<vars, wsState, wsSubs>>

(* Fault: the timed-out call is still awaited.                              *)
WsTimeoutKeeps(w) ==
  /\ wsWait[w] # NoId
  /\ wsWait[w] \notin replies
  /\ Emit(w, ErrorFor(wsWait[w]))
  /\ UNCHANGED <<vars, wsState, wsSubs, wsWait>>

(* Five seconds pass first; the actor's late answer goes nowhere.           *)
WsTimeout(w) ==
  /\ wsWait[w] # NoId
  /\ wsWait[w] \notin replies
  /\ Emit(w, ErrorFor(wsWait[w]))
  /\ wsWait' = [wsWait EXCEPT ![w] = NoId]
  /\ UNCHANGED <<vars, wsState, wsSubs>>

(* A frame that is not a WsRequest is answered with an Error without id.    *)
WsBadFrame(w) ==
  /\ Reading(w)
  /\ Cardinality({i \in DOMAIN wsEvents[w] : wsEvents[w][i] = ErrorFor(NoId)})
       < MaxBadFrames
  /\ Emit(w, ErrorFor(NoId))
  /\ UNCHANGED <<vars, wsState, wsSubs, wsWait>>

(* Fault: a message that comes while the client's task awaits a call is     *)
(* lost, as the task is not in its select then.                             *)
WsForwardWhenReading(k) ==
  /\ HandleTake(k)
  /\ LET w == wsSubs[k] IN
       IF Reading(w)
       THEN Emit(w, Event(Head(outbox[WsChan(k)])))
       ELSE UNCHANGED wsEvents
  /\ UNCHANGED <<wsState, wsSubs, wsWait>>

(* The forwarding task of channel k hands its next message to the client's  *)
(* event sender; once the client is gone the event is lost there.           *)
WsForward(k) ==
  /\ HandleTake(k)
  /\ LET w == wsSubs[k] IN
       IF wsState[w] = "open"
       THEN Emit(w, Event(Head(outbox[WsChan(k)])))
       ELSE UNCHANGED wsEvents
  /\ UNCHANGED <<wsState, wsSubs, wsWait>>

Client(w) ==
  \/ WsConnect(w)
  \/ WsClose(w)
  \/ \E p \in Patterns : WsSubscribe(w, p) \/ WsUnsubscribe(w, p)
  \/ \E m \in Methods : WsPublish(w, m) \/ WsCall(w, m)
  \/ \E n \in Names : WsRegister(w, n)
  \/ WsAnswer(w)
  \/ WsTimeout(w)
  \/ WsBadFrame(w)

WsNext ==
  \/ \E w \in WsClients : Client(w)
  \/ \E k \in 1 .. nChans : WsForward(k)
  \/ /\ Accept \/ Actor \/ \E c \in UnixId : Connection(c)
     /\ UNCHANGED wsVars

WsSpec == WsInit /\ [][WsNext]_allVars

(* tokio keeps polling the actor, the awaiting client and the forwarders.   *)
WsFairness ==
  /\ WF_allVars(Actor /\ UNCHANGED wsVars)
  /\ \A w \in WsClients : WF_allVars(WsAnswer(w))
  /\ \A k \in WsChanId : WF_allVars(k <= nChans /\ WsForward(k))
  /\ \A c \in UnixId : WF_allVars(Forward(c) /\ UNCHANGED wsVars)

WsFairSpec == WsSpec /\ WsFairness

----------------------------------------------------------------------------
(* Properties.                                                             *)

(* The state of the bridge is well formed.                                  *)
WsTypeOK ==
  /\ wsState \in [WsClients -> {"new", "open", "closed"}]
  /\ wsSubs \in Seq(WsClients)
  /\ Len(wsSubs) = nChans
  /\ wsWait \in [WsClients -> 0 .. MaxMsgs]
  /\ \A w \in WsClients : \A i \in DOMAIN wsEvents[w] :
       wsEvents[w][i].kind \in {"Event", "Error"}

Answers(w, id) ==
  {i \in DOMAIN wsEvents[w] : wsEvents[w][i] = ErrorFor(id)}

(* A call is answered at most once, to the client that made it, and not     *)
(* while it is still awaited: an answer that loses the race against the     *)
(* five-second timeout is never taken for the answer to a later call.       *)
CallAnsweredOnce ==
  \A w \in WsClients, id \in 1 .. MaxMsgs :
    /\ Cardinality(Answers(w, id)) <= 1
    /\ wsWait[w] = id => Answers(w, id) = {}
    /\ Answers(w, id) # {} => \A v \in WsClients \ {w} : Answers(v, id) = {}

(* Every call a WebSocket client makes returns to it: its task is blocked   *)
(* in handle_ws_message until then.                                         *)
CallReturns ==
  \A w \in WsClients, id \in 1 .. MaxMsgs :
    (wsWait[w] = id) ~> (wsWait[w] = NoId)

(* The actor is about to handle publication id, and client w has a direct   *)
(* subscription it goes to.                                                 *)
WsDue(w, id) ==
  /\ cmds # <<>>
  /\ Head(cmds).op = "Route"
  /\ Head(cmds).msg.id = id
  /\ \E t \in TopicTargets(Head(cmds).msg, Head(cmds).sender) :
       \E k \in DOMAIN wsSubs : /\ wsSubs[k] = w
                               /\ connections[t[2]] = WsChan(k)

(* A publication becomes an Event on the socket of every client that has a  *)
(* direct subscription when the actor handles it and stays open, whatever   *)
(* the client's task is doing: a call that keeps it from reading frames     *)
(* holds no event up (ws.rs forwards in a task of its own).                 *)
EventsArrive ==
  \A w \in WsClients, id \in 1 .. MaxMsgs :
    WsDue(w, id) ~> \/ wsState[w] # "open"
                    \/ \E i \in DOMAIN wsEvents[w] :
                         /\ wsEvents[w][i].kind = "Event"
                         /\ wsEvents[w][i].id = id

Queued(op) == \E i \in DOMAIN cmds : cmds[i].op = op

(* A direct subscription the actor has handled keeps its sender: "Subscribe *)
(* to a topic and receive messages via the given channel" (broker.rs).      *)
DirectSubscriptionHeld ==
  ~Queued("SubscribeDirect") =>
    \A k \in 1 .. nChans : \E i \in DOMAIN connections :
      connections[i] = WsChan(k)

(* A message a WebSocket client publishes is written to every subscribed    *)
(* Unix client that stays: "Publish a message to all matching subscribers"  *)
(* (broker.rs).                                                             *)
WsPublishReachesSubscribers ==
  \A c \in UnixId, id \in 1 .. MaxMsgs :
    (Due("Route", c, id) /\ Head(cmds).msg.src = NoConn)
      ~> (Delivered(c, id) \/ c \notin live)
=============================================================================
