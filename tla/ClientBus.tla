----------------------------- MODULE ClientBus -----------------------------
(***************************************************************************)
(* Clients of the Rust library (BusClient) connected to the broker (Broker) *)
(* by their Unix sockets.  A client's number is its connection id.  Writing *)
(* a frame and reading it at the other end are one step: a socket keeps the *)
(* order and loses nothing.                                                 *)
(***************************************************************************)
EXTENDS Broker, BusClient

VARIABLE uuid     \* number of a message in the broker -> the client's id of it

busVars == <<vars, clientVars, uuid>>

BusInit ==
  /\ Init
  /\ BusClientInit
  /\ uuid = [i \in 1 .. MaxMsgs |-> 0]

(* serde_json::to_vec of a string; the broker takes these bytes as they     *)
(* are for the pattern or the service name.                                 *)
Quoted(s) == "\"" \o s \o "\""

BusConnect == Accept /\ ClientConnect(nextId) /\ UNCHANGED uuid

BusWrite(c) ==
  LET f == Head(clientOut[c]) IN
  /\ WriteFrame(c)
  /\ \/ /\ f.kind = "register"
        /\ \E n \in Names : ReadRegister(c, n)
        /\ UNCHANGED uuid
     \/ /\ f.kind = "subscribe"
        /\ ReadSubscribe(c, Quoted(f.topic))
        /\ UNCHANGED uuid
     \/ /\ f.kind = "unsubscribe"
        /\ ReadUnsubscribe(c, Quoted(f.topic))
        /\ UNCHANGED uuid
     \/ /\ f.kind = "message"
        /\ ReadMessage(c, f.topic, NoName)
        /\ uuid' = [uuid EXCEPT ![nMsgs + 1] = f.id]

BusRead(c) ==
  /\ Forward(c)
  /\ LET m == Head(outbox[UnixChan(c)]) IN ReadFrame(c, m.method, uuid[m.id])
  /\ UNCHANGED uuid

BusEnds(c) == Close(c) /\ ClientEnds(c) /\ UNCHANGED uuid

BusNext ==
  \/ BusConnect
  \/ \E c \in BusClients :
       \/ UseClient(c) /\ UNCHANGED <<vars, uuid>>
       \/ BusWrite(c) \/ BusRead(c) \/ BusEnds(c)
  \/ Actor /\ UNCHANGED <<clientVars, uuid>>

BusSpec == BusInit /\ [][BusNext]_busVars

(* tokio runs the actor, and the I/O and connection tasks of every client.  *)
BusFairSpec ==
  /\ BusSpec
  /\ WF_busVars(Actor /\ UNCHANGED <<clientVars, uuid>>)
  /\ \A c \in BusClients : WF_busVars(BusWrite(c)) /\ WF_busVars(BusRead(c))

----------------------------------------------------------------------------
(* Client c holds a handle and has subscribed to topic t, and the broker    *)
(* has handled all its frames.                                              *)
Subscribed(c, t) ==
  /\ clientHandles[c] > 0
  /\ t \in clientTopics[c]
  /\ clientOut[c] = <<>>
  /\ \A i \in DOMAIN cmds : cmds[i].op = "Subscribe" => cmds[i].conn # c

(* The broker is about to route the message of this id, from another client,*)
(* on a topic that client c has subscribed to.                              *)
Awaited(c, id) ==
  /\ cmds # <<>>
  /\ Head(cmds).op = "Route"
  /\ LET m == Head(cmds).msg IN
       /\ uuid[m.id] = id
       /\ m.src # c
       /\ Subscribed(c, m.method)

(* What test_stardust_pub_sub asserts ("Timeout waiting for message",       *)
(* tests/integration.rs:60): a message another client publishes on a topic  *)
(* arrives at the receiver that subscribe returned, unless the subscriber   *)
(* unsubscribes or its connection ends.                                     *)
PubSubRoundTrip ==
  \A c \in BusClients, id \in 1 .. MaxIds :
    Awaited(c, id) ~> \/ id \in clientGot[c]
                      \/ c \notin clientOpen
                      \/ clientTopics[c] = {}
=============================================================================
