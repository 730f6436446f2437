---------------------------- MODULE DaemonProofs ----------------------------
(***************************************************************************)
(* What is proved of the daemons that run by themselves and of the two bus  *)
(* clients, for any number of events, devices, calls, sockets and crashes.  *)
(* Each section has one unit: its inductive invariant, the step lemmas and  *)
(* the theorem.                                                             *)
(***************************************************************************)
EXTENDS Inputd, Pkgd, Inis, Logd, LunaBus, BusClient, Notifd, Netmd,
        FiniteSetTheorems, SequenceTheorems, TLAPS

----------------------------------------------------------------------------
(* inputd: keys are published once and in order.                            *)

KeyEvents == [nr : Nat, device : 1 .. InputDevices,
              code : RemoteCodes \cup OtherCodes, value : 0 .. 2]

(* Events of one device stand in the order of their numbers, in a queue and *)
(* from an earlier queue to a later one.                                    *)
Sorted(q) ==
  \A i, j \in DOMAIN q :
    (i < j /\ q[i].device = q[j].device) => q[i].nr < q[j].nr
Before(q, r) ==
  \A i \in DOMAIN q, j \in DOMAIN r :
    q[i].device = r[j].device => q[i].nr < r[j].nr
Precedes(e, r) ==
  \A j \in DOMAIN r : e.device = r[j].device => e.nr < r[j].nr
Until(q, n) == \A i \in DOMAIN q : q[i].nr <= n

KeyTypes ==
  /\ keyDevice \in [1 .. InputDevices -> Seq(KeyEvents)]
  /\ keyCount \in Nat
  /\ keyReader \in 1 .. InputDevices
  /\ keyBatch \in Seq(KeyEvents) /\ keyRead \in Seq(KeyEvents)
  /\ keyBridge \in Seq(KeyEvents) /\ keyChannel \in Seq(KeyEvents)
  /\ keyPublished \in Seq(KeyEvents)

(* What was read comes before what is being translated, and that before     *)
(* what the kernel still holds.                                             *)
KeyOrder ==
  /\ Sorted(keyRead) /\ Sorted(keyBatch) /\ Before(keyRead, keyBatch)
  /\ Until(keyRead, keyCount) /\ Until(keyBatch, keyCount)
  /\ \A d \in 1 .. InputDevices :
       /\ Sorted(keyDevice[d]) /\ Until(keyDevice[d], keyCount)
       /\ Before(keyRead, keyDevice[d]) /\ Before(keyBatch, keyDevice[d])
       /\ \A i \in DOMAIN keyDevice[d] : keyDevice[d][i].device = d

InOneLine == keyPublished \o keyChannel \o keyBridge = keyRead

InputdInv == KeyTypes /\ KeyOrder /\ InOneLine

(* An element that goes from the head of one queue to the end of the one    *)
(* before it keeps its place in the line.                                   *)
LEMMA MoveHead ==
  ASSUME NEW S, NEW a \in Seq(S), NEW b \in Seq(S), b # <<>>
  PROVE  /\ Head(b) \in S /\ Tail(b) \in Seq(S)
         /\ Append(a, Head(b)) \in Seq(S)
         /\ Append(a, Head(b)) \o Tail(b) = a \o b
<1>1. Head(b) \in S /\ Tail(b) \in Seq(S) /\ <<Head(b)>> \in Seq(S)
      /\ b = <<Head(b)>> \o Tail(b)
  BY HeadTailProperties
<1>2. Append(a, Head(b)) = a \o <<Head(b)>>
  BY <1>1, AppendIsConcat
<1>3. (a \o <<Head(b)>>) \o Tail(b) = a \o (<<Head(b)>> \o Tail(b))
  BY <1>1, ConcatAssociative
<1> QED  BY <1>1, <1>2, <1>3, AppendProperties

(* The positions of a queue whose first element is taken, or to which one   *)
(* is added.                                                                *)
LEMMA TailPositions ==
  ASSUME NEW S, NEW q \in Seq(S), q # <<>>
  PROVE  /\ 1 \in DOMAIN q /\ Head(q) = q[1]
         /\ \A i \in DOMAIN Tail(q) :
              i \in Nat /\ i >= 1 /\ i + 1 \in DOMAIN q /\ Tail(q)[i] = q[i + 1]
  OBVIOUS

LEMMA AppendPositions ==
  ASSUME NEW S, NEW q \in Seq(S), NEW x \in S
  PROVE  \A i \in DOMAIN Append(q, x) :
           \/ i \in DOMAIN q /\ i \in Nat /\ i < Len(q) + 1
              /\ Append(q, x)[i] = q[i]
           \/ i = Len(q) + 1 /\ Append(q, x)[i] = x
  OBVIOUS

(* Adding a later event to a queue, and taking the first one.               *)
LEMMA SortedAppend ==
  ASSUME NEW q \in Seq(KeyEvents), NEW e \in KeyEvents, Sorted(q),
         \A i \in DOMAIN q : q[i].device = e.device => q[i].nr < e.nr
  PROVE  Sorted(Append(q, e))
BY AppendPositions DEF Sorted

LEMMA SortedTail ==
  ASSUME NEW q \in Seq(KeyEvents), q # <<>>, Sorted(q)
  PROVE  /\ Sorted(Tail(q))
         /\ \A i \in DOMAIN Tail(q) :
              Head(q).device = Tail(q)[i].device => Head(q).nr < Tail(q)[i].nr
<1>1. \A i \in DOMAIN Tail(q) :
        i \in Nat /\ i >= 1 /\ i + 1 \in DOMAIN q /\ Tail(q)[i] = q[i + 1]
  BY TailPositions
<1>2. 1 \in DOMAIN q /\ Head(q) = q[1]
  BY TailPositions
<1>3. Sorted(Tail(q))
  BY <1>1 DEF Sorted
<1> QED  BY <1>1, <1>2, <1>3 DEF Sorted

(* The kernel delivers an event: it is later than all there are.            *)
LEMMA KeyEventStep ==
  ASSUME InputdInv, NEW d \in 1 .. InputDevices,
         NEW code \in RemoteCodes \cup OtherCodes, NEW value \in 0 .. 2,
         KeyEvent(d, code, value)
  PROVE  InputdInv'
<1> DEFINE e == [nr |-> keyCount + 1, device |-> d, code |-> code,
                 value |-> value]
<1> USE DEF InputdInv, KeyTypes
<1>1. e \in KeyEvents /\ e.nr = keyCount + 1 /\ e.device = d
  BY DEF KeyEvents
<1>2. /\ keyCount' = keyCount + 1
      /\ keyDevice' = [keyDevice EXCEPT ![d] = Append(@, e)]
      /\ UNCHANGED <<keyReader, keyBatch, keyRead, keyBridge, keyChannel,
                     keyPublished>>
  BY DEF KeyEvent, queueVars
<1> HIDE DEF e
<1>3. KeyTypes'
  BY <1>1, <1>2, AppendProperties
<1>4. ASSUME NEW q \in Seq(KeyEvents), Until(q, keyCount)
      PROVE  /\ Until(q, keyCount + 1)
             /\ \A i \in DOMAIN q : q[i].nr < e.nr
  <2>1. \A i \in DOMAIN q : q[i].nr \in Nat /\ q[i].nr <= keyCount
    <3> SUFFICES ASSUME NEW i \in DOMAIN q
                 PROVE  q[i].nr \in Nat /\ q[i].nr <= keyCount
      OBVIOUS
    <3>1. q[i] \in KeyEvents
      OBVIOUS
    <3>2. q[i].nr \in Nat
      BY <3>1 DEF KeyEvents
    <3> QED  BY <1>4, <3>2 DEF Until
  <2> QED  BY SMTT(30), <1>1, <2>1 DEF Until
<1>5. /\ Sorted(Append(keyDevice[d], e))
      /\ Until(Append(keyDevice[d], e), keyCount + 1)
      /\ \A i \in DOMAIN Append(keyDevice[d], e) :
           Append(keyDevice[d], e)[i].device = d
  <2>1. keyDevice[d] \in Seq(KeyEvents) /\ Until(keyDevice[d], keyCount)
        /\ Sorted(keyDevice[d])
        /\ \A i \in DOMAIN keyDevice[d] : keyDevice[d][i].device = d
    BY DEF KeyOrder
  <2>2. /\ Until(keyDevice[d], keyCount + 1)
        /\ \A i \in DOMAIN keyDevice[d] : keyDevice[d][i].nr < e.nr
    BY <1>4, <2>1
  <2>3. Sorted(Append(keyDevice[d], e))
    BY <1>1, <2>1, <2>2, SortedAppend
  <2> QED  BY SMTT(30), <1>1, <2>1, <2>2, <2>3, AppendPositions DEF Until
<1>6. ASSUME NEW q \in Seq(KeyEvents), Before(q, keyDevice[d]),
             Until(q, keyCount)
      PROVE  Before(q, Append(keyDevice[d], e))
  <2>1. \A i \in DOMAIN q : q[i].nr < e.nr
    BY <1>4, <1>6
  <2>2. \A j \in DOMAIN Append(keyDevice[d], e) :
          \/ j \in DOMAIN keyDevice[d]
             /\ Append(keyDevice[d], e)[j] = keyDevice[d][j]
          \/ Append(keyDevice[d], e)[j] = e
    BY <1>1, AppendPositions
  <2> HIDE DEF InputdInv, KeyTypes
  <2> QED  BY <1>6, <2>1, <2>2 DEF Before
<1>7. KeyOrder'
  <2>1. ASSUME NEW c \in 1 .. InputDevices
        PROVE  /\ Sorted(keyDevice'[c]) /\ Until(keyDevice'[c], keyCount')
               /\ Before(keyRead', keyDevice'[c])
               /\ Before(keyBatch', keyDevice'[c])
               /\ \A i \in DOMAIN keyDevice'[c] : keyDevice'[c][i].device = c
    <3>1. CASE c = d
      BY <1>2, <1>5, <1>6, <3>1 DEF KeyOrder
    <3>2. CASE c # d
      BY <1>2, <1>4, <3>2 DEF KeyOrder
    <3> QED  BY <3>1, <3>2
  <2>2. /\ Sorted(keyRead') /\ Sorted(keyBatch') /\ Before(keyRead', keyBatch')
        /\ Until(keyRead', keyCount') /\ Until(keyBatch', keyCount')
    BY <1>2, <1>4 DEF KeyOrder
  <2> QED  BY <2>1, <2>2 DEF KeyOrder
<1>8. InOneLine'
  BY <1>2 DEF InOneLine
<1> QED  BY <1>3, <1>7, <1>8

(* The reader visits the next device.                                       *)
LEMMA NextDeviceType ==
  ASSUME keyReader \in 1 .. InputDevices, NextDevice
  PROVE  keyReader' \in 1 .. InputDevices
BY InputdAssumption DEF NextDevice

(* All that a device holds becomes the batch.                               *)
LEMMA ReadStep ==
  ASSUME InputdInv, ReadDevice \/ ReadFails
  PROVE  InputdInv'
<1> USE DEF InputdInv, KeyTypes
<1>1. keyReader' \in 1 .. InputDevices
  BY NextDeviceType DEF ReadDevice, ReadFails
<1>2. CASE ReadFails
  BY <1>1, <1>2 DEF ReadFails, KeyOrder, InOneLine, queueVars
<1>3. CASE ReadDevice
  <2>1. /\ keyBatch' = keyDevice[keyReader]
        /\ keyDevice' = [keyDevice EXCEPT ![keyReader] = <<>>]
        /\ UNCHANGED <<keyCount, keyRead, keyBridge, keyChannel, keyPublished>>
    BY <1>3 DEF ReadDevice, queueVars
  <2>2. KeyTypes'
    BY SMTT(30), <1>1, <2>1
  <2>3. ASSUME NEW q PROVE Before(q, <<>>)
    BY DEF Before
  <2>4. Sorted(<<>>) /\ Until(<<>>, keyCount)
    BY DEF Sorted, Until
  <2>5. ASSUME NEW c \in 1 .. InputDevices
        PROVE  /\ Sorted(keyDevice'[c]) /\ Until(keyDevice'[c], keyCount')
               /\ Before(keyRead', keyDevice'[c])
               /\ Before(keyBatch', keyDevice'[c])
               /\ \A i \in DOMAIN keyDevice'[c] : keyDevice'[c][i].device = c
    <3>1. CASE c = keyReader
      <4>1. keyDevice'[c] = <<>>
        BY <2>1, <3>1
      <4> QED  BY <2>1, <2>3, <2>4, <4>1
    <3>2. CASE c # keyReader
      <4>1. keyDevice'[c] = keyDevice[c]
        BY <2>1, <3>2
      <4>2. Before(keyDevice[keyReader], keyDevice[c])
        BY <3>2 DEF KeyOrder, Before
      <4> QED  BY <2>1, <4>1, <4>2 DEF KeyOrder
    <3> QED  BY <3>1, <3>2
  <2>6. KeyOrder'
    BY <2>1, <2>5 DEF KeyOrder
  <2> QED  BY <2>1, <2>2, <2>6 DEF InOneLine
<1> QED  BY <1>2, <1>3

(* An event of the batch is dropped, or becomes the last one read and the   *)
(* last one of the line.                                                    *)
LEMMA TranslateStep ==
  ASSUME InputdInv, TranslateNext
  PROVE  InputdInv'
<1> USE DEF InputdInv, KeyTypes
<1> DEFINE e == Head(keyBatch)
<1>1. /\ keyBatch # <<>> /\ keyBatch' = Tail(keyBatch)
      /\ UNCHANGED <<keyDevice, keyCount, keyReader, keyChannel, keyPublished>>
  BY DEF TranslateNext
<1>2. /\ e \in KeyEvents /\ Tail(keyBatch) \in Seq(KeyEvents)
      /\ 1 \in DOMAIN keyBatch /\ e = keyBatch[1]
      /\ \A i \in DOMAIN Tail(keyBatch) :
           i + 1 \in DOMAIN keyBatch /\ Tail(keyBatch)[i] = keyBatch[i + 1]
  BY <1>1, MoveHead, TailPositions
<1>3. /\ Sorted(Tail(keyBatch)) /\ Until(Tail(keyBatch), keyCount)
      /\ Before(keyRead, Tail(keyBatch)) /\ Precedes(e, Tail(keyBatch))
      /\ \A d \in 1 .. InputDevices :
           Before(Tail(keyBatch), keyDevice[d]) /\ Precedes(e, keyDevice[d])
  <2>1. Sorted(Tail(keyBatch)) /\ Precedes(e, Tail(keyBatch))
    BY <1>1, SortedTail DEF KeyOrder, Precedes
  <2>2. Until(Tail(keyBatch), keyCount) /\ Before(keyRead, Tail(keyBatch))
    BY <1>2 DEF KeyOrder, Until, Before
  <2>3. ASSUME NEW d \in 1 .. InputDevices
        PROVE  Before(Tail(keyBatch), keyDevice[d]) /\ Precedes(e, keyDevice[d])
    <3>1. Before(keyBatch, keyDevice[d])
      BY DEF KeyOrder
    <3> QED  BY <1>2, <3>1 DEF Before, Precedes
  <2> QED  BY <2>1, <2>2, <2>3
<1>4. CASE ~Gives(e)
  <2>1. UNCHANGED <<keyRead, keyBridge>>
    BY <1>4 DEF TranslateNext
  <2>2. KeyTypes'
    BY <1>1, <1>2, <2>1
  <2>3. KeyOrder'
    BY <1>1, <1>3, <2>1 DEF KeyOrder
  <2> QED  BY <1>1, <2>1, <2>2, <2>3 DEF InOneLine
<1>5. CASE Gives(e)
  <2>1. keyRead' = Append(keyRead, e) /\ keyBridge' = Append(keyBridge, e)
    BY <1>5 DEF TranslateNext
  <2>2. KeyTypes'
    BY <1>1, <1>2, <2>1
  <2>3. \A i \in DOMAIN keyRead : keyRead[i].device = e.device
                                    => keyRead[i].nr < e.nr
    BY <1>2 DEF KeyOrder, Before
  <2>4. Sorted(Append(keyRead, e)) /\ Until(Append(keyRead, e), keyCount)
    <3>1. Sorted(Append(keyRead, e))
      BY <1>2, <2>3, SortedAppend DEF KeyOrder
    <3>2. e.nr <= keyCount
      BY <1>2 DEF KeyOrder, Until
    <3> QED  BY <1>2, <3>1, <3>2, AppendPositions DEF KeyOrder, Until
  <2>5. ASSUME NEW r, Before(keyRead, r), Precedes(e, r)
        PROVE  Before(Append(keyRead, e), r)
    <3>1. \A i \in DOMAIN Append(keyRead, e) :
            \/ i \in DOMAIN keyRead /\ Append(keyRead, e)[i] = keyRead[i]
            \/ Append(keyRead, e)[i] = e
      BY <1>2, AppendPositions
    <3> HIDE DEF e, InputdInv, KeyTypes
    <3> QED  BY <2>5, <3>1 DEF Before, Precedes
  <2>6. KeyOrder'
    BY <1>1, <1>3, <2>1, <2>4, <2>5 DEF KeyOrder
  <2>7. InOneLine'
    <3>1. keyPublished \o keyChannel \in Seq(KeyEvents)
      BY ConcatProperties
    <3>2. (keyPublished \o keyChannel) \o Append(keyBridge, e)
            = Append((keyPublished \o keyChannel) \o keyBridge, e)
      <4> HIDE DEF e
      <4> DEFINE a == keyPublished \o keyChannel
      <4>1. Append(keyBridge, e) = keyBridge \o <<e>>
            /\ Append(a \o keyBridge, e) = (a \o keyBridge) \o <<e>>
        BY SMTT(30), <1>2, <3>1, AppendIsConcat, ConcatProperties
      <4>2. <<e>> \in Seq(KeyEvents)
        BY <1>2
      <4>3. (a \o keyBridge) \o <<e>> = a \o (keyBridge \o <<e>>)
        <5>1. a \in Seq(KeyEvents) /\ keyBridge \in Seq(KeyEvents)
          BY <3>1
        <5> HIDE DEF a, InputdInv, KeyTypes
        <5> QED  BY <4>2, <5>1, ConcatAssociative
      <4> QED  BY <4>1, <4>3
    <3> QED  BY <1>1, <2>1, <3>2 DEF InOneLine
  <2> QED  BY <2>2, <2>6, <2>7
<1> QED  BY <1>4, <1>5

(* An event goes from the bridge to the channel, and from there to the bus. *)
LEMMA BridgeStep ==
  ASSUME InputdInv, Bridge \/ PublishKey
  PROVE  InputdInv'
<1> USE DEF InputdInv, KeyTypes
<1>1. CASE Bridge
  <2>1. /\ keyChannel' = Append(keyChannel, Head(keyBridge))
        /\ keyBridge' = Tail(keyBridge) /\ keyBridge # <<>>
        /\ UNCHANGED <<keyDevice, keyCount, keyReader, keyBatch, keyRead,
                       keyPublished>>
    BY <1>1 DEF Bridge
  <2>2. /\ keyChannel' \in Seq(KeyEvents) /\ keyBridge' \in Seq(KeyEvents)
        /\ keyChannel' \o keyBridge' = keyChannel \o keyBridge
    BY SMTT(30), <2>1, MoveHead
  <2>3. /\ (keyPublished \o keyChannel) \o keyBridge
             = keyPublished \o (keyChannel \o keyBridge)
        /\ (keyPublished \o keyChannel') \o keyBridge'
             = keyPublished \o (keyChannel' \o keyBridge')
    <3>1. /\ keyPublished \in Seq(KeyEvents) /\ keyChannel \in Seq(KeyEvents)
          /\ keyBridge \in Seq(KeyEvents)
      OBVIOUS
    <3> HIDE DEF InputdInv, KeyTypes
    <3>2. ASSUME NEW c \in Seq(KeyEvents), NEW b \in Seq(KeyEvents)
          PROVE  (keyPublished \o c) \o b = keyPublished \o (c \o b)
      BY SMTT(30), <3>1, ConcatAssociative
    <3> QED  BY <2>2, <3>1, <3>2
  <2> QED  BY <2>1, <2>2, <2>3 DEF KeyOrder, InOneLine
<1>2. CASE PublishKey
  <2>1. /\ keyPublished' = Append(keyPublished, Head(keyChannel))
        /\ keyChannel' = Tail(keyChannel) /\ keyChannel # <<>>
        /\ UNCHANGED <<keyDevice, keyCount, keyReader, keyBatch, keyRead,
                       keyBridge>>
    BY <1>2 DEF PublishKey
  <2>2. /\ keyPublished' \in Seq(KeyEvents) /\ keyChannel' \in Seq(KeyEvents)
        /\ keyPublished' \o keyChannel' = keyPublished \o keyChannel
    BY SMTT(30), <2>1, MoveHead
  <2> QED  BY <2>1, <2>2 DEF KeyOrder, InOneLine
<1> QED  BY <1>1, <1>2

(* inputd neither loses, repeats nor reorders a key, for any number of      *)
(* devices and events and any capacity of the channel.                      *)
THEOREM KeysInOrderAlways == InputdSpec => []KeysInOrder
<1>1. InputdInit => InputdInv
  <2> SUFFICES ASSUME InputdInit PROVE InputdInv
    OBVIOUS
  <2>1. KeyTypes
    BY InputdAssumption DEF InputdInit, KeyTypes
  <2>2. KeyOrder
    BY DEF InputdInit, KeyOrder, Sorted, Before, Until
  <2>3. InOneLine
    BY DEF InputdInit, InOneLine
  <2> QED  BY <2>1, <2>2, <2>3 DEF InputdInv
<1>2. InputdInv /\ [InputdNext]_inputVars => InputdInv'
  <2> SUFFICES ASSUME InputdInv, [InputdNext]_inputVars PROVE InputdInv'
    OBVIOUS
  <2>1. CASE UNCHANGED inputVars
    BY <2>1 DEF inputVars, queueVars, InputdInv, KeyTypes, KeyOrder, InOneLine
  <2> QED
    BY <2>1, KeyEventStep, ReadStep, TranslateStep, BridgeStep DEF InputdNext
<1>3. InputdInv => KeysInOrder
  BY DEF InputdInv, KeyOrder, InOneLine, KeysInOrder, Sorted
<1> QED  BY <1>1, <1>2, <1>3, PTL DEF InputdSpec

----------------------------------------------------------------------------
(* The shell's bus client: one socket at a time, one timer per open call.   *)

SocketStates == {"none", "connecting", "open", "failed", "closed"}

(* Sockets are made one after the other; the current one is over exactly    *)
(* when one timer of _reconnect runs.                                       *)
SocketLine ==
  /\ lunaSocket \in [1 .. MaxSockets -> SocketStates]
  /\ lunaWs \in 0 .. MaxSockets
  /\ \A s \in 1 .. MaxSockets :
       /\ s > lunaWs => lunaSocket[s] = "none"
       /\ s < lunaWs => lunaSocket[s] = "closed"
  /\ IF lunaWs > 0 /\ lunaSocket[lunaWs] = "closed"
     THEN lunaRetries = 1 ELSE lunaRetries = 0
  /\ lunaWs > 0 => lunaSocket[lunaWs] # "none"

(* A call that is pending or open has its timer.                            *)
CallTimers ==
  /\ lunaCalls \in Nat
  /\ lunaPending \subseteq lunaCallTimers
  /\ 1 .. lunaCalls = lunaSettled \cup lunaCallTimers

LunaInv == SocketLine /\ CallTimers

(* A new socket is made when there is none or the last one is over.         *)
LEMMA NewSocketStep ==
  ASSUME SocketLine, NewSocket,
         \/ lunaWs = 0 /\ lunaRetries' = lunaRetries
         \/ lunaRetries > 0 /\ lunaRetries' = lunaRetries - 1
  PROVE  SocketLine'
<1> USE DEF SocketLine, SocketStates
<1>1. /\ lunaWs' = lunaWs + 1 /\ lunaWs' \in 1 .. MaxSockets
      /\ lunaSocket' = [lunaSocket EXCEPT ![lunaWs'] = "connecting"]
  BY LunaBusAssumption DEF NewSocket
<1>2. lunaWs > 0 => lunaSocket[lunaWs] = "closed"
  OBVIOUS
<1>3. lunaRetries' = 0
  OBVIOUS
<1>4. \A s \in 1 .. MaxSockets :
        /\ s > lunaWs' => lunaSocket'[s] = "none"
        /\ s < lunaWs' => lunaSocket'[s] = "closed"
  <2> SUFFICES ASSUME NEW s \in 1 .. MaxSockets
               PROVE  /\ s > lunaWs' => lunaSocket'[s] = "none"
                      /\ s < lunaWs' => lunaSocket'[s] = "closed"
    OBVIOUS
  <2>1. CASE s = lunaWs'
    BY <1>1, <2>1
  <2>2. CASE s # lunaWs'
    <3>1. lunaSocket'[s] = lunaSocket[s]
      BY <1>1, <2>2
    <3>2. s < lunaWs' => s = lunaWs \/ s < lunaWs
      BY <1>1
    <3> QED  BY <1>1, <1>2, <3>1, <3>2
  <2> QED  BY <2>1, <2>2
<1> QED  BY <1>1, <1>3, <1>4

(* Only the current socket has events, and its close event starts the timer. *)
LEMMA SocketEventStep ==
  ASSUME SocketLine, NEW s \in 1 .. MaxSockets,
         OnOpen(s) \/ OnError(s) \/ OnClose(s)
  PROVE  SocketLine'
<1> USE DEF SocketLine, SocketStates
<1>1. lunaSocket[s] \in {"connecting", "open", "failed"}
  BY DEF OnOpen, OnError, OnClose
<1>2. s = lunaWs
  BY <1>1
<1>3. lunaRetries = 0
  BY <1>1, <1>2
<1>4. CASE OnOpen(s) \/ OnError(s)
  BY <1>2, <1>3, <1>4 DEF OnOpen, OnError
<1>5. CASE OnClose(s)
  BY <1>2, <1>3, <1>5 DEF OnClose
<1> QED  BY <1>4, <1>5

(* The steps of the sockets.                                                *)
LEMMA LunaSocketStep ==
  ASSUME LunaInv,
         \/ LunaConnect \/ Reconnect
         \/ \E s \in 1 .. MaxSockets :
              OnOpen(s) \/ OnError(s) \/ OnClose(s) \/ ConnectTimeout(s)
  PROVE  LunaInv'
<1>1. UNCHANGED callVars
  BY DEF LunaConnect, Reconnect, OnOpen, OnError, OnClose, ConnectTimeout
<1>2. CallTimers'
  BY <1>1 DEF LunaInv, CallTimers, callVars
<1>3. CASE LunaConnect
  BY <1>2, <1>3, NewSocketStep DEF LunaConnect, LunaInv
<1>4. CASE Reconnect
  BY <1>2, <1>4, NewSocketStep DEF Reconnect, LunaInv
<1>5. CASE \E s \in 1 .. MaxSockets : OnOpen(s) \/ OnError(s) \/ OnClose(s)
  BY <1>2, <1>5, SocketEventStep DEF LunaInv
<1>6. CASE \E s \in 1 .. MaxSockets : ConnectTimeout(s)
  BY <1>2, <1>6 DEF ConnectTimeout, LunaInv, SocketLine
<1> QED  BY <1>3, <1>4, <1>5, <1>6

(* The steps of the calls.                                                  *)
LEMMA LunaCallStep ==
  ASSUME LunaInv,
         \/ LunaCall
         \/ \E id \in 1 .. MaxLunaCalls :
              OnResponse(id) \/ OnErrorAnswer(id) \/ LunaCallTimeout(id)
         \/ \E p \in LunaPatterns : LunaSubscribe(p) \/ LunaUnsubscribe(p)
  PROVE  LunaInv'
<1>1. UNCHANGED socketVars
  BY DEF LunaCall, OnResponse, OnErrorAnswer, LunaCallTimeout, LunaSubscribe,
         LunaUnsubscribe
<1>2. SocketLine'
  BY <1>1 DEF LunaInv, SocketLine, socketVars
<1> USE DEF CallTimers
<1>3. CASE LunaCall
  <2>1. lunaCalls \in Nat /\ lunaCalls' = lunaCalls + 1
        /\ 1 .. lunaCalls + 1 = 1 .. lunaCalls \cup {lunaCalls + 1}
    BY <1>3 DEF LunaCall, LunaInv
  <2>2. CASE MaySend
    <3>1. /\ lunaPending' = lunaPending \cup {lunaCalls + 1}
          /\ lunaCallTimers' = lunaCallTimers \cup {lunaCalls + 1}
          /\ lunaSettled' \in {lunaSettled, lunaSettled \cup {lunaCalls + 1}}
      BY <1>3, <2>2 DEF LunaCall
    <3> QED  BY <1>2, <2>1, <3>1 DEF LunaInv
  <2>3. CASE ~MaySend
    <3>1. /\ lunaPending' = lunaPending /\ lunaCallTimers' = lunaCallTimers
          /\ lunaSettled' = lunaSettled \cup {lunaCalls + 1}
      BY <1>3, <2>3 DEF LunaCall
    <3> QED  BY <1>2, <2>1, <3>1 DEF LunaInv
  <2> QED  BY <2>2, <2>3
<1>4. ASSUME NEW id \in 1 .. MaxLunaCalls,
             OnResponse(id) \/ OnErrorAnswer(id) \/ LunaCallTimeout(id)
      PROVE  LunaInv'
  <2>1. CASE OnResponse(id)
    BY <1>2, <2>1 DEF OnResponse, LunaInv
  <2>2. CASE OnErrorAnswer(id)
    BY <1>2, <2>2 DEF OnErrorAnswer, LunaInv
  <2>3. CASE LunaCallTimeout(id)
    BY <1>2, <2>3 DEF LunaCallTimeout, LunaInv
  <2> QED  BY <1>4, <2>1, <2>2, <2>3
<1>5. CASE \E p \in LunaPatterns : LunaSubscribe(p) \/ LunaUnsubscribe(p)
  BY <1>2, <1>5 DEF LunaSubscribe, LunaUnsubscribe, LunaInv, callVars
<1> QED  BY <1>3, <1>4, <1>5

(* The shell never has two sockets, and every open call has a timer that    *)
(* will settle it, for any number of sockets and calls.                     *)
THEOREM OneSocketOneTimerAlways == LunaBusSpec => []OneSocketOneTimer
<1>1. LunaBusInit => LunaInv
  BY LunaBusAssumption
     DEF LunaBusInit, LunaInv, SocketLine, SocketStates, CallTimers
<1>2. LunaInv /\ [LunaBusNext]_lunaVars => LunaInv'
  <2>1. LunaInv /\ UNCHANGED lunaVars => LunaInv'
    BY DEF lunaVars, socketVars, callVars, LunaInv, SocketLine, CallTimers
  <2> QED  BY <2>1, LunaSocketStep, LunaCallStep DEF LunaBusNext
<1>3. LunaInv => OneSocketOneTimer
  BY DEF LunaInv, SocketLine, CallTimers, OneSocketOneTimer, LiveSockets
<1> QED  BY <1>1, <1>2, <1>3, PTL DEF LunaBusSpec

----------------------------------------------------------------------------
(* stardust::Client: the table of pending calls is what is awaited.         *)

(* A call is awaited through a handle: a client that reconnects, which has  *)
(* none, awaits nothing.                                                    *)
ClientInv ==
  /\ clientOpen \subseteq BusClients
  /\ clientHandles \in [BusClients -> Nat]
  /\ DOMAIN clientPending = BusClients /\ DOMAIN clientWaiting = BusClients
  /\ \A c \in BusClients : clientHandles[c] = 0 => clientWaiting[c] = {}
  /\ PendingAwaited

(* A fresh connection begins with an empty table; cloning adds a handle.    *)
LEMMA HandleStep ==
  ASSUME ClientInv, NEW c \in BusClients,
         ClientConnect(c) \/ ClientClone(c) \/ ClientDrop(c)
  PROVE  ClientInv'
<1> USE DEF ClientInv, PendingAwaited
<1>1. CASE ClientConnect(c)
  BY <1>1 DEF ClientConnect
<1>2. CASE ClientClone(c)
  BY <1>2, BusClientAssumption DEF ClientClone
<1>3. CASE ClientDrop(c)
  <2>1. /\ clientHandles[c] > 0
        /\ clientWaiting[c] = {} \/ clientHandles[c] > 1
        /\ clientHandles' = [clientHandles EXCEPT ![c] = @ - 1]
        /\ UNCHANGED <<clientOpen, clientPending, clientWaiting>>
    BY <1>3 DEF ClientDrop, Sends
  <2> QED  BY <2>1
<1> QED  BY <1>1, <1>2, <1>3

(* A call is entered and awaited, and leaves both tables, in one step.      *)
LEMMA AwaitStep ==
  ASSUME ClientInv, NEW c \in BusClients,
         \/ \E t \in Topics : ClientCall(c, t)
         \/ \E id \in clientWaiting[c] : CallTimeout(c, id)
         \/ \E t \in Topics, id \in 1 .. MaxIds : ReadFrame(c, t, id)
  PROVE  ClientInv'
<1> USE DEF ClientInv, PendingAwaited
<1>1. CASE \E t \in Topics : ClientCall(c, t)
  <2>1. /\ clientHandles[c] > 0 /\ UNCHANGED <<clientOpen, clientHandles>>
        /\ clientPending' = [clientPending EXCEPT ![c] =
                                @ \cup {clientIds + 1}]
        /\ clientWaiting' = [clientWaiting EXCEPT ![c] =
             IF c \in clientOpen THEN @ \cup {clientIds + 1} ELSE @]
    BY <1>1 DEF ClientCall, Sends
  <2>2. \A d \in BusClients :
          /\ d # c => clientPending'[d] = clientPending[d]
                      /\ clientWaiting'[d] = clientWaiting[d]
          /\ c \in clientOpen =>
               clientPending'[c] = clientPending[c] \cup {clientIds + 1}
               /\ clientWaiting'[c] = clientWaiting[c] \cup {clientIds + 1}
    BY <2>1
  <2> QED  BY <2>1, <2>2
<1>2. CASE \E id \in clientWaiting[c] : CallTimeout(c, id)
  BY <1>2 DEF CallTimeout
<1>3. CASE \E t \in Topics, id \in 1 .. MaxIds : ReadFrame(c, t, id)
  BY <1>3 DEF ReadFrame
<1> QED  BY <1>1, <1>2, <1>3

(* The other steps leave both tables alone.                                 *)
LEMMA FrameStep ==
  ASSUME ClientInv, NEW c \in BusClients,
         \/ ClientRegister(c) \/ WriteFrame(c) \/ ClientEnds(c)
         \/ \E t \in Topics : \/ ClientSubscribe(c, t) \/ ClientUnsubscribe(c, t)
                              \/ ClientPublish(c, t)
  PROVE  ClientInv'
<1>1. /\ UNCHANGED <<clientHandles, clientPending, clientWaiting>>
      /\ clientOpen' \subseteq clientOpen
  BY DEF ClientRegister, WriteFrame, ClientEnds, ClientSubscribe,
         ClientUnsubscribe, ClientPublish
<1> QED  BY <1>1 DEF ClientInv, PendingAwaited

(* While the connection stands no pending entry leaks and no caller waits   *)
(* without one, for any number of clients, clones and calls.                *)
THEOREM PendingAwaitedAlways == BusClientSpec => []PendingAwaited
<1>1. BusClientInit => ClientInv
  BY DEF BusClientInit, ClientInv, PendingAwaited
<1>2. ClientInv /\ [BusClientNext]_clientVars => ClientInv'
  <2>1. ClientInv /\ UNCHANGED clientVars => ClientInv'
    BY DEF clientVars, ClientInv, PendingAwaited
  <2> QED
    BY <2>1, HandleStep, AwaitStep, FrameStep DEF BusClientNext, UseClient
<1>3. ClientInv => PendingAwaited
  BY DEF ClientInv
<1> QED  BY <1>1, <1>2, <1>3, PTL DEF BusClientSpec

----------------------------------------------------------------------------
(* PID 1: at most two monitords, and a changed configuration stays.         *)

Booting == {"mount", "seed", "spawn"}

(* The monitords are the one main() has started, number 1, and the one      *)
(* main_loop watches, which is never number 1; a zombie was there before    *)
(* main_loop ignored SIGCHLD, so it is never the one watched.               *)
MonitordsKnown ==
  /\ lastPid \in Nat /\ restartCount \in Nat
  /\ monitordPid \in Nat /\ monitordPid # 1
  /\ monitords \subseteq {1, monitordPid} \ {NoPid}
  /\ zombies \subseteq {Orphan, 1}
  /\ inisPc \in Booting => monitords = {} /\ lastPid = 0
  /\ inisPc = "harden" => monitords \subseteq {1}
  /\ inisPc \in {"harden", "loop"} => lastPid >= 1

(* Files are only copied while no monitord runs, and only where none was    *)
(* changed.                                                                 *)
CopiesFresh ==
  /\ dataDev \in Devices
  /\ dataEtc \in [Devices -> [ConfigFiles -> {"absent", "preseed", "edited"}]]
  /\ toCopy \subseteq ConfigFiles
  /\ inisPc # "seed" => toCopy = {}
  /\ \A f \in toCopy : dataEtc[dataDev][f] # "edited"

InisInv == MonitordsKnown /\ CopiesFresh

(* Mounting, seeding and power losses: no monitord runs.                    *)
LEMMA BootMonitords ==
  ASSUME MonitordsKnown,
         \/ \E d \in Devices : MountData(d)
         \/ \E f \in ConfigFiles : CopyConfig(f)
         \/ Seeded \/ SpawnFirst \/ Harden \/ SpawnFails \/ PowerLoss
  PROVE  MonitordsKnown'
<1> USE DEF MonitordsKnown, Booting, NoPid, Orphan, procVars
<1>1. CASE \/ \E d \in Devices : MountData(d)
           \/ \E f \in ConfigFiles : CopyConfig(f)
           \/ Seeded \/ Harden
  BY <1>1 DEF MountData, CopyConfig, Seeded, Harden
<1>2. CASE SpawnFirst
  BY <1>2 DEF SpawnFirst, Spawn
<1>3. CASE SpawnFails \/ PowerLoss
  BY <1>3 DEF SpawnFails, PowerLoss, AllEnds
<1> QED  BY <1>1, <1>2, <1>3

(* main_loop and the processes: the pid watched changes only when no other  *)
(* monitord than the first is left.                                         *)
LEMMA LoopMonitords ==
  ASSUME MonitordsKnown,
         \/ Respawn \/ GiveUp \/ NoChildren \/ OrphanExits
         \/ \E z \in zombies : Reap(z)
         \/ \E m \in monitords : ServiceStarts(m) \/ MonitordExits(m)
         \/ \E f \in ConfigFiles : EditConfig(f)
         \/ UNCHANGED inisVars
  PROVE  MonitordsKnown'
<1> USE DEF MonitordsKnown, Booting, NoPid, Orphan, procVars
<1>1. CASE Respawn
  <2>1. /\ monitordPid = NoPid /\ inisPc = "loop" /\ inisPc' = "loop"
        /\ monitordPid' = lastPid + 1 /\ lastPid' = lastPid + 1
        /\ restartCount' = restartCount + 1
        /\ monitords' = monitords \cup {lastPid + 1} /\ zombies' = zombies
    BY <1>1 DEF Respawn, Spawn
  <2>2. monitords \subseteq {1} /\ lastPid >= 1
    BY <2>1
  <2> QED  BY <2>1, <2>2
<1>2. CASE GiveUp
  BY <1>2 DEF GiveUp
<1>3. ASSUME NEW z \in zombies, Reap(z)
      PROVE  MonitordsKnown'
  <2>1. z \in {0, 1} /\ z # monitordPid
    BY <1>3 DEF Reap
  <2>2. monitordPid' = monitordPid /\ zombies' \subseteq zombies
        /\ UNCHANGED <<inisPc, restartCount, lastPid, monitords>>
    BY <1>3, <2>1 DEF Reap
  <2> QED  BY <2>2
<1>4. ASSUME NEW m \in monitords, ServiceStarts(m) \/ MonitordExits(m)
      PROVE  MonitordsKnown'
  <2>1. /\ monitords' \subseteq monitords
        /\ \/ zombies' = zombies
           \/ inisPc = "harden" /\ zombies' = zombies \cup {m}
        /\ UNCHANGED <<inisPc, monitordPid, restartCount, lastPid>>
    BY <1>4 DEF ServiceStarts, MonitordExits, Exited
  <2>2. inisPc = "harden" => m = 1
    OBVIOUS
  <2> QED  BY <2>1, <2>2
<1>5. CASE OrphanExits
  BY <1>5 DEF OrphanExits, Exited
<1>6. CASE (\E f \in ConfigFiles : EditConfig(f)) \/ UNCHANGED inisVars
  BY <1>6 DEF EditConfig, inisVars
<1>7. CASE NoChildren
  <2>1. /\ inisPc = "loop" /\ monitords = {} /\ monitordPid' = 0
        /\ UNCHANGED <<inisPc, restartCount, lastPid, monitords, zombies>>
    BY <1>7 DEF NoChildren
  <2> QED  BY <2>1
<1> QED  BY <1>1, <1>2, <1>3, <1>4, <1>5, <1>6, <1>7

(* Mounting and copying.                                                    *)
LEMMA SeedCopies ==
  ASSUME InisInv,
         \/ \E d \in Devices : MountData(d)
         \/ \E f \in ConfigFiles : CopyConfig(f)
         \/ Seeded
  PROVE  /\ CopiesFresh'
         /\ \A d \in Devices, f \in ConfigFiles :
              dataEtc[d][f] = "edited" => dataEtc'[d][f] = "edited"
<1> USE DEF InisInv, CopiesFresh
<1>1. ASSUME NEW d \in Devices, MountData(d)
      PROVE  CopiesFresh' /\ dataEtc' = dataEtc
  BY <1>1 DEF MountData, FirstBoot
<1>2. ASSUME NEW f \in ConfigFiles, CopyConfig(f)
      PROVE  /\ CopiesFresh'
             /\ \A d \in Devices, g \in ConfigFiles :
                  dataEtc[d][g] = "edited" => dataEtc'[d][g] = "edited"
  <2>1. /\ inisPc = "seed" /\ inisPc' = "seed" /\ f \in toCopy
        /\ toCopy' = toCopy \ {f} /\ dataDev' = dataDev
        /\ \/ dataEtc' = dataEtc
           \/ dataEtc' = [dataEtc EXCEPT ![dataDev][f] = "preseed"]
    BY <1>2 DEF CopyConfig
  <2>2. CASE dataEtc' = dataEtc
    BY <2>1, <2>2
  <2>3. CASE dataEtc' = [dataEtc EXCEPT ![dataDev][f] = "preseed"]
    <3>1. dataEtc' \in [Devices -> [ConfigFiles -> {"absent", "preseed", "edited"}]]
      BY <2>1, <2>3
    <3>2. \A d \in Devices, g \in ConfigFiles :
            dataEtc'[d][g] = IF d = dataDev /\ g = f THEN "preseed"
                             ELSE dataEtc[d][g]
      BY <2>1, <2>3
    <3> QED  BY <2>1, <3>1, <3>2
  <2> QED  BY <2>1, <2>2, <2>3
<1>3. CASE Seeded
  BY <1>3 DEF Seeded, diskVars
<1> QED  BY <1>1, <1>2, <1>3

(* The steps after the seeding copy nothing, and may only change a file.    *)
LEMMA LaterCopies ==
  ASSUME InisInv,
         \/ SpawnFirst \/ Harden \/ Respawn \/ GiveUp \/ NoChildren
         \/ \E z \in zombies : Reap(z)
         \/ SpawnFails \/ OrphanExits \/ PowerLoss
         \/ \E m \in monitords : ServiceStarts(m) \/ MonitordExits(m)
         \/ \E f \in ConfigFiles : EditConfig(f)
         \/ UNCHANGED inisVars
  PROVE  /\ CopiesFresh'
         /\ \A d \in Devices, f \in ConfigFiles :
              dataEtc[d][f] = "edited" => dataEtc'[d][f] = "edited"
<1> USE DEF InisInv, CopiesFresh, diskVars
<1>1. CASE SpawnFirst \/ Harden \/ Respawn \/ GiveUp \/ NoChildren
  BY <1>1 DEF SpawnFirst, Harden, Respawn, GiveUp, NoChildren
<1>2. CASE \/ \E z \in zombies : Reap(z)
           \/ \E m \in monitords : ServiceStarts(m) \/ MonitordExits(m)
           \/ OrphanExits \/ UNCHANGED inisVars
  BY <1>2 DEF Reap, ServiceStarts, MonitordExits, OrphanExits, inisVars
<1>3. CASE SpawnFails \/ PowerLoss
  BY <1>3 DEF SpawnFails, PowerLoss
<1>4. ASSUME NEW f \in ConfigFiles, EditConfig(f)
      PROVE  /\ CopiesFresh'
             /\ \A d \in Devices, g \in ConfigFiles :
                  dataEtc[d][g] = "edited" => dataEtc'[d][g] = "edited"
  <2>1. inisPc # "seed" /\ toCopy = {}
    BY <1>4 DEF EditConfig, MonitordsKnown, Booting
  <2>2. dataEtc' = [dataEtc EXCEPT ![dataDev][f] = "edited"]
        /\ UNCHANGED <<inisPc, dataDev, toCopy>>
    BY <1>4 DEF EditConfig
  <2>3. \A d \in Devices, g \in ConfigFiles :
          dataEtc'[d][g] = IF d = dataDev /\ g = f THEN "edited"
                           ELSE dataEtc[d][g]
    BY <2>2
  <2>4. dataEtc' \in [Devices -> [ConfigFiles -> {"absent", "preseed", "edited"}]]
    BY <2>2
  <2> QED  BY <2>1, <2>2, <2>3, <2>4
<1> QED  BY <1>1, <1>2, <1>3, <1>4

(* The invariant, and what a step may do to the files.                      *)
LEMMA InisInitInv == InisInit => InisInv
BY DEF InisInit, InisInv, MonitordsKnown, CopiesFresh, Booting, NoPid, Orphan,
       Devices

LEMMA InisStepInv ==
  ASSUME InisInv, [InisNext]_inisVars
  PROVE  /\ InisInv'
         /\ \A d \in Devices, f \in ConfigFiles :
              dataEtc[d][f] = "edited" => dataEtc'[d][f] = "edited"
<1>1. MonitordsKnown'
  BY BootMonitords, LoopMonitords DEF InisInv, InisNext, InisStep
<1>2. /\ CopiesFresh'
      /\ \A d \in Devices, f \in ConfigFiles :
           dataEtc[d][f] = "edited" => dataEtc'[d][f] = "edited"
  BY SeedCopies, LaterCopies DEF InisNext, InisStep
<1> QED  BY <1>1, <1>2 DEF InisInv

LEMMA InisInvariant == InisSpec => []InisInv
<1>1. InisInv /\ [InisNext]_inisVars => InisInv'
  BY InisStepInv
<1> QED  BY <1>1, InisInitInv, PTL DEF InisSpec

(* There are never more than two monitords, for any number of restarts,     *)
(* services and power losses.                                               *)
THEOREM AtMostTwoAlways == InisSpec => []AtMostTwoMonitords
<1>1. InisInv => AtMostTwoMonitords
  <2> SUFFICES ASSUME InisInv PROVE Cardinality(monitords) <= 2
    BY DEF AtMostTwoMonitords
  <2>1. IsFiniteSet({1}) /\ Cardinality({1}) = 1
    BY FS_Singleton
  <2>2. IsFiniteSet({1} \cup {monitordPid})
        /\ Cardinality({1} \cup {monitordPid}) <= 2
    <3> DEFINE first == {1}
    <3>1. IsFiniteSet(first) /\ Cardinality(first) = 1
      BY <2>1
    <3> HIDE DEF first
    <3>2. /\ IsFiniteSet(first \cup {monitordPid})
          /\ Cardinality(first \cup {monitordPid})
               = IF monitordPid \in first THEN Cardinality(first)
                                          ELSE Cardinality(first) + 1
      BY <3>1, FS_AddElement
    <3>3. Cardinality(first \cup {monitordPid}) <= 2
      BY <3>1, <3>2
    <3> QED  BY <3>2, <3>3 DEF first
  <2>3. monitords \subseteq {1} \cup {monitordPid}
    BY DEF InisInv, MonitordsKnown
  <2>4. IsFiniteSet(monitords)
        /\ Cardinality(monitords) <= Cardinality({1} \cup {monitordPid})
    BY <2>2, <2>3, FS_Subset
  <2>5. Cardinality(monitords) \in Nat
    BY <2>4, FS_CardinalityType
  <2>6. Cardinality({1} \cup {monitordPid}) \in Nat
    BY <2>2, FS_CardinalityType
  <2> DEFINE both == Cardinality({1} \cup {monitordPid})
             all  == Cardinality(monitords)
  <2> SUFFICES all <= 2
    OBVIOUS
  <2>7. both <= 2 /\ all <= both /\ both \in Nat /\ all \in Nat
    BY <2>2, <2>4, <2>5, <2>6
  <2> HIDE DEF both, all
  <2> QED  BY <2>7
<1> QED  BY <1>1, InisInvariant, PTL

(* No step ever replaces a changed configuration file by another.           *)
THEOREM ConfigKeptAlways == InisSpec => ConfigKept
<1>1. InisInv /\ [InisNext]_inisVars =>
        [\A d \in Devices, f \in ConfigFiles :
           dataEtc[d][f] = "edited" => dataEtc'[d][f] = "edited"]_inisVars
  BY InisStepInv
<1> QED  BY <1>1, InisInvariant, PTL DEF InisSpec, ConfigKept

----------------------------------------------------------------------------
(* pkgd: an app that looks installed is.                                    *)

Contents == {"none", "torn", "whole"}
AppFiles == [bundle : Contents, manifest : Contents, spoilt : BOOLEAN]

(* A directory with a manifest has a whole bundle, or is known to be spoilt. *)
Trusted(files) ==
  files.manifest = "none" \/ files.spoilt \/ files.bundle = "whole"

(* A manifest is written where the whole bundle is.                         *)
PkgdInv ==
  /\ pkgDirs \in [OtherApps -> AppFiles]
  /\ pkgBusy \in OtherApps \cup {NoApp}
  /\ \A a \in OtherApps : Trusted(pkgDirs[a])
  /\ (pkgPc = "manifest" /\ pkgBusy # NoApp) => pkgDirs[pkgBusy].bundle = "whole"

(* Writing a bundle, whole or torn, into a directory.                       *)
LEMMA BundlePutFiles ==
  ASSUME NEW a \in OtherApps, pkgDirs[a] \in AppFiles, NEW content \in {"torn", "whole"}
  PROVE  /\ BundlePut(a, content) \in AppFiles
         /\ BundlePut(a, content).bundle = content
         /\ Trusted(BundlePut(a, content))
<1> DEFINE old == pkgDirs[a]
           cut == content = "torn" /\ old.manifest # "none"
           mark == old.spoilt \/ cut
           new == [old EXCEPT !.bundle = content, !.spoilt = mark]
<1>1. BundlePut(a, content) = new
  BY Zenon DEF BundlePut
<1>2. mark \in BOOLEAN /\ (cut => mark = TRUE)
  OBVIOUS
<1>3. old \in AppFiles /\ content \in Contents /\ (content = "whole" \/ cut
        \/ old.manifest = "none")
  BY DEF Contents
<1> HIDE DEF old, cut, mark
<1>4. /\ new \in AppFiles /\ new.bundle = content
      /\ new.manifest = old.manifest /\ new.spoilt = mark
  BY <1>2, <1>3 DEF AppFiles
<1> HIDE DEF new
<1>5. Trusted(new)
  BY <1>2, <1>3, <1>4 DEF Trusted
<1> QED  BY <1>1, <1>4, <1>5

(* Writing the manifest beside a whole bundle.                              *)
LEMMA ManifestPutFiles ==
  ASSUME NEW a \in OtherApps, pkgDirs[a] \in AppFiles,
         pkgDirs[a].bundle = "whole", NEW content \in {"torn", "whole"}
  PROVE  /\ ManifestPut(a, content) \in AppFiles
         /\ Trusted(ManifestPut(a, content))
BY DEF ManifestPut, AppFiles, Contents, Trusted

(* The directories change for one app.                                      *)
LEMMA WithTrusted ==
  ASSUME PkgdInv, NEW a \in OtherApps, NEW files \in AppFiles, Trusted(files)
  PROVE  /\ WithFiles(a, files) \in [OtherApps -> AppFiles]
         /\ \A b \in OtherApps : Trusted(WithFiles(a, files)[b])
         /\ WithFiles(a, files)[a] = files
BY DEF WithFiles, PkgdInv

(* The bundle of the app that is being installed, if it has an id.          *)
LEMMA PutBundle ==
  ASSUME PkgdInv, NEW content \in {"torn", "whole"}
  PROVE  /\ Put(BundlePut, content) \in [OtherApps -> AppFiles]
         /\ \A b \in OtherApps : Trusted(Put(BundlePut, content)[b])
         /\ pkgBusy # NoApp => Put(BundlePut, content)[pkgBusy].bundle = content
<1>1. CASE pkgBusy = NoApp
  BY <1>1 DEF Put, PkgdInv
<1>2. CASE pkgBusy # NoApp
  <2>1. pkgBusy \in OtherApps /\ pkgDirs[pkgBusy] \in AppFiles
    BY <1>2 DEF PkgdInv
  <2>2. Put(BundlePut, content) = WithFiles(pkgBusy, BundlePut(pkgBusy, content))
    BY <1>2 DEF Put
  <2> QED  BY <2>1, <2>2, BundlePutFiles, WithTrusted
<1> QED  BY <1>1, <1>2

(* Its manifest.                                                            *)
LEMMA PutManifest ==
  ASSUME PkgdInv, pkgPc = "manifest", NEW content \in {"torn", "whole"}
  PROVE  /\ Put(ManifestPut, content) \in [OtherApps -> AppFiles]
         /\ \A b \in OtherApps : Trusted(Put(ManifestPut, content)[b])
<1>1. CASE pkgBusy = NoApp
  BY <1>1 DEF Put, PkgdInv
<1>2. CASE pkgBusy # NoApp
  <2>1. /\ pkgBusy \in OtherApps /\ pkgDirs[pkgBusy] \in AppFiles
        /\ pkgDirs[pkgBusy].bundle = "whole"
    BY <1>2 DEF PkgdInv
  <2>2. Put(ManifestPut, content)
          = WithFiles(pkgBusy, ManifestPut(pkgBusy, content))
    BY <1>2 DEF Put
  <2> QED  BY <2>1, <2>2, ManifestPutFiles, WithTrusted
<1> QED  BY <1>1, <1>2

(* Installing: the bundle, and then the manifest.                           *)
LEMMA InstallAppStep ==
  ASSUME PkgdInv,
         \E content \in {"torn", "whole"} :
           WriteBundle(content) \/ WriteManifest(content)
  PROVE  PkgdInv'
<1>1. ASSUME NEW content \in {"torn", "whole"}, WriteBundle(content)
      PROVE  PkgdInv'
  <2>1. /\ pkgDirs' = Put(BundlePut, content) /\ pkgBusy' = pkgBusy
        /\ pkgPc' = IF content = "whole" THEN "manifest" ELSE "ready"
    BY <1>1 DEF WriteBundle
  <2> QED  BY <2>1, PutBundle DEF PkgdInv
<1>2. ASSUME NEW content \in {"torn", "whole"}, WriteManifest(content)
      PROVE  PkgdInv'
  <2>1. /\ pkgDirs' = Put(ManifestPut, content) /\ pkgBusy' = pkgBusy
        /\ pkgPc = "manifest" /\ pkgPc' = "ready"
    BY <1>2 DEF WriteManifest
  <2> QED  BY <2>1, PutManifest DEF PkgdInv
<1> QED  BY <1>1, <1>2

(* Crashes: what is being written is torn, and a removal is cut off.        *)
LEMMA PkgdDiesStep ==
  ASSUME PkgdInv,
         \/ PkgdDies
         \/ \E a \in OtherApps, gone \in {"bundle", "manifest"} :
              DiesRemoving(a, gone)
  PROVE  PkgdInv'
<1>1. CASE PkgdDies
  <2>1. pkgPc' = "down" /\ pkgBusy' = pkgBusy
    BY <1>1 DEF PkgdDies, PkgCrash
  <2>2. \/ pkgDirs' = pkgDirs
        \/ pkgDirs' = Put(BundlePut, "torn")
        \/ pkgPc = "manifest" /\ pkgDirs' = Put(ManifestPut, "torn")
    BY <1>1 DEF PkgdDies
  <2> QED  BY <2>1, <2>2, PutBundle, PutManifest DEF PkgdInv
<1>2. ASSUME NEW a \in OtherApps, NEW gone \in {"bundle", "manifest"},
             DiesRemoving(a, gone)
      PROVE  PkgdInv'
  <2> DEFINE left == [pkgDirs[a] EXCEPT ![gone] = "none", !.spoilt = TRUE]
  <2>1. pkgPc' = "down" /\ pkgBusy' = pkgBusy /\ pkgDirs' = WithFiles(a, left)
    BY <1>2 DEF DiesRemoving, PkgCrash
  <2>2. left \in AppFiles /\ Trusted(left)
    <3>1. pkgDirs[a] \in AppFiles
      BY DEF PkgdInv
    <3>2. CASE gone = "bundle"
      BY <3>1, <3>2 DEF AppFiles, Contents, Trusted
    <3>3. CASE gone = "manifest"
      BY <3>1, <3>3 DEF AppFiles, Contents, Trusted
    <3> QED  BY <3>2, <3>3
  <2> HIDE DEF left
  <2> QED  BY <2>1, <2>2, WithTrusted DEF PkgdInv
<1> QED  BY <1>1, <1>2

(* The other commands: a removed directory is empty.                        *)
LEMMA PkgdCommandStep ==
  ASSUME PkgdInv,
         \/ PkgdStart \/ Save \/ DownloadFails
         \/ \E id \in PkgIds : InstallApp(id) \/ UninstallApp(id)
         \/ UNCHANGED pkgVars
  PROVE  PkgdInv'
<1>1. NoFiles \in AppFiles /\ Trusted(NoFiles)
  BY DEF NoFiles, AppFiles, Contents, Trusted
<1>2. CASE PkgdStart \/ Save \/ DownloadFails \/ UNCHANGED pkgVars
  BY <1>2 DEF PkgdStart, Save, DownloadFails, pkgVars, PkgdInv
<1>3. ASSUME NEW id \in PkgIds, InstallApp(id)
      PROVE  PkgdInv'
  BY <1>3 DEF InstallApp, PkgIds, PkgdInv
<1>4. ASSUME NEW id \in PkgIds, UninstallApp(id)
      PROVE  PkgdInv'
  <2>1. /\ pkgPc = "ready" /\ UNCHANGED <<pkgPc, pkgBusy>>
        /\ pkgDirs' = [a \in OtherApps |->
                         IF id \in {a, NoApp} THEN NoFiles ELSE pkgDirs[a]]
    BY <1>4 DEF UninstallApp, PkgCommand
  <2> QED  BY <1>1, <2>1 DEF PkgdInv
<1> QED  BY <1>2, <1>3, <1>4

(* A manifest is found only beside a whole bundle, for any apps and any     *)
(* number of commands and crashes.                                          *)
THEOREM InstalledWholeAlways == PkgdSpec => []InstalledWhole
<1>1. PkgdInit => PkgdInv
  BY DEF PkgdInit, PkgdInv, NoFiles, AppFiles, Contents, Trusted
<1>2. PkgdInv /\ [PkgdNext]_pkgVars => PkgdInv'
  BY InstallAppStep, PkgdDiesStep, PkgdCommandStep DEF PkgdNext
<1>3. PkgdInv => InstalledWhole
  BY DEF PkgdInv, InstalledWhole, Trusted
<1> QED  BY <1>1, <1>2, <1>3, PTL DEF PkgdSpec

----------------------------------------------------------------------------
(* logd: rotation.                                                          *)

(* The entries of a file or under way into it, each with the file's day.    *)
Placed ==
  {[date |-> p[1], entry |-> EntryAt(p)] : p \in Lines}
    \cup logLate
    \cup {[date |-> logDate, entry |-> e] : e \in {logFlight} \ {0}}

(* The writer's date runs behind the clock, and the channel holds the last  *)
(* entries received, in order.                                              *)
LogTypes ==
  /\ logToday \in 1 .. MaxDays
  /\ logDate \in 0 .. logToday
  /\ logFlight \in Nat
  /\ logFlight # 0 => logDate # 0
  /\ logLate \subseteq [date : 1 .. MaxDays, entry : Nat \ {0}]
  /\ logFiles \in [1 .. MaxDays -> Seq(Nat \ {0})]
  /\ logFailed \in BOOLEAN
  /\ logReceived \in Nat
  /\ logQueue \in Seq(Nat)
  /\ Len(logQueue) <= logReceived
  /\ \A i \in DOMAIN logQueue : logQueue[i] = Taken + i

(* Until something fails, every entry taken has one place, none is placed   *)
(* on a day the writer has not reached, and the days are in order.          *)
LogPlaces ==
  /\ {a.entry : a \in Placed} = 1 .. Taken
  /\ OnceEach
  /\ \A a \in Placed : a.date <= logDate
  /\ \A a, b \in Placed : a.date < b.date => a.entry < b.entry

LogInv == LogTypes /\ (~logFailed => LogPlaces)

(* The lines of the files, and what is in Placed.                           *)
LEMMA LineFacts ==
  /\ \A d, i : <<d, i>> \in Lines <=> d \in 1 .. MaxDays /\ i \in DOMAIN logFiles[d]
  /\ \A p \in Lines : p = <<p[1], p[2]>>
  BY DEF Lines

LEMMA PlacedFacts ==
  /\ \A p \in Lines : [date |-> p[1], entry |-> EntryAt(p)] \in Placed
  /\ logLate \subseteq Placed
  /\ logFlight # 0 => [date |-> logDate, entry |-> logFlight] \in Placed
  /\ \A a \in Placed :
       \/ \E p \in Lines : a = [date |-> p[1], entry |-> EntryAt(p)]
       \/ a \in logLate
       \/ logFlight # 0 /\ a = [date |-> logDate, entry |-> logFlight]
  BY DEF Placed

(* The invariant says what the property does.                               *)
LEMMA LogInvImplies == LogInv => LogComplete
<1> SUFFICES ASSUME LogTypes, LogPlaces, ~logFailed PROVE LogComplete
  BY DEF LogInv, LogComplete
<1>1. {EntryAt(p) : p \in Lines} \cup Unwritten = {a.entry : a \in Placed}
  <2>1. ASSUME NEW e \in {EntryAt(p) : p \in Lines} \cup Unwritten
        PROVE  \E a \in Placed : e = a.entry
    <3>1. CASE \E p \in Lines : e = EntryAt(p)
      <4>1. PICK p \in Lines : e = EntryAt(p)
        BY <3>1
      <4>2. [date |-> p[1], entry |-> EntryAt(p)] \in Placed
        BY PlacedFacts
      <4> QED BY <4>1, <4>2
    <3>2. CASE e \in Unwritten
      BY <3>2, PlacedFacts DEF Unwritten
    <3> QED BY <2>1, <3>1, <3>2
  <2>2. ASSUME NEW a \in Placed
        PROVE  a.entry \in {EntryAt(p) : p \in Lines} \cup Unwritten
    BY PlacedFacts DEF Unwritten
  <2> QED BY <2>1, <2>2
<1>2. \A p, q \in Lines : p[1] < q[1] => EntryAt(p) < EntryAt(q)
  <2> SUFFICES ASSUME NEW p \in Lines, NEW q \in Lines, p[1] < q[1]
               PROVE  EntryAt(p) < EntryAt(q)
    OBVIOUS
  <2> DEFINE a == [date |-> p[1], entry |-> EntryAt(p)]
             b == [date |-> q[1], entry |-> EntryAt(q)]
  <2>1. a \in Placed /\ b \in Placed
    BY PlacedFacts
  <2>2. a.date < b.date => a.entry < b.entry
    BY <2>1 DEF LogPlaces
  <2> QED BY <2>2
<1> QED BY <1>1, <1>2 DEF LogComplete, LogPlaces, LogTypes

(* A line is appended to one file: one new line, and the others stay.       *)
LEMMA LineAppended ==
  ASSUME LogTypes, NEW d \in 1 .. MaxDays, NEW e \in Nat \ {0},
         logFiles' = [logFiles EXCEPT ![d] = Append(@, e)]
  PROVE  \E new : /\ new \notin Lines
                  /\ Lines' = Lines \cup {new}
                  /\ new[1] = d
                  /\ EntryAt(new)' = e
                  /\ \A p \in Lines : EntryAt(p)' = EntryAt(p)
<1> PICK n : n = Len(logFiles[d]) + 1
  OBVIOUS
<1> DEFINE new == <<d, n>>
<1>1. /\ logFiles[d] \in Seq(Nat \ {0})
      /\ DOMAIN logFiles = 1 .. MaxDays /\ DOMAIN logFiles' = 1 .. MaxDays
      /\ logFiles'[d] = Append(logFiles[d], e)
      /\ \A x \in 1 .. MaxDays : x # d => logFiles'[x] = logFiles[x]
  BY DEF LogTypes
<1>2. /\ n \notin DOMAIN logFiles[d]
      /\ DOMAIN logFiles'[d] = DOMAIN logFiles[d] \cup {n}
      /\ logFiles'[d][n] = e
      /\ \A i \in DOMAIN logFiles[d] : logFiles'[d][i] = logFiles[d][i]
  BY <1>1
<1>3. new \notin Lines
  BY <1>2, LineFacts
<1>4. Lines' = Lines \cup {new}
  BY <1>1, <1>2 DEF Lines
<1>5. \A p \in Lines : EntryAt(p)' = EntryAt(p)
  <2> SUFFICES ASSUME NEW p \in Lines PROVE EntryAt(p)' = EntryAt(p)
    OBVIOUS
  <2>1. p[1] \in 1 .. MaxDays /\ p[2] \in DOMAIN logFiles[p[1]]
    BY LineFacts
  <2> QED BY <1>1, <1>2, <2>1 DEF EntryAt
<1>6. EntryAt(new)' = e /\ new[1] = d
  BY <1>2 DEF EntryAt
<1> QED BY <1>3, <1>4, <1>5, <1>6

(* The entries on their way into a file.                                    *)
LEMMA UnderWay ==
  \A e : e \in Unwritten <=>
           (\E w \in logLate : e = w.entry) \/ (logFlight # 0 /\ e = logFlight)
  BY DEF Unwritten

(* A write that lands puts its entry where it was going.                    *)
LEMMA LandsInPlace ==
  ASSUME LogTypes, LogPlaces, NEW d \in 1 .. MaxDays, NEW e \in Nat \ {0},
         logFiles' = [logFiles EXCEPT ![d] = Append(@, e)],
         UNCHANGED <<logDate, Taken>>,
         \/ /\ logFlight = e /\ logDate = d /\ logFlight' = 0
            /\ UNCHANGED logLate
         \/ /\ [date |-> d, entry |-> e] \in logLate
            /\ logLate' = logLate \ {[date |-> d, entry |-> e]}
            /\ UNCHANGED logFlight
  PROVE  LogPlaces'
<1> DEFINE w0 == [date |-> d, entry |-> e]
<1>1. PICK new : /\ new \notin Lines
                 /\ Lines' = Lines \cup {new}
                 /\ new[1] = d
                 /\ EntryAt(new)' = e
                 /\ \A p \in Lines : EntryAt(p)' = EntryAt(p)
  BY LineAppended
<1>2. \A a : a \in Placed' <=> a \in Placed
  BY <1>1 DEF Placed
<1>3. Placed' = Placed
  BY <1>2
<1>4. OnceEach'
  <2>1. /\ e \in Unwritten
        /\ \A x : x \in Unwritten' <=> x \in Unwritten /\ x # e
    <3>1. CASE /\ logFlight = e /\ logFlight' = 0 /\ UNCHANGED logLate
      <4>1. e \in Unwritten /\ Unwritten' = {w.entry : w \in logLate}
        BY <3>1 DEF Unwritten
      <4>2. \A w \in logLate : w.entry # e
        BY <3>1 DEF LogPlaces, OnceEach
      <4> QED BY <3>1, <4>1, <4>2, UnderWay
    <3>2. CASE /\ w0 \in logLate /\ logLate' = logLate \ {w0}
               /\ UNCHANGED logFlight
      <4>1. e \in Unwritten /\ logFlight # e
        BY <3>2 DEF Unwritten, LogPlaces, OnceEach
      <4>2. \A w \in logLate : w.entry = e => w = w0
        BY <3>2 DEF LogPlaces, OnceEach
      <4>3. \A w \in logLate' : w \in logLate /\ w.entry # e
        BY <3>2, <4>2
      <4>4. \A w \in logLate : w.entry # e => w \in logLate'
        BY <3>2
      <4>5. \A x : x \in Unwritten' <=>
                     (\E w \in logLate' : x = w.entry)
                       \/ (logFlight # 0 /\ x = logFlight)
        BY <3>2 DEF Unwritten
      <4> QED BY <4>1, <4>3, <4>4, <4>5, UnderWay
    <3> QED BY <3>1, <3>2
  <2>2. \A p \in Lines : EntryAt(p) # e
    BY <2>1 DEF LogPlaces, OnceEach
  <2>3. \A p, q \in Lines' : EntryAt(p)' = EntryAt(q)' => p = q
    BY <1>1, <2>2 DEF LogPlaces, OnceEach
  <2>4. \A p \in Lines' : EntryAt(p)' \notin Unwritten'
    BY <1>1, <2>1 DEF LogPlaces, OnceEach
  <2>5. /\ \A v, w \in logLate' : v.entry = w.entry => v = w
        /\ \A w \in logLate' : w.entry # logFlight'
    BY DEF LogPlaces, OnceEach, LogTypes
  <2> QED BY <2>3, <2>4, <2>5 DEF OnceEach
<1> QED BY <1>3, <1>4 DEF LogPlaces

(* The writer takes an entry: the write it was waiting for, if any, goes on *)
(* in the file that is replaced, and the entry is placed on today.          *)
LEMMA WritePlaces ==
  ASSUME LogTypes, LogPlaces, NEW opens \in BOOLEAN, WriteEntry(opens), logOpen'
  PROVE  LogPlaces'
<1> DEFINE e == Taken + 1
           w0 == [date |-> logDate, entry |-> logFlight]
           a0 == [date |-> logToday, entry |-> e]
<1>1. /\ Taken \in Nat /\ Taken' = Taken + 1
      /\ logFlight' = e /\ logDate' = logToday /\ UNCHANGED logFiles
      /\ logLate' = IF logFlight = 0 THEN logLate ELSE logLate \cup {w0}
  <2>1. /\ logQueue # <<>> /\ Len(logQueue) \in Nat /\ logReceived \in Nat
        /\ Head(logQueue) = logQueue[1] /\ 1 \in DOMAIN logQueue
        /\ Len(logQueue') = Len(logQueue) - 1 /\ logReceived' = logReceived
    BY DEF LogTypes, WriteEntry
  <2>2. Head(logQueue) = Taken + 1
    BY <2>1 DEF LogTypes
  <2>3. Taken \in Nat /\ Taken' = Taken + 1
    BY <2>1 DEF Taken, LogTypes
  <2> QED BY <2>2, <2>3 DEF WriteEntry, Opened
<1>2. Lines' = Lines /\ \A p \in Lines : EntryAt(p)' = EntryAt(p)
  BY <1>1 DEF Lines, EntryAt
<1>3. \A a : a \in Placed' <=> a \in Placed \/ a = a0
  BY <1>1, <1>2 DEF Placed
<1>4. \A a \in Placed : a.entry \in 1 .. Taken /\ a.date <= logToday
                        /\ a.date \in Nat
  <2> SUFFICES ASSUME NEW a \in Placed
               PROVE  /\ a.entry \in 1 .. Taken /\ a.date <= logToday
                      /\ a.date \in Nat
    OBVIOUS
  <2>1. a.entry \in 1 .. Taken /\ a.date <= logDate
    BY DEF LogPlaces
  <2>2. a.date \in Nat
    BY PlacedFacts, LineFacts DEF LogTypes
  <2> QED BY <2>1, <2>2 DEF LogTypes
<1>5. \A x : x \in Unwritten' <=> x \in Unwritten \/ x = e
  <2>1. \A x : x \in Unwritten' <=>
                 (\E w \in logLate' : x = w.entry) \/ (e # 0 /\ x = e)
    BY <1>1 DEF Unwritten
  <2>2. e # 0 /\ w0.entry = logFlight
    BY <1>1
  <2>3. \A x : (\E w \in logLate' : x = w.entry)
                 <=> (\E w \in logLate : x = w.entry)
                       \/ (logFlight # 0 /\ x = logFlight)
    BY <1>1, <2>2
  <2> QED BY <2>1, <2>2, <2>3, UnderWay
<1>6. \A x \in Unwritten : x \in 1 .. Taken
  BY <1>4, UnderWay, PlacedFacts
<1>7. OnceEach'
  <2>1. \A p \in Lines : EntryAt(p) \in 1 .. Taken
    BY <1>4, PlacedFacts
  <2>2. \A p \in Lines : EntryAt(p) \notin Unwritten /\ EntryAt(p) # e
    BY <1>1, <2>1 DEF LogPlaces, OnceEach
  <2>3. \A w \in logLate : w.entry \in 1 .. Taken /\ w.entry # e
    BY <1>1, <1>4, PlacedFacts
  <2>4. logFlight # 0 => logFlight # e
    BY <1>1, <1>4, PlacedFacts
  <2>5. \A v, w \in logLate' : v.entry = w.entry => v = w
    BY <1>1 DEF LogPlaces, OnceEach
  <2>6. \A w \in logLate' : w.entry # e
    BY <1>1, <2>3, <2>4
  <2> QED BY <1>1, <1>2, <1>5, <2>2, <2>5, <2>6 DEF LogPlaces, OnceEach
<1>8. {a.entry : a \in Placed'} = 1 .. Taken'
  <2>1. \A x : x \in 1 .. Taken + 1 <=> x \in 1 .. Taken \/ x = e
    BY <1>1
  <2>2. \A x : (\E a \in Placed' : x = a.entry)
                 <=> (\E a \in Placed : x = a.entry) \/ x = e
    <3>1. a0 \in Placed' /\ a0.entry = e
      BY <1>3
    <3> HIDE DEF a0
    <3> QED BY <1>3, <3>1
  <2>3. \A x : (\E a \in Placed : x = a.entry) <=> x \in 1 .. Taken
    BY DEF LogPlaces
  <2> QED BY <1>1, <2>1, <2>2, <2>3
<1>9. \A a \in Placed' : a.date <= logDate'
  BY <1>1, <1>3, <1>4 DEF LogTypes
<1>10. \A a, b \in Placed' : a.date < b.date => a.entry < b.entry
  <2> SUFFICES ASSUME NEW a \in Placed', NEW b \in Placed', a.date < b.date
               PROVE  a.entry < b.entry
    OBVIOUS
  <2>1. CASE a \in Placed /\ b \in Placed
    BY <2>1 DEF LogPlaces
  <2>2. CASE a \in Placed /\ b = a0
    BY <1>1, <1>4, <2>2
  <2>3. CASE a = a0
    BY <1>3, <1>4, <2>3 DEF LogTypes
  <2> QED BY <1>3, <2>1, <2>2, <2>3
<1> QED BY <1>7, <1>8, <1>9, <1>10 DEF LogPlaces

(* Every step of logd keeps the types.                                      *)
LEMMA LogTypesStep ==
  ASSUME LogTypes, [LogdNext]_logVars
  PROVE  LogTypes'
<1>1. ASSUME NEW level, Receive(level)
      PROVE  LogTypes'
  <2>1. /\ logQueue' = Append(logQueue, logReceived + 1)
        /\ logReceived' = logReceived + 1
        /\ Len(logQueue') = Len(logQueue) + 1
        /\ Len(logQueue) \in Nat /\ logReceived \in Nat
        /\ logQueue' \in Seq(Nat)
    BY <1>1 DEF Receive, LogTypes
  <2>2. Taken' = Taken /\ Taken \in Nat
    BY <2>1 DEF Taken, LogTypes
  <2>3. logReceived + 1 = Taken + (Len(logQueue) + 1)
    BY <2>1 DEF Taken
  <2>4. \A i \in DOMAIN logQueue' : logQueue'[i] = Taken' + i
    BY <2>1, <2>2, <2>3 DEF LogTypes
  <2> QED BY <1>1, <2>1, <2>4 DEF Receive, LogTypes, fileVars, writeVars
<1>2. CASE Midnight
  <2>1. logToday' \in 1 .. MaxDays /\ logDate' \in 0 .. logToday'
    BY <1>2, LogdAssumption DEF Midnight, LogTypes, fileVars
  <2> QED BY <1>2, <2>1 DEF Midnight, LogTypes, Taken, fileVars, writeVars
<1>3. ASSUME NEW opens \in BOOLEAN, WriteEntry(opens)
      PROVE  LogTypes'
  <2>1. /\ logQueue # <<>> /\ Len(logQueue) \in Nat /\ logReceived \in Nat
        /\ Head(logQueue) = logQueue[1] /\ 1 \in DOMAIN logQueue
        /\ logQueue' = Tail(logQueue) /\ logQueue' \in Seq(Nat)
        /\ Len(logQueue') = Len(logQueue) - 1 /\ logReceived' = logReceived
        /\ \A i \in DOMAIN logQueue' :
             i \in Nat /\ i + 1 \in DOMAIN logQueue /\ logQueue'[i] = logQueue[i + 1]
    BY <1>3 DEF LogTypes, WriteEntry
  <2>2. Taken \in Nat /\ Taken' = Taken + 1
    BY <2>1 DEF Taken, LogTypes
  <2>3. \A i \in DOMAIN logQueue' : logQueue'[i] = Taken' + i
    BY <2>1, <2>2 DEF LogTypes
  <2>4. logFlight' \in Nat /\ logDate' = logToday /\ UNCHANGED logToday
    BY <1>3, <2>1, <2>2 DEF WriteEntry, LogTypes
  <2>5. logLate' \subseteq [date : 1 .. MaxDays, entry : Nat \ {0}]
    <3>1. logFlight # 0 =>
            [date |-> logDate, entry |-> logFlight]
              \in [date : 1 .. MaxDays, entry : Nat \ {0}]
      BY LogdAssumption DEF LogTypes
    <3> QED BY <1>3, <3>1 DEF WriteEntry, LogTypes
  <2>6. UNCHANGED logFiles /\ logFailed' \in BOOLEAN
    BY <1>3 DEF WriteEntry, Opened, LogTypes
  <2>7. Len(logQueue') <= logReceived'
    BY <2>1 DEF LogTypes
  <2> QED BY <2>1, <2>3, <2>4, <2>5, <2>6, <2>7 DEF LogTypes
<1>4. ASSUME NEW d \in 1 .. MaxDays, NEW e \in Nat \ {0}, NEW ok \in BOOLEAN,
             Lands(d, e, ok), logFlight' \in {logFlight, 0},
             logLate' \subseteq logLate
      PROVE  LogTypes'
  <2>1. logFiles' \in [1 .. MaxDays -> Seq(Nat \ {0})]
    BY <1>4 DEF Lands, LogTypes
  <2> QED BY <1>4, <2>1 DEF Lands, LogTypes, Taken, fileVars
<1>5. ASSUME NEW ok \in BOOLEAN, WriteLands(ok)
      PROVE  LogTypes'
  <2>1. logDate \in 1 .. MaxDays /\ logFlight \in Nat \ {0}
    BY <1>5, LogdAssumption DEF WriteLands, LogTypes
  <2> QED BY <1>4, <1>5, <2>1 DEF WriteLands
<1>6. ASSUME NEW ok \in BOOLEAN, NEW w \in logLate, LateWriteLands(w, ok)
      PROVE  LogTypes'
  <2>1. w.date \in 1 .. MaxDays /\ w.entry \in Nat \ {0}
    BY DEF LogTypes
  <2> QED BY <1>4, <1>6, <2>1 DEF LateWriteLands
<1>7. CASE UNCHANGED logVars
  BY <1>7 DEF logVars, LogTypes, Taken, fileVars, writeVars
<1> QED BY <1>1, <1>2, <1>3, <1>5, <1>6, <1>7 DEF LogdNext

(* Every step of logd keeps the places of the entries, or fails.            *)
LEMMA LogPlacesStep ==
  ASSUME LogTypes, LogTypes', ~logFailed => LogPlaces, ~logFailed',
         [LogdNext]_logVars
  PROVE  LogPlaces'
<1>1. ASSUME UNCHANGED <<logDate, logFiles, logFlight, logLate, Taken>>, LogPlaces
      PROVE  LogPlaces'
  <2>1. Lines' = Lines /\ \A p \in Lines : EntryAt(p)' = EntryAt(p)
    BY <1>1 DEF Lines, EntryAt
  <2>2. Placed' = Placed /\ Unwritten' = Unwritten
    BY <1>1, <2>1 DEF Placed, Unwritten
  <2> QED BY <1>1, <2>1, <2>2 DEF LogPlaces, OnceEach
<1>2. ASSUME NEW level, Receive(level)
      PROVE  LogPlaces'
  <2>1. /\ UNCHANGED <<logDate, logFiles, logFlight, logLate, logFailed>>
        /\ Len(logQueue') = Len(logQueue) + 1 /\ logReceived' = logReceived + 1
        /\ Len(logQueue) \in Nat /\ logReceived \in Nat
    BY <1>2 DEF Receive, LogTypes, fileVars, writeVars
  <2>2. Taken' = Taken
    BY <2>1 DEF Taken
  <2> QED BY <1>1, <2>1, <2>2
<1>3. CASE Midnight
  BY <1>1, <1>3 DEF Midnight, fileVars, writeVars, Taken
<1>4. ASSUME NEW opens \in BOOLEAN, WriteEntry(opens)
      PROVE  LogPlaces'
  <2>1. ~logFailed /\ logOpen'
    BY <1>4 DEF WriteEntry
  <2> QED BY <1>4, <2>1, WritePlaces
<1>5. ASSUME NEW ok \in BOOLEAN, WriteLands(ok)
      PROVE  LogPlaces'
  <2>1. logDate \in 1 .. MaxDays /\ logFlight \in Nat \ {0}
    BY <1>5, LogdAssumption DEF WriteLands, LogTypes
  <2>2. /\ ~logFailed /\ ok
        /\ logFiles' = [logFiles EXCEPT ![logDate] = Append(@, logFlight)]
        /\ UNCHANGED <<logDate, Taken, logLate>> /\ logFlight' = 0
    BY <1>5 DEF WriteLands, Lands, fileVars, Taken
  <2> QED BY <2>1, <2>2, LandsInPlace
<1>6. ASSUME NEW ok \in BOOLEAN, NEW w \in logLate, LateWriteLands(w, ok)
      PROVE  LogPlaces'
  <2>1. /\ w.date \in 1 .. MaxDays /\ w.entry \in Nat \ {0}
        /\ w = [date |-> w.date, entry |-> w.entry]
    BY DEF LogTypes
  <2>2. /\ ~logFailed /\ ok
        /\ logFiles' = [logFiles EXCEPT ![w.date] = Append(@, w.entry)]
        /\ UNCHANGED <<logDate, Taken, logFlight>> /\ logLate' = logLate \ {w}
    BY <1>6 DEF LateWriteLands, Lands, fileVars, Taken
  <2> QED BY <2>1, <2>2, LandsInPlace
<1>7. CASE UNCHANGED logVars
  BY <1>1, <1>7 DEF logVars, fileVars, writeVars, Taken
<1> QED BY <1>2, <1>3, <1>4, <1>5, <1>6, <1>7 DEF LogdNext

(* Rotation at midnight and of full files neither loses nor repeats an      *)
(* entry, although a write may still be under way in the file that is       *)
(* replaced (log_writer); and the files of the days are in order.           *)
THEOREM LogCompleteAlways == LogdSpec => []LogComplete
<1>1. LogdInit => LogInv
  <2> SUFFICES ASSUME LogdInit PROVE LogInv
    OBVIOUS
  <2>1. /\ logQueue \in Seq(Nat) /\ Len(logQueue) = 0 /\ DOMAIN logQueue = {}
        /\ logFiles \in [1 .. MaxDays -> Seq(Nat \ {0})]
        /\ \A d \in 1 .. MaxDays : DOMAIN logFiles[d] = {}
    BY DEF LogdInit
  <2>2. LogTypes /\ Taken = 0
    <3>1. Taken = 0 /\ Len(logQueue) <= logReceived /\ logReceived \in Nat
      <4>1. logReceived = 0
        BY DEF LogdInit
      <4> QED BY <2>1, <4>1 DEF Taken
    <3>2. logToday \in 1 .. MaxDays /\ logDate \in 0 .. logToday
      BY LogdAssumption DEF LogdInit
    <3> QED BY <2>1, <3>1, <3>2 DEF LogdInit, LogTypes
  <2>3. Lines = {} /\ logLate = {} /\ Unwritten = {}
    BY <2>1 DEF LogdInit, Lines, Unwritten
  <2>4. Placed = {}
    BY <2>3 DEF LogdInit, Placed
  <2>5. LogPlaces
    BY <2>2, <2>3, <2>4 DEF LogPlaces, OnceEach
  <2> QED BY <2>2, <2>5 DEF LogInv
<1>2. LogInv /\ [LogdNext]_logVars => LogInv'
  BY LogTypesStep, LogPlacesStep DEF LogInv
<1>3. LogInv => LogComplete
  BY LogInvImplies
<1> QED BY <1>1, <1>2, <1>3, PTL DEF LogdSpec

----------------------------------------------------------------------------
(* notifd: what is to be seen is published.                                 *)

(* What has to be on the screen: fewer than are shown are as new.           *)
MustShow == {n \in notifStore : Cardinality(NotOlder(n)) <= MaxVisible}

(* What has to be seen has been sent, waits to be sent, or a task is        *)
(* between the two times it takes the mutex and will publish it: also one   *)
(* that was hidden and is to be seen again as newer ones are dismissed.     *)
VisibleIsPublished ==
  \A n \in MustShow :
    \/ n \in notifSent \cup UNION notifOut
    \/ \E t \in NotifTasks : notifTask[t] = "publish"

NotifInv ==
  /\ notifTask \in [NotifTasks -> {"waiting", "publish"}]
  /\ notifNext \in Nat
  /\ notifTime \in Seq(Nat) /\ Len(notifTime) = notifNext
  /\ notifStore \subseteq 1 .. notifNext
  /\ VisibleIsPublished

(* A list has every notification that has to be on the screen: if it lacks  *)
(* one, it is full of others that are as new.                               *)
LEMMA ListHasMust ==
  ASSUME NotifInv, NEW list, Visible(list), NEW n \in MustShow
  PROVE  n \in list
<1> SUFFICES ASSUME n \notin list PROVE FALSE
  OBVIOUS
<1>1. /\ IsFiniteSet(notifStore) /\ n \in notifStore
      /\ \A m \in notifStore : notifTime[m] \in Nat
  <2>1. IsFiniteSet(1 .. notifNext)
    BY FS_Interval DEF NotifInv
  <2>2. notifStore \subseteq 1 .. notifNext
    BY DEF NotifInv
  <2>3. \A m \in 1 .. notifNext : notifTime[m] \in Nat
    BY DEF NotifInv
  <2> QED  BY <2>1, <2>2, <2>3, FS_Subset DEF MustShow
<1>2. /\ list \subseteq notifStore /\ Cardinality(list) = MaxVisible
      /\ \A m \in list : notifTime[n] <= notifTime[m]
  BY <1>1 DEF Visible
<1>3. IsFiniteSet(list) /\ IsFiniteSet(list \cup {n})
      /\ Cardinality(list \cup {n}) = Cardinality(list) + 1
  BY <1>1, <1>2, FS_Subset, FS_AddElement
<1>4. list \cup {n} \subseteq NotOlder(n) /\ NotOlder(n) \subseteq notifStore
  BY <1>1, <1>2 DEF NotOlder
<1>5. IsFiniteSet(NotOlder(n))
      /\ Cardinality(list \cup {n}) <= Cardinality(NotOlder(n))
  BY <1>1, <1>4, FS_Subset
<1>6. Cardinality(NotOlder(n)) \in Nat /\ MaxVisible \in Nat
  BY <1>5, FS_CardinalityType, NotifdAssumption
<1>7. Cardinality(NotOlder(n)) <= MaxVisible
  BY DEF MustShow
<1> QED  BY <1>2, <1>3, <1>5, <1>6, <1>7

(* A command handler changes the store and has yet to publish it.           *)
LEMMA ChangedStep ==
  ASSUME NotifInv, NEW t \in NotifTasks, Changed(t)
  PROVE  /\ notifTask' \in [NotifTasks -> {"waiting", "publish"}]
         /\ VisibleIsPublished'
<1>1. /\ notifTask' \in [NotifTasks -> {"waiting", "publish"}]
      /\ notifTask'[t] = "publish"
  BY DEF NotifInv, Changed
<1> QED  BY <1>1 DEF VisibleIsPublished

(* Nothing that has to be seen stays unpublished, however the three tasks   *)
(* and the publications they spawn interleave (publish_notifications), and  *)
(* whatever the clock says.                                                 *)
THEOREM VisibleIsPublishedAlways == NotifdSpec => []VisibleIsPublished
<1>1. NotifdInit => NotifInv
  <2> SUFFICES ASSUME NotifdInit PROVE NotifInv
    OBVIOUS
  <2>1. /\ notifTime \in Seq(Nat) /\ Len(notifTime) = 0 /\ notifNext = 0
        /\ notifTask \in [NotifTasks -> {"waiting", "publish"}]
    BY DEF NotifdInit
  <2>2. notifStore = {} /\ MustShow = {}
    BY DEF NotifdInit, MustShow
  <2> QED  BY <2>1, <2>2 DEF NotifInv, VisibleIsPublished
<1>2. NotifInv /\ [NotifdNext]_notifVars => NotifInv'
  <2> SUFFICES ASSUME NotifInv, [NotifdNext]_notifVars PROVE NotifInv'
    OBVIOUS
  <2>1. CASE Show
    <3>1. PICK now \in Stamps : notifTime' = Append(notifTime, now)
      BY <2>1 DEF Show
    <3>2. now \in Nat
      BY NotifdAssumption
    <3>3. notifTime' \in Seq(Nat) /\ Len(notifTime') = notifNext + 1
      BY <3>1, <3>2 DEF NotifInv
    <3>4. /\ notifNext' = notifNext + 1 /\ Changed("show")
          /\ notifStore' = notifStore \cup {notifNext + 1}
      BY <2>1 DEF Show
    <3>5. notifNext' \in Nat /\ notifStore' \subseteq 1 .. notifNext'
      BY <3>4 DEF NotifInv
    <3>6. /\ notifTask' \in [NotifTasks -> {"waiting", "publish"}]
          /\ VisibleIsPublished'
      BY <3>4, ChangedStep DEF NotifTasks
    <3> QED  BY <3>3, <3>4, <3>5, <3>6 DEF NotifInv
  <2>2. ASSUME NEW n \in 1 .. MaxNotifs, Dismiss(n) PROVE NotifInv'
    BY <2>2, ChangedStep DEF Dismiss, NotifTasks, NotifInv
  <2>3. CASE DismissAll
    BY <2>3, ChangedStep DEF DismissAll, NotifTasks, NotifInv
  <2>4. ASSUME NEW t \in NotifTasks, Publish(t) PROVE NotifInv'
    <3>1. MustShow' = MustShow
      BY <2>4 DEF Publish, MustShow, NotOlder
    <3>2. PICK list \in SUBSET notifStore :
            Visible(list) /\ notifOut' = notifOut \cup {list}
      BY <2>4 DEF Publish
    <3>3. \A n \in MustShow : n \in UNION notifOut'
      BY <3>2, ListHasMust
    <3>4. VisibleIsPublished'
      BY <3>1, <3>3 DEF VisibleIsPublished
    <3> QED  BY <2>4, <3>4 DEF NotifInv, Publish
  <2>5. ASSUME NEW list \in notifOut, SendList(list) PROVE NotifInv'
    <3>1. MustShow' = MustShow /\ UNCHANGED notifTask
      BY <2>5 DEF SendList, MustShow, NotOlder
    <3>2. (notifSent \cup UNION notifOut)
            \subseteq (notifSent' \cup UNION notifOut')
      BY <2>5 DEF SendList
    <3>3. VisibleIsPublished'
      BY <3>1, <3>2 DEF NotifInv, VisibleIsPublished
    <3> QED  BY <2>5, <3>3 DEF NotifInv, SendList
  <2>6. CASE UNCHANGED notifVars
    BY <2>6 DEF notifVars, NotifInv, VisibleIsPublished, MustShow, NotOlder
  <2> QED
    BY <2>1, <2>2, <2>3, <2>4, <2>5, <2>6 DEF NotifdNext, NotifdStep
<1>3. NotifInv => VisibleIsPublished
  BY DEF NotifInv
<1> QED  BY <1>1, <1>2, <1>3, PTL DEF NotifdSpec

----------------------------------------------------------------------------
(* netmd: what is recorded is published.                                    *)

(* During a detection the status made last differs from what is recorded    *)
(* only when a change has been noted.                                       *)
UpToDate ==
  Tells(netMade, netRecorded) /\ netInternet = (Online(netRecorded) # {})

(* The type of an interface is the loopback's or not by its name alone.     *)
TypeByName(i, iftype) == iftype = "Loopback" <=> i \in LoopbackIfaces

NetInv ==
  /\ netRecorded = [i \in DOMAIN netRecorded |-> netRecorded[i]]
  /\ \A i \in DOMAIN netRecorded : TypeByName(i, netRecorded[i].iftype)
  /\ netPc \in {"flag", "carrier", "ip"} =>
       /\ netCur = [name |-> netCur.name, iftype |-> netCur.iftype,
                   up |-> netCur.up, connected |-> netCur.connected]
       /\ TypeByName(netCur.name, netCur.iftype)
  /\ netPc \in {"wait", "scan"} => UpToDate
  /\ netPc \in {"detect", "flag", "carrier", "ip"} => netChanged \/ UpToDate

(* Interfaces that differ in their types alone, none of them a loopback's,  *)
(* are told by the same status.                                             *)
LEMMA TellsBoth ==
  ASSUME NEW status, NEW old, NEW new, DOMAIN old = DOMAIN new,
         \A i \in DOMAIN old : TypeByName(i, old[i].iftype),
         \A i \in DOMAIN new : TypeByName(i, new[i].iftype),
         \A i \in DOMAIN new : Link(old[i]) = Link(new[i])
  PROVE  /\ Online(new) = Online(old)
         /\ Tells(status, old) => Tells(status, new)
<1>1. Online(new) = Online(old)
  BY DEF Online, Link, TypeByName
<1>2. ActiveIn(new) = ActiveIn(old)
  BY <1>1 DEF ActiveIn
<1> QED  BY <1>1, <1>2 DEF Tells

(* An interface recorded without a change leaves the record as it was, but  *)
(* for the type.                                                            *)
LEMMA ReadIpStep ==
  ASSUME NetInv, ReadIp
  PROVE  NetInv'
<1> DEFINE i == netCur.name
           new == [iftype |-> netCur.iftype, up |-> netCur.up,
                   connected |-> netCur.connected, ip |-> sysNet[i].up]
<1>1. /\ netPc = "ip" /\ netPc' = "detect"
      /\ UNCHANGED <<netInternet, netMade>>
  BY DEF ReadIp, pubVars
<1>2. /\ netChanged' = \/ netChanged
                       \/ i \notin DOMAIN netRecorded
                       \/ ~Same(netRecorded[i], new)
      /\ netRecorded' = [j \in DOMAIN netRecorded \cup {i} |->
                           IF j = i THEN new ELSE netRecorded[j]]
  BY DEF ReadIp
<1>3. netRecorded' = [j \in DOMAIN netRecorded' |-> netRecorded'[j]]
  BY <1>2
<1>4. TypeByName(i, new.iftype)
  BY <1>1 DEF NetInv
<1> HIDE DEF i, new
<1>5. \A j \in DOMAIN netRecorded' : TypeByName(j, netRecorded'[j].iftype)
  BY <1>2, <1>4 DEF NetInv
<1>6. ASSUME ~netChanged' PROVE UpToDate'
  <2>1. UpToDate /\ i \in DOMAIN netRecorded /\ Same(netRecorded[i], new)
    BY <1>1, <1>2, <1>6 DEF NetInv
  <2>2. DOMAIN netRecorded' = DOMAIN netRecorded
    BY <1>2, <2>1
  <2>3. \A j \in DOMAIN netRecorded' :
          Link(netRecorded[j]) = Link(netRecorded'[j])
    BY <1>2, <2>1 DEF Same, Link
  <2>4. \A j \in DOMAIN netRecorded : TypeByName(j, netRecorded[j].iftype)
    BY DEF NetInv
  <2>5. /\ Online(netRecorded') = Online(netRecorded)
        /\ Tells(netMade, netRecorded) => Tells(netMade, netRecorded')
    BY <1>5, <2>2, <2>3, <2>4, TellsBoth
  <2> QED  BY <1>1, <2>1, <2>5 DEF UpToDate
<1> QED  BY <1>1, <1>3, <1>5, <1>6 DEF NetInv

(* The end of a detection publishes what is recorded, unless that is what   *)
(* was published before.                                                    *)
LEMMA NetDetectedStep ==
  ASSUME NetInv, NetDetected
  PROVE  NetInv'
<1> DEFINE kept == DOMAIN netRecorded \cap netSeen
           ifaces == [i \in kept |-> netRecorded[i]]
           internet == Online(ifaces) # {}
<1>1. /\ netPc = "detect" /\ netPc' = "wait"
      /\ netRecorded' = ifaces /\ netInternet' = internet
      /\ IF netChanged \/ Gone(kept) \/ netInternet # internet
           THEN PublishState(ifaces, internet)
           ELSE UNCHANGED pubVars
  BY DEF NetDetected
<1>2. netRecorded' = [i \in DOMAIN netRecorded' |-> netRecorded'[i]]
  BY <1>1
<1>3. \A i \in DOMAIN ifaces : TypeByName(i, ifaces[i].iftype)
  BY DEF NetInv
<1>4. internet = (Online(ifaces) # {})
  OBVIOUS
<1>5. ASSUME ~(netChanged \/ Gone(kept) \/ netInternet # internet)
      PROVE  UpToDate' /\ ifaces = netRecorded
  <2>1. DOMAIN netRecorded = kept /\ UpToDate /\ UNCHANGED netMade
    BY <1>1, <1>5 DEF Gone, NetInv, pubVars
  <2>2. ifaces = netRecorded
    BY <2>1 DEF NetInv
  <2>3. netRecorded' = netRecorded /\ netInternet' = netInternet
    BY <1>1, <1>5, <2>2
  <2> QED  BY <2>1, <2>2, <2>3 DEF UpToDate
<1> HIDE DEF ifaces, internet
<1>6. ASSUME netChanged \/ Gone(kept) \/ netInternet # internet
      PROVE  UpToDate'
  <2>1. PICK a \in ActiveIn(ifaces) : netMade' = NetStatus(ifaces, a, internet)
    BY <1>1, <1>6 DEF PublishState
  <2>2. /\ netMade'.interfaces = ifaces /\ netMade'.active = a
        /\ netMade'.internet = internet
    BY <2>1 DEF NetStatus
  <2>3. Tells(netMade', ifaces)
    BY <1>4, <2>2 DEF Tells
  <2> QED  BY <1>1, <1>4, <2>3 DEF UpToDate
<1> QED  BY <1>1, <1>2, <1>3, <1>5, <1>6 DEF NetInv

(* Every difference that a detection records is published at its end, the   *)
(* interfaces changing between any two reads (detect_interfaces), and       *)
(* however long the publications are on their way.                          *)
THEOREM PublishedIsRecordedAlways == NetmdSpec => []PublishedIsRecorded
<1>1. NetmdInit => NetInv
  <2> SUFFICES ASSUME NetmdInit PROVE NetInv
    OBVIOUS
  <2>1. netPc = "start" /\ netRecorded = [i \in {} |-> NoCur]
    BY DEF NetmdInit
  <2>2. netRecorded = [i \in DOMAIN netRecorded |-> netRecorded[i]]
        /\ DOMAIN netRecorded = {}
    BY <2>1
  <2> QED  BY <2>1, <2>2 DEF NetInv
<1>2. NetInv /\ [NetmdNext]_netVars => NetInv'
  <2> SUFFICES ASSUME NetInv, [NetmdNext]_netVars PROVE NetInv'
    OBVIOUS
  <2>0. ASSUME UNCHANGED <<netRecorded, netInternet, netMade>>
        PROVE  UpToDate' = UpToDate
    BY <2>0 DEF UpToDate
  <2>1. CASE NetTick
    BY <2>0, <2>1 DEF NetTick, NetInv, pubVars
  <2>2. ASSUME NEW i \in NetIfaces, ReadType(i) PROVE NetInv'
    <3>1. /\ netPc = "detect" /\ netPc' = "flag"
          /\ netCur' = [name |-> i, iftype |-> IfType(i), up |-> FALSE,
                        connected |-> FALSE]
          /\ UNCHANGED <<netRecorded, netInternet, netMade, netChanged>>
      BY <2>2 DEF ReadType, pubVars
    <3>2. TypeByName(i, IfType(i))
      BY DEF TypeByName, IfType
    <3> QED  BY <2>0, <3>1, <3>2 DEF NetInv
  <2>3. CASE ReadFlag
    BY <2>0, <2>3 DEF ReadFlag, NetInv, pubVars
  <2>4. CASE ReadCarrier
    BY <2>0, <2>4 DEF ReadCarrier, NetInv, pubVars
  <2>5. CASE ScanBegins \/ ScanEnds
    BY <2>0, <2>5 DEF ScanBegins, ScanEnds, NetInv, stateVars, pubVars
  <2>6. ASSUME NEW i \in NetIfaces,
               \/ Disconnect(i)
               \/ \E s \in SysStates(i) : IfaceChanges(i, s)
        PROVE  NetInv'
    BY <2>0, <2>6 DEF Disconnect, IfaceChanges, NetInv, stateVars, pubVars
  <2>7. ASSUME NEW i \in DOMAIN netOut, SendNetStatus(i) PROVE NetInv'
    BY <2>0, <2>7 DEF SendNetStatus, NetInv, stateVars
  <2>8. CASE UNCHANGED netVars
    BY <2>0, <2>8 DEF netVars, NetInv, stateVars, pubVars
  <2> QED
    BY <2>1, <2>2, <2>3, <2>4, <2>5, <2>6, <2>7, <2>8, ReadIpStep,
       NetDetectedStep, NetmdAssumption DEF NetmdNext, NetmdStep
<1>3. NetInv => PublishedIsRecorded
  BY DEF NetInv, UpToDate, PublishedIsRecorded
<1> QED  BY <1>1, <1>2, <1>3, PTL DEF NetmdSpec
=============================================================================
