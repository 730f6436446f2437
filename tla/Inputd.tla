------------------------------- MODULE Inputd -------------------------------
(***************************************************************************)
(* inputd (crates/inputd/src/main.rs, input_handler.rs): a reader thread    *)
(* visits the devices in turn and blocks in each until it has events, a     *)
(* bridge thread moves what it read into a channel of limited capacity, and *)
(* the main task publishes it.                                              *)
(***************************************************************************)
EXTENDS Naturals, Sequences

CONSTANTS
  InputDevices,  \* how many devices scan_devices found and read_loop opened
  RemoteCodes,   \* key codes IrRemoteMap::decode knows
  OtherCodes,    \* other key codes
  MaxKeyEvents,  \* bound: events the devices deliver
  InputChannel   \* capacity of the channel to the main task, 256 in the code

ASSUME InputdAssumption ==
  /\ InputDevices \in Nat \ {0} /\ MaxKeyEvents \in Nat
  /\ InputChannel \in Nat \ {0}
  /\ RemoteCodes \cap OtherCodes = {}

VARIABLES
  keyDevice,    \* device -> events the kernel holds for it
  keyCount,     \* events delivered so far
  keyReader,    \* the device the reader thread visits
  keyBatch,     \* events it has fetched there and not yet translated
  keyRead,      \* everything the reader has translated, a history
  keyBridge,    \* the channel from the reader to the bridge thread
  keyChannel,   \* the channel from the bridge thread to the main task
  keyPublished  \* messages published

queueVars == <<keyBridge, keyChannel, keyPublished>>
inputVars == <<keyDevice, keyCount, keyReader, keyBatch, keyRead, queueVars>>

InputdInit ==
  /\ keyDevice = [d \in 1 .. InputDevices |-> <<>>]
  /\ keyCount = 0
  /\ keyReader = 1
  /\ keyBatch = <<>>
  /\ keyRead = <<>>
  /\ keyBridge = <<>>
  /\ keyChannel = <<>>
  /\ keyPublished = <<>>

(* A key's value is 1 when it is pressed, 2 when it repeats, 0 when it is   *)
(* released; nr tells the events apart.                                     *)
KeyEvent(d, code, value) ==
  /\ keyCount < MaxKeyEvents
  /\ keyCount' = keyCount + 1
  /\ keyDevice' = [keyDevice EXCEPT ![d] = Append(@,
       [nr |-> keyCount + 1, device |-> d, code |-> code, value |-> value])]
  /\ UNCHANGED <<keyReader, keyBatch, keyRead, queueVars>>

NextDevice == keyReader' = (keyReader % InputDevices) + 1

(* fetch_events returns all the device holds.                               *)
ReadDevice ==
  /\ keyBatch = <<>>
  /\ keyDevice[keyReader] # <<>>
  /\ keyBatch' = keyDevice[keyReader]
  /\ keyDevice' = [keyDevice EXCEPT ![keyReader] = <<>>]
  /\ NextDevice
  /\ UNCHANGED <<keyCount, keyRead, queueVars>>

(* A read that fails is logged, and the next device is visited.             *)
ReadFails ==
  /\ keyBatch = <<>>
  /\ NextDevice
  /\ UNCHANGED <<keyDevice, keyCount, keyBatch, keyRead, queueVars>>

(* translate_ev: a remote control's key gives a RemoteButton whatever its   *)
(* value; another key does not give anything when it repeats.               *)
Gives(e) == e.code \in RemoteCodes \/ e.value # 2

(* The fetched events are translated and sent one by one.                   *)
TranslateNext ==
  /\ keyBatch # <<>>
  /\ keyBatch' = Tail(keyBatch)
  /\ IF Gives(Head(keyBatch))
     THEN /\ keyRead' = Append(keyRead, Head(keyBatch))
          /\ keyBridge' = Append(keyBridge, Head(keyBatch))
     ELSE UNCHANGED <<keyRead, keyBridge>>
  /\ UNCHANGED <<keyDevice, keyCount, keyReader, keyChannel, keyPublished>>

(* Fault: the event is dropped when the channel is full.                    *)
BridgeDropping ==
  /\ keyBridge # <<>>
  /\ keyBridge' = Tail(keyBridge)
  /\ keyChannel' = IF Len(keyChannel) < InputChannel
                   THEN Append(keyChannel, Head(keyBridge)) ELSE keyChannel
  /\ UNCHANGED <<keyDevice, keyCount, keyReader, keyBatch, keyRead, keyPublished>>

(* The bridge thread waits for room in the channel.                         *)
Bridge ==
  /\ keyBridge # <<>>
  /\ Len(keyChannel) < InputChannel
  /\ keyBridge' = Tail(keyBridge)
  /\ keyChannel' = Append(keyChannel, Head(keyBridge))
  /\ UNCHANGED <<keyDevice, keyCount, keyReader, keyBatch, keyRead, keyPublished>>

PublishKey ==
  /\ keyChannel # <<>>
  /\ keyChannel' = Tail(keyChannel)
  /\ keyPublished' = Append(keyPublished, Head(keyChannel))
  /\ UNCHANGED <<keyDevice, keyCount, keyReader, keyBatch, keyRead, keyBridge>>

InputdNext ==
  \/ \E d \in 1 .. InputDevices, code \in RemoteCodes \cup OtherCodes,
        value \in 0 .. 2 : KeyEvent(d, code, value)
  \/ ReadDevice \/ ReadFails \/ TranslateNext \/ Bridge \/ PublishKey

InputdSpec == InputdInit /\ [][InputdNext]_inputVars

----------------------------------------------------------------------------
(* Properties.                                                             *)

(* What was read is published, or on its way, once and in the order in      *)
(* which it was read, over two threads and a task and a channel that fills  *)
(* up; and what one device delivered is read in its order, also when events *)
(* arrive while older ones are being translated: no key stays pressed       *)
(* because its release was lost or overtook its press.                      *)
KeysInOrder ==
  /\ keyPublished \o keyChannel \o keyBridge = keyRead
  /\ \A i, j \in DOMAIN keyRead :
       (i < j /\ keyRead[i].device = keyRead[j].device)
         => keyRead[i].nr < keyRead[j].nr
=============================================================================
