------------------------------ MODULE SlotPair ------------------------------
(***************************************************************************)
(* What an A/B update promises, whoever carries it out and whenever the     *)
(* power fails: the slot that runs is never written, and the slot that      *)
(* boots next holds a complete image.                                       *)
(***************************************************************************)
CONSTANTS
  Slot,       \* the slots
  Images,     \* complete images
  NoImage     \* what a slot holds while it is being written

VARIABLES
  image,      \* slot -> its content
  running,    \* the slot that was booted
  next        \* the slot that boots next

slotVars == <<image, running, next>>

SlotInit ==
  /\ image \in [Slot -> Images \cup {NoImage}]
  /\ running \in Slot
  /\ image[running] \in Images
  /\ next = running

(* Another slot is about to be written; the running one boots meanwhile.    *)
Erase(s) ==
  /\ s # running
  /\ image' = [image EXCEPT ![s] = NoImage]
  /\ next' = running
  /\ UNCHANGED running

(* The image is complete and boots next.                                    *)
Fill(s, v) ==
  /\ s # running
  /\ image[s] = NoImage
  /\ image' = [image EXCEPT ![s] = v]
  /\ next' = s
  /\ UNCHANGED running

(* The machine restarts, possibly back into another complete slot.          *)
Restart(s) ==
  /\ image[s] \in Images
  /\ running' = s
  /\ next' = s
  /\ UNCHANGED image

SlotNext ==
  \E s \in Slot : \/ Erase(s)
                  \/ \E v \in Images : Fill(s, v)
                  \/ Restart(s)

SlotSpec == SlotInit /\ [][SlotNext]_slotVars

(* Whatever happens, the machine can boot.                                  *)
Bootable == image[running] \in Images /\ image[next] \in Images
=============================================================================
