------------------------------- MODULE Audiod -------------------------------
(***************************************************************************)
(* audiod (crates/audiod/src/main.rs, volume.rs): commands change the       *)
(* volume and publish it; the main task publishes it every minute.  Every   *)
(* publication is sent by a spawned task and may be overtaken.              *)
(***************************************************************************)
EXTENDS Naturals

CONSTANTS
  MaxVolume, DefaultVolume, VolumeStep,   \* 100, 70 and 5 in the code
  VolumeInputs,      \* the values set_volume is called with
  MaxAudioCommands   \* bound: commands handled

ASSUME AudiodAssumption ==
  /\ MaxVolume \in Nat /\ VolumeStep \in Nat /\ MaxAudioCommands \in Nat
  /\ DefaultVolume \in 0 .. MaxVolume
  /\ VolumeInputs \subseteq Nat

VARIABLES
  volume, muted, previousVolume,   \* the fields of VolumeController
  audioCmds,   \* commands handled so far
  audioOut,    \* states whose publication has not yet been sent
  audioShown   \* the state in the last publication sent

audioVars == <<volume, muted, previousVolume, audioCmds, audioOut, audioShown>>

AudioStatus(vol, mute) == [volume |-> vol, muted |-> mute]
AudioNow == AudioStatus(volume, muted)
Clamped(vol) == IF vol > MaxVolume THEN MaxVolume ELSE vol

AudiodInit ==
  /\ volume = DefaultVolume
  /\ muted = FALSE
  /\ previousVolume = DefaultVolume
  /\ audioCmds = 0
  /\ audioOut = {}
  /\ audioShown = AudioStatus(MaxVolume + 1, FALSE)   \* nothing shown yet

(* A command is handled under the lock; the new state is published.         *)
Command ==
  /\ audioCmds < MaxAudioCommands
  /\ audioCmds' = audioCmds + 1
  /\ audioOut' = audioOut \cup {AudioStatus(volume', muted')}
  /\ UNCHANGED audioShown

SetVolume(vol) ==
  /\ volume' = Clamped(vol)
  /\ UNCHANGED <<muted, previousVolume>>
  /\ Command

(* Louder also unmutes, from the volume 0 that muting has set.              *)
VolumeUp ==
  /\ volume' = Clamped(volume + VolumeStep)
  /\ muted' = FALSE
  /\ UNCHANGED previousVolume
  /\ Command

VolumeDown ==
  /\ volume' = IF volume < VolumeStep THEN 0 ELSE volume - VolumeStep
  /\ UNCHANGED <<muted, previousVolume>>
  /\ Command

ToggleMute ==
  /\ muted' = ~muted
  /\ volume' = IF muted THEN previousVolume ELSE 0
  /\ previousVolume' = IF muted THEN previousVolume ELSE volume
  /\ Command

(* Fault: the state is published once, when audiod starts.                  *)
PublishMinutelyOnce ==
  /\ audioCmds = 0
  /\ audioOut' = audioOut \cup {AudioNow}
  /\ UNCHANGED <<volume, muted, previousVolume, audioCmds, audioShown>>

(* The main task publishes at the start and every minute.                   *)
PublishMinutely ==
  /\ audioOut' = audioOut \cup {AudioNow}
  /\ UNCHANGED <<volume, muted, previousVolume, audioCmds, audioShown>>

SendStatus(status) ==
  /\ status \in audioOut
  /\ audioOut' = audioOut \ {status}
  /\ audioShown' = status
  /\ UNCHANGED <<volume, muted, previousVolume, audioCmds>>

AudioStatuses == [volume : 0 .. MaxVolume, muted : BOOLEAN]

AudiodNext ==
  \/ \E vol \in VolumeInputs : SetVolume(vol)
  \/ VolumeUp \/ VolumeDown \/ ToggleMute
  \/ PublishMinutely
  \/ \E status \in audioOut : SendStatus(status)

AudiodSpec == AudiodInit /\ [][AudiodNext]_audioVars

(* The main task and every spawned task run again.                          *)
AudiodFairness ==
  /\ WF_audioVars(PublishMinutely)
  /\ \A status \in AudioStatuses : WF_audioVars(SendStatus(status))

AudiodFairSpec == AudiodSpec /\ AudiodFairness

----------------------------------------------------------------------------
(* Properties.                                                             *)

(* When no more commands come, the screen ends up showing the volume as it  *)
(* is and goes on showing it, although publications overtake one another.   *)
StatusConverges == <>[](audioShown = AudioNow)
=============================================================================
