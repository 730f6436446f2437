------------------------------ MODULE OtaProofs ------------------------------
(***************************************************************************)
(* What is proved of otad (module Ota): its state is well formed, and an    *)
(* update is an A/B update in the sense of SlotPair, for any number of      *)
(* versions, crashes and power losses.                                      *)
(*                                                                         *)
(* The argument: only a file that rauc info has accepted is installed, and  *)
(* nothing touches the file, the offered version or the slot between that   *)
(* check and the end of the installation (HandedOver); hence an             *)
(* installation fills the slot it has erased with a complete image, and     *)
(* whatever boots is complete (Complete).                                   *)
(***************************************************************************)
EXTENDS Ota, TLAPS

(* What each stage of check_and_update hands to the next one.               *)
Offering == {"fetch", "hash", "rehash", "verify", "install", "write"}

HandedOver ==
  /\ otaPc \in Offering => offered \in OtaVersion
  /\ otaPc \in {"install", "write"} => File = "whole"
  /\ otaPc = "write" => slot[Other(active)] = Broken

(* The slot that runs and the one that boots next hold complete images.     *)
Complete == slot[active] # Broken /\ slot[primary] # Broken

OtaInv == OtaTypeOK /\ HandedOver /\ Complete

(* The initial state is well formed and runs a complete image.              *)
LEMMA OtaInitInv == OtaInit => OtaInv
<1> SUFFICES ASSUME OtaInit PROVE OtaInv
  OBVIOUS
<1>1. 1 \in OtaVersion /\ 1 # Broken /\ 0 \in 0 .. MaxOtaFaults
  BY OtaAssumption DEF OtaVersion, Broken
<1>2. /\ otaFirst \in BOOLEAN
      /\ otaConfig \in [install : BOOLEAN, reboot : BOOLEAN]
  BY Zenon DEF OtaInit
<1>3. OtaTypeOK
  BY <1>1, <1>2 DEF OtaInit, OtaTypeOK, Named, NoVersion, SlotName
<1>4. HandedOver /\ Complete
  BY <1>1 DEF OtaInit, HandedOver, Complete, Offering, SlotName
<1> QED  BY <1>3, <1>4 DEF OtaInv

(* Other picks the slot that is not the one given.                          *)
LEMMA OtherSlot ==
  ASSUME NEW s \in SlotName
  PROVE  Other(s) \in SlotName /\ Other(s) # s
BY DEF Other, SlotName

(* A fault is counted within its bound.                                     *)
LEMMA FaultCount ==
  ASSUME otaFaults \in 0 .. MaxOtaFaults, OtaFault
  PROVE  otaFaults' \in 0 .. MaxOtaFaults
BY OtaAssumption DEF OtaFault

(* Every step of the polling loop and of the download keeps the invariant:  *)
(* the slots are left alone, the offer is a version the server has, and the *)
(* file of that version only changes before it is verified.                 *)
LEMMA DownloadSteps ==
  ASSUME OtaInv,
         \/ \E install, reboot \in BOOLEAN : OtadStart(install, reboot)
         \/ Poll \/ RequestFails \/ QueryNone \/ QueryOffer
         \/ \E status \in Statuses :
              DownloadBody(status) \/ WriteFails(status) \/ DiesWriting(status)
         \/ DownloadSkipped \/ HashMatches \/ HashMismatch \/ RemoveFails
         \/ VerifyPasses \/ VerifyFails
  PROVE  OtaInv'
<1> USE DEF OtaInv, OtaTypeOK, HandedOver, Complete, Offering, raucVars, Named,
            NoVersion
<1>1. ASSUME NEW install \in BOOLEAN, NEW reboot \in BOOLEAN,
             OtadStart(install, reboot)
      PROVE  OtaInv'
  <2>1. otaConfig' \in [install : BOOLEAN, reboot : BOOLEAN]
    BY <1>1, Zenon DEF OtadStart
  <2> QED  BY <1>1, <2>1 DEF OtadStart, File
<1>2. CASE Poll \/ RequestFails \/ QueryNone \/ QueryOffer
  <2>1. otaFirst' \in BOOLEAN
    BY <1>2, Zenon DEF Poll, RequestFails, CheckFailed, QueryNone, QueryOffer
  <2> QED
    BY <1>2, <2>1
       DEF Poll, RequestFails, CheckFailed, QueryNone, QueryOffer, File
<1>3. ASSUME NEW status \in Statuses,
             DownloadBody(status) \/ WriteFails(status) \/ DiesWriting(status)
      PROVE  OtaInv'
  <2>1. Taken(status) /\ otaPc = "fetch" /\ offered \in OtaVersion
    BY <1>3 DEF DownloadBody, WriteFails, DiesWriting
  <2>2. /\ Written(status) \in {"whole", "junk", "stale"}
        /\ Torn(status) \in {"part", "junk"}
    BY <2>1 DEF Taken, Written, Torn, Statuses
  <2>3. bundle' \in [OtaVersion -> {"none", "part", "whole", "junk", "stale"}]
    BY <1>3, <2>1, <2>2 DEF DownloadBody, WriteFails, DiesWriting, SetFile
  <2> QED
    BY <1>3, <2>1, <2>3, FaultCount
       DEF DownloadBody, WriteFails, DiesWriting, CheckFailed
<1>4. CASE DownloadSkipped \/ HashMatches \/ HashMismatch \/ RemoveFails
  BY <1>4, FaultCount
     DEF DownloadSkipped, HashMatches, HashMismatch, RemoveFails, SetFile,
         CheckFailed
<1>5. CASE VerifyPasses \/ VerifyFails
  BY <1>5 DEF VerifyPasses, VerifyFails, BundleSound, CheckFailed, File
<1> QED  BY <1>1, <1>2, <1>3, <1>4, <1>5

(* Installing keeps the invariant: the slot erased is not the one that      *)
(* runs, and the image written into it is whole.                            *)
LEMMA InstallSteps ==
  ASSUME OtaInv,
         InstallBegins \/ InstallFails \/ InstallEnds \/ DiesInstalling
  PROVE  OtaInv'
<1> USE DEF OtaInv, OtaTypeOK, HandedOver, Complete, Offering, raucVars, Named,
            NoVersion, File
<1>1. Other(active) \in SlotName /\ Other(active) # active
  BY OtherSlot
<1>2. CASE InstallBegins
  <2>1. slot' \in [SlotName -> OtaVersion \cup {Broken}]
    BY <1>1, <1>2 DEF InstallBegins
  <2>2. slot'[Other(active)] = Broken /\ slot'[active] = slot[active]
    BY <1>1, <1>2 DEF InstallBegins
  <2> QED  BY <1>1, <1>2, <2>1, <2>2 DEF InstallBegins
<1>3. CASE InstallFails
  BY <1>3 DEF InstallFails, CheckFailed
<1>4. ASSUME Installed, otaPc = "write", UNCHANGED active
      PROVE  /\ slot' \in [SlotName -> OtaVersion \cup {Broken}]
             /\ primary' \in SlotName
             /\ slot'[active'] # Broken /\ slot'[primary'] # Broken
  <2>1. File = "whole" /\ offered \in OtaVersion
    BY <1>4
  <2>2. offered # Broken
    BY <2>1 DEF OtaVersion, Broken
  <2> QED  BY <1>1, <1>4, <2>1, <2>2 DEF Installed
<1>5. CASE InstallEnds
  BY <1>4, <1>5 DEF InstallEnds
<1>6. CASE DiesInstalling
  BY <1>4, <1>6, FaultCount DEF DiesInstalling
<1> QED  BY <1>2, <1>3, <1>5, <1>6

(* Whatever boots is complete; the other ways to stop and the server leave  *)
(* files and slots alone.                                                   *)
LEMMA BootSteps ==
  ASSUME OtaInv,
         \/ \E s \in SlotName : Reboot(s) \/ PowerFails(s)
         \/ RebootFails \/ OtadDies \/ ServerPublishes
         \/ UNCHANGED otaVars
  PROVE  OtaInv'
<1> USE DEF OtaInv, OtaTypeOK, HandedOver, Complete, Offering, raucVars, File
<1>1. ASSUME NEW s \in SlotName, Reboot(s) \/ PowerFails(s)
      PROVE  OtaInv'
  BY <1>1, FaultCount DEF Reboot, PowerFails, Boots
<1>2. CASE RebootFails \/ OtadDies
  BY <1>2, FaultCount DEF RebootFails, OtadDies
<1>3. CASE ServerPublishes
  BY <1>3, OtaAssumption DEF ServerPublishes, OtaVersion
<1>4. CASE UNCHANGED otaVars
  BY <1>4 DEF otaVars
<1> QED  BY <1>1, <1>2, <1>3, <1>4

(* The invariant of otad: well formed, handed over soundly, complete.       *)
THEOREM OtaInvariant == OtaSpec => []OtaInv
<1>1. OtaInit => OtaInv
  BY OtaInitInv
<1>2. OtaInv /\ [OtaNext]_otaVars => OtaInv'
  BY DownloadSteps, InstallSteps, BootSteps DEF OtaNext, Orchestrate
<1> QED  BY <1>1, <1>2, PTL DEF OtaSpec

(* The state of otad is well formed.                                        *)
THEOREM TypeCorrect == OtaSpec => []OtaTypeOK
<1>1. OtaInv => OtaTypeOK
  BY DEF OtaInv
<1> QED  BY <1>1, OtaInvariant, PTL

(* Whatever was torn, skipped or cut off, the machine can boot: the slot    *)
(* that runs and the one that boots next hold complete images.              *)
THEOREM AlwaysBootable == OtaSpec => []Slots!Bootable
<1>1. OtaInv => Slots!Bootable
  BY DEF OtaInv, OtaTypeOK, Complete, Slots!Bootable
<1> QED  BY <1>1, OtaInvariant, PTL

----------------------------------------------------------------------------
(* The refinement.                                                         *)

(* InstallBegins erases the slot that does not run, and the running one     *)
(* boots meanwhile.                                                         *)
LEMMA EraseStep ==
  ASSUME OtaInv, InstallBegins
  PROVE  Slots!SlotNext
<1>1. Other(active) \in SlotName /\ Other(active) # active
  BY OtherSlot DEF OtaInv, OtaTypeOK
<1>2. Slots!Erase(Other(active))
  BY <1>1 DEF InstallBegins, Slots!Erase
<1> QED  BY <1>1, <1>2 DEF Slots!SlotNext

(* The end of an installation fills the slot that was erased, also when     *)
(* otad died while it waited for it.                                        *)
LEMMA FillStep ==
  ASSUME OtaInv, Installed, otaPc = "write", UNCHANGED active
  PROVE  Slots!SlotNext
<1>1. Other(active) \in SlotName /\ Other(active) # active
  BY OtherSlot DEF OtaInv, OtaTypeOK
<1>2. File = "whole" /\ offered \in OtaVersion /\ slot[Other(active)] = Broken
  BY DEF OtaInv, HandedOver, Offering
<1>3. Slots!Fill(Other(active), offered)
  BY <1>1, <1>2 DEF Installed, Slots!Fill
<1> QED  BY <1>1, <1>2, <1>3 DEF Slots!SlotNext

(* A reboot, asked for or not, is a restart from a complete slot.           *)
LEMMA RestartStep ==
  ASSUME OtaInv, NEW s \in SlotName, Boots(s)
  PROVE  Slots!SlotNext
<1>1. Slots!Restart(s)
  BY DEF Boots, Slots!Restart, OtaInv, OtaTypeOK
<1> QED  BY <1>1 DEF Slots!SlotNext

(* otad implements SlotPair: every step erases the slot that does not run,  *)
(* fills an erased one, restarts from a complete one, or leaves the slots   *)
(* alone.                                                                   *)
THEOREM Implementation == OtaSpec => UpdatesLikeSlotPair
<1>1. OtaInit => Slots!SlotInit
  BY OtaAssumption
     DEF OtaInit, Slots!SlotInit, SlotName, OtaVersion, Broken
<1>2. OtaInv /\ [OtaNext]_otaVars => [Slots!SlotNext]_Slots!slotVars
  <2> SUFFICES ASSUME OtaInv, [OtaNext]_otaVars
               PROVE  Slots!SlotNext \/ UNCHANGED <<slot, active, primary>>
    BY DEF Slots!slotVars
  <2>1. CASE InstallBegins
    BY <2>1, EraseStep
  <2>2. CASE InstallEnds
    BY <2>2, FillStep DEF InstallEnds
  <2>3. CASE DiesInstalling
    BY <2>3, FillStep DEF DiesInstalling
  <2>4. CASE \E s \in SlotName : Reboot(s) \/ PowerFails(s)
    BY <2>4, RestartStep DEF Reboot, PowerFails
  <2>5. CASE \/ \E install, reboot \in BOOLEAN : OtadStart(install, reboot)
             \/ Poll \/ RequestFails \/ QueryNone \/ QueryOffer
             \/ UNCHANGED otaVars
    BY <2>5 DEF OtadStart, Poll, RequestFails, QueryNone, QueryOffer, raucVars,
                otaVars
  <2>6. CASE \/ \E status \in Statuses :
                  \/ DownloadBody(status) \/ WriteFails(status)
                  \/ DiesWriting(status)
             \/ DownloadSkipped \/ HashMatches \/ HashMismatch \/ RemoveFails
    BY <2>6 DEF DownloadBody, WriteFails, DiesWriting, DownloadSkipped,
                HashMatches, HashMismatch, RemoveFails, raucVars
  <2>7. CASE \/ VerifyPasses \/ VerifyFails \/ InstallFails \/ RebootFails
             \/ OtadDies \/ ServerPublishes
    BY <2>7 DEF VerifyPasses, VerifyFails, InstallFails, RebootFails, OtadDies,
                ServerPublishes, raucVars
  <2> QED
    BY <2>1, <2>2, <2>3, <2>4, <2>5, <2>6, <2>7 DEF OtaNext, Orchestrate
<1> QED
  BY <1>1, <1>2, OtaInvariant, PTL
     DEF OtaSpec, UpdatesLikeSlotPair, Slots!SlotSpec
=============================================================================
