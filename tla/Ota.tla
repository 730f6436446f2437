-------------------------------- MODULE Ota --------------------------------
(***************************************************************************)
(* otad (crates/otad/src/orch.rs, downloader.rs, main.rs) with RAUC as      *)
(* rauc-rs drives it: poll the server, download the bundle with resumption, *)
(* check it, install it into the other slot, reboot.  otad may crash and    *)
(* the power may fail between any two steps and in the middle of a write;   *)
(* downloaded files and slots survive.                                      *)
(*                                                                         *)
(* The orchestrator holds a BundleVerifier and never asks it, and nobody    *)
(* calls confirm_boot or mark_boot_failed: neither does the model.          *)
(***************************************************************************)
EXTENDS Naturals

CONSTANTS
  MaxVersion,     \* bound: versions the server ever offers
  MaxOtaFaults    \* bound: crashes of otad, power losses, failing removals

ASSUME OtaAssumption == MaxVersion \in Nat \ {0} /\ MaxOtaFaults \in Nat

OtaVersion == 1 .. MaxVersion
Broken == 0                    \* the content of a slot that is being written
SlotName == {"A", "B"}         \* rootfs.0 and rootfs.1
Other(s) == IF s = "A" THEN "B" ELSE "A"

VARIABLES
  otaPc,       \* "down", or what the orchestrator does next
  otaState,    \* OtaState and the version it names
  otaFirst,    \* this is the check made at start-up
  otaConfig,   \* auto_install and auto_reboot
  offered,     \* update_info.version
  bundle,      \* version -> its file in the download directory: "none",
               \* "part" (a prefix of the bundle), "whole", or corrupt:
               \* "junk" is shorter than the bundle, "stale" is not
  latest,      \* the version the server has
  slot,        \* slot -> the version it holds, or Broken
  active,      \* the slot that is booted
  primary,     \* the slot that boots next
  marked,      \* slots that are marked good
  otaFaults

otaVars == <<otaPc, otaState, otaFirst, otaConfig, offered, bundle, latest,
             slot, active, primary, marked, otaFaults>>
raucVars == <<slot, active, primary, marked>>

Named(kind, v) == [kind |-> kind, version |-> v]
NoVersion == 0

OtaInit ==
  /\ otaPc = "down"
  /\ otaState = Named("Idle", NoVersion)
  /\ otaFirst = FALSE
  /\ otaConfig = [install |-> FALSE, reboot |-> FALSE]
  /\ offered = NoVersion
  /\ bundle = [v \in OtaVersion |-> "none"]
  /\ latest = 1
  /\ slot = [s \in SlotName |-> 1]
  /\ active = "A"
  /\ primary = "A"
  /\ marked = {"A"}
  /\ otaFaults = 0

(* Something goes wrong.                                                    *)
OtaFault == otaFaults < MaxOtaFaults /\ otaFaults' = otaFaults + 1

----------------------------------------------------------------------------
(* run_polling_loop and check_and_update.                                   *)

(* main: the configuration is loaded and an orchestrator made.              *)
OtadStart(install, reboot) ==
  /\ otaPc = "down"
  /\ otaPc' = "start"
  /\ otaState' = Named("Idle", NoVersion)
  /\ otaConfig' = [install |-> install, reboot |-> reboot]
  /\ UNCHANGED <<otaFirst, offered, bundle, latest, raucVars, otaFaults>>

Poll ==
  /\ otaPc \in {"start", "sleep"}
  /\ otaPc' = "query"
  /\ otaFirst' = (otaPc = "start")
  /\ otaState' = Named("Checking", NoVersion)
  /\ UNCHANGED <<otaConfig, offered, bundle, latest, raucVars, otaFaults>>

(* check_and_update returns an error; the first one leaves the state alone. *)
CheckFailed ==
  /\ otaPc' = "sleep"
  /\ otaState' = IF otaFirst THEN otaState ELSE Named("Error", NoVersion)
  /\ UNCHANGED <<otaFirst, otaConfig, offered>>

(* rauc status or a request fails, or the answer has no URL.                *)
RequestFails ==
  /\ otaPc \in {"query", "fetch"}
  /\ CheckFailed
  /\ UNCHANGED <<bundle, latest, raucVars, otaFaults>>

(* 204: the version of the active slot is the latest.                       *)
QueryNone ==
  /\ otaPc = "query"
  /\ latest = slot[active]
  /\ otaPc' = "sleep"
  /\ otaState' = Named("NoUpdate", NoVersion)
  /\ UNCHANGED <<otaFirst, otaConfig, offered, bundle, latest, raucVars,
                 otaFaults>>

QueryOffer ==
  /\ otaPc = "query"
  /\ latest # slot[active]
  /\ offered' = latest
  /\ otaPc' = "fetch"
  /\ otaState' = Named("Downloading", latest)
  /\ UNCHANGED <<otaFirst, otaConfig, bundle, latest, raucVars, otaFaults>>

----------------------------------------------------------------------------
(* Downloader::download.                                                   *)

File == bundle[offered]
SetFile(content) == bundle' = [bundle EXCEPT ![offered] = content]

(* What a response's body leaves on disk: a fresh download writes it even   *)
(* when it is an error page, which is shorter than a bundle; a resumed one  *)
(* (206) appends what the file lacks of a bundle's length.                  *)
Written(status) ==
  CASE File = "none" /\ status = "200" -> "whole"
    [] File = "none" /\ status = "error" -> "junk"
    [] File = "part" /\ status = "206" -> "whole"
    [] File = "junk" /\ status = "206" -> "stale"

(* The responses that are written and hashed; there is no range that begins *)
(* where the bundle ends.                                                   *)
Taken(status) ==
  \/ File = "none" /\ status \in {"200", "error"}
  \/ File \in {"part", "junk"} /\ status = "206"

DownloadBody(status) ==
  /\ otaPc = "fetch"
  /\ Taken(status)
  /\ SetFile(Written(status))
  /\ otaPc' = IF File = "none" THEN "hash" ELSE "rehash"
  /\ UNCHANGED <<otaState, otaFirst, otaConfig, offered, latest, raucVars,
                 otaFaults>>

(* A write fails: a prefix of the body is on disk.                          *)
Torn(status) == IF Written(status) = "whole" THEN "part" ELSE "junk"
WriteFails(status) ==
  /\ otaPc = "fetch"
  /\ Taken(status)
  /\ SetFile(Torn(status))
  /\ CheckFailed
  /\ UNCHANGED <<latest, raucVars, otaFaults>>

(* A file exists and the answer is not 206 (the server ignores Range, the   *)
(* file is as long as the bundle: 416, an error): the path is returned,     *)
(* and the file is not hashed.                                              *)
DownloadSkipped ==
  /\ otaPc = "fetch"
  /\ File # "none"
  /\ otaPc' = "verify"
  /\ otaState' = Named("Verifying", offered)
  /\ UNCHANGED <<otaFirst, otaConfig, offered, bundle, latest, raucVars,
                 otaFaults>>

HashMatches ==
  /\ otaPc \in {"hash", "rehash"}
  /\ File = "whole"
  /\ otaPc' = "verify"
  /\ otaState' = Named("Verifying", offered)
  /\ UNCHANGED <<otaFirst, otaConfig, offered, bundle, latest, raucVars,
                 otaFaults>>

(* Fault: the corrupt file stays.                                           *)
HashMismatchKeeps ==
  /\ otaPc \in {"hash", "rehash"}
  /\ File # "whole" \/ otaPc = "rehash"
  /\ CheckFailed
  /\ UNCHANGED <<bundle, latest, raucVars, otaFaults>>

(* A corrupt file is removed.  The appended part is not flushed before the  *)
(* file is read: its hash may be that of a shorter one.                     *)
HashMismatch ==
  /\ otaPc \in {"hash", "rehash"}
  /\ File # "whole" \/ otaPc = "rehash"
  /\ SetFile("none")
  /\ CheckFailed
  /\ UNCHANGED <<latest, raucVars, otaFaults>>

(* Removing it fails, and nobody asks.                                      *)
RemoveFails ==
  /\ otaPc \in {"hash", "rehash"}
  /\ File # "whole" \/ otaPc = "rehash"
  /\ OtaFault
  /\ CheckFailed
  /\ UNCHANGED <<bundle, latest, raucVars>>

----------------------------------------------------------------------------
(* Verification, installation, reboot.                                      *)

(* Fault: the outcome of rauc info is not looked at.                        *)
BundleSoundAny == TRUE

(* rauc info accepts the file: it is the signed bundle.                     *)
BundleSound == File = "whole"

VerifyPasses ==
  /\ otaPc = "verify"
  /\ BundleSound
  /\ otaPc' = IF otaConfig.install THEN "install" ELSE "sleep"
  /\ UNCHANGED <<otaState, otaFirst, otaConfig, offered, bundle, latest,
                 raucVars, otaFaults>>

VerifyFails ==
  /\ otaPc = "verify"
  /\ ~BundleSound
  /\ CheckFailed
  /\ UNCHANGED <<bundle, latest, raucVars, otaFaults>>

(* The version is taken from a state Downloaded that has already become     *)
(* Verifying: it is always "unknown".                                       *)
InstallBegins ==
  /\ otaPc = "install"
  /\ otaPc' = "write"
  /\ otaState' = Named("Installing", NoVersion)
  /\ slot' = [slot EXCEPT ![Other(active)] = Broken]
  /\ primary' = active
  /\ marked' = marked \ {Other(active)}
  /\ UNCHANGED <<otaFirst, otaConfig, offered, bundle, latest, active,
                 otaFaults>>

InstallFails ==
  /\ otaPc = "write"
  /\ CheckFailed
  /\ UNCHANGED <<bundle, latest, raucVars, otaFaults>>

(* The slot gets what the file holds, and boots next.                       *)
Installed ==
  /\ slot' = [slot EXCEPT ![Other(active)] =
                IF File = "whole" THEN offered ELSE Broken]
  /\ primary' = Other(active)

InstallEnds ==
  /\ otaPc = "write"
  /\ Installed
  /\ otaState' = Named(
       IF otaConfig.reboot THEN "Rebooting" ELSE "WaitingReboot", NoVersion)
  /\ otaPc' = IF otaConfig.reboot THEN "reboot" ELSE "sleep"
  /\ UNCHANGED <<otaFirst, otaConfig, offered, bundle, latest, active, marked,
                 otaFaults>>

(* The boot loader takes the primary slot; one that was not marked good it  *)
(* may give up for the other.                                               *)
Boots(s) ==
  /\ slot[s] # Broken
  /\ s = primary \/ primary \notin marked
  /\ active' = s
  /\ primary' = s
  /\ otaPc' = "down"
  /\ UNCHANGED <<otaState, otaFirst, otaConfig, offered, latest, slot, marked>>

Reboot(s) ==
  /\ otaPc = "reboot"
  /\ Boots(s)
  /\ UNCHANGED <<bundle, otaFaults>>

(* The system call fails, which is ignored: polling goes on.                *)
RebootFails ==
  /\ otaPc = "reboot"
  /\ otaPc' = "sleep"
  /\ UNCHANGED <<otaState, otaFirst, otaConfig, offered, bundle, latest,
                 raucVars, otaFaults>>

----------------------------------------------------------------------------
(* Crashes and the server.                                                  *)

(* otad dies between two steps.                                             *)
OtadDies ==
  /\ otaPc \notin {"down", "write"}
  /\ OtaFault
  /\ otaPc' = "down"
  /\ UNCHANGED <<otaState, otaFirst, otaConfig, offered, bundle, latest,
                 raucVars>>

(* It dies while it waits for rauc install, which ends by itself; how it    *)
(* ends is decided here, as nothing looks at the slot before it has.        *)
DiesInstalling ==
  /\ otaPc = "write"
  /\ OtaFault
  /\ otaPc' = "down"
  /\ Installed \/ UNCHANGED <<slot, primary>>
  /\ UNCHANGED <<otaState, otaFirst, otaConfig, offered, bundle, latest,
                 active, marked>>

(* It dies while it writes a body: a prefix of it is on disk.               *)
DiesWriting(status) ==
  /\ otaPc = "fetch"
  /\ Taken(status)
  /\ OtaFault
  /\ SetFile(Torn(status))
  /\ otaPc' = "down"
  /\ UNCHANGED <<otaState, otaFirst, otaConfig, offered, latest, raucVars>>

PowerFails(s) ==
  /\ OtaFault
  /\ Boots(s)
  /\ UNCHANGED bundle

ServerPublishes ==
  /\ latest < MaxVersion
  /\ latest' = latest + 1
  /\ UNCHANGED <<otaPc, otaState, otaFirst, otaConfig, offered, bundle,
                 raucVars, otaFaults>>

----------------------------------------------------------------------------
Statuses == {"200", "206", "error"}

Orchestrate ==
  \/ Poll \/ HashMatches \/ HashMismatch \/ VerifyPasses \/ VerifyFails
  \/ InstallBegins \/ InstallEnds
  \/ \E s \in SlotName : Reboot(s)
  \/ \E install, reboot \in BOOLEAN : OtadStart(install, reboot)

OtaNext ==
  \/ Orchestrate
  \/ RequestFails \/ QueryNone \/ QueryOffer
  \/ \E status \in Statuses :
       DownloadBody(status) \/ WriteFails(status) \/ DiesWriting(status)
  \/ DownloadSkipped \/ RemoveFails \/ InstallFails \/ RebootFails
  \/ OtadDies \/ DiesInstalling \/ ServerPublishes
  \/ \E s \in SlotName : PowerFails(s)

OtaSpec == OtaInit /\ [][OtaNext]_otaVars

(* monitord starts otad again and tokio polls its task; a server that is    *)
(* asked again and again answers now and then, with the range asked for if  *)
(* it begins inside the bundle, or else with 416.                           *)
OtaFairness ==
  /\ WF_otaVars(Orchestrate)
  /\ WF_otaVars(QueryNone)
  /\ SF_otaVars(QueryOffer)
  /\ SF_otaVars(DownloadBody("200"))
  /\ SF_otaVars(DownloadBody("206"))
  /\ SF_otaVars(otaPc = "fetch" /\ File \in {"whole", "stale"}
                   /\ DownloadSkipped)

OtaFairSpec == OtaSpec /\ OtaFairness

----------------------------------------------------------------------------
(* Properties.                                                             *)

(* The state is well formed.                                                *)
OtaTypeOK ==
  /\ otaPc \in {"down", "start", "sleep", "query", "fetch", "hash", "rehash",
                "verify", "install", "write", "reboot"}
  /\ otaState.version \in OtaVersion \cup {NoVersion}
  /\ otaFirst \in BOOLEAN
  /\ otaConfig \in [install : BOOLEAN, reboot : BOOLEAN]
  /\ offered \in OtaVersion \cup {NoVersion}
  /\ bundle \in [OtaVersion -> {"none", "part", "whole", "junk", "stale"}]
  /\ latest \in OtaVersion
  /\ slot \in [SlotName -> OtaVersion \cup {Broken}]
  /\ active \in SlotName
  /\ primary \in SlotName
  /\ marked \subseteq SlotName
  /\ otaFaults \in 0 .. MaxOtaFaults

(* An update is an A/B update (module SlotPair), also with files that were  *)
(* torn by a crash or returned unhashed, and with the power failing at any  *)
(* moment: the slot that runs is never written, and no incomplete image is  *)
(* ever made the next to boot.                                              *)
Slots == INSTANCE SlotPair WITH
           Slot <- SlotName, Images <- OtaVersion, NoImage <- Broken,
           image <- slot, running <- active, next <- primary
UpdatesLikeSlotPair == Slots!SlotSpec

(* A corrupt file of a bundle's length is left over: a crash or a failing   *)
(* removal came between its hashing and its removal.                        *)
Stuck(v) == bundle[v] = "stale" /\ otaPc # "rehash" /\ otaFaults > 0

(* A torn or corrupt download does not keep the version from ever being     *)
(* downloaded: the file is completed, or removed and fetched again, and     *)
(* goes on to verification, or else there is a newer version by then.  The  *)
(* one trap is a corrupt file that a fault left over with a full length: it *)
(* is returned unhashed at every poll, and never removed.                   *)
DownloadRecovers ==
  \A v \in OtaVersion :
    (bundle[v] \in {"part", "junk"} /\ latest = v)
      ~> ((bundle[v] = "whole" /\ otaPc = "verify") \/ latest # v \/ Stuck(v))
=============================================================================
