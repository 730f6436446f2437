-------------------------------- MODULE Pkgd --------------------------------
(***************************************************************************)
(* pkgd (crates/pkgd/src/main.rs, registry.rs): the app registry, read when *)
(* pkgd starts and written back at once, and the directories of the apps,   *)
(* which the commands change.  The two are kept apart: an installed app is  *)
(* not entered into the registry, a removed one is not taken out of it.     *)
(***************************************************************************)
EXTENDS Naturals, FiniteSets

CONSTANTS
  SystemApps,     \* the apps discover_system_apps enters
  OtherApps,      \* apps that are installed by command
  MaxPkgCrashes,  \* bound: crashes
  MaxPkgCommands  \* bound: commands handled

ASSUME PkgdAssumption ==
  /\ SystemApps \cap OtherApps = {}
  /\ MaxPkgCrashes \in Nat /\ MaxPkgCommands \in Nat

(* A command without an id: params["id"] becomes "".                        *)
NoApp == ""
PkgIds == OtherApps \cup {NoApp}

VARIABLES
  pkgPc,       \* "down", "save", "ready", "install" while downloading, or
               \* "manifest" before the manifest is written
  pkgApps,     \* the registry in memory
  pkgFile,     \* registry.json: a set of apps, or Unreadable
  pkgDirs,     \* app -> its files, each "none", "torn" or "whole"; spoilt: a
               \* write or a removal failed where a manifest was
  pkgBusy,     \* the app that is being installed
  pkgCommands, pkgCrashes

pkgVars == <<pkgPc, pkgApps, pkgFile, pkgDirs, pkgBusy, pkgCommands, pkgCrashes>>

NoFiles == [bundle |-> "none", manifest |-> "none", spoilt |-> FALSE]

(* registry.json is absent, empty or torn: reading it gives no apps.        *)
Unreadable == {NoApp}

PkgdInit ==
  /\ pkgPc = "down"
  /\ pkgApps = {}
  /\ pkgFile \in {Unreadable, OtherApps}   \* OtherApps: a preseeded registry
  /\ pkgDirs = [a \in OtherApps |-> NoFiles]
  /\ pkgBusy = NoApp
  /\ pkgCommands = 0
  /\ pkgCrashes = 0

(* AppRegistry::new and discover_system_apps.                               *)
Registry ==
  (IF pkgFile = Unreadable THEN {} ELSE pkgFile) \cup SystemApps

PkgdStart ==
  /\ pkgPc = "down"
  /\ pkgPc' = "save"
  /\ pkgApps' = Registry
  /\ UNCHANGED <<pkgFile, pkgDirs, pkgBusy, pkgCommands, pkgCrashes>>

(* save writes the file in place, errors ignored.                           *)
Save ==
  /\ pkgPc = "save"
  /\ pkgPc' = "ready"
  /\ pkgFile' \in {pkgApps, pkgFile}
  /\ UNCHANGED <<pkgApps, pkgDirs, pkgBusy, pkgCommands, pkgCrashes>>

PkgCommand ==
  /\ pkgPc = "ready"
  /\ pkgCommands < MaxPkgCommands
  /\ pkgCommands' = pkgCommands + 1
  /\ UNCHANGED <<pkgApps, pkgCrashes>>

(* The directory is created, then the download is awaited.                  *)
InstallApp(id) ==
  /\ PkgCommand
  /\ pkgBusy' = id
  /\ pkgPc' = "install"
  /\ UNCHANGED <<pkgFile, pkgDirs>>

DownloadFails ==
  /\ pkgPc = "install"
  /\ pkgPc' = "ready"
  /\ UNCHANGED <<pkgApps, pkgFile, pkgDirs, pkgBusy, pkgCommands, pkgCrashes>>

(* The bundle, or a part of it, is in the directory of app a.               *)
BundlePut(a, content) ==
  [pkgDirs[a] EXCEPT
     !.bundle = content,
     !.spoilt = @ \/ (content = "torn" /\ pkgDirs[a].manifest # "none")]

(* The manifest is written after a whole bundle.                            *)
ManifestPut(a, content) ==
  [pkgDirs[a] EXCEPT !.manifest = content, !.spoilt = FALSE]

(* Only an app's own directory counts: without an id the files go into the  *)
(* directory of all apps.                                                   *)
WithFiles(a, files) == [pkgDirs EXCEPT ![a] = files]
Put(Files(_, _), content) ==
  IF pkgBusy = NoApp THEN pkgDirs ELSE WithFiles(pkgBusy, Files(pkgBusy, content))

(* Fault: the error of fs::write is ignored.                                *)
WriteBundleIgnored(content) ==
  /\ pkgPc = "install"
  /\ pkgPc' = "manifest"
  /\ pkgDirs' = Put(BundlePut, content)
  /\ UNCHANGED <<pkgApps, pkgFile, pkgBusy, pkgCommands, pkgCrashes>>

(* fs::write truncates an older bundle; where it fails the install ends.    *)
WriteBundle(content) ==
  /\ pkgPc = "install"
  /\ pkgPc' = IF content = "whole" THEN "manifest" ELSE "ready"
  /\ pkgDirs' = Put(BundlePut, content)
  /\ UNCHANGED <<pkgApps, pkgFile, pkgBusy, pkgCommands, pkgCrashes>>

WriteManifest(content) ==
  /\ pkgPc = "manifest"
  /\ pkgPc' = "ready"
  /\ pkgDirs' = Put(ManifestPut, content)
  /\ UNCHANGED <<pkgApps, pkgFile, pkgBusy, pkgCommands, pkgCrashes>>

(* Without an id the directory removed is that of all apps.                 *)
UninstallApp(id) ==
  /\ PkgCommand
  /\ pkgDirs' = [a \in OtherApps |->
                   IF id \in {a, NoApp} THEN NoFiles ELSE pkgDirs[a]]
  /\ pkgFile' = IF id = NoApp THEN Unreadable ELSE pkgFile
  /\ UNCHANGED <<pkgPc, pkgBusy>>

PkgCrash ==
  /\ pkgCrashes < MaxPkgCrashes
  /\ pkgCrashes' = pkgCrashes + 1
  /\ pkgPc' = "down"
  /\ UNCHANGED <<pkgApps, pkgBusy, pkgCommands>>

(* pkgd dies; what it is writing is left torn.                              *)
PkgdDies ==
  /\ pkgPc # "down"
  /\ PkgCrash
  /\ pkgFile' \in {pkgFile} \cup (IF pkgPc = "save" THEN {Unreadable} ELSE {})
  /\ pkgDirs' \in {pkgDirs}
       \cup (IF pkgPc = "install" THEN {Put(BundlePut, "torn")} ELSE {})
       \cup (IF pkgPc = "manifest" THEN {Put(ManifestPut, "torn")} ELSE {})

(* It dies in the middle of remove_dir_all: one of the files is gone.       *)
DiesRemoving(a, gone) ==
  /\ pkgPc = "ready"
  /\ PkgCrash
  /\ pkgDirs[a][gone] # "none"
  /\ pkgDirs' = WithFiles(a, [pkgDirs[a] EXCEPT ![gone] = "none",
                                                !.spoilt = TRUE])
  /\ UNCHANGED pkgFile

PkgdNext ==
  \/ PkgdStart \/ Save
  \/ \E id \in PkgIds : InstallApp(id) \/ UninstallApp(id)
  \/ DownloadFails
  \/ \E content \in {"torn", "whole"} :
       WriteBundle(content) \/ WriteManifest(content)
  \/ PkgdDies
  \/ \E a \in OtherApps, gone \in {"bundle", "manifest"} : DiesRemoving(a, gone)

PkgdSpec == PkgdInit /\ [][PkgdNext]_pkgVars

----------------------------------------------------------------------------
(* Properties.                                                             *)

(* An app that looks installed is: a manifest is found only beside a whole  *)
(* bundle, whatever downloads, writes and crashes went wrong, unless a      *)
(* re-install or a removal was cut off in the middle.                       *)
InstalledWhole ==
  \A a \in OtherApps :
    (pkgDirs[a].manifest # "none" /\ ~pkgDirs[a].spoilt)
      => pkgDirs[a].bundle = "whole"
=============================================================================
