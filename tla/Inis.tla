-------------------------------- MODULE Inis --------------------------------
(***************************************************************************)
(* inis, the PID 1 (crates/inis/src/main.rs): it mounts /data, seeds its    *)
(* configuration on the first boot, starts monitord and then reaps          *)
(* children and restarts monitord for ever.                                 *)
(*                                                                         *)
(* main() starts a monitord and forgets its pid; main_loop begins with no   *)
(* pid and starts another.  main_loop also ignores every signal, SIGCHLD    *)
(* included, so the kernel reaps a child that exits from then on: waitpid   *)
(* reports only children that had exited before.                            *)
(***************************************************************************)
EXTENDS Naturals, FiniteSets

CONSTANTS
  MaxRestarts,    \* MAX_RESTARTS, 5 in the code
  MaxServices,    \* bound: services a monitord has running at a time
  MaxPowerLosses, \* bound: power losses
  ConfigFiles     \* the files of /usr/share/uos/config

ASSUME InisAssumption ==
  /\ MaxRestarts \in Nat /\ MaxServices \in Nat /\ MaxPowerLosses \in Nat

VARIABLES
  inisPc,        \* where inis is: "mount", "seed", "spawn", "harden", "loop",
                 \* "shell" after it gave up, "panic" when PID 1 has exited
  powerLosses,   \* power losses so far
  dataDev,       \* what /data is in this boot
  dataEtc,       \* device -> file of /data/etc/uos -> its content
  toCopy,        \* preseeded files still to be copied
  monitordPid,   \* the pid main_loop watches, NoPid for None
  restartCount,
  lastPid,       \* monitords started in this boot; a monitord's pid is its number
  monitords,     \* the monitords that run
  servicesOf,    \* monitord -> services it has running
  orphans,       \* services whose monitord has died: children of inis
  zombies        \* exited children nobody has waited for (Orphan: a service)

inisVars == <<inisPc, powerLosses, dataDev, dataEtc, toCopy, monitordPid,
              restartCount, lastPid, monitords, servicesOf, orphans, zombies>>

NoPid == 0
Orphan == 0
Pids == 1 .. MaxRestarts + 1
Devices == {"partition", "rootfs"}

diskVars == <<dataDev, dataEtc, toCopy>>
procVars == <<lastPid, monitords, servicesOf, orphans, zombies>>

InisInit ==
  /\ inisPc = "mount"
  /\ powerLosses = 0
  /\ dataDev = "rootfs"
  /\ dataEtc = [d \in Devices |-> [f \in ConfigFiles |-> "absent"]]
  /\ toCopy = {}
  /\ monitordPid = NoPid
  /\ restartCount = 0
  /\ lastPid = 0
  /\ monitords = {}
  /\ servicesOf = [p \in Pids |-> 0]
  /\ orphans = 0
  /\ zombies = {}

----------------------------------------------------------------------------
(* Booting.                                                                *)

(* Fault: the files are copied at every boot.                               *)
FirstBootAlways(d) == TRUE

(* /data/etc/uos is empty.                                                  *)
FirstBoot(d) == \A f \in ConfigFiles : dataEtc[d][f] = "absent"

(* The first partition that exists and mounts becomes /data, else it is a   *)
(* directory of the root file system.                                       *)
MountData(d) ==
  /\ inisPc = "mount"
  /\ inisPc' = "seed"
  /\ dataDev' = d
  /\ toCopy' = IF FirstBoot(d) THEN ConfigFiles ELSE {}
  /\ UNCHANGED <<powerLosses, dataEtc, monitordPid, restartCount, procVars>>

(* One file is copied; a failure is ignored.                                *)
CopyConfig(f) ==
  /\ inisPc = "seed"
  /\ f \in toCopy
  /\ toCopy' = toCopy \ {f}
  /\ dataEtc' \in {dataEtc, [dataEtc EXCEPT ![dataDev][f] = "preseed"]}
  /\ UNCHANGED <<inisPc, powerLosses, dataDev, monitordPid, restartCount,
                 procVars>>

Seeded ==
  /\ inisPc = "seed"
  /\ toCopy = {}
  /\ inisPc' = "spawn"
  /\ UNCHANGED <<powerLosses, diskVars, monitordPid, restartCount, procVars>>

(* spawn_monitord forks; the child is a monitord (or, where the binary is   *)
(* missing, a shell in its place).                                          *)
Spawn ==
  /\ lastPid' = lastPid + 1
  /\ monitords' = monitords \cup {lastPid + 1}
  /\ UNCHANGED <<servicesOf, orphans, zombies>>

(* main() starts monitord and drops its pid.                                *)
SpawnFirst ==
  /\ inisPc = "spawn"
  /\ inisPc' = "harden"
  /\ Spawn
  /\ UNCHANGED <<powerLosses, diskVars, monitordPid, restartCount>>

(* Nothing runs any more.                                                   *)
AllEnds ==
  /\ lastPid' = 0
  /\ monitords' = {}
  /\ servicesOf' = [p \in Pids |-> 0]
  /\ orphans' = 0
  /\ zombies' = {}

(* fork fails: PID 1 exits, and the kernel panics.                          *)
SpawnFails ==
  /\ \/ inisPc = "spawn"
     \/ inisPc = "loop" /\ monitordPid = NoPid /\ restartCount < MaxRestarts
  /\ inisPc' = "panic"
  /\ AllEnds
  /\ UNCHANGED <<powerLosses, diskVars, monitordPid, restartCount>>

(* The file systems are hardened and main_loop ignores all signals.         *)
Harden ==
  /\ inisPc = "harden"
  /\ inisPc' = "loop"
  /\ UNCHANGED <<powerLosses, diskVars, monitordPid, restartCount, procVars>>

----------------------------------------------------------------------------
(* main_loop.                                                              *)

Respawn ==
  /\ inisPc = "loop"
  /\ monitordPid = NoPid
  /\ restartCount < MaxRestarts
  /\ restartCount' = restartCount + 1
  /\ monitordPid' = lastPid + 1
  /\ Spawn
  /\ UNCHANGED <<inisPc, powerLosses, diskVars>>

GiveUp ==
  /\ inisPc = "loop"
  /\ monitordPid = NoPid
  /\ restartCount >= MaxRestarts
  /\ inisPc' = "shell"
  /\ UNCHANGED <<powerLosses, diskVars, monitordPid, restartCount, procVars>>

(* Fault: any child that is reaped counts as monitord.                      *)
ReapAny(z) ==
  /\ inisPc = "loop"
  /\ monitordPid # NoPid
  /\ z \in zombies
  /\ zombies' = zombies \ {z}
  /\ monitordPid' = NoPid
  /\ UNCHANGED <<inisPc, powerLosses, diskVars, restartCount, lastPid,
                 monitords, servicesOf, orphans>>

(* waitpid returns an exited child.                                         *)
Reap(z) ==
  /\ inisPc = "loop"
  /\ monitordPid # NoPid
  /\ z \in zombies
  /\ zombies' = zombies \ {z}
  /\ monitordPid' = IF z = monitordPid THEN NoPid ELSE monitordPid
  /\ UNCHANGED <<inisPc, powerLosses, diskVars, restartCount, lastPid,
                 monitords, servicesOf, orphans>>

(* Fault: ECHILD is treated like any other error.                           *)
NoChildrenIgnored ==
  /\ inisPc = "loop"
  /\ monitordPid # NoPid
  /\ zombies = {} /\ monitords = {} /\ orphans = 0
  /\ UNCHANGED inisVars

(* waitpid fails with ECHILD.  While children run and none has exited it    *)
(* returns 0 and nothing changes.                                           *)
NoChildren ==
  /\ inisPc = "loop"
  /\ monitordPid # NoPid
  /\ zombies = {} /\ monitords = {} /\ orphans = 0
  /\ monitordPid' = NoPid
  /\ UNCHANGED <<inisPc, powerLosses, diskVars, restartCount, procVars>>

----------------------------------------------------------------------------
(* The processes, the user and the power supply.                            *)

(* A child of inis has exited: a zombie before SIGCHLD is ignored.          *)
Exited(z) == zombies' = IF inisPc = "harden" THEN zombies \cup {z} ELSE zombies

ServiceStarts(m) ==
  /\ m \in monitords
  /\ servicesOf[m] < MaxServices
  /\ servicesOf' = [servicesOf EXCEPT ![m] = @ + 1]
  /\ UNCHANGED <<inisPc, powerLosses, diskVars, monitordPid, restartCount,
                 lastPid, monitords, orphans, zombies>>

(* A monitord exits; its services become children of inis.                  *)
MonitordExits(m) ==
  /\ m \in monitords
  /\ monitords' = monitords \ {m}
  /\ orphans' = orphans + servicesOf[m]
  /\ servicesOf' = [servicesOf EXCEPT ![m] = 0]
  /\ Exited(m)
  /\ UNCHANGED <<inisPc, powerLosses, diskVars, monitordPid, restartCount,
                 lastPid>>

OrphanExits ==
  /\ orphans > 0
  /\ orphans' = orphans - 1
  /\ Exited(Orphan)
  /\ UNCHANGED <<inisPc, powerLosses, diskVars, monitordPid, restartCount,
                 lastPid, monitords, servicesOf>>

(* A daemon or the user changes a configuration file that is there.         *)
EditConfig(f) ==
  /\ monitords # {}
  /\ dataEtc[dataDev][f] = "preseed"
  /\ dataEtc' = [dataEtc EXCEPT ![dataDev][f] = "edited"]
  /\ UNCHANGED <<inisPc, powerLosses, dataDev, toCopy, monitordPid,
                 restartCount, procVars>>

PowerLoss ==
  /\ powerLosses < MaxPowerLosses
  /\ powerLosses' = powerLosses + 1
  /\ inisPc' = "mount"
  /\ toCopy' = {}
  /\ monitordPid' = NoPid
  /\ restartCount' = 0
  /\ AllEnds
  /\ UNCHANGED <<dataDev, dataEtc>>

----------------------------------------------------------------------------
InisStep ==
  \/ \E d \in Devices : MountData(d)
  \/ \E f \in ConfigFiles : CopyConfig(f)
  \/ Seeded \/ SpawnFirst \/ Harden
  \/ Respawn \/ GiveUp
  \/ \E z \in zombies : Reap(z)
  \/ NoChildren

InisNext ==
  \/ InisStep
  \/ SpawnFails
  \/ \E m \in monitords : ServiceStarts(m) \/ MonitordExits(m)
  \/ OrphanExits
  \/ \E f \in ConfigFiles : EditConfig(f)
  \/ PowerLoss

InisSpec == InisInit /\ [][InisNext]_inisVars

(* PID 1 is always scheduled again.                                         *)
InisFairSpec == InisSpec /\ WF_inisVars(InisStep)

----------------------------------------------------------------------------
(* Properties.                                                             *)

(* Although main() forgets its monitord and main_loop starts another, there *)
(* are never more than two at a time: as exits go unreported, a restart     *)
(* happens only when no child is left at all.                               *)
AtMostTwoMonitords == Cardinality(monitords) <= 2

(* A configuration file that was changed on the device is never replaced    *)
(* by the preseeded one, whatever boots, crashes and mounts follow.         *)
ConfigKept ==
  [][\A d \in Devices, f \in ConfigFiles :
       dataEtc[d][f] = "edited" => dataEtc'[d][f] = "edited"]_inisVars

(* When the last child has gone, PID 1 starts a monitord again or gives up. *)
MonitordComesBack ==
  (inisPc = "loop" /\ monitords = {} /\ orphans = 0)
     ~> (monitords # {} \/ inisPc # "loop")

(* "Restart monitord if it died" (main.rs:392): when no monitord runs, one  *)
(* is started again, or inis gives up.                                      *)
MonitordRestarted ==
  (inisPc = "loop" /\ monitords = {}) ~> (monitords # {} \/ inisPc # "loop")
=============================================================================
