------------------------------- MODULE Netmd -------------------------------
(***************************************************************************)
(* netmd (crates/netmd/src/main.rs, state.rs, wifi.rs): every five seconds  *)
(* the interfaces are read from sysfs, file by file while they change, and  *)
(* a status is published only when something differs from the last time.    *)
(* Requests are handled by the same task: while a scan waits three seconds  *)
(* for its results, nothing is read.  Every publication is handed to a task *)
(* of its own, so that publications may overtake one another.               *)
(***************************************************************************)
EXTENDS Naturals, Sequences

Seqs == INSTANCE SequencesExt

CONSTANTS
  NetIfaces,      \* names of interfaces
  LoopbackIfaces, \* "lo"
  WifiIfaces,     \* names a wireless device may have
  MaxNetChanges,  \* bound: changes of the interfaces
  MaxNetOut       \* bound: statuses on their way at the same time

ASSUME NetmdAssumption ==
  /\ MaxNetChanges \in Nat /\ MaxNetOut \in Nat
  /\ LoopbackIfaces \subseteq NetIfaces /\ WifiIfaces \subseteq NetIfaces

VARIABLES
  sysNet,      \* /sys/class/net: interface -> what its files say
  netChanges,  \* changes of sysNet so far
  netPc,       \* "start", "wait", "detect", "flag", "carrier", "ip" or
               \* "scan"
  netSeen,     \* the interfaces the directory listed
  netTodo,     \* those still to be read
  netCur,      \* the interface that is being read, as read so far
  netRecorded, \* self.interfaces (a partial function)
  netInternet, \* internet_available
  netChanged,  \* changed
  netMade,     \* the status that was handed to a spawned task last
  netOut,      \* the statuses whose tasks have not yet sent them, in the
               \* order in which they were handed over
  netLast      \* the status that was sent last

stateVars == <<netSeen, netTodo, netCur, netRecorded, netInternet, netChanged>>
pubVars == <<netMade, netOut, netLast>>
netVars == <<sysNet, netChanges, netPc, stateVars, pubVars>>

Absent == [there |-> FALSE, wifi |-> FALSE, up |-> FALSE, carrier |-> FALSE]
(* An interface that is up has a carrier, and the loopback does not go.     *)
SysStates(i) ==
  {s \in [there : BOOLEAN, wifi : {FALSE, (i \in WifiIfaces)}, up : BOOLEAN,
          carrier : BOOLEAN] :
     /\ s.up => s.carrier
     /\ ~s.there => s = Absent /\ i \notin LoopbackIfaces}
NoIface == ""
NoCur == [name |-> NoIface, iftype |-> "Loopback", up |-> FALSE,
          connected |-> FALSE]

(* publish_state: what is published.                                        *)
NetStatus(ifaces, iface, internet) ==
  [interfaces |-> ifaces, active |-> iface, internet |-> internet]

NetmdInit ==
  /\ sysNet = [i \in NetIfaces |-> [Absent EXCEPT !.there = TRUE]]
  /\ netChanges = 0
  /\ netPc = "start"
  /\ netSeen = {} /\ netTodo = {}
  /\ netCur = NoCur
  /\ netRecorded = [i \in {} |-> NoCur]
  /\ netInternet = FALSE
  /\ netChanged = FALSE
  /\ netMade = NetStatus(netRecorded, NoIface, TRUE)   \* nothing published
  /\ netOut = <<>>
  /\ netLast = netMade

----------------------------------------------------------------------------
(* detect_interfaces.                                                      *)

(* read_dir.  The first detection is made before the loop, and its status   *)
(* is published in any case; the timer's first tick follows at once.        *)
NetTick ==
  /\ netPc \in {"start", "wait"}
  /\ netPc' = "detect"
  /\ netSeen' = {i \in NetIfaces : sysNet[i].there}
  /\ netTodo' = netSeen'
  /\ netChanged' = (netPc = "start")
  /\ UNCHANGED <<sysNet, netChanges, netCur, netRecorded, netInternet, pubVars>>

(* detect_iftype_linux: the loopback by its name, WiFi by the directory of  *)
(* a wireless device, Ethernet otherwise, also when the interface has gone. *)
IfType(i) ==
  IF i \in LoopbackIfaces THEN "Loopback"
  ELSE IF sysNet[i].wifi THEN "WiFi" ELSE "Ethernet"

ReadType(i) ==
  /\ netPc = "detect"
  /\ i \in netTodo
  /\ netTodo' = netTodo \ {i}
  /\ netCur' = [name |-> i, iftype |-> IfType(i), up |-> FALSE,
                connected |-> FALSE]
  /\ netPc' = "flag"
  /\ UNCHANGED <<sysNet, netChanges, netSeen, netRecorded, netInternet,
                 netChanged, pubVars>>

(* operstate; a file that is gone reads as false.                           *)
ReadFlag ==
  /\ netPc = "flag"
  /\ netCur' = [netCur EXCEPT !.up = sysNet[netCur.name].up]
  /\ netPc' = "carrier"
  /\ UNCHANGED <<sysNet, netChanges, netSeen, netTodo, netRecorded, netInternet,
                 netChanged, pubVars>>

ReadCarrier ==
  /\ netPc = "carrier"
  /\ netCur' = [netCur EXCEPT !.connected = sysNet[netCur.name].carrier]
  /\ netPc' = "ip"
  /\ UNCHANGED <<sysNet, netChanges, netSeen, netTodo, netRecorded, netInternet,
                 netChanged, pubVars>>

(* Fault: only the carrier and the address are compared.                    *)
SameAddress(a, b) == a.connected = b.connected /\ a.ip = b.ip

(* The fields that are compared: the type is not among them.                *)
Same(a, b) == a.connected = b.connected /\ a.ip = b.ip /\ a.up = b.up

(* detect_ip_linux reads operstate once more: an address for one that is    *)
(* up.  What was read is recorded, and a difference is a change.            *)
ReadIp ==
  /\ netPc = "ip"
  /\ LET i == netCur.name
         new == [iftype |-> netCur.iftype, up |-> netCur.up,
                 connected |-> netCur.connected, ip |-> sysNet[i].up]
     IN /\ netChanged' = \/ netChanged
                         \/ i \notin DOMAIN netRecorded
                         \/ ~Same(netRecorded[i], new)
        /\ netRecorded' = [j \in DOMAIN netRecorded \cup {i} |->
                             IF j = i THEN new ELSE netRecorded[j]]
  /\ netCur' = NoCur
  /\ netPc' = "detect"
  /\ UNCHANGED <<sysNet, netChanges, netSeen, netTodo, netInternet, pubVars>>

(* Interfaces with a carrier, the loopback left out.                        *)
Online(ifaces) ==
  {i \in DOMAIN ifaces : ifaces[i].connected /\ ifaces[i].iftype # "Loopback"}

(* active_interface: the first in the order of a HashMap.                   *)
ActiveIn(ifaces) ==
  IF Online(ifaces) = {} THEN {NoIface} ELSE Online(ifaces)

(* Fault: an interface that has gone is not a change.                       *)
GoneUnnoticed(kept) == FALSE

(* Interfaces that have gone are removed, and that is a change.             *)
Gone(kept) == DOMAIN netRecorded # kept

(* publish_state: the status is made, and handed to a task of its own.      *)
PublishState(ifaces, internet) ==
  \E a \in ActiveIn(ifaces) :
    /\ Len(netOut) < MaxNetOut
    /\ netMade' = NetStatus(ifaces, a, internet)
    /\ netOut' = Append(netOut, netMade')
    /\ UNCHANGED netLast

(* The end of a detection: its local variables are given up.                *)
NetDetected ==
  /\ netPc = "detect"
  /\ netTodo = {}
  /\ LET kept == DOMAIN netRecorded \cap netSeen
         ifaces == [i \in kept |-> netRecorded[i]]
         internet == Online(ifaces) # {}
     IN /\ netRecorded' = ifaces
        /\ netInternet' = internet
        /\ IF netChanged \/ Gone(kept) \/ netInternet # internet
           THEN PublishState(ifaces, internet)
           ELSE UNCHANGED pubVars
  /\ netPc' = "wait"
  /\ netSeen' = {}
  /\ netChanged' = FALSE
  /\ UNCHANGED <<sysNet, netChanges, netTodo, netCur>>

(* One of the spawned tasks sends its status.                               *)
SendNetStatus(i) ==
  /\ i \in DOMAIN netOut
  /\ netLast' = netOut[i]
  /\ netOut' = Seqs!RemoveAt(netOut, i)
  /\ UNCHANGED <<sysNet, netChanges, netPc, stateVars, netMade>>

----------------------------------------------------------------------------
(* handle_rpc.  A status request and a connect request, which is not        *)
(* implemented, change nothing.                                             *)

ScanBegins ==
  /\ netPc = "wait"
  /\ netPc' = "scan"
  /\ UNCHANGED <<sysNet, netChanges, stateVars, pubVars>>

(* The results are published; the state is left alone.                      *)
ScanEnds ==
  /\ netPc = "scan"
  /\ netPc' = "wait"
  /\ UNCHANGED <<sysNet, netChanges, stateVars, pubVars>>

SysChange(i, s) ==
  /\ netChanges < MaxNetChanges
  /\ netChanges' = netChanges + 1
  /\ sysNet' = [sysNet EXCEPT ![i] = s]

(* wpa_cli takes the interface off its network.                             *)
Disconnect(i) ==
  /\ netPc = "wait"
  /\ sysNet[i].carrier
  /\ SysChange(i, [sysNet[i] EXCEPT !.carrier = FALSE])
  /\ UNCHANGED <<netPc, stateVars, pubVars>>

(* Cables, drivers and access points, at any moment.                        *)
IfaceChanges(i, s) ==
  /\ s # sysNet[i]
  /\ SysChange(i, s)
  /\ UNCHANGED <<netPc, stateVars, pubVars>>

----------------------------------------------------------------------------
NetmdStep ==
  \/ \E i \in NetIfaces : ReadType(i)
  \/ ReadFlag \/ ReadCarrier \/ ReadIp \/ NetDetected \/ ScanEnds

NetmdNext ==
  \/ NetTick \/ NetmdStep \/ ScanBegins
  \/ \E i \in DOMAIN netOut : SendNetStatus(i)
  \/ \E i \in WifiIfaces : Disconnect(i)
  \/ \E i \in NetIfaces : \E s \in SysStates(i) : IfaceChanges(i, s)

NetmdSpec == NetmdInit /\ [][NetmdNext]_netVars

(* The task runs on, select!, which picks at random, does not pass over the *)
(* timer for ever, and every spawned task runs: the eldest of them stays    *)
(* the first of netOut until it has.                                        *)
NetmdFairness ==
  WF_netVars(NetmdStep) /\ SF_netVars(NetTick) /\ WF_netVars(SendNetStatus(1))
NetmdFairSpec == NetmdSpec /\ NetmdFairness

----------------------------------------------------------------------------
(* Properties.                                                             *)

(* What is said of an interface but for its type.                           *)
Link(iface) == <<iface.up, iface.connected, iface.ip>>

(* A status tells what the interfaces ifaces are, but for the types, which  *)
(* may be those of an earlier detection.                                    *)
Tells(status, ifaces) ==
  /\ DOMAIN status.interfaces = DOMAIN ifaces
  /\ \A i \in DOMAIN ifaces : Link(status.interfaces[i]) = Link(ifaces[i])
  /\ status.active \in ActiveIn(ifaces)
  /\ status.internet = (Online(ifaces) # {})

(* Between two detections the status made last tells what is recorded: an   *)
(* interface that appears, goes, or changes while its files are read, in a  *)
(* detection that a scan delayed too, is never recorded and not published   *)
(* (detect_interfaces compares field by field as it records).               *)
PublishedIsRecorded == netPc \in {"wait", "scan"} => Tells(netMade, netRecorded)

(* What sysfs shows, as netmd would record it.                              *)
SysView ==
  [i \in {j \in NetIfaces : sysNet[j].there} |->
     [iftype |-> IfType(i), up |-> sysNet[i].up,
      connected |-> sysNet[i].carrier, ip |-> sysNet[i].up]]

(* When the interfaces come to rest, the last status made is, and stays,    *)
(* the true one, and it is sent: also when they changed between two reads   *)
(* of one detection or during a scan, no change goes unnoticed for good.    *)
(* It is also the one that was sent last if no two statuses are ever on     *)
(* their way together; if two are, the older may arrive last, and           *)
(* publish_state, called on changes only, does not repair that.             *)
NetStatusSettles ==
  /\ <>[](Tells(netMade, SysView) /\ netOut = <<>>)
  /\ [](Len(netOut) <= 1) => <>[]Tells(netLast, SysView)
=============================================================================
