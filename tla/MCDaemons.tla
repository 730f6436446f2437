----------------------------- MODULE MCDaemons -----------------------------
(* The units that run by themselves, for TLC: a behaviour is one of the     *)
(* unit that the initial state names, and the others rest.  Their state     *)
(* spaces are added, not multiplied.                                        *)
EXTENDS DependencyGraph, Inis, Notifd, Logd, Audiod, Inputd, Pkgd, Netmd,
        BusClient, LunaBus

VARIABLE unit

Units == {"graph", "inis", "notifd", "logd", "audiod", "inputd", "pkgd",
          "netmd", "client", "luna"}

allVars == <<unit, graphVars, inisVars, notifVars, logVars, audioVars,
             inputVars, pkgVars, netVars, clientVars, lunaVars>>

MCInit ==
  /\ unit \in Units
  /\ GraphInit /\ (unit # "graph" => deps = [s \in Services |-> {}])
  /\ InisInit /\ NotifdInit /\ LogdInit /\ AudiodInit /\ InputdInit
  /\ PkgdInit /\ (unit # "pkgd" => pkgFile = Unreadable)
  /\ NetmdInit /\ BusClientInit /\ LunaBusInit

(* The state of the daemons and of the bus clients.                        *)
daemonVars == <<notifVars, logVars, audioVars, inputVars, pkgVars, netVars,
                clientVars, lunaVars>>

MCGraph(A) == unit = "graph" /\ A /\ UNCHANGED <<unit, inisVars, daemonVars>>
MCInis(A) == unit = "inis" /\ A /\ UNCHANGED <<unit, graphVars, daemonVars>>

Resting == UNCHANGED <<unit, graphVars, inisVars>>
MCNotifd(A) ==
  /\ unit = "notifd" /\ A /\ Resting
  /\ UNCHANGED <<logVars, audioVars, inputVars, pkgVars, netVars,
                 clientVars, lunaVars>>
MCLogd(A) ==
  /\ unit = "logd" /\ A /\ Resting
  /\ UNCHANGED <<notifVars, audioVars, inputVars, pkgVars, netVars,
                 clientVars, lunaVars>>
MCAudiod(A) ==
  /\ unit = "audiod" /\ A /\ Resting
  /\ UNCHANGED <<notifVars, logVars, inputVars, pkgVars, netVars,
                 clientVars, lunaVars>>
MCInputd(A) ==
  /\ unit = "inputd" /\ A /\ Resting
  /\ UNCHANGED <<notifVars, logVars, audioVars, pkgVars, netVars,
                 clientVars, lunaVars>>
MCPkgd(A) ==
  /\ unit = "pkgd" /\ A /\ Resting
  /\ UNCHANGED <<notifVars, logVars, audioVars, inputVars, netVars,
                 clientVars, lunaVars>>
MCNetmd(A) ==
  /\ unit = "netmd" /\ A /\ Resting
  /\ UNCHANGED <<notifVars, logVars, audioVars, inputVars, pkgVars,
                 clientVars, lunaVars>>
MCClient(A) ==
  /\ unit = "client" /\ A /\ Resting
  /\ UNCHANGED <<notifVars, logVars, audioVars, inputVars, pkgVars,
                 netVars, lunaVars>>
MCLuna(A) ==
  /\ unit = "luna" /\ A /\ Resting
  /\ UNCHANGED <<notifVars, logVars, audioVars, inputVars, pkgVars,
                 netVars, clientVars>>

MCNext ==
  \/ MCGraph(GraphNext) \/ MCInis(InisNext)
  \/ MCNotifd(NotifdNext) \/ MCLogd(LogdNext) \/ MCAudiod(AudiodNext)
  \/ MCInputd(InputdNext) \/ MCPkgd(PkgdNext) \/ MCNetmd(NetmdNext)
  \/ MCClient(BusClientNext) \/ MCLuna(LunaBusNext)

(* The fairness of the units, each of its own part of the state.            *)
MCFairness ==
  /\ WF_graphVars(unit = "graph" /\ GraphNext)
  /\ WF_inisVars(unit = "inis" /\ InisStep)
  /\ WF_notifVars(unit = "notifd" /\ NotifdStep)
  /\ WF_audioVars(unit = "audiod" /\ PublishMinutely)
  /\ \A status \in AudioStatuses :
       WF_audioVars(unit = "audiod" /\ SendStatus(status))
  /\ WF_netVars(unit = "netmd" /\ NetmdStep)
  /\ SF_netVars(unit = "netmd" /\ NetTick)
  /\ WF_netVars(unit = "netmd" /\ SendNetStatus(1))

MCSpec == MCInit /\ [][MCNext]_allVars /\ MCFairness

----------------------------------------------------------------------------
(* The properties that a unit at rest in its initial state does not have.   *)

(* The construction of the dependency graph (graph.rs) ends, whatever the   *)
(* graph.                                                                   *)
MCTerminates == unit = "graph" => Terminates

(* audiod: the volume shown converges to the volume (Audiod).               *)
MCStatusConverges == unit = "audiod" => StatusConverges

(* netmd: the status published converges to what sysfs shows (Netmd).       *)
MCNetStatusSettles == unit = "netmd" => NetStatusSettles
=============================================================================
