---------------------------- MODULE MCSupervisor ----------------------------
(* Four services after the shipped manifests (configs/services.d), for TLC: *)
(* the broker, the one-shot WiFi loader, the network manager, which depends *)
(* on both, and an on-failure service with a TCP check.  max_crash_count is *)
(* scaled down to 1.                                                        *)
EXTENDS Supervisor

MCServices == {"stardust", "wifid", "netmd", "pkgd"}
MCOrder == <<"stardust", "wifid", "pkgd", "netmd">>
MCDeps == [stardust |-> {}, wifid |-> {}, netmd |-> {"stardust", "wifid"},
           pkgd |-> {"stardust"}]
MCPolicy == [stardust |-> "always", wifid |-> "never", netmd |-> "always",
             pkgd |-> "on-failure"]
MCHealth == [stardust |-> "bus", wifid |-> "none", netmd |-> "process",
             pkgd |-> "tcp"]
MCMaxCrash == [s \in MCServices |-> 1]

(* The first three of them.                                                 *)
SmallServices == {"stardust", "wifid", "netmd"}
SmallOrder == <<"stardust", "wifid", "netmd">>
SmallDeps == [s \in SmallServices |-> MCDeps[s]]
SmallPolicy == [s \in SmallServices |-> MCPolicy[s]]
SmallHealth == [s \in SmallServices |-> IF s = "wifid" THEN "none" ELSE "bus"]
SmallMaxCrash == [s \in SmallServices |-> 1]
=============================================================================
