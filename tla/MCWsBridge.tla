----------------------------- MODULE MCWsBridge -----------------------------
(* The broker with the WebSocket bridge, for TLC.                           *)
EXTENDS WsBridge

(* One topic, matched by its own name.                                      *)
MCMatching == {<<"net.status", "net.status">>}
=============================================================================
