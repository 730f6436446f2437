------------------------------ MODULE MCBroker ------------------------------
(* The broker with callers of BrokerHandle left open, for TLC.              *)
EXTENDS Broker

(* One topic, matched by its own name.                                      *)
MCMatching == {<<"net.status", "net.status">>}
=============================================================================
