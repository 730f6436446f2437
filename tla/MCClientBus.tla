---------------------------- MODULE MCClientBus ----------------------------
(* Two clients, one topic and one message on the broker, for TLC.           *)
EXTENDS ClientBus

MCMatching == {<<"test.topic", "test.topic">>}
MCPatterns == {"test.topic", Quoted("test.topic")}
=============================================================================
