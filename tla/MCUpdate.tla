------------------------------ MODULE MCUpdate ------------------------------
(* The three parts of an update, for TLC: otad with RAUC, the chunk store,  *)
(* and the bundle verifier, which do not call one another.  A behaviour is  *)
(* one of the unit that the initial state names, and the others rest.       *)
EXTENDS Ota, Casync, UpdateVerify

VARIABLE unit

updateVars == <<unit, otaVars, casVars, uvVars>>

(* Versions of several lengths, above 9, and with suffixes and words in     *)
(* several places.                                                          *)
N(n) == [num |-> n, pure |-> TRUE]
Suffixed(n) == [num |-> n, pure |-> FALSE]
Word == Suffixed(0)
MCVersionNames == {<<N(1)>>, <<N(1), N(2)>>, <<N(2), N(0)>>, <<N(10), N(0)>>,
                   <<N(1), N(2), N(1)>>, <<N(2), Suffixed(1)>>,
                   <<N(2), N(0), Suffixed(1)>>, <<N(1), Word, N(1)>>}

(* A gear table for two bytes.                                              *)
MCGear == [b \in {0, 1} |-> IF b = 0 THEN 3 ELSE 2]

MCInit ==
  /\ unit \in {"ota", "casync", "verify"}
  /\ OtaInit
  /\ CasyncInit
  /\ VerifyInit /\ (unit # "verify" => uvCurrent = Unversioned)

MCOta(A) == unit = "ota" /\ A /\ UNCHANGED <<unit, casVars, uvVars>>
MCCasync(A) == unit = "casync" /\ A /\ UNCHANGED <<unit, otaVars, uvVars>>
MCVerify(A) == unit = "verify" /\ A /\ UNCHANGED <<unit, otaVars, casVars>>

MCNext == MCOta(OtaNext) \/ MCCasync(CasyncNext) \/ MCVerify(VerifyNext)

(* OtaFairness, of otad's part of the state.                                *)
MCFairness ==
  /\ WF_otaVars(unit = "ota" /\ Orchestrate)
  /\ WF_otaVars(unit = "ota" /\ QueryNone)
  /\ SF_otaVars(unit = "ota" /\ QueryOffer)
  /\ SF_otaVars(unit = "ota" /\ DownloadBody("200"))
  /\ SF_otaVars(unit = "ota" /\ DownloadBody("206"))
  /\ SF_otaVars(unit = "ota" /\ otaPc = "fetch" /\ File \in {"whole", "stale"}
                  /\ DownloadSkipped)

MCSpec == MCInit /\ [][MCNext]_updateVars /\ MCFairness
=============================================================================
