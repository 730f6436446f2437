---------------------------- MODULE UpdateVerify ----------------------------
(***************************************************************************)
(* update-verify (crates/update-verify/src/lib.rs): verify_bundle, applied  *)
(* to one offered bundle after the other by a device that installs what     *)
(* it accepts.                                                              *)
(*                                                                         *)
(* A version is the sequence of its parts, "10.2-rc1" of 10 and 2-rc1: a    *)
(* part is the number it begins with (0 if with none), and whether it is    *)
(* that number and nothing else.                                            *)
(***************************************************************************)
EXTENDS Integers, Sequences

CONSTANTS
  VersionNames,  \* the versions bundles have
  SigningKeys,   \* keys bundles are signed with
  TrustedKeys,   \* the verifier's keys: new and add_key
  DeviceNames,   \* devices bundles are made for
  AllowedDevices,\* set_allowed_devices; empty allows every device
  MaxAge,        \* max_age_secs
  MaxTime        \* bound: the clock

VersionPart == [num : Nat, pure : BOOLEAN]
Versions == Seq(VersionPart) \ {<<>>}
Unversioned == <<>>  \* current_version is None

ASSUME UpdateVerifyAssumption ==
  /\ MaxAge \in Nat /\ MaxTime \in Nat
  /\ VersionNames \subseteq Versions

VARIABLES
  uvNow,      \* the clock
  uvCurrent,  \* the version installed, if it is known
  uvPast      \* the versions installed before

uvVars == <<uvNow, uvCurrent, uvPast>>

(* The parts that are numbers; filter_map drops the others whole.           *)
Parse(v) ==
  LET numbers[i \in 0 .. Len(v)] ==
        IF i = 0 THEN <<>>
        ELSE IF v[i].pure THEN Append(numbers[i - 1], v[i].num)
        ELSE numbers[i - 1]
  IN numbers[Len(v)]

(* get(i).unwrap_or(0)                                                      *)
Part(p, i) == IF i <= Len(p) THEN p[i] ELSE 0

(* Fault: parts that only one of the two has are not compared.             *)
is_downgradeShorter(current, newer) ==
  LET c == Parse(current)
      n == Parse(newer)
  IN /\ c # <<>> /\ n # <<>>
     /\ \E i \in (1 .. Len(c)) \cap (1 .. Len(n)) :
          /\ Part(n, i) < Part(c, i)
          /\ \A j \in 1 .. i - 1 : Part(n, j) = Part(c, j)

(* The first part that differs decides.                                     *)
is_downgrade(current, newer) ==
  LET c == Parse(current)
      n == Parse(newer)
  IN /\ c # <<>> /\ n # <<>>
     /\ \E i \in 1 .. Len(c) + Len(n) :
          /\ Part(n, i) < Part(c, i)
          /\ \A j \in 1 .. i - 1 : Part(n, j) = Part(c, j)

(* verify_bundle accepts: signature, device, version, age, in this order.   *)
Accepts(key, device, version, timestamp) ==
  /\ key \in TrustedKeys
  /\ AllowedDevices # {} => device \in AllowedDevices
  /\ uvCurrent # Unversioned => ~is_downgrade(uvCurrent, version)
  /\ ~(timestamp + MaxAge < uvNow)

VerifyInit ==
  /\ uvNow = 0
  /\ uvCurrent \in VersionNames \cup {Unversioned}
  /\ uvPast = {}

(* A bundle is offered, accepted and installed; one that is refused changes *)
(* nothing.                                                                 *)
Update(key, device, version, timestamp) ==
  /\ Accepts(key, device, version, timestamp)
  /\ uvPast' = uvPast \cup ({uvCurrent} \ {Unversioned})
  /\ uvCurrent' = version
  /\ UNCHANGED uvNow

ClockTick ==
  /\ uvNow < MaxTime
  /\ uvNow' = uvNow + 1
  /\ UNCHANGED <<uvCurrent, uvPast>>

VerifyNext ==
  \/ \E key \in SigningKeys, device \in DeviceNames, version \in VersionNames,
        timestamp \in 0 .. MaxTime : Update(key, device, version, timestamp)
  \/ ClockTick

VerifySpec == VerifyInit /\ [][VerifyNext]_uvVars

----------------------------------------------------------------------------
(* Properties.                                                             *)

(* The order of releases: the first number that differs decides, and a part *)
(* that is not there counts as 0.                                           *)
Number(v, i) == IF i <= Len(v) THEN v[i].num ELSE 0
Below(v, w) ==
  \E i \in 1 .. Len(v) + Len(w) :
    /\ Number(v, i) < Number(w, i)
    /\ \A j \in 1 .. i - 1 : Number(v, j) = Number(w, j)

(* A release is numbers only; a pre-release may end in something else.      *)
Release(v) == \A i \in DOMAIN v : v[i].pure
PreRelease(v) == \A i \in 1 .. Len(v) - 1 : v[i].pure

(* Over any sequence of updates, with any versions in between, the device   *)
(* never comes below a release it has had, be it to a release or to a       *)
(* pre-release whose suffix is in its last part: the check of an offer      *)
(* against the installed version alone, which drops parts, is enough for    *)
(* these.  (It needs every version to have a part that is a number: one     *)
(* without any is never a downgrade, and nothing is a downgrade from it.)   *)
(* From a pre-release the device may come below it: 2.0.0 is accepted after *)
(* 2.0.1-alpha, which counts as 2.0.                                        *)
NoDowngradeEver ==
  \A v \in uvPast :
    Release(v) /\ PreRelease(uvCurrent) => ~Below(uvCurrent, v)
=============================================================================
