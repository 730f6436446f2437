---------------------------- MODULE UpdateProofs ----------------------------
(***************************************************************************)
(* What is proved of the parts of an update that work on data: the version  *)
(* order of update-verify, and the chunkers and the chunk store of          *)
(* casync-rs, for files, chunk sizes and versions of any length.            *)
(***************************************************************************)
EXTENDS Casync, UpdateVerify, WellFoundedInduction, SequenceTheorems, TLAPS

----------------------------------------------------------------------------
(* Induction over a bounded range, with a set for the induction hypothesis. *)

(* A set of numbers that is not empty has a least one.                      *)
LEMMA LeastNumber ==
  ASSUME NEW S \in SUBSET Nat, S # {}
  PROVE  \E n \in S : \A m \in S : n <= m
<1> DEFINE R == OpToRel(<, Nat)
<1>1. PICK n \in S : \A m \in S : ~ (<<m, n>> \in R)
  <2>1. IsWellFoundedOn(R, Nat)
    BY NatLessThanWellFounded
  <2> HIDE DEF R
  <2> QED BY <2>1, WFMin
<1>2. \A m \in S : n <= m
  <2> SUFFICES ASSUME NEW m \in S PROVE n <= m
    OBVIOUS
  <2>1. ~ (<<m, n>> \in R)
    BY <1>1
  <2>2. <<m, n>> \in R <=> m < n
    BY DEF OpToRel
  <2>3. n \in Nat /\ m \in Nat
    OBVIOUS
  <2> HIDE DEF R
  <2> QED BY <2>1, <2>2, <2>3
<1> QED BY <1>2

(* A set that holds the first number of a range, and with each number the   *)
(* next, holds the range.                                                   *)
LEMMA RangeInduction ==
  ASSUME NEW S, NEW a \in Nat, NEW n \in Nat, a \in S,
         \A i \in a + 1 .. n : i - 1 \in S => i \in S
  PROVE  \A i \in a .. n : i \in S
<1> DEFINE Out == {i \in a .. n : i \notin S}
<1> SUFFICES ASSUME Out # {} PROVE FALSE
  OBVIOUS
<1>1. PICK k \in Out : \A m \in Out : k <= m
  <2>1. Out \in SUBSET Nat
    OBVIOUS
  <2> HIDE DEF Out
  <2> QED BY <2>1, LeastNumber
<1>2. k \in a + 1 .. n
  BY <1>1
<1>3. k - 1 \in a .. n /\ k - 1 < k
  BY <1>2
<1>4. k - 1 \in S
  BY <1>1, <1>3
<1> QED BY <1>1, <1>2, <1>4

(* f begins with base, and step leads from each of its values to the next.  *)
Iterates(f, n, base, step) ==
  f[0] = base /\ \A i \in 1 .. n : f[i] = step[<<i, f[i - 1]>>]

(* A function may be defined by its first value and a step from each value  *)
(* to the next.                                                             *)
LEMMA RecursiveFunction ==
  ASSUME NEW X, NEW n \in Nat, NEW base \in X,
         NEW step \in [(1 .. n) \X X -> X]
  PROVE  \E f \in [0 .. n -> X] : Iterates(f, n, base, step)
<1> DEFINE Good(f, k) ==
             /\ f \in [0 .. k -> X]
             /\ f[0] = base
             /\ \A i \in 1 .. k : f[i] = step[<<i, f[i - 1]>>]
           S == {k \in 0 .. n : \E f : Good(f, k)}
<1>1. 0 \in S
  <2>1. Good([i \in 0 .. 0 |-> base], 0)
    OBVIOUS
  <2>2. 0 \in 0 .. n
    OBVIOUS
  <2> QED BY <2>1, <2>2
<1>2. ASSUME NEW k \in 1 .. n, k - 1 \in S
      PROVE  k \in S
  <2>1. PICK f : Good(f, k - 1)
    BY <1>2
  <2> DEFINE g == [i \in 0 .. k |->
                     IF i = k THEN step[<<k, f[k - 1]>>] ELSE f[i]]
  <2>2. f[k - 1] \in X
    BY <2>1
  <2>3. step[<<k, f[k - 1]>>] \in X
    BY <2>2
  <2>4. g \in [0 .. k -> X] /\ g[0] = base
    BY <2>1, <2>3
  <2>5. ASSUME NEW i \in 1 .. k
        PROVE  g[i] = step[<<i, g[i - 1]>>]
    <3>1. i - 1 \in 0 .. k /\ i - 1 # k /\ i \in 0 .. k
      OBVIOUS
    <3>2. g[i - 1] = f[i - 1]
      BY <3>1
    <3>3. i = k => g[i] = step[<<k, f[k - 1]>>]
      BY <3>1
    <3>4. i # k => i \in 1 .. k - 1 /\ g[i] = f[i]
      BY <3>1
    <3>5. i # k => f[i] = step[<<i, f[i - 1]>>]
      BY <2>1, <3>4
    <3> HIDE DEF g, Good
    <3> QED BY <3>2, <3>3, <3>4, <3>5
  <2>6. Good(g, k)
    BY <2>4, <2>5
  <2>7. k \in 0 .. n
    OBVIOUS
  <2> HIDE DEF g, Good
  <2> QED BY <2>6, <2>7
<1>3. n \in S
  <2> HIDE DEF S
  <2>1. \A i \in 0 + 1 .. n : i - 1 \in S => i \in S
    BY <1>2
  <2>2. n \in 0 .. n
    OBVIOUS
  <2> QED BY <1>1, <2>1, <2>2, RangeInduction
<1> QED BY <1>3 DEF Iterates

----------------------------------------------------------------------------
(* update-verify: versions only go up.                                      *)

(* What a version is made of.                                               *)
LEMMA VersionType ==
  ASSUME NEW v \in Versions
  PROVE  /\ Len(v) \in Nat \ {0}
         /\ \A i \in 1 .. Len(v) : v[i].num \in Nat /\ v[i].pure \in BOOLEAN
<1>1. v \in Seq(VersionPart) /\ v # <<>>
  BY DEF Versions
<1>2. Len(v) \in Nat \ {0}
  BY <1>1, EmptySeq
<1>3. \A i \in 1 .. Len(v) : v[i] \in VersionPart
  BY <1>1
<1> QED BY <1>2, <1>3, Zenon DEF VersionPart

(* f collects the parts of v that are numbers, one part after the other.    *)
Collects(f, v) ==
  /\ f \in [0 .. Len(v) -> Seq(Nat)]
  /\ f[0] = <<>>
  /\ \A i \in 1 .. Len(v) :
       f[i] = IF v[i].pure THEN Append(f[i - 1], v[i].num) ELSE f[i - 1]

(* Parse collects the parts that are numbers.                               *)
LEMMA ParseCollects ==
  ASSUME NEW v \in Versions
  PROVE  \E f : Collects(f, v) /\ Parse(v) = f[Len(v)]
<1> DEFINE n == Len(v)
           Next0(i, s) == IF v[i].pure THEN Append(s, v[i].num) ELSE s
           step == [x \in (1 .. n) \X Seq(Nat) |-> Next0(x[1], x[2])]
           Defines(f) == f = [i \in 0 .. n |->
                                IF i = 0 THEN <<>>
                                ELSE IF v[i].pure THEN Append(f[i - 1], v[i].num)
                                ELSE f[i - 1]]
           numbers == CHOOSE f : Defines(f)
<1>1. n \in Nat /\ \A i \in 1 .. n : v[i].num \in Nat
  BY VersionType
<1>2. \A i \in 1 .. n, s \in Seq(Nat) : Next0(i, s) \in Seq(Nat)
  BY <1>1
<1>3. step \in [(1 .. n) \X Seq(Nat) -> Seq(Nat)]
  BY <1>2
<1>4. \E f : Defines(f)
  <2>1. PICK f \in [0 .. n -> Seq(Nat)] :
          f[0] = <<>> /\ \A i \in 1 .. n : f[i] = step[<<i, f[i - 1]>>]
    <3> DEFINE X == Seq(Nat)
               base == <<>>
    <3>1. n \in Nat /\ base \in X /\ step \in [(1 .. n) \X X -> X]
      BY <1>1, <1>3
    <3> HIDE DEF step, n, X, base
    <3>2. \E f \in [0 .. n -> X] : Iterates(f, n, base, step)
      BY <3>1, RecursiveFunction
    <3> QED BY <3>2 DEF X, base, Iterates
  <2>2. ASSUME NEW i \in 1 .. n
        PROVE  f[i - 1] \in Seq(Nat) /\ f[i] = Next0(i, f[i - 1])
    <3>1. i - 1 \in 0 .. n
      BY <1>1
    <3>2. f[i - 1] \in Seq(Nat)
      BY <2>1, <3>1
    <3>3. f[i] = step[<<i, f[i - 1]>>]
      BY <2>1
    <3> HIDE DEF n
    <3>4. step[<<i, f[i - 1]>>] = Next0(i, f[i - 1])
      BY <3>2
    <3> QED BY <3>2, <3>3, <3>4
  <2>3. ASSUME NEW i \in 0 .. n
        PROVE  f[i] = IF i = 0 THEN <<>>
                      ELSE IF v[i].pure THEN Append(f[i - 1], v[i].num)
                      ELSE f[i - 1]
    <3>1. i # 0 => i \in 1 .. n
      BY <1>1
    <3> HIDE DEF n
    <3> QED BY <2>1, <2>2, <3>1
  <2>4. Defines(f)
    <3>1. f = [i \in 0 .. n |-> f[i]]
      BY <2>1
    <3> HIDE DEF n
    <3> QED BY <2>3, <3>1
  <2> HIDE DEF Defines
  <2> QED BY <2>4
<1>5. Defines(numbers)
  <2> HIDE DEF Defines
  <2> QED BY <1>4
<1>6. Parse(v) = numbers[n]
  BY DEF Parse
<1> DEFINE S == {i \in 0 .. n : numbers[i] \in Seq(Nat)}
<1>7. 0 \in S
  <2>1. 0 \in 0 .. n
    BY <1>1
  <2> HIDE DEF numbers, n
  <2>2. numbers[0] = <<>>
    BY <1>5, <2>1
  <2>3. <<>> \in Seq(Nat)
    OBVIOUS
  <2> QED BY <2>1, <2>2, <2>3
<1>8. \A i \in 1 .. n : i - 1 \in S => i \in S
  <2> HIDE DEF numbers
  <2> SUFFICES ASSUME NEW i \in 1 .. n, numbers[i - 1] \in Seq(Nat)
               PROVE  numbers[i] \in Seq(Nat)
    BY <1>1
  <2>1. i \in 0 .. n /\ i # 0
    BY <1>1
  <2> HIDE DEF n
  <2>2. numbers[i] = Next0(i, numbers[i - 1])
    BY <1>5, <2>1
  <2> QED BY <1>2, <2>1, <2>2
<1>9. \A i \in 0 .. n : i \in S
  <2>1. \A i \in 0 + 1 .. n : i - 1 \in S => i \in S
    BY <1>8
  <2> HIDE DEF S, n
  <2> QED BY <1>1, <1>7, <2>1, RangeInduction
<1>10. Collects(numbers, v)
  <2>1. \A i \in 0 .. n : numbers[i] \in Seq(Nat)
    <3> HIDE DEF numbers, n
    <3> QED BY <1>9
  <2>2. DOMAIN numbers = 0 .. n /\ numbers = [i \in 0 .. n |-> numbers[i]]
    <3> HIDE DEF numbers, n
    <3> QED BY <1>5
  <2>3. numbers \in [0 .. n -> Seq(Nat)]
    <3> HIDE DEF numbers, n
    <3> QED BY <2>1, <2>2
  <2>4. 0 \in 0 .. n /\ \A i \in 1 .. n : i \in 0 .. n /\ i # 0
    BY <1>1
  <2>5. numbers[0] = <<>>
    <3> HIDE DEF numbers, n
    <3> QED BY <1>5, <2>4
  <2>6. \A i \in 1 .. n :
          numbers[i] = IF v[i].pure THEN Append(numbers[i - 1], v[i].num)
                       ELSE numbers[i - 1]
    <3> HIDE DEF numbers, n
    <3> QED BY <1>5, <2>4
  <2> HIDE DEF numbers
  <2> QED BY <2>3, <2>5, <2>6 DEF Collects
<1> HIDE DEF numbers
<1> QED BY <1>6, <1>10

(* The parts of a version that are numbers are a sequence of numbers.       *)
LEMMA ParseType ==
  ASSUME NEW v \in Versions
  PROVE  Parse(v) \in Seq(Nat)
<1>1. PICK f : Collects(f, v) /\ Parse(v) = f[Len(v)]
  BY ParseCollects
<1>2. Len(v) \in 0 .. Len(v)
  BY VersionType
<1> QED BY <1>1, <1>2 DEF Collects

(* Of a pre-release, Parse keeps every part, or every part but the last.    *)
LEMMA ParsePreRelease ==
  ASSUME NEW v \in Versions, PreRelease(v)
  PROVE  \A i \in Nat \ {0} :
           Part(Parse(v), i) =
             IF i <= Len(v) /\ v[i].pure THEN v[i].num ELSE 0
<1>1. PICK f : Collects(f, v) /\ Parse(v) = f[Len(v)]
  BY ParseCollects
<1> DEFINE n == Len(v)
           Holds(s, k) == Len(s) = k /\ \A j \in 1 .. k : s[j] = v[j].num
           S == {k \in 0 .. n - 1 : Holds(f[k], k)}
<1>2. n \in Nat \ {0} /\ \A i \in 1 .. n : v[i].num \in Nat
  BY VersionType
<1>3. f \in [0 .. n -> Seq(Nat)] /\ f[0] = <<>>
  BY <1>1 DEF Collects
<1>4. ASSUME NEW i \in 1 .. n, v[i].pure, Holds(f[i - 1], i - 1)
      PROVE  Holds(f[i], i)
  <2>1. f[i] = Append(f[i - 1], v[i].num)
    BY <1>1, <1>4 DEF Collects
  <2>2. f[i - 1] \in Seq(Nat) /\ v[i].num \in Nat
    <3>1. i - 1 \in 0 .. n
      BY <1>2
    <3> HIDE DEF n
    <3> QED BY <1>2, <1>3, <3>1
  <2> DEFINE s == f[i - 1]
             x == v[i].num
  <2>3. s \in Seq(Nat) /\ x \in Nat /\ Len(s) = i - 1
    BY <1>4, <2>2
  <2> HIDE DEF s
  <2>4. Len(Append(s, x)) = i
    BY <1>2, <2>3
  <2>5. ASSUME NEW j \in 1 .. i
        PROVE  Append(s, x)[j] = IF j = i THEN x ELSE s[j]
    BY <1>2, <2>3
  <2>6. \A j \in 1 .. i : j # i => s[j] = v[j].num
    BY <1>2, <1>4 DEF s
  <2>7. Holds(Append(s, x), i)
    BY <2>4, <2>5, <2>6
  <2> QED BY <2>1, <2>7 DEF s
<1>5. n - 1 \in S
  <2>1. 0 \in S
    BY <1>2, <1>3
  <2>2. \A i \in 0 + 1 .. n - 1 : i - 1 \in S => i \in S
    BY <1>2, <1>4 DEF PreRelease
  <2>3. \A i \in 0 .. n - 1 : i \in S
    <3> DEFINE m == n - 1
    <3>1. m \in Nat /\ 0 \in Nat
      BY <1>2
    <3> HIDE DEF S
    <3>2. \A i \in 0 + 1 .. m : i - 1 \in S => i \in S
      BY <2>2
    <3> HIDE DEF m
    <3>3. \A i \in 0 .. m : i \in S
      BY <2>1, <3>1, <3>2, RangeInduction
    <3> QED BY <3>3 DEF m
  <2> HIDE DEF S
  <2> QED BY <1>2, <2>3
<1>6. Holds(f[n - 1], n - 1)
  BY <1>5
<1>7. CASE v[n].pure
  <2>1. Holds(f[n], n)
    <3>1. n \in 1 .. n
      BY <1>2
    <3> HIDE DEF Holds, n
    <3> QED BY <1>4, <1>6, <1>7, <3>1
  <2>2. \A i \in 1 .. n : v[i].pure
    <3> SUFFICES ASSUME NEW i \in 1 .. n PROVE v[i].pure
      OBVIOUS
    <3>1. i # n => i \in 1 .. n - 1
      BY <1>2
    <3>2. i # n => v[i].pure
      BY <3>1, Zenon DEF PreRelease
    <3> QED BY <1>7, <3>2, Zenon
  <2> QED BY <1>1, <1>2, <2>1, <2>2 DEF Part
<1>8. CASE ~ v[n].pure
  <2>1. f[n] = f[n - 1]
    BY <1>1, <1>2, <1>8 DEF Collects
  <2>2. \A i \in 1 .. n : v[i].pure <=> i # n
    <3> SUFFICES ASSUME NEW i \in 1 .. n PROVE v[i].pure <=> i # n
      OBVIOUS
    <3>1. i # n => i \in 1 .. n - 1
      BY <1>2
    <3>2. i # n => v[i].pure
      BY <3>1, Zenon DEF PreRelease
    <3> QED BY <1>8, <3>2, Zenon
  <2> QED BY <1>1, <1>2, <1>6, <2>1, <2>2 DEF Part
<1> QED BY <1>7, <1>8

(* The order of versions: the first part that differs decides, and a part   *)
(* that is not there counts as 0.                                           *)
Less(p, q) ==
  \E i \in Nat \ {0} : /\ Part(p, i) < Part(q, i)
                       /\ \A j \in 1 .. i - 1 : Part(p, j) = Part(q, j)

LEMMA PartType ==
  ASSUME NEW p \in Seq(Nat), NEW i \in Nat \ {0}
  PROVE  Part(p, i) \in Nat
BY DEF Part

(* Where both have a number, the verifier refuses exactly what is less.     *)
LEMMA DowngradeIsLess ==
  ASSUME NEW v \in Versions, NEW w \in Versions,
         Parse(v) # <<>>, Parse(w) # <<>>
  PROVE  is_downgrade(v, w) <=> Less(Parse(w), Parse(v))
<1> DEFINE p == Parse(v)
           q == Parse(w)
           Differ(i) == /\ Part(q, i) < Part(p, i)
                        /\ \A j \in 1 .. i - 1 : Part(q, j) = Part(p, j)
<1>1. p \in Seq(Nat) /\ q \in Seq(Nat) /\ Len(p) \in Nat /\ Len(q) \in Nat
  BY ParseType
<1>2. is_downgrade(v, w) <=> \E i \in 1 .. Len(p) + Len(q) : Differ(i)
  BY DEF is_downgrade
<1>3. Less(q, p) <=> \E i \in Nat \ {0} : Differ(i)
  BY DEF Less
<1>4. ASSUME NEW i \in Nat \ {0}, Differ(i)
      PROVE  i \in 1 .. Len(p) + Len(q)
  <2> HIDE DEF p, q
  <2>1. Part(q, i) \in Nat /\ Part(q, i) < Part(p, i)
    BY <1>1, <1>4, PartType
  <2>2. i <= Len(p)
    BY <2>1 DEF Part
  <2> QED BY <1>1, <2>2
<1> HIDE DEF p, q, Differ
<1>5. \A i \in 1 .. Len(p) + Len(q) : i \in Nat \ {0}
  BY <1>1
<1>6. is_downgrade(v, w) <=> Less(q, p)
  BY <1>2, <1>3, <1>4, <1>5
<1> QED BY <1>6 DEF p, q

(* Not to be below is transitive.                                           *)
LEMMA NotBelowTransitive ==
  ASSUME NEW p \in Seq(Nat), NEW q \in Seq(Nat), NEW r \in Seq(Nat),
         ~ Less(q, p), ~ Less(r, q)
  PROVE  ~ Less(r, p)
<1> SUFFICES ASSUME NEW i \in Nat \ {0}, Part(r, i) < Part(p, i),
                    \A j \in 1 .. i - 1 : Part(r, j) = Part(p, j)
             PROVE  FALSE
  BY DEF Less
<1> DEFINE Apart == {k \in 1 .. i : Part(q, k) # Part(p, k)
                                    \/ Part(q, k) # Part(r, k)}
<1>1. \A k \in Nat \ {0} :
        Part(p, k) \in Nat /\ Part(q, k) \in Nat /\ Part(r, k) \in Nat
  BY PartType
<1>2. Apart \in SUBSET Nat /\ i \in Apart
  BY <1>1
<1>3. PICK k \in Apart : \A m \in Apart : k <= m
  <2> HIDE DEF Apart
  <2> QED BY <1>2, LeastNumber
<1>4. k \in 1 .. i /\ k \in Nat \ {0}
  OBVIOUS
<1>5. \A j \in 1 .. k - 1 :
        Part(q, j) = Part(p, j) /\ Part(q, j) = Part(r, j)
  BY <1>3, <1>4
<1>6. ~ (Part(q, k) < Part(p, k)) /\ ~ (Part(r, k) < Part(q, k))
  BY <1>4, <1>5 DEF Less
<1>7. Part(r, k) >= Part(p, k)
  BY <1>1, <1>4, <1>6
<1>8. k # i
  BY <1>1, <1>4, <1>7
<1>9. Part(r, k) = Part(p, k)
  BY <1>4, <1>8
<1>10. Part(q, k) = Part(p, k) /\ Part(q, k) = Part(r, k)
  BY <1>1, <1>4, <1>6, <1>9
<1> QED BY <1>10

(* The versions of the device, and the pairwise rule over all its history.  *)
NeverBelow == \A v \in uvPast : ~ is_downgrade(v, uvCurrent)
VerifyInv ==
  /\ uvCurrent \in VersionNames \/ (uvCurrent = Unversioned /\ uvPast = {})
  /\ uvPast \subseteq VersionNames
  /\ NeverBelow

(* verify_bundle compares an offered version with the installed one only    *)
(* (lib.rs:165): that is enough for no version the device ever has to be a  *)
(* downgrade, by the verifier's own rule, from any it had before, whatever  *)
(* versions there are and of whatever length, as long as each has a part    *)
(* that is a number.                                                        *)
THEOREM NeverDowngraded ==
  ASSUME \A v \in VersionNames : Parse(v) # <<>>
  PROVE  VerifySpec => []VerifyInv
<1> USE DEF VerifyInv, NeverBelow
<1>1. VerifyInit => VerifyInv
  BY DEF VerifyInit
<1>2. VerifyInv /\ [VerifyNext]_uvVars => VerifyInv'
  <2> SUFFICES ASSUME VerifyInv, [VerifyNext]_uvVars PROVE VerifyInv'
    OBVIOUS
  <2>1. ASSUME NEW key \in SigningKeys, NEW device \in DeviceNames,
               NEW version \in VersionNames, NEW timestamp \in 0 .. MaxTime,
               Update(key, device, version, timestamp)
        PROVE  VerifyInv'
    <3>1. /\ uvCurrent' = version
          /\ uvPast' = uvPast \cup ({uvCurrent} \ {Unversioned})
      BY <2>1 DEF Update
    <3>2. uvCurrent # Unversioned =>
            uvCurrent \in VersionNames /\ ~ is_downgrade(uvCurrent, version)
      BY <2>1 DEF Update, Accepts
    <3>3. ASSUME NEW v \in uvPast
          PROVE  ~ is_downgrade(v, version)
      <4>1. uvCurrent \in VersionNames
        OBVIOUS
      <4>2. /\ v \in Versions /\ uvCurrent \in Versions
            /\ version \in Versions
        BY <4>1, UpdateVerifyAssumption
      <4>3. /\ Parse(v) # <<>> /\ Parse(uvCurrent) # <<>>
            /\ Parse(version) # <<>>
        BY <4>1
      <4>4. uvCurrent # Unversioned
        BY <4>2 DEF Versions, Unversioned
      <4>5. ~ Less(Parse(uvCurrent), Parse(v))
        BY <4>2, <4>3, DowngradeIsLess
      <4>6. ~ Less(Parse(version), Parse(uvCurrent))
        BY <3>2, <4>2, <4>3, <4>4, DowngradeIsLess
      <4>7. ~ Less(Parse(version), Parse(v))
        BY <4>2, <4>5, <4>6, ParseType, NotBelowTransitive
      <4> QED BY <4>2, <4>3, <4>7, DowngradeIsLess
    <3>4. \A v \in uvPast' : ~ is_downgrade(v, version)
      BY <3>1, <3>2, <3>3
    <3>5. NeverBelow'
      BY <3>1, <3>4 DEF is_downgrade
    <3> QED BY <3>1, <3>2, <3>5
  <2>2. CASE ClockTick
    BY <2>2 DEF ClockTick, is_downgrade
  <2>3. CASE UNCHANGED uvVars
    BY <2>3 DEF uvVars, is_downgrade
  <2> QED BY <2>1, <2>2, <2>3 DEF VerifyNext
<1> QED BY <1>1, <1>2, PTL DEF VerifySpec

(* What the verifier's rule does not hold to be below a release is not: it  *)
(* can only lose the last number of a pre-release, which makes it smaller.  *)
LEMMA NotBelowRelease ==
  ASSUME NEW v \in Versions, NEW w \in Versions, Release(v), PreRelease(w),
         ~ Less(Parse(w), Parse(v))
  PROVE  ~ Below(w, v)
<1>1. /\ Len(v) \in Nat /\ \A i \in 1 .. Len(v) : v[i].num \in Nat
      /\ Len(w) \in Nat /\ \A i \in 1 .. Len(w) : w[i].num \in Nat
  BY VersionType
<1>2. PreRelease(v) /\ \A i \in 1 .. Len(v) : v[i].pure
  BY <1>1 DEF Release, PreRelease
<1>3. \A i \in Nat \ {0} :
        /\ Number(v, i) \in Nat /\ Number(w, i) \in Nat
        /\ Part(Parse(v), i) = Number(v, i)
        /\ Part(Parse(w), i) \in Nat /\ Part(Parse(w), i) <= Number(w, i)
  <2> SUFFICES ASSUME NEW i \in Nat \ {0}
               PROVE  /\ Number(v, i) \in Nat /\ Number(w, i) \in Nat
                      /\ Part(Parse(v), i) = Number(v, i)
                      /\ Part(Parse(w), i) \in Nat
                      /\ Part(Parse(w), i) <= Number(w, i)
    OBVIOUS
  <2>1. /\ Part(Parse(v), i) = IF i <= Len(v) /\ v[i].pure THEN v[i].num ELSE 0
        /\ Part(Parse(w), i) = IF i <= Len(w) /\ w[i].pure THEN w[i].num ELSE 0
    BY <1>2, ParsePreRelease
  <2>2. /\ i <= Len(v) => i \in 1 .. Len(v)
        /\ i <= Len(w) => i \in 1 .. Len(w)
    BY <1>1
  <2>3. Part(Parse(v), i) = Number(v, i) /\ Number(v, i) \in Nat
    BY <1>1, <1>2, <2>1, <2>2 DEF Number
  <2>4. CASE i <= Len(w) /\ w[i].pure
    BY <1>1, <2>1, <2>2, <2>3, <2>4 DEF Number
  <2>5. CASE ~ (i <= Len(w) /\ w[i].pure)
    BY <1>1, <2>1, <2>2, <2>3, <2>5 DEF Number
  <2> QED BY <2>4, <2>5
<1> SUFFICES ASSUME NEW i \in 1 .. Len(w) + Len(v),
                    Number(w, i) < Number(v, i),
                    \A j \in 1 .. i - 1 : Number(w, j) = Number(v, j)
             PROVE  FALSE
  BY DEF Below
<1> DEFINE p == Parse(v)
           q == Parse(w)
           Apart == {k \in 1 .. i : Part(q, k) # Part(p, k)}
<1>4. i \in Nat \ {0} /\ \A k \in 1 .. i : k \in Nat \ {0}
  BY <1>1
<1>5. ASSUME NEW k \in 1 .. i
      PROVE  /\ Part(q, k) <= Part(p, k)
             /\ Part(p, k) \in Nat /\ Part(q, k) \in Nat
  <2>1. k \in Nat \ {0} /\ i \in Nat /\ (k # i => k \in 1 .. i - 1)
    BY <1>4
  <2>2. k # i => Number(w, k) = Number(v, k)
    BY <2>1, Zenon
  <2>3. /\ Part(q, k) \in Nat /\ Part(q, k) <= Number(w, k)
        /\ Part(p, k) = Number(v, k)
        /\ Number(v, k) \in Nat /\ Number(w, k) \in Nat
    BY <1>3, <2>1, Zenon
  <2> HIDE DEF p, q
  <2> QED BY <2>2, <2>3
<1>6. Part(q, i) < Part(p, i)
  BY <1>3, <1>4
<1>7. Apart \in SUBSET Nat /\ i \in Apart
  BY <1>4, <1>5, <1>6
<1>8. PICK k \in Apart : \A m \in Apart : k <= m
  <2> HIDE DEF Apart
  <2> QED BY <1>7, LeastNumber
<1>9. k \in Nat \ {0} /\ k \in 1 .. i /\ Part(q, k) < Part(p, k)
  BY <1>4, <1>5
<1>10. \A j \in 1 .. k - 1 : Part(q, j) = Part(p, j)
  <2> SUFFICES ASSUME NEW j \in 1 .. k - 1 PROVE Part(q, j) = Part(p, j)
    OBVIOUS
  <2>1. j \in 1 .. i /\ ~ (k <= j)
    BY <1>4, <1>9
  <2> QED BY <1>8, <2>1
<1>11. Less(q, p)
  <2> HIDE DEF p, q
  <2> QED BY <1>9, <1>10 DEF Less
<1> QED BY <1>11

(* The device never comes below a release it has had, for any set of        *)
(* versions that each have a part that is a number, and any keys, devices   *)
(* and ages: the release order is not the verifier's, which drops parts.    *)
THEOREM NoDowngradeEverAlways ==
  ASSUME \A v \in VersionNames : Parse(v) # <<>>
  PROVE  VerifySpec => []NoDowngradeEver
<1>1. VerifyInv => NoDowngradeEver
  <2> SUFFICES ASSUME VerifyInv, NEW v \in uvPast, Release(v),
                      PreRelease(uvCurrent)
               PROVE  ~ Below(uvCurrent, v)
    BY DEF NoDowngradeEver
  <2>1. v \in VersionNames /\ uvCurrent \in VersionNames
    BY DEF VerifyInv
  <2>2. v \in Versions /\ uvCurrent \in Versions
    BY <2>1, UpdateVerifyAssumption
  <2>3. ~ is_downgrade(v, uvCurrent)
    BY DEF VerifyInv, NeverBelow
  <2>4. ~ Less(Parse(uvCurrent), Parse(v))
    BY <2>1, <2>2, <2>3, DowngradeIsLess
  <2> QED BY <2>2, <2>4, NotBelowRelease
<1>2. VerifySpec => []VerifyInv
  BY NeverDowngraded
<1> QED BY <1>1, <1>2, PTL

----------------------------------------------------------------------------
(* casync-rs: the chunks tile the file, and a verified file is the file.    *)

ChunkType == [offset : Nat, hash : Seq(Bytes)]

(* chunks cut data up to end into pieces that follow one another.           *)
Tiles(chunks, data, end) ==
  /\ chunks = <<>> <=> end = 0
  /\ chunks # <<>> => chunks[1].offset = 0 /\ End(chunks[Len(chunks)]) = end
  /\ \A i \in 1 .. Len(chunks) - 1 : chunks[i + 1].offset = End(chunks[i])
  /\ \A i \in 1 .. Len(chunks) :
       /\ chunks[i].hash # <<>>
       /\ chunks[i].hash =
            SubSeq(data, chunks[i].offset + 1, End(chunks[i]))
       /\ End(chunks[i]) <= end

CasTypes ==
  /\ casPc \in {"idle", "gear", "fixed", "store", "rebuilt", "done", "corrupt",
                "missing"}
  /\ casData \in Seq(Bytes)
  /\ casPos \in 0 .. Len(casData)
  /\ casStart \in 0 .. casPos
  /\ casChunks \in Seq(ChunkType)

(* What the chunks cover: all but the chunk being looked for.               *)
Covered == IF casPc \in {"gear", "fixed"} THEN casStart ELSE Len(casData)

(* The sizes, with what they are before the last chunk is there.            *)
SizesSoFar ==
  /\ casPc = "gear" =>
       /\ casPos - casStart < MaxChunk
       /\ \A i \in 1 .. Len(casChunks) :
            Len(casChunks[i].hash) \in MinChunk .. MaxChunk
  /\ casPc = "fixed" =>
       /\ casStart = casPos
       /\ FixedSizes
       /\ casPos < Len(casData) =>
            \A i \in 1 .. Len(casChunks) :
              Len(casChunks[i].hash) = FixedChunk
  /\ GearSizes \/ FixedSizes

TileInv == CasTypes /\ Tiles(casChunks, casData, Covered) /\ SizesSoFar

(* Every stored file is its chunk or shorter, the chunks of the last index  *)
(* stay in the store, and what is not there is still to be stored.          *)
StoreInv ==
  /\ casPc # "missing"
  /\ \A h \in DOMAIN casStore :
       casStore[h] \in Seq(Bytes) /\ Len(casStore[h]) <= Len(h)
  /\ casOld \subseteq DOMAIN casStore
  /\ casPc = "store" =>
       /\ casTodo \subseteq Hashes(casChunks)
       /\ Hashes(casChunks) \subseteq casTodo \cup DOMAIN casStore
  /\ casPc = "rebuilt" =>
       /\ Hashes(casChunks) \subseteq DOMAIN casStore
       /\ casOut \in Seq(Bytes)
       /\ Len(casOut) <= Len(casData)
  /\ casPc = "done" => casOut = casData

(* What a piece of the file is.                                             *)
LEMMA Piece ==
  ASSUME NEW B, NEW data \in Seq(B), NEW from \in Nat, NEW to \in Nat,
         from <= to, to <= Len(data)
  PROVE  /\ SubSeq(data, from + 1, to) \in Seq(B)
         /\ Len(SubSeq(data, from + 1, to)) = to - from
         /\ \A i \in 1 .. to - from :
              SubSeq(data, from + 1, to)[i] = data[from + i]
<1>1. /\ from + 1 \in 1 .. Len(data) + 1
      /\ to \in from + 1 - 1 .. Len(data)
  OBVIOUS
<1> QED BY <1>1, SubSeqProperties

(* Where a chunk lies.                                                      *)
LEMMA ChunkPlace ==
  ASSUME NEW c \in ChunkType
  PROVE  /\ c.offset \in Nat /\ c.hash \in Seq(Bytes) /\ Len(c.hash) \in Nat
         /\ End(c) = c.offset + Len(c.hash) /\ End(c) \in Nat
BY DEF ChunkType, End

(* The next piece of a file appended to chunks that tile it up to there.    *)
LEMMA NextTile ==
  ASSUME NEW data \in Seq(Bytes), NEW chunks \in Seq(ChunkType),
         NEW end \in Nat, NEW to \in Nat, end < to, to <= Len(data),
         Tiles(chunks, data, end),
         NEW c, c = [offset |-> end, hash |-> SubSeq(data, end + 1, to)]
  PROVE  /\ c \in ChunkType
         /\ Len(c.hash) = to - end
         /\ Tiles(Append(chunks, c), data, to)
<1>1. /\ c.offset = end /\ c.hash = SubSeq(data, end + 1, to)
      /\ c.hash \in Seq(Bytes) /\ Len(c.hash) = to - end
  BY Piece
<1>2. c \in ChunkType
  BY <1>1 DEF ChunkType
<1>3. End(c) = to /\ c.hash # <<>>
  <2>1. Len(c.hash) # 0
    BY <1>1
  <2>2. c.hash # <<>>
    BY <2>1
  <2>3. End(c) = c.offset + Len(c.hash)
    BY DEF End
  <2>4. End(c) = to
    BY <1>1, <2>3
  <2> QED BY <2>2, <2>4
<1> DEFINE n == Len(chunks)
           more == Append(chunks, c)
<1>4. /\ n \in Nat /\ more # <<>> /\ Len(more) = n + 1 /\ more[n + 1] = c
      /\ \A i \in 1 .. n : more[i] = chunks[i]
  <2>1. n \in Nat
    BY LenProperties
  <2>2. /\ more # <<>> /\ Len(more) = Len(chunks) + 1
        /\ \A i \in 1 .. Len(chunks) : more[i] = chunks[i]
        /\ more[Len(chunks) + 1] = c
    BY <1>2, AppendProperties
  <2> HIDE DEF more
  <2> QED  BY <2>1, <2>2
<1>5. n = 0 <=> chunks = <<>>
  BY EmptySeq
<1>6. /\ n = 0 <=> end = 0
      /\ n # 0 => chunks[1].offset = 0 /\ End(chunks[n]) = end
      /\ \A i \in 1 .. n - 1 : chunks[i + 1].offset = End(chunks[i])
      /\ \A i \in 1 .. n :
           /\ chunks[i].hash # <<>>
           /\ chunks[i].hash =
                SubSeq(data, chunks[i].offset + 1, End(chunks[i]))
           /\ End(chunks[i]) <= end
  <2> HIDE DEF n
  <2> QED BY <1>5 DEF Tiles, n
<1>6a. \A i \in 1 .. n : End(chunks[i]) \in Nat
  <2> SUFFICES ASSUME NEW i \in 1 .. n PROVE End(chunks[i]) \in Nat
    OBVIOUS
  <2>1. chunks[i] \in ChunkType
    BY LenProperties
  <2> QED BY <2>1, ChunkPlace
<1> HIDE DEF n, more
<1>7. more[1].offset = 0
  <2>1. CASE n = 0
    BY <1>1, <1>4, <1>6, <2>1
  <2>2. CASE n # 0
    BY <1>4, <1>6, <2>2
  <2> QED BY <2>1, <2>2
<1>8. \A i \in 1 .. n + 1 - 1 : more[i + 1].offset = End(more[i])
  <2> SUFFICES ASSUME NEW i \in 1 .. n
               PROVE  more[i + 1].offset = End(more[i])
    BY <1>4
  <2>1. more[i] = chunks[i]
    BY <1>4
  <2>2. CASE i = n
    BY <1>1, <1>4, <1>6, <2>1, <2>2
  <2>3. CASE i < n
    <3>1. i \in 1 .. n - 1 /\ i + 1 \in 1 .. n
      BY <1>4, <2>3
    <3> QED BY <1>4, <1>6, <2>1, <3>1
  <2> QED BY <1>4, <2>2, <2>3
<1>9. ASSUME NEW i \in 1 .. n + 1
      PROVE  /\ more[i].hash # <<>>
             /\ more[i].hash =
                  SubSeq(data, more[i].offset + 1, End(more[i]))
             /\ End(more[i]) <= to
  <2>1. CASE i = n + 1
    BY <1>1, <1>3, <1>4, <2>1
  <2>2. CASE i \in 1 .. n
    <3>1. more[i] = chunks[i] /\ End(chunks[i]) \in Nat
      BY <1>4, <1>6a, <2>2
    <3>2. End(chunks[i]) <= end
      BY <1>6, <2>2
    <3>3. End(chunks[i]) <= to
      BY <3>1, <3>2
    <3> QED BY <1>6, <2>2, <3>1, <3>3
  <2> QED BY <1>4, <2>1, <2>2
<1>10. Tiles(more, data, to)
  <2>1. Len(more) = n + 1 /\ more # <<>> /\ to # 0 /\ End(more[n + 1]) = to
    BY <1>3, <1>4
  <2>2. \A i \in 1 .. Len(more) - 1 : more[i + 1].offset = End(more[i])
    <3> DEFINE last == Len(more) - 1
    <3>1. last = n + 1 - 1
      BY <1>4, <2>1
    <3> HIDE DEF last
    <3>2. \A i \in 1 .. last : more[i + 1].offset = End(more[i])
      BY <1>8, <3>1
    <3> QED BY <3>2 DEF last
  <2>3. \A i \in 1 .. Len(more) :
          /\ more[i].hash # <<>>
          /\ more[i].hash = SubSeq(data, more[i].offset + 1, End(more[i]))
          /\ End(more[i]) <= to
    BY <1>9, <2>1
  <2>4. End(more[Len(more)]) = to
    BY <2>1
  <2> QED BY <1>7, <2>1, <2>2, <2>3, <2>4 DEF Tiles
<1> QED BY <1>1, <1>2, <1>10 DEF more

(* Whatever comes next to the end of the file is in some chunk.             *)
LEMMA Cover ==
  ASSUME NEW data \in Seq(Bytes), NEW chunks \in Seq(ChunkType),
         Tiles(chunks, data, Len(data)), NEW p \in 1 .. Len(data)
  PROVE  \E i \in 1 .. Len(chunks) :
           chunks[i].offset < p /\ p <= End(chunks[i])
<1> DEFINE n == Len(chunks)
           Reach == {i \in 1 .. n : p <= End(chunks[i])}
<1>1. /\ n \in Nat /\ n # 0
      /\ chunks[1].offset = 0 /\ End(chunks[n]) = Len(data)
      /\ \A i \in 1 .. n - 1 : chunks[i + 1].offset = End(chunks[i])
      /\ \A i \in 1 .. n : End(chunks[i]) \in Nat
  <2>1. chunks # <<>>
    BY LenProperties DEF Tiles
  <2>2. n \in Nat /\ n # 0
    BY <2>1, LenProperties, EmptySeq
  <2>3. ASSUME NEW i \in 1 .. n PROVE End(chunks[i]) \in Nat
    <3>1. chunks[i] \in ChunkType
      BY LenProperties
    <3> QED BY <3>1, ChunkPlace
  <2> HIDE DEF n
  <2> QED BY <2>1, <2>2, <2>3 DEF Tiles, n
<1> HIDE DEF n
<1>2. n \in Reach /\ Reach \in SUBSET Nat
  BY <1>1
<1>3. PICK k \in Reach : \A m \in Reach : k <= m
  <2> HIDE DEF Reach
  <2> QED BY <1>2, LeastNumber
<1>4. k \in 1 .. n /\ p <= End(chunks[k])
  OBVIOUS
<1>5. CASE k = 1
  BY <1>1, <1>4, <1>5 DEF n
<1>6. CASE k # 1
  <2>1. k - 1 \in 1 .. n /\ k - 1 \in 1 .. n - 1 /\ k - 1 < k
    BY <1>1, <1>4, <1>6
  <2>2. ~ (p <= End(chunks[k - 1]))
    BY <1>3, <2>1
  <2>3. chunks[k].offset = End(chunks[k - 1])
    BY <1>1, <2>1
  <2>4. chunks[k].offset < p
    BY <1>1, <2>1, <2>2, <2>3
  <2> QED BY <1>4, <2>4 DEF n
<1> QED BY <1>5, <1>6

LEMMA NoTiles ==
  ASSUME NEW data PROVE Tiles(<<>>, data, 0)
BY EmptySeq DEF Tiles

(* A step of the gear chunker either cuts at the byte or goes on.            *)
LEMMA GearStep ==
  ASSUME TileInv, GearByte
  PROVE  TileInv'
<1> DEFINE to == casPos + 1
           c == Chunk(casStart, to)
<1>1. /\ casPc = "gear" /\ casPc' = casPc /\ casData' = casData
      /\ casPos < Len(casData) /\ casPos' = to
  BY DEF GearByte
<1>2. /\ casData \in Seq(Bytes) /\ Len(casData) \in Nat
      /\ casPos \in Nat /\ casStart \in Nat /\ casStart <= casPos
      /\ casChunks \in Seq(ChunkType) /\ Len(casChunks) \in Nat
  BY DEF TileInv, CasTypes
<1>3. /\ Tiles(casChunks, casData, casStart)
      /\ casPos - casStart < MaxChunk
      /\ \A i \in 1 .. Len(casChunks) :
           Len(casChunks[i].hash) \in MinChunk .. MaxChunk
  BY <1>1 DEF TileInv, Covered, SizesSoFar
<1>4. MinChunk \in Nat /\ MaxChunk \in Nat \ {0} /\ MinChunk <= MaxChunk
  BY CasyncAssumption
<1>5. to \in Nat /\ casStart < to /\ to <= Len(casData)
  BY <1>1, <1>2
<1>6. \/ /\ ChunkLen >= MinChunk
         /\ casChunks' = Append(casChunks, c) /\ casStart' = to
      \/ ChunkLen < MaxChunk /\ UNCHANGED <<casChunks, casStart>>
  <2>1. \E hash : IF Cut(hash)
                  THEN casChunks' = Append(casChunks, c) /\ casStart' = to
                  ELSE UNCHANGED <<casChunks, casStart>>
    BY DEF GearByte
  <2>2. PICK hash : IF Cut(hash)
                    THEN casChunks' = Append(casChunks, c) /\ casStart' = to
                    ELSE UNCHANGED <<casChunks, casStart>>
    BY <2>1
  <2>3. ChunkLen \in Int
    BY <1>2 DEF ChunkLen
  <2>4. Cut(hash) => ChunkLen >= MinChunk
    BY <1>4, <2>3 DEF Cut
  <2>5. ~ Cut(hash) => ChunkLen < MaxChunk
    BY <1>4, <2>3 DEF Cut
  <2> HIDE DEF c, to
  <2> QED BY <2>2, <2>4, <2>5
<1>7. CASE /\ ChunkLen >= MinChunk
           /\ casChunks' = Append(casChunks, c) /\ casStart' = to
  <2>1. /\ c \in ChunkType /\ Len(c.hash) = to - casStart
        /\ Tiles(Append(casChunks, c), casData, to)
    <3>1. c = [offset |-> casStart, hash |-> SubSeq(casData, casStart + 1, to)]
      BY DEF Chunk
    <3> HIDE DEF c, to
    <3> QED BY <1>2, <1>3, <1>5, <3>1, NextTile
  <2>2. to - casStart \in MinChunk .. MaxChunk
    BY <1>2, <1>3, <1>4, <1>7 DEF ChunkLen
  <2> HIDE DEF c
  <2>3. /\ casChunks' \in Seq(ChunkType)
        /\ \A i \in 1 .. Len(casChunks') :
             Len(casChunks'[i].hash) \in MinChunk .. MaxChunk
    <3>1. /\ casChunks' \in Seq(ChunkType)
          /\ Len(casChunks') = Len(casChunks) + 1
          /\ \A i \in 1 .. Len(casChunks) : casChunks'[i] = casChunks[i]
          /\ casChunks'[Len(casChunks) + 1] = c
      BY <1>2, <1>7, <2>1, AppendProperties
    <3> HIDE DEF to
    <3>2. ASSUME NEW i \in 1 .. Len(casChunks) + 1
          PROVE  Len(casChunks'[i].hash) \in MinChunk .. MaxChunk
      <4>1. CASE i \in 1 .. Len(casChunks)
        BY <1>3, <3>1, <4>1
      <4>2. CASE i = Len(casChunks) + 1
        BY <2>1, <2>2, <3>1, <4>2
      <4> QED BY <1>2, <4>1, <4>2
    <3> QED BY <3>1, <3>2
  <2>4. GearSizes'
    BY <1>4, <2>3, LenProperties DEF GearSizes
  <2>5. CasTypes'
    BY <1>1, <1>2, <1>5, <1>7, <2>3 DEF CasTypes
  <2>6. Tiles(casChunks, casData, Covered)'
    BY <1>1, <1>7, <2>1 DEF Covered, Tiles, End
  <2>7. SizesSoFar'
    BY <1>1, <1>4, <1>5, <1>7, <2>3, <2>4 DEF SizesSoFar
  <2> QED BY <2>5, <2>6, <2>7 DEF TileInv
<1>8. CASE ChunkLen < MaxChunk /\ UNCHANGED <<casChunks, casStart>>
  <2>1. CasTypes'
    BY <1>1, <1>2, <1>5, <1>8 DEF TileInv, CasTypes
  <2>2. Tiles(casChunks, casData, Covered)'
    BY <1>1, <1>3, <1>8 DEF Covered, Tiles, End
  <2>3. casPos' - casStart' < MaxChunk
    BY <1>1, <1>2, <1>8 DEF ChunkLen
  <2>4. SizesSoFar'
    BY <1>1, <1>8, <2>3 DEF TileInv, SizesSoFar, GearSizes, FixedSizes
  <2> QED BY <2>1, <2>2, <2>4 DEF TileInv
<1> QED BY <1>6, <1>7, <1>8

(* A slice of the fixed chunker has the fixed size, or is the last.         *)
LEMMA FixedStep ==
  ASSUME TileInv, FixedSlice
  PROVE  TileInv'
<1> DEFINE to == IF casPos + FixedChunk < Len(casData)
                 THEN casPos + FixedChunk ELSE Len(casData)
           c == Chunk(casPos, to)
<1>1. /\ casPc = "fixed" /\ casPc' = casPc /\ casData' = casData
      /\ casPos < Len(casData) /\ casPos' = to /\ casStart' = to
      /\ casChunks' = Append(casChunks, c)
  BY DEF FixedSlice
<1>2. /\ casData \in Seq(Bytes) /\ Len(casData) \in Nat
      /\ casPos \in Nat /\ casStart = casPos
      /\ casChunks \in Seq(ChunkType) /\ Len(casChunks) \in Nat
  BY <1>1 DEF TileInv, CasTypes, SizesSoFar
<1>3. /\ Tiles(casChunks, casData, casPos)
      /\ \A i \in 1 .. Len(casChunks) : Len(casChunks[i].hash) = FixedChunk
  BY <1>1, <1>2 DEF TileInv, Covered, SizesSoFar
<1>4. FixedChunk \in Nat \ {0}
  BY CasyncAssumption
<1>5. /\ to \in Nat /\ casPos < to /\ to <= Len(casData)
      /\ to - casPos <= FixedChunk
      /\ to < Len(casData) => to - casPos = FixedChunk
  BY <1>1, <1>2, <1>4
<1>6. /\ c \in ChunkType /\ Len(c.hash) = to - casPos
      /\ Tiles(Append(casChunks, c), casData, to)
  <2>1. c = [offset |-> casPos, hash |-> SubSeq(casData, casPos + 1, to)]
    BY DEF Chunk
  <2> HIDE DEF c, to
  <2> QED BY <1>2, <1>3, <1>5, <2>1, NextTile
<1> HIDE DEF c, to
<1>7. /\ casChunks' \in Seq(ChunkType)
      /\ Len(casChunks') = Len(casChunks) + 1
      /\ \A i \in 1 .. Len(casChunks) : casChunks'[i] = casChunks[i]
      /\ casChunks'[Len(casChunks) + 1] = c
  BY <1>1, <1>2, <1>6, AppendProperties
<1>8. ASSUME NEW i \in 1 .. Len(casChunks) + 1
      PROVE  /\ Len(casChunks'[i].hash) <= FixedChunk
             /\ i <= Len(casChunks) => Len(casChunks'[i].hash) = FixedChunk
             /\ to < Len(casData) => Len(casChunks'[i].hash) = FixedChunk
  <2>1. CASE i \in 1 .. Len(casChunks)
    BY <1>3, <1>4, <1>7, <2>1
  <2>2. CASE i = Len(casChunks) + 1
    BY SMTT(30), <1>2, <1>5, <1>6, <1>7, <2>2
  <2> QED BY <1>2, <2>1, <2>2
<1>9. FixedSizes'
  <2>1. DOMAIN casChunks' = 1 .. Len(casChunks) + 1
    BY <1>7, LenProperties
  <2>2. \A i \in 1 .. Len(casChunks) + 1 :
          i < Len(casChunks) + 1 => i <= Len(casChunks)
    BY <1>2
  <2> QED BY <1>7, <1>8, <2>1, <2>2 DEF FixedSizes
<1>10. CasTypes'
  BY <1>1, <1>2, <1>5, <1>7 DEF CasTypes
<1>11. Tiles(casChunks, casData, Covered)'
  BY <1>1, <1>6 DEF Covered, Tiles, End
<1>12. SizesSoFar'
  <2>1. casPos' < Len(casData') =>
          \A i \in 1 .. Len(casChunks') : Len(casChunks'[i].hash) = FixedChunk
    BY <1>1, <1>7, <1>8
  <2>2. casPc' = "fixed" /\ casStart' = casPos'
    BY <1>1
  <2> QED BY <1>9, <2>1, <2>2 DEF SizesSoFar
<1> QED BY <1>10, <1>11, <1>12 DEF TileInv

(* The rest of the file becomes the last chunk: only gear leaves one.       *)
LEMMA IndexedStep ==
  ASSUME TileInv, Indexed
  PROVE  TileInv'
<1> DEFINE c == Chunk(casStart, Len(casData))
<1>1. /\ casPc \in {"gear", "fixed"} /\ casPc' = "store"
      /\ casPos = Len(casData)
      /\ casData' = casData /\ casPos' = 0 /\ casStart' = 0
      /\ casChunks' = casChunks \o (IF casStart < Len(casData)
                                    THEN <<c>> ELSE <<>>)
  BY DEF Indexed
<1>2. /\ casData \in Seq(Bytes) /\ Len(casData) \in Nat
      /\ casStart \in Nat /\ casStart <= Len(casData)
      /\ casChunks \in Seq(ChunkType) /\ Len(casChunks) \in Nat
  BY <1>1 DEF TileInv, CasTypes
<1>3. Tiles(casChunks, casData, casStart)
  BY <1>1 DEF TileInv, Covered
<1>4. Covered' = Len(casData)
  BY <1>1 DEF Covered
<1> HIDE DEF c
<1>5. CASE casStart < Len(casData)
  <2>1. casPc = "gear"
    BY <1>1, <1>2, <1>5 DEF TileInv, SizesSoFar
  <2>2. /\ Len(casData) - casStart < MaxChunk
        /\ \A i \in 1 .. Len(casChunks) :
             Len(casChunks[i].hash) \in MinChunk .. MaxChunk
    BY <1>1, <2>1 DEF TileInv, SizesSoFar
  <2>3. /\ c \in ChunkType /\ Len(c.hash) = Len(casData) - casStart
        /\ Tiles(Append(casChunks, c), casData, Len(casData))
    <3> DEFINE to == Len(casData)
    <3>1. c = [offset |-> casStart, hash |-> SubSeq(casData, casStart + 1, to)]
      BY DEF Chunk, c
    <3>2. to \in Nat /\ casStart < to /\ to <= Len(casData)
      BY <1>2, <1>5
    <3> HIDE DEF to
    <3>3. /\ c \in ChunkType /\ Len(c.hash) = to - casStart
          /\ Tiles(Append(casChunks, c), casData, to)
      BY <1>2, <1>3, <3>1, <3>2, NextTile
    <3> QED BY <3>3 DEF to
  <2>4. casChunks' = Append(casChunks, c)
    BY <1>1, <1>2, <1>5, <2>3, AppendIsConcat
  <2>5. /\ casChunks' \in Seq(ChunkType)
        /\ Len(casChunks') = Len(casChunks) + 1
        /\ \A i \in 1 .. Len(casChunks) : casChunks'[i] = casChunks[i]
        /\ casChunks'[Len(casChunks) + 1] = c
    BY <1>2, <2>3, <2>4, AppendProperties
  <2>6. ASSUME NEW i \in 1 .. Len(casChunks) + 1
        PROVE  /\ Len(casChunks'[i].hash) <= MaxChunk
               /\ i < Len(casChunks) + 1 => Len(casChunks'[i].hash) >= MinChunk
    <3>0. MinChunk \in Nat /\ MaxChunk \in Nat
      BY CasyncAssumption
    <3>1. CASE i \in 1 .. Len(casChunks)
      BY <2>2, <2>5, <3>0, <3>1
    <3>2. CASE i = Len(casChunks) + 1
      BY <1>2, <2>2, <2>3, <2>5, <3>0, <3>2
    <3> QED BY <1>2, <3>1, <3>2
  <2>7. GearSizes'
    <3>1. DOMAIN casChunks' = 1 .. Len(casChunks) + 1
      BY <2>5, LenProperties
    <3> QED BY <2>5, <2>6, <3>1 DEF GearSizes
  <2>8. CasTypes'
    BY <1>1, <2>5 DEF TileInv, CasTypes
  <2>9. Tiles(casChunks, casData, Covered)'
    BY <1>1, <1>4, <2>3, <2>4 DEF Tiles, End
  <2>10. SizesSoFar'
    BY <1>1, <2>7 DEF SizesSoFar
  <2> QED BY <2>8, <2>9, <2>10 DEF TileInv
<1>6. CASE casStart = Len(casData)
  <2>1. casChunks' = casChunks
    BY <1>1, <1>2, <1>6, ConcatEmptySeq
  <2>2. CasTypes'
    BY <1>1, <2>1 DEF TileInv, CasTypes
  <2>3. Tiles(casChunks, casData, Covered)'
    BY <1>1, <1>3, <1>4, <1>6, <2>1 DEF Tiles, End
  <2>4. SizesSoFar'
    BY <1>1, <2>1 DEF TileInv, SizesSoFar, GearSizes, FixedSizes
  <2> QED BY <2>2, <2>3, <2>4 DEF TileInv
<1> QED BY <1>2, <1>5, <1>6

(* The steps after the index leave the file and its chunks alone.           *)
LEMMA LaterStep ==
  ASSUME TileInv, casPc \notin {"gear", "fixed"},
         casPc' \notin {"gear", "fixed"},
         casPc' \in {"idle", "store", "rebuilt", "done", "corrupt", "missing"},
         UNCHANGED <<casData, casPos, casStart, casChunks>>
  PROVE  TileInv'
<1>1. CasTypes'
  BY DEF TileInv, CasTypes
<1>2. Tiles(casChunks, casData, Covered)'
  BY DEF TileInv, Covered, Tiles, End
<1>3. SizesSoFar'
  BY DEF TileInv, SizesSoFar, GearSizes, FixedSizes
<1> QED BY <1>1, <1>2, <1>3 DEF TileInv

(* At every step the chunks tile what has been chunked.                     *)
LEMMA TileStep ==
  ASSUME TileInv, [CasyncNext]_casVars
  PROVE  TileInv'
<1>1. ASSUME NEW n \in 0 .. MaxFileLen, NEW strategy \in {"gear", "fixed"},
             NEW data \in [1 .. n -> Bytes], Begin(data, strategy)
      PROVE  TileInv'
  <2>1. data \in Seq(Bytes) /\ Len(data) = n /\ n \in Nat
    BY CasyncAssumption
  <2>2. /\ casPc' = strategy /\ casData' = data
        /\ casPos' = 0 /\ casStart' = 0 /\ casChunks' = <<>>
    BY <1>1 DEF Begin
  <2>3. CasTypes'
    BY <2>1, <2>2 DEF CasTypes
  <2>4. Tiles(casChunks', casData', Covered')
    BY <2>2, NoTiles DEF Covered
  <2>5. Tiles(casChunks, casData, Covered)'
    BY <2>4 DEF Tiles, End
  <2>6. Len(casChunks') = 0 /\ DOMAIN casChunks' = {}
    BY <2>2
  <2>7. SizesSoFar'
    BY <2>2, <2>6, CasyncAssumption DEF SizesSoFar, GearSizes, FixedSizes
  <2> QED BY <2>3, <2>5, <2>7 DEF TileInv
<1>2. CASE GearByte
  BY <1>2, GearStep
<1>3. CASE FixedSlice
  BY <1>3, FixedStep
<1>4. CASE Indexed
  BY <1>4, IndexedStep
<1>5. CASE \E h \in casTodo : StoreChunk(h) \/ StoreTorn(h)
  BY <1>5, LaterStep DEF StoreChunk, StoreTorn
<1>6. CASE Rebuild
  BY <1>6, LaterStep DEF Rebuild
<1>7. CASE Verify
  BY <1>7, LaterStep DEF Verify
<1>8. CASE Cleanup
  BY <1>8, LaterStep DEF Cleanup
<1>9. CASE UNCHANGED casVars
  <2>1. UNCHANGED <<casPc, casData, casPos, casStart, casChunks>>
    BY <1>9 DEF casVars
  <2> QED BY <2>1 DEF TileInv, CasTypes, Covered, Tiles, End, SizesSoFar,
                      GearSizes, FixedSizes
<1> QED BY <1>1, <1>2, <1>3, <1>4, <1>5, <1>6, <1>7, <1>8, <1>9 DEF CasyncNext

LEMMA TileInit ==
  ASSUME CasyncInit PROVE TileInv
<1>1. /\ casPc = "idle" /\ casData = <<>> /\ casPos = 0 /\ casStart = 0
      /\ casChunks = <<>>
  BY DEF CasyncInit
<1>2. CasTypes
  BY <1>1, EmptySeq DEF CasTypes
<1>3. Tiles(casChunks, casData, Covered)
  BY <1>1, NoTiles DEF Covered
<1>4. SizesSoFar
  BY <1>1 DEF SizesSoFar, GearSizes
<1> QED BY <1>2, <1>3, <1>4 DEF TileInv

(* chunk_gear and chunk_fixed cut every file, whatever its bytes, the gear   *)
(* table, the mask, the modulus of the hash and the chunk sizes, into       *)
(* chunks that tile it and have the sizes of their strategy.                *)
THEOREM ChunksTileAlways == CasyncSpec => []ChunksTile
<1>1. TileInv => ChunksTile
  <2> SUFFICES ASSUME TileInv,
                      casPc \in {"store", "rebuilt", "done", "corrupt"}
               PROVE  /\ casChunks = <<>> <=> casData = <<>>
                      /\ casChunks # <<>> =>
                           /\ casChunks[1].offset = 0
                           /\ End(casChunks[Len(casChunks)]) = Len(casData)
                      /\ \A i \in 1 .. Len(casChunks) - 1 :
                           casChunks[i + 1].offset = End(casChunks[i])
                      /\ \A i \in DOMAIN casChunks :
                           /\ casChunks[i].hash # <<>>
                           /\ casChunks[i].hash =
                                SubSeq(casData, casChunks[i].offset + 1,
                                       End(casChunks[i]))
                      /\ GearSizes \/ FixedSizes
    BY DEF ChunksTile
  <2>1. Tiles(casChunks, casData, Len(casData))
    BY DEF TileInv, Covered
  <2>2. casData = <<>> <=> Len(casData) = 0
    BY EmptySeq DEF TileInv, CasTypes
  <2>3. DOMAIN casChunks = 1 .. Len(casChunks)
    BY LenProperties DEF TileInv, CasTypes
  <2>4. GearSizes \/ FixedSizes
    BY DEF TileInv, SizesSoFar
  <2> QED BY <2>1, <2>2, <2>3, <2>4 DEF Tiles
<1>2. CasyncInit => TileInv
  BY TileInit
<1>3. TileInv /\ [CasyncNext]_casVars => TileInv'
  BY TileStep
<1> QED BY <1>1, <1>2, <1>3, PTL DEF CasyncSpec

(* Pieces put one after the other are a sequence, and no longer than bounds *)
(* that grow with each piece by its length at least.                        *)
LEMMA FlattenBound ==
  ASSUME NEW B, NEW s \in Seq(Seq(B)), s # <<>>,
         NEW b \in [0 .. Len(s) -> Nat], b[0] = 0,
         \A i \in 1 .. Len(s) : b[i - 1] + Len(s[i]) <= b[i]
  PROVE  /\ SeqExt!FlattenSeq(s) \in Seq(B)
         /\ Len(SeqExt!FlattenSeq(s)) <= b[Len(s)]
<1> DEFINE X == Seq(B)
           n == Len(s)
           More(i, t) == IF i = 1 THEN s[i] ELSE t \o s[i]
           step == [x \in (1 .. n) \X X |-> More(x[1], x[2])]
           base == <<>>
           Defines(f) == f = [i \in 1 .. n |->
                                IF i = 1 THEN s[i] ELSE f[i - 1] \o s[i]]
           flatten == CHOOSE f : Defines(f)
<1>1. n \in Nat \ {0} /\ base \in X /\ \A i \in 1 .. n : s[i] \in X
  BY EmptySeq, LenProperties
<1>2. \A i \in 1 .. n, t \in X : More(i, t) \in X
  BY <1>1, ConcatProperties
<1>3. step \in [(1 .. n) \X X -> X]
  <2> HIDE DEF X, n, More
  <2> QED BY <1>2
<1>4. \E f : Defines(f)
  <2>1. PICK f \in [0 .. n -> X] : Iterates(f, n, base, step)
    <3> HIDE DEF X, n, step, base
    <3> QED BY <1>1, <1>3, RecursiveFunction
  <2>2. ASSUME NEW i \in 1 .. n
        PROVE  f[i] = More(i, f[i - 1])
    <3> HIDE DEF n, X, More
    <3>1. i - 1 \in 0 .. n
      BY <1>1
    <3>2. f[i - 1] \in X
      BY <2>1, <3>1
    <3>3. f[i] = step[<<i, f[i - 1]>>]
      BY <2>1 DEF Iterates
    <3> QED BY <3>2, <3>3
  <2> DEFINE g == [i \in 1 .. n |-> f[i]]
  <2>3. ASSUME NEW i \in 1 .. n
        PROVE  g[i] = IF i = 1 THEN s[i] ELSE g[i - 1] \o s[i]
    <3>1. i # 1 => i - 1 \in 1 .. n
      BY <1>1
    <3> HIDE DEF n, X
    <3>2. i # 1 => g[i - 1] = f[i - 1]
      BY <3>1
    <3> QED BY <2>2, <3>2
  <2>4. Defines(g)
    <3>1. g = [i \in 1 .. n |-> g[i]]
      OBVIOUS
    <3> HIDE DEF n, g
    <3> QED BY <2>3, <3>1
  <2> HIDE DEF Defines, g
  <2> QED BY <2>4
<1>5. Defines(flatten)
  <2> HIDE DEF Defines
  <2> QED BY <1>4
<1>6. SeqExt!FlattenSeq(s) = flatten[n]
  <2>1. Len(s) # 0
    BY <1>1
  <2> QED BY <2>1 DEF SeqExt!FlattenSeq
<1>7. \A i \in 1 .. n : flatten[i] = IF i = 1 THEN s[i]
                                     ELSE flatten[i - 1] \o s[i]
  <2> HIDE DEF flatten, n
  <2> QED BY <1>5
<1> DEFINE S == {i \in 1 .. n : flatten[i] \in Seq(B) /\ Len(flatten[i]) <= b[i]}
<1> HIDE DEF flatten
<1>8. 1 \in S
  <2>1. 1 \in 1 .. n /\ flatten[1] = s[1] /\ s[1] \in Seq(B)
    BY <1>1, <1>7
  <2>2. b[1 - 1] + Len(s[1]) <= b[1] /\ Len(s[1]) \in Nat
    BY <2>1, LenProperties
  <2>3. Len(s[1]) <= b[1]
    BY <2>2
  <2> QED BY <2>1, <2>3
<1>9. \A i \in 1 + 1 .. n : i - 1 \in S => i \in S
  <2> SUFFICES ASSUME NEW i \in 1 + 1 .. n, i - 1 \in S PROVE i \in S
    OBVIOUS
  <2>1. i \in 1 .. n /\ i # 1 /\ i - 1 \in 0 .. n /\ i \in 0 .. n
    BY <1>1
  <2>2. flatten[i] = flatten[i - 1] \o s[i] /\ s[i] \in Seq(B)
    BY <1>1, <1>7, <2>1
  <2>3. flatten[i - 1] \in Seq(B) /\ Len(flatten[i - 1]) <= b[i - 1]
    OBVIOUS
  <2>4. /\ flatten[i] \in Seq(B)
        /\ Len(flatten[i]) = Len(flatten[i - 1]) + Len(s[i])
    BY <2>2, <2>3, ConcatProperties
  <2>5. /\ b[i - 1] \in Nat /\ b[i] \in Nat /\ Len(s[i]) \in Nat
        /\ Len(flatten[i - 1]) \in Nat
    BY <2>1, <2>2, <2>3, LenProperties
  <2>6. b[i - 1] + Len(s[i]) <= b[i]
    BY <2>1
  <2>7. Len(flatten[i]) <= b[i]
    <3> DEFINE u == Len(flatten[i - 1])  w == Len(s[i])
               x == b[i - 1]  y == b[i]  z == Len(flatten[i])
    <3>1. /\ u \in Nat /\ w \in Nat /\ x \in Nat /\ y \in Nat
          /\ z = u + w /\ u <= x /\ x + w <= y
      BY <2>3, <2>4, <2>5, <2>6
    <3> HIDE DEF u, w, x, y, z
    <3>2. z <= y
      BY <3>1
    <3> QED BY <3>2 DEF y, z
  <2> QED BY <2>1, <2>4, <2>7
<1>10. \A i \in 1 .. n : i \in S
  <2> HIDE DEF S, n
  <2> QED BY <1>1, <1>8, <1>9, RangeInduction
<1>11. n \in S
  <2> HIDE DEF S
  <2> QED BY <1>1, <1>10
<1> QED BY <1>6, <1>11

(* What the files of a tiling's chunks give, no file longer than its chunk,  *)
(* is no longer than the file.                                              *)
LEMMA RebuiltBound ==
  ASSUME NEW data \in Seq(Bytes), NEW chunks \in Seq(ChunkType),
         Tiles(chunks, data, Len(data)),
         NEW s \in Seq(Seq(Bytes)), Len(s) = Len(chunks),
         \A i \in 1 .. Len(chunks) : Len(s[i]) <= Len(chunks[i].hash)
  PROVE  /\ SeqExt!FlattenSeq(s) \in Seq(Bytes)
         /\ Len(SeqExt!FlattenSeq(s)) <= Len(data)
<1> DEFINE n == Len(chunks)
           b == [i \in 0 .. n |-> IF i = 0 THEN 0 ELSE End(chunks[i])]
<1>1. /\ n \in Nat
      /\ n = 0 <=> chunks = <<>>
      /\ n = 0 <=> s = <<>>
      /\ Len(data) \in Nat
  BY EmptySeq, LenProperties
<1>2. CASE n = 0
  <2>1. s = <<>> /\ Len(s) = 0
    BY <1>1, <1>2
  <2>2. SeqExt!FlattenSeq(s) = s
    BY <2>1 DEF SeqExt!FlattenSeq
  <2>3. SeqExt!FlattenSeq(s) \in Seq(Bytes)
    BY <2>1, <2>2, EmptySeq
  <2>4. Len(SeqExt!FlattenSeq(s)) = 0
    BY <2>1, <2>2
  <2> HIDE DEF n
  <2> QED BY <1>1, <2>3, <2>4
<1>3. CASE n # 0
  <2>1. \A i \in 1 .. n : /\ chunks[i].offset \in Nat
                          /\ Len(chunks[i].hash) \in Nat
                          /\ End(chunks[i]) = chunks[i].offset + Len(chunks[i].hash)
                          /\ End(chunks[i]) \in Nat
    <3> SUFFICES ASSUME NEW i \in 1 .. n
                 PROVE  /\ chunks[i].offset \in Nat
                        /\ Len(chunks[i].hash) \in Nat
                        /\ End(chunks[i]) = chunks[i].offset + Len(chunks[i].hash)
                        /\ End(chunks[i]) \in Nat
      OBVIOUS
    <3>1. chunks[i] \in ChunkType
      BY LenProperties
    <3> QED BY <3>1, ChunkPlace
  <2>2. /\ chunks[1].offset = 0 /\ End(chunks[n]) = Len(data)
        /\ \A i \in 1 .. n - 1 : chunks[i + 1].offset = End(chunks[i])
    BY <1>1, <1>3 DEF Tiles
  <2>3. \A i \in 1 .. n : Len(s[i]) \in Nat
    BY LenProperties
  <2> HIDE DEF n
  <2>4. b \in [0 .. n -> Nat] /\ b[0] = 0 /\ b[n] = Len(data)
    BY <1>1, <1>3, <2>1, <2>2
  <2>5. ASSUME NEW i \in 1 .. n
        PROVE  b[i - 1] + Len(s[i]) <= b[i]
    <3>1. b[i - 1] = chunks[i].offset
      <4>1. CASE i = 1
        BY <1>1, <2>2, <4>1
      <4>2. CASE i # 1
        <5>1. i - 1 \in 1 .. n - 1 /\ i - 1 \in 0 .. n /\ i - 1 # 0
          BY <1>1, <4>2
        <5>2. chunks[i - 1 + 1].offset = End(chunks[i - 1])
          BY <2>2, <5>1
        <5>3. i - 1 + 1 = i
          BY <1>1
        <5> QED BY <5>1, <5>2, <5>3
      <4> QED BY <4>1, <4>2
    <3>2. b[i] = End(chunks[i])
      BY <1>1
    <3>3. Len(s[i]) <= Len(chunks[i].hash)
      BY DEF n
    <3> HIDE DEF b
    <3> QED BY SMTT(30), <2>1, <2>3, <3>1, <3>2, <3>3
  <2>6. Len(s) = n /\ s # <<>>
    BY <1>1, <1>3 DEF n
  <2> HIDE DEF b
  <2>7. /\ b \in [0 .. Len(s) -> Nat]
        /\ \A i \in 1 .. Len(s) : b[i - 1] + Len(s[i]) <= b[i]
    BY <2>4, <2>5, <2>6
  <2>8. /\ SeqExt!FlattenSeq(s) \in Seq(Bytes)
        /\ Len(SeqExt!FlattenSeq(s)) <= b[Len(s)]
    BY <2>4, <2>6, <2>7, FlattenBound
  <2>9. b[Len(s)] = Len(data)
    BY <2>4, <2>6
  <2> QED BY <2>8, <2>9
<1> QED BY <1>2, <1>3

(* A sequence no longer than the file that matches every chunk is the file. *)
LEMMA VerifiedIsFile ==
  ASSUME NEW data \in Seq(Bytes), NEW chunks \in Seq(ChunkType),
         Tiles(chunks, data, Len(data)),
         NEW out \in Seq(Bytes), Len(out) <= Len(data),
         \A i \in 1 .. Len(chunks) :
           /\ chunks[i].offset + Len(chunks[i].hash) <= Len(out)
           /\ SubSeq(out, chunks[i].offset + 1,
                     chunks[i].offset + Len(chunks[i].hash)) = chunks[i].hash
  PROVE  out = data
<1>1. Len(data) \in Nat /\ Len(out) \in Nat
  BY LenProperties
<1>2. ASSUME NEW p \in 1 .. Len(data)
      PROVE  p <= Len(out) /\ out[p] = data[p]
  <2>1. PICK i \in 1 .. Len(chunks) :
          chunks[i].offset < p /\ p <= End(chunks[i])
    BY Cover
  <2> DEFINE from == chunks[i].offset
             to == End(chunks[i])
             hash == chunks[i].hash
  <2>2. from \in Nat /\ hash \in Seq(Bytes) /\ to = from + Len(hash)
        /\ to \in Nat /\ Len(hash) \in Nat
    <3>1. chunks[i] \in ChunkType
      BY LenProperties
    <3> QED BY <3>1, ChunkPlace
  <2>3. hash = SubSeq(data, from + 1, to) /\ to <= Len(data)
    BY DEF Tiles
  <2>4. to <= Len(out) /\ SubSeq(out, from + 1, to) = hash
    BY <2>2
  <2> HIDE DEF from, to, hash
  <2>5. /\ p - from \in 1 .. to - from /\ from <= to
        /\ from + (p - from) = p
    BY SMTT(30), <1>1, <2>1, <2>2 DEF from, to
  <2>6. hash[p - from] = data[p]
    <3>1. SubSeq(data, from + 1, to)[p - from] = data[from + (p - from)]
      BY <2>2, <2>3, <2>5, Piece
    <3> QED BY <2>3, <2>5, <3>1
  <2>7. hash[p - from] = out[p]
    <3>1. SubSeq(out, from + 1, to)[p - from] = out[from + (p - from)]
      BY <2>2, <2>4, <2>5, Piece
    <3> QED BY <2>4, <2>5, <3>1
  <2>8. p <= Len(out)
    BY <1>1, <2>1, <2>2, <2>4 DEF to
  <2> QED BY <2>6, <2>7, <2>8
<1>3. Len(out) = Len(data)
  BY <1>1, <1>2
<1> QED BY <1>1, <1>2, <1>3, SeqEqual

(* The files of the store.                                                  *)
StoredShort(store) ==
  \A h \in DOMAIN store : store[h] \in Seq(Bytes) /\ Len(store[h]) <= Len(h)

(* A chunk's hash is a sequence of bytes, and not empty.                    *)
LEMMA HashType ==
  ASSUME TileInv, NEW h \in Hashes(casChunks)
  PROVE  h \in Seq(Bytes) /\ Len(h) \in Nat \ {0}
<1>1. PICK i \in DOMAIN casChunks : h = casChunks[i].hash
  BY DEF Hashes
<1>2. i \in 1 .. Len(casChunks) /\ casChunks[i] \in ChunkType
  BY LenProperties DEF TileInv, CasTypes
<1>3. h \in Seq(Bytes)
  BY <1>1, <1>2, ChunkPlace
<1>4. h # <<>>
  BY <1>1, <1>2 DEF TileInv, Tiles
<1> QED BY <1>3, <1>4, EmptySeq

(* Saving a file no longer than its chunk.                                  *)
LEMMA SavedShort ==
  ASSUME StoredShort(casStore), NEW h, NEW content \in Seq(Bytes),
         Len(content) <= Len(h)
  PROVE  /\ StoredShort(Saved(h, content))
         /\ DOMAIN Saved(h, content) = DOMAIN casStore \cup {h}
<1> DEFINE store == Saved(h, content)
<1>1. DOMAIN store = DOMAIN casStore \cup {h}
  BY DEF Saved
<1>2. ASSUME NEW x \in DOMAIN store
      PROVE  store[x] \in Seq(Bytes) /\ Len(store[x]) <= Len(x)
  <2>1. store[x] = IF x = h THEN content ELSE casStore[x]
    BY <1>1 DEF Saved
  <2> HIDE DEF store
  <2>2. CASE x = h
    BY <2>1, <2>2
  <2>3. CASE x # h
    <3>1. x \in DOMAIN casStore
      BY <1>1, <2>3
    <3> QED BY <2>1, <2>3, <3>1 DEF StoredShort
  <2> QED BY <2>2, <2>3
<1> HIDE DEF store
<1>3. StoredShort(store)
  BY <1>2 DEF StoredShort
<1> QED BY <1>1, <1>3 DEF store

(* Steps that leave the store and the index of the last file alone, and do  *)
(* not lead into or stay in a phase that says more about the store.         *)
LEMMA StoreKept ==
  ASSUME StoreInv, UNCHANGED <<casOld, casStore>>,
         casPc' \in {"gear", "fixed", "corrupt"}
  PROVE  StoreInv'
<1>1. UNCHANGED casStore /\ UNCHANGED casOld
  OBVIOUS
<1>2. \A h \in DOMAIN casStore' :
        casStore'[h] \in Seq(Bytes) /\ Len(casStore'[h]) <= Len(h)
  BY <1>1 DEF StoreInv
<1>3. casOld' \subseteq DOMAIN casStore'
  BY <1>1 DEF StoreInv
<1> QED BY <1>2, <1>3 DEF StoreInv

(* The chunks to be stored are those the previous index lacks: the others   *)
(* are in the store.                                                        *)
LEMMA IndexedStores ==
  ASSUME TileInv, StoreInv, Indexed
  PROVE  StoreInv'
<1>1. /\ casPc' = "store" /\ casStore' = casStore /\ casOld' = casOld
      /\ casTodo' = Diff(casOld, Hashes(casChunks'))
  BY DEF Indexed
<1>2. /\ casTodo' \subseteq Hashes(casChunks')
      /\ Hashes(casChunks') \subseteq casTodo' \cup DOMAIN casStore'
  BY <1>1 DEF Diff, StoreInv
<1> QED BY <1>1, <1>2 DEF StoreInv, Hashes

(* A chunk stored, whole or torn, is there.                                 *)
LEMMA ChunkStored ==
  ASSUME TileInv, StoreInv, NEW h \in casTodo, StoreChunk(h) \/ StoreTorn(h)
  PROVE  StoreInv'
<1>1. /\ casPc = "store" /\ casPc' = "store"
      /\ casChunks' = casChunks /\ casOld' = casOld
  BY DEF StoreChunk, StoreTorn
<1>2. /\ casTodo \subseteq Hashes(casChunks)
      /\ Hashes(casChunks) \subseteq casTodo \cup DOMAIN casStore
      /\ casOld \subseteq DOMAIN casStore
      /\ StoredShort(casStore)
  BY <1>1 DEF StoreInv, StoredShort
<1>3. h \in Seq(Bytes) /\ Len(h) \in Nat \ {0}
  BY <1>2, HashType
<1>4. ASSUME NEW k \in 0 .. Len(h) - 1
      PROVE  /\ SubSeq(h, 1, k) \in Seq(Bytes)
             /\ Len(SubSeq(h, 1, k)) <= Len(h)
  <2>1. k \in Nat /\ 0 <= k /\ k <= Len(h)
    BY <1>3
  <2>2. /\ SubSeq(h, 0 + 1, k) \in Seq(Bytes)
        /\ Len(SubSeq(h, 0 + 1, k)) = k - 0
    BY <1>3, <2>1, Piece
  <2> QED BY <1>3, <2>1, <2>2
<1>5. CASE StoreChunk(h)
  <2>1. /\ casTodo' = casTodo \ {h}
        /\ casStore' = IF h \in DOMAIN casStore THEN casStore ELSE Saved(h, h)
    BY <1>5 DEF StoreChunk
  <2>2. StoredShort(Saved(h, h)) /\ DOMAIN Saved(h, h) = DOMAIN casStore \cup {h}
    <3> DEFINE content == h
    <3>1. content \in Seq(Bytes) /\ Len(content) <= Len(h)
      BY <1>3
    <3> HIDE DEF content
    <3>2. /\ StoredShort(Saved(h, content))
          /\ DOMAIN Saved(h, content) = DOMAIN casStore \cup {h}
      BY <1>2, <3>1, SavedShort
    <3> QED BY <3>2 DEF content
  <2>3. /\ StoredShort(casStore')
        /\ DOMAIN casStore' = DOMAIN casStore \cup {h}
    BY <1>2, <2>1, <2>2
  <2> QED BY <1>1, <1>2, <2>1, <2>3 DEF StoreInv, StoredShort, Hashes
<1>6. CASE StoreTorn(h)
  <2>1. PICK k \in 0 .. Len(h) - 1 :
          /\ casTodo' = Diff(casOld, Hashes(casChunks))
          /\ casStore' = Saved(h, SubSeq(h, 1, k))
    BY <1>6 DEF StoreTorn
  <2>2. /\ StoredShort(casStore')
        /\ DOMAIN casStore' = DOMAIN casStore \cup {h}
    <3> DEFINE content == SubSeq(h, 1, k)
    <3>1. content \in Seq(Bytes) /\ Len(content) <= Len(h)
      BY <1>4
    <3>2. casStore' = Saved(h, content)
      BY <2>1
    <3> HIDE DEF content
    <3> QED BY <1>2, <3>1, <3>2, SavedShort
  <2> QED BY <1>1, <1>2, <2>1, <2>2 DEF StoreInv, StoredShort, Hashes, Diff
<1> QED BY <1>5, <1>6

(* No chunk is missing when the file is put together.                       *)
LEMMA RebuildFinds ==
  ASSUME TileInv, StoreInv, Rebuild
  PROVE  StoreInv'
<1> DEFINE s == [i \in DOMAIN casChunks |-> casStore[casChunks[i].hash]]
<1>1. /\ casPc = "store" /\ casTodo = {}
      /\ casChunks' = casChunks /\ casOld' = casOld /\ casStore' = casStore
      /\ casData' = casData
  BY DEF Rebuild
<1>2. Hashes(casChunks) \subseteq DOMAIN casStore
  BY <1>1 DEF StoreInv
<1>3. casOut' = SeqExt!FlattenSeq(s) /\ casPc' = "rebuilt"
  BY <1>2 DEF Rebuild
<1>4. /\ casData \in Seq(Bytes) /\ casChunks \in Seq(ChunkType)
      /\ Tiles(casChunks, casData, Len(casData))
      /\ DOMAIN casChunks = 1 .. Len(casChunks) /\ Len(casChunks) \in Nat
  BY <1>1, LenProperties DEF TileInv, CasTypes, Covered
<1>5. ASSUME NEW i \in 1 .. Len(casChunks)
      PROVE  /\ casStore[casChunks[i].hash] \in Seq(Bytes)
             /\ Len(casStore[casChunks[i].hash]) <= Len(casChunks[i].hash)
  <2>1. casChunks[i].hash \in DOMAIN casStore
    BY <1>2, <1>4 DEF Hashes
  <2> QED BY <2>1 DEF StoreInv
<1>6. /\ s \in Seq(Seq(Bytes)) /\ Len(s) = Len(casChunks)
      /\ \A i \in 1 .. Len(casChunks) : Len(s[i]) <= Len(casChunks[i].hash)
  <2>1. s = [i \in 1 .. Len(casChunks) |-> casStore[casChunks[i].hash]]
    BY <1>4
  <2> HIDE DEF s
  <2> QED BY <1>4, <1>5, <2>1
<1> HIDE DEF s
<1>7. casOut' \in Seq(Bytes) /\ Len(casOut') <= Len(casData)
  BY <1>3, <1>4, <1>6, RebuiltBound
<1>8. Hashes(casChunks)' = Hashes(casChunks)
  BY <1>1 DEF Hashes
<1> QED BY <1>1, <1>2, <1>3, <1>7, <1>8 DEF StoreInv

(* What is verified is the file, and the chunks of its index are stored.    *)
LEMMA VerifiedGood ==
  ASSUME TileInv, StoreInv, Verify
  PROVE  StoreInv'
<1>1. /\ casPc = "rebuilt" /\ casStore' = casStore /\ casOut' = casOut
      /\ casChunks' = casChunks /\ casData' = casData
  BY DEF Verify
<1>2. CASE ~ \A i \in DOMAIN casChunks : EntryMatches(casChunks[i])
  <2>1. casPc' = "corrupt" /\ UNCHANGED <<casOld, casStore>>
    BY <1>2 DEF Verify
  <2> QED BY <2>1, StoreKept
<1>3. CASE \A i \in DOMAIN casChunks : EntryMatches(casChunks[i])
  <2>1. casPc' = "done" /\ casOld' = Hashes(casChunks)
    BY <1>3 DEF Verify
  <2>2. /\ Hashes(casChunks) \subseteq DOMAIN casStore
        /\ casOut \in Seq(Bytes) /\ Len(casOut) <= Len(casData)
    BY <1>1 DEF StoreInv
  <2>3. /\ casData \in Seq(Bytes) /\ casChunks \in Seq(ChunkType)
        /\ Tiles(casChunks, casData, Len(casData))
        /\ DOMAIN casChunks = 1 .. Len(casChunks)
    BY <1>1, LenProperties DEF TileInv, CasTypes, Covered
  <2>4. \A i \in 1 .. Len(casChunks) :
          /\ casChunks[i].offset + Len(casChunks[i].hash) <= Len(casOut)
          /\ SubSeq(casOut, casChunks[i].offset + 1,
                    casChunks[i].offset + Len(casChunks[i].hash))
               = casChunks[i].hash
    BY <1>3, <2>3 DEF EntryMatches
  <2>5. casOut = casData
    BY <2>2, <2>3, <2>4, VerifiedIsFile
  <2> QED BY <1>1, <2>1, <2>2, <2>5 DEF StoreInv
<1> QED BY <1>2, <1>3

(* The clean-up leaves the chunks of the last index.                        *)
LEMMA CleanupKeeps ==
  ASSUME StoreInv, Cleanup
  PROVE  StoreInv'
<1>1. /\ casPc \in {"done", "corrupt"} /\ casPc' = casPc
      /\ casStore' = [h \in DOMAIN casStore \cap casOld |-> casStore[h]]
      /\ casOld' = casOld /\ casOut' = casOut /\ casData' = casData
  BY DEF Cleanup
<1>2. /\ DOMAIN casStore' = casOld
      /\ \A h \in casOld : casStore'[h] = casStore[h] /\ h \in DOMAIN casStore
  BY <1>1 DEF StoreInv
<1> QED BY <1>1, <1>2 DEF StoreInv

LEMMA StoreStep ==
  ASSUME TileInv, StoreInv, [CasyncNext]_casVars
  PROVE  StoreInv'
<1>1. ASSUME NEW n \in 0 .. MaxFileLen, NEW strategy \in {"gear", "fixed"},
             NEW data \in [1 .. n -> Bytes], Begin(data, strategy)
      PROVE  StoreInv'
  BY <1>1, StoreKept DEF Begin
<1>2. CASE GearByte
  BY <1>2, StoreKept DEF GearByte
<1>3. CASE FixedSlice
  BY <1>3, StoreKept DEF FixedSlice
<1>4. CASE Indexed
  BY <1>4, IndexedStores
<1>5. CASE \E h \in casTodo : StoreChunk(h) \/ StoreTorn(h)
  BY <1>5, ChunkStored
<1>6. CASE Rebuild
  BY <1>6, RebuildFinds
<1>7. CASE Verify
  BY <1>7, VerifiedGood
<1>8. CASE Cleanup
  BY <1>8, CleanupKeeps
<1>9. CASE UNCHANGED casVars
  BY <1>9 DEF casVars, StoreInv, Hashes
<1> QED BY <1>1, <1>2, <1>3, <1>4, <1>5, <1>6, <1>7, <1>8, <1>9 DEF CasyncNext

(* Diff, the store and verify together give the file or refuse: with any    *)
(* number of files, torn writes and clean-ups, no chunk is ever missing and *)
(* what passes verification is the file, byte for byte.                     *)
THEOREM DeltaRebuildsAlways == CasyncSpec => []DeltaRebuilds
<1>1. CasyncInit => TileInv /\ StoreInv
  <2> SUFFICES ASSUME CasyncInit PROVE TileInv /\ StoreInv
    OBVIOUS
  <2>1. StoreInv
    BY DEF CasyncInit, StoreInv
  <2> QED BY <2>1, TileInit
<1>2. TileInv /\ StoreInv /\ [CasyncNext]_casVars => (TileInv /\ StoreInv)'
  BY TileStep, StoreStep
<1>3. StoreInv => DeltaRebuilds
  BY DEF StoreInv, DeltaRebuilds
<1> QED BY <1>1, <1>2, <1>3, PTL DEF CasyncSpec
=============================================================================
