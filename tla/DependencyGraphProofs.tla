----------------------- MODULE DependencyGraphProofs -----------------------
(***************************************************************************)
(* Proofs about monitord's dependency graph, for every set of services and  *)
(* every graph over it: only acyclic graphs pass the search, a reported     *)
(* cycle is one, and the sort delivers a start order.                       *)
(***************************************************************************)
EXTENDS DependencyGraph, FiniteSetTheorems, SequenceTheorems, TLAPS

(* s is an element of sequence q.                                           *)
In(s, q) == \E i \in 1 .. Len(q) : q[i] = s

Distinct(q) == \A i, j \in 1 .. Len(q) : q[i] = q[j] => i = j

(* Past the first phase every dependency is a service.                      *)
KnownDeps ==
  pc \notin {"build", "missing"} => \A s \in Services : deps[s] \subseteq Services

(* The path holds the services in progress; each needs the next one, and of *)
(* what it has looked at everything but the next one is done.               *)
PathInv ==
  /\ Distinct(path)
  /\ \A s \in Services : color[s] = 1 <=> In(s, path)
  /\ \A i \in 1 .. Len(path) - 1 : path[i + 1] \in deps[path[i]]
  /\ \A s \in Services : left[s] \subseteq deps[s]
  /\ \A i \in 1 .. Len(path) : \A e \in deps[path[i]] \ left[path[i]] :
       (e \in Services /\ color[e] = 2) \/ (i < Len(path) /\ path[i + 1] = e)

(* What a finished service needs is finished, and the finished services     *)
(* hold no cycle.                                                           *)
DoneInv ==
  /\ \A s \in Services : color[s] = 2 =>
       \A e \in deps[s] : e \in Services /\ color[e] = 2
  /\ \A S \in SUBSET Services :
       S # {} /\ (\A s \in S : color[s] = 2) => \E s \in S : deps[s] \cap S = {}

(* In-degrees count the dependencies outside the result, the queue holds    *)
(* the services that have none and are not in it yet, and the result is     *)
(* closed and ordered.                                                      *)
Open(s) == {e \in deps[s] : ~In(e, result)}

SortInv ==
  pc \in {"sort", "sorted"} =>
    /\ \A s \in Services : inDegree[s] = Cardinality(Open(s))
    /\ Distinct(result)
    /\ Distinct(queue)
    /\ \A s \in Services : ~(In(s, result) /\ In(s, queue))
    /\ \A s \in Services : Open(s) = {} <=> In(s, result) \/ In(s, queue)
    /\ \A i, j \in 1 .. Len(result) : result[j] \in deps[result[i]] => j < i
    /\ pc = "sorted" => queue = <<>>

SortIdle == pc \notin {"sort", "sorted"} => result = <<>>

(* The inductive invariant.                                                 *)
GraphInv ==
  /\ GraphTypeOK
  /\ KnownDeps
  /\ PathInv
  /\ DoneInv
  /\ OnlyAcyclicSorted
  /\ CycleIsReal
  /\ SortIdle
  /\ SortInv

----------------------------------------------------------------------------
(* Sequences as lists of elements.                                          *)

(* Appending adds one element.                                              *)
LEMMA InAppend ==
  ASSUME NEW S, NEW q \in Seq(S), NEW x \in S
  PROVE  /\ Append(q, x) \in Seq(S)
         /\ \A s : In(s, Append(q, x)) <=> In(s, q) \/ s = x
         /\ Distinct(q) /\ ~In(x, q) => Distinct(Append(q, x))
<1> DEFINE n == Len(q)
           r == Append(q, x)
<1>1. /\ n \in Nat /\ r \in Seq(S) /\ Len(r) = n + 1
      /\ r[n + 1] = x
      /\ \A i \in 1 .. n : r[i] = q[i]
  OBVIOUS
<1>2. \A i \in 1 .. n + 1 : i \in 1 .. n \/ i = n + 1
  BY <1>1
<1>3. \A i \in 1 .. n : i \in 1 .. n + 1
  BY <1>1
<1>4. n + 1 \in 1 .. n + 1
  BY <1>1
<1> HIDE DEF n, r
<1>5. \A s : In(s, r) <=> In(s, q) \/ s = x
  BY <1>1, <1>2, <1>3, <1>4 DEF In, n
<1>6. Distinct(q) /\ ~In(x, q) => Distinct(r)
  BY <1>1, <1>2 DEF In, Distinct, n
<1> QED
  BY <1>1, <1>5, <1>6 DEF r

(* Taking the first element off.                                            *)
LEMMA InTail ==
  ASSUME NEW S, NEW q \in Seq(S), q # <<>>, Distinct(q)
  PROVE  /\ Tail(q) \in Seq(S) /\ Head(q) \in S
         /\ \A s : In(s, q) <=> s = Head(q) \/ In(s, Tail(q))
         /\ ~In(Head(q), Tail(q))
         /\ Distinct(Tail(q))
<1> DEFINE n == Len(q)
           r == Tail(q)
<1>1. /\ n \in Nat /\ n >= 1 /\ r \in Seq(S) /\ Len(r) = n - 1
      /\ Head(q) = q[1] /\ Head(q) \in S
      /\ \A i \in 1 .. n - 1 : r[i] = q[i + 1]
  OBVIOUS
<1>2. /\ \A i \in 1 .. n : i = 1 \/ (i - 1 \in 1 .. n - 1 /\ i = (i - 1) + 1)
      /\ \A i \in 1 .. n - 1 : i + 1 \in 1 .. n /\ i + 1 # 1
      /\ \A i, j \in 1 .. n - 1 : i + 1 = j + 1 => i = j
      /\ 1 \in 1 .. n
  BY <1>1
<1> HIDE DEF n, r
<1>3. \A s : In(s, q) <=> s = q[1] \/ In(s, r)
  <2>1. ASSUME NEW s, In(s, q) PROVE s = q[1] \/ In(s, r)
    <3>1. PICK i \in 1 .. n : q[i] = s
      BY <2>1 DEF In, n
    <3>2. CASE i # 1
      <4>1. i - 1 \in 1 .. Len(r) /\ r[i - 1] = s
        BY <1>1, <1>2, <3>1, <3>2
      <4> QED
        BY <4>1 DEF In
    <3> QED
      BY <3>1, <3>2
  <2>2. ASSUME NEW s, In(s, r) PROVE In(s, q)
    BY <1>1, <1>2, <2>2 DEF In, n
  <2>3. In(q[1], q)
    BY <1>2 DEF In, n
  <2> QED
    BY <2>1, <2>2, <2>3
<1>4. ~In(q[1], r)
  BY <1>1, <1>2 DEF In, Distinct, n
<1>5. Distinct(r)
  BY <1>1, <1>2 DEF Distinct, n
<1> QED
  BY <1>1, <1>3, <1>4, <1>5 DEF r

(* Putting two sequences together.                                          *)
LEMMA InConcat ==
  ASSUME NEW S, NEW p \in Seq(S), NEW q \in Seq(S)
  PROVE  /\ p \o q \in Seq(S)
         /\ \A s : In(s, p \o q) <=> In(s, p) \/ In(s, q)
         /\ Distinct(p) /\ Distinct(q) /\ (\A s \in S : ~(In(s, p) /\ In(s, q)))
              => Distinct(p \o q)
<1> DEFINE m == Len(p)
           n == Len(q)
           r == p \o q
<1>1. /\ m \in Nat /\ n \in Nat /\ r \in Seq(S) /\ Len(r) = m + n
      /\ \A i \in 1 .. m : r[i] = p[i] /\ p[i] \in S
      /\ \A i \in 1 .. n : r[m + i] = q[i]
  OBVIOUS
<1>2. /\ \A i \in 1 .. m + n : i \in 1 .. m \/ (i - m \in 1 .. n /\ i = m + (i - m))
      /\ \A i \in 1 .. m : i \in 1 .. m + n
      /\ \A i \in 1 .. n : m + i \in 1 .. m + n
      /\ \A i, j \in 1 .. m + n : i - m = j - m => i = j
  BY <1>1
<1> HIDE DEF m, n, r
<1>3. \A s : In(s, r) <=> In(s, p) \/ In(s, q)
  <2>1. ASSUME NEW s, In(s, r) PROVE In(s, p) \/ In(s, q)
    <3>1. PICK i \in 1 .. m + n : r[i] = s
      BY <1>1, <2>1 DEF In
    <3>2. CASE i \in 1 .. m
      BY <1>1, <3>1, <3>2 DEF In, m
    <3>3. CASE i - m \in 1 .. n /\ i = m + (i - m)
      <4>1. q[i - m] = s
        BY <1>1, <3>1, <3>3
      <4> QED
        BY <3>3, <4>1 DEF In, n
    <3> QED
      BY <1>2, <3>2, <3>3
  <2>2. ASSUME NEW s, In(s, p) \/ In(s, q) PROVE In(s, r)
    BY <1>1, <1>2, <2>2 DEF In, m, n
  <2> QED
    BY <2>1, <2>2
<1>4. ASSUME Distinct(p), Distinct(q), \A s \in S : ~(In(s, p) /\ In(s, q))
      PROVE  Distinct(r)
  <2> SUFFICES ASSUME NEW i \in 1 .. m + n, NEW j \in 1 .. m + n, r[i] = r[j]
               PROVE  i = j
    BY <1>1 DEF Distinct
  <2>1. CASE i \in 1 .. m /\ j \in 1 .. m
    BY <1>1, <1>4, <2>1 DEF Distinct, m
  <2>2. CASE i - m \in 1 .. n /\ i = m + (i - m) /\ j - m \in 1 .. n /\ j = m + (j - m)
    <3>1. q[i - m] = q[j - m]
      BY <1>1, <2>2
    <3>2. i - m = j - m
      BY <1>4, <2>2, <3>1 DEF Distinct, n
    <3> QED
      BY <1>2, <3>2
  <2>3. CASE i \in 1 .. m /\ j - m \in 1 .. n /\ j = m + (j - m)
    <3>1. p[i] = q[j - m] /\ p[i] \in S
      BY <1>1, <2>3
    <3> QED
      BY <1>4, <2>3, <3>1 DEF In, m, n
  <2>4. CASE j \in 1 .. m /\ i - m \in 1 .. n /\ i = m + (i - m)
    <3>1. p[j] = q[i - m] /\ p[j] \in S
      BY <1>1, <2>4
    <3> QED
      BY <1>4, <2>4, <3>1 DEF In, m, n
  <2> QED
    BY <1>2, <2>1, <2>2, <2>3, <2>4
<1> QED
  BY <1>1, <1>3, <1>4 DEF r

(* An enumeration lists its set.                                            *)
LEMMA InEnumeration ==
  ASSUME NEW S \in SUBSET Services, NEW q \in Enumerations(S)
  PROVE  /\ q \in Seq(Services)
         /\ Distinct(q)
         /\ \A s : In(s, q) <=> s \in S
<1> DEFINE n == Cardinality(S)
<1>1. IsFiniteSet(S) /\ n \in Nat
  BY NamesAssumption, FS_Subset, FS_CardinalityType
<1>2. q \in [1 .. n -> S] /\ \A i, j \in 1 .. n : q[i] = q[j] => i = j
  BY DEF Enumerations
<1>3. IsFiniteSet(1 .. n) /\ Cardinality(1 .. n) = n
  <2>1. /\ IsFiniteSet(1 .. n)
        /\ Cardinality(1 .. n) = IF 1 > n THEN 0 ELSE n - 1 + 1
    BY <1>1, FS_Interval
  <2> QED
    BY <1>1, <2>1
<1>4. q \in Injection(1 .. n, S)
  BY <1>2 DEF Injection, IsInjective
<1>5. q \in Surjection(1 .. n, S)
  BY <1>1, <1>3, <1>4, FS_Injection
<1>6. \A s \in S : \E i \in 1 .. n : q[i] = s
  BY <1>5 DEF Surjection
<1>7. q \in Seq(S) /\ q \in Seq(Services) /\ Len(q) = n
  BY <1>1, <1>2
<1> QED
  BY <1>2, <1>6, <1>7 DEF In, Distinct

(* Taking the last element off.                                             *)
LEMMA InFront ==
  ASSUME NEW S, NEW q \in Seq(S), q # <<>>, Distinct(q)
  PROVE  /\ SubSeq(q, 1, Len(q) - 1) \in Seq(S)
         /\ Len(SubSeq(q, 1, Len(q) - 1)) = Len(q) - 1
         /\ \A i \in 1 .. Len(q) - 1 : SubSeq(q, 1, Len(q) - 1)[i] = q[i]
         /\ Distinct(SubSeq(q, 1, Len(q) - 1))
         /\ \A s : In(s, SubSeq(q, 1, Len(q) - 1))
                    <=> In(s, q) /\ s # q[Len(q)]
<1> DEFINE n == Len(q)
           r == SubSeq(q, 1, n - 1)
<1>1. /\ n \in Nat /\ n >= 1 /\ r \in Seq(S) /\ Len(r) = n - 1
      /\ \A i \in 1 .. n - 1 : r[i] = q[i]
  <2>1. n \in Nat /\ n >= 1 /\ \A i \in 1 .. n - 1 : q[i] \in S
    OBVIOUS
  <2> HIDE DEF n
  <2>2. 1 \in Int /\ n - 1 \in Int
    BY <2>1
  <2>3. /\ r \in Seq(S)
        /\ Len(r) = IF 1 <= n - 1 THEN (n - 1) - 1 + 1 ELSE 0
        /\ \A i \in 1 .. (n - 1) - 1 + 1 : r[i] = q[1 + i - 1]
    BY <2>1, <2>2, SubSeqProperties
  <2> QED
    BY <2>1, <2>3
<1>2. /\ \A i \in 1 .. n : i \in 1 .. n - 1 \/ i = n
      /\ \A i \in 1 .. n - 1 : i \in 1 .. n /\ i # n
      /\ n \in 1 .. n
  BY <1>1
<1> HIDE DEF n, r
<1>3. Distinct(r)
  BY <1>1, <1>2 DEF Distinct, n
<1>4. ASSUME NEW s, In(s, r) PROVE In(s, q) /\ s # q[n]
  BY <1>1, <1>2, <1>4 DEF In, Distinct, n
<1>5. ASSUME NEW s, In(s, q), s # q[n] PROVE In(s, r)
  BY <1>1, <1>2, <1>5 DEF In, n
<1> QED
  BY <1>1, <1>3, <1>4, <1>5 DEF n, r

----------------------------------------------------------------------------
(* The depth-first search.                                                  *)

(* A new service goes on the path: at its end (DfsRoot, DfsDescend).        *)
LEMMA EnterStep ==
  ASSUME GraphTypeOK, KnownDeps, PathInv, DoneInv, pc = "dfs",
         NEW d \in Services, color[d] = 0, Enter(d), UNCHANGED deps,
         \/ path = <<>> /\ left' = [left EXCEPT ![d] = deps[d]]
         \/ /\ path # <<>> /\ d \in left[Top]
            /\ left' = [left EXCEPT ![Top] = @ \ {d}, ![d] = deps[d]]
  PROVE  PathInv' /\ DoneInv'
<1> DEFINE n == Len(path)
<1>1. n \in Nat /\ path \in Seq(Services) /\ ~In(d, path)
  BY DEF GraphTypeOK, PathInv
<1>2. /\ color' = [color EXCEPT ![d] = 1]
      /\ color'[d] = 1
      /\ \A s \in Services \ {d} : color'[s] = color[s]
  BY DEF Enter, GraphTypeOK
<1>3. /\ Len(path') = n + 1 /\ path'[n + 1] = d
      /\ \A i \in 1 .. n : path'[i] = path[i] /\ path[i] \in Services
                         /\ path[i] # d
  BY <1>1 DEF Enter, In
<1>4. /\ Distinct(path')
      /\ \A s : In(s, path') <=> In(s, path) \/ s = d
  BY <1>1, InAppend DEF Enter, PathInv
<1>5. /\ \A i \in 1 .. n + 1 : i \in 1 .. n \/ i = n + 1
      /\ \A i \in 1 .. n : i # n => i \in 1 .. n - 1 /\ i + 1 \in 1 .. n
      /\ \A i \in 1 .. n : i < n + 1
  BY <1>1
<1>6. \A s \in Services : color'[s] = 1 <=> In(s, path')
  BY <1>2, <1>4 DEF PathInv
<1>7. n # 0 => /\ Top = path[n] /\ n \in 1 .. n /\ Top \in Services
               /\ d \in left[Top] /\ d \in deps[Top]
               /\ left' = [left EXCEPT ![Top] = left[Top] \ {d}, ![d] = deps[d]]
  BY <1>1 DEF Top, PathInv, GraphTypeOK
<1>8. n = 0 => left' = [left EXCEPT ![d] = deps[d]]
  BY <1>1
<1>9. /\ left'[d] = deps[d]
      /\ \A s \in Services : s # d /\ (n = 0 \/ s # Top) => left'[s] = left[s]
      /\ n # 0 => left'[Top] = left[Top] \ {d}
  BY <1>1, <1>3, <1>7, <1>8 DEF GraphTypeOK
<1>10. \A s \in Services : left'[s] \subseteq deps'[s]
  BY <1>9 DEF PathInv
<1>11. \A i \in 1 .. n : path'[i + 1] \in deps'[path'[i]]
  <2> SUFFICES ASSUME NEW i \in 1 .. n PROVE path'[i + 1] \in deps[path[i]]
    BY <1>3
  <2>1. CASE i = n
    BY <1>3, <1>7, <2>1
  <2>2. CASE i # n
    BY <1>1, <1>3, <1>5, <2>2 DEF PathInv
  <2> QED
    BY <2>1, <2>2
<1>12. ASSUME NEW i \in 1 .. n + 1, NEW e \in deps[path'[i]] \ left'[path'[i]]
       PROVE  (e \in Services /\ color'[e] = 2)
                \/ (i < n + 1 /\ path'[i + 1] = e)
  <2>1. CASE i = n + 1
    BY <1>3, <1>9, <2>1
  <2>2. CASE i \in 1 .. n /\ i # n
    <3>1. path[i] # Top /\ path'[i + 1] = path[i + 1]
      BY <1>1, <1>3, <1>5, <1>7, <2>2 DEF PathInv, Distinct
    <3>2. e \in deps[path[i]] \ left[path[i]]
      BY <1>3, <1>9, <2>2, <3>1
    <3>3. (e \in Services /\ color[e] = 2) \/ path[i + 1] = e
      BY <2>2, <3>2 DEF PathInv
    <3> QED
      BY <1>2, <1>5, <2>2, <3>1, <3>3
  <2>3. CASE i = n /\ n # 0
    <3>1. e \in deps[Top] /\ (e \notin left[Top] \/ e = d)
      BY <1>3, <1>7, <1>9, <2>3
    <3>2. CASE e = d
      BY <1>1, <1>3, <2>3, <3>2
    <3>3. CASE e \notin left[Top]
      <4>0. n \in 1 .. Len(path) /\ ~(n < Len(path)) /\ path[n] = Top
        BY <1>1, <1>7, <2>3
      <4>1. e \in Services /\ color[e] = 2
        BY <3>1, <3>3, <4>0 DEF PathInv
      <4> QED
        BY <1>2, <4>1
    <3> QED
      BY <3>1, <3>2, <3>3
  <2> QED
    BY <1>1, <1>5, <2>1, <2>2, <2>3
<1>13. PathInv'
  <2>1. (n + 1) - 1 = n
    BY <1>1
  <2> QED
    BY <1>3, <1>4, <1>6, <1>10, <1>11, <1>12, <2>1 DEF PathInv
<1>14. \A s \in Services : color'[s] = 2 <=> color[s] = 2
  BY <1>2
<1>15. DoneInv'
  BY <1>14 DEF DoneInv
<1> QED
  BY <1>13, <1>15

(* A finished dependency is passed over.                                    *)
LEMMA SkipStep ==
  ASSUME GraphTypeOK, KnownDeps, PathInv, DoneInv, NEW d \in Services, DfsSkip(d)
  PROVE  PathInv' /\ DoneInv'
<1> DEFINE n == Len(path)
<1>1. /\ n \in Nat /\ n # 0 /\ Top = path[n] /\ n \in 1 .. n
      /\ Top \in Services /\ color[d] = 2
      /\ left' = [left EXCEPT ![Top] = left[Top] \ {d}]
      /\ UNCHANGED <<deps, color, path>>
  BY DEF DfsSkip, Look, Top, GraphTypeOK
<1>2. /\ left'[Top] = left[Top] \ {d}
      /\ \A s \in Services : s # Top => left'[s] = left[s]
  BY <1>1 DEF GraphTypeOK
<1>3. \A s \in Services : left'[s] \subseteq deps[s]
  BY <1>2 DEF PathInv
<1>4. ASSUME NEW i \in 1 .. n, NEW e \in deps[path[i]] \ left'[path[i]]
      PROVE  (e \in Services /\ color[e] = 2) \/ (i < n /\ path[i + 1] = e)
  <2>1. e = d \/ e \in deps[path[i]] \ left[path[i]]
    BY <1>1, <1>2 DEF GraphTypeOK
  <2> QED
    BY <1>1, <2>1 DEF PathInv
<1>5. PathInv'
  BY <1>1, <1>3, <1>4 DEF PathInv, In, Distinct
<1>6. DoneInv'
  BY <1>1 DEF DoneInv
<1> QED
  BY <1>5, <1>6

(* A visit returns: its service is finished, and so is all it needs.        *)
LEMMA ReturnStep ==
  ASSUME GraphTypeOK, KnownDeps, PathInv, DoneInv, DfsReturn
  PROVE  PathInv' /\ DoneInv'
<1> DEFINE n == Len(path)
<1>1. /\ n \in Nat /\ n # 0 /\ n >= 1 /\ path \in Seq(Services) /\ path # <<>>
      /\ n \in 1 .. n /\ Top = path[n] /\ Top \in Services /\ left[Top] = {}
      /\ color' = [color EXCEPT ![Top] = 2]
      /\ path' = SubSeq(path, 1, n - 1)
      /\ UNCHANGED <<deps, left, pc>>
  BY DEF DfsReturn, Top, GraphTypeOK
<1>2. /\ color'[Top] = 2
      /\ \A s \in Services : s # Top => color'[s] = color[s]
  BY <1>1 DEF GraphTypeOK
<1>3. /\ Len(path') = n - 1
      /\ \A i \in 1 .. n - 1 : path'[i] = path[i] /\ path[i] \in Services
      /\ Distinct(path')
      /\ \A s : In(s, path') <=> In(s, path) /\ s # Top
  BY <1>1, InFront DEF PathInv
<1>4. color[Top] = 1
  BY <1>1 DEF PathInv, In
<1>5. \A e \in deps[Top] : e \in Services /\ color[e] = 2 /\ e # Top
  <2>1. ~(n < Len(path)) /\ n \in 1 .. Len(path)
    BY <1>1
  <2> QED
    BY <1>1, <1>4, <2>1 DEF PathInv
<1>6. \A s \in Services : color'[s] = 1 <=> In(s, path')
  BY <1>2, <1>3 DEF PathInv
<1>7. \A i \in 1 .. (n - 1) - 1 : path'[i + 1] \in deps[path'[i]]
  <2>1. \A i \in 1 .. (n - 1) - 1 : /\ i \in 1 .. n - 1 /\ i + 1 \in 1 .. n - 1
    BY <1>1
  <2> QED
    BY <1>3, <2>1 DEF PathInv
<1>8. ASSUME NEW i \in 1 .. n - 1, NEW e \in deps[path[i]] \ left[path[i]]
      PROVE  (e \in Services /\ color'[e] = 2)
               \/ (i < n - 1 /\ path'[i + 1] = e)
  <2>1. i \in 1 .. n /\ i + 1 \in 1 .. n /\ (i + 1 = n \/ i + 1 \in 1 .. n - 1)
    BY <1>1
  <2>2. (e \in Services /\ color[e] = 2) \/ path[i + 1] = e
    BY <2>1 DEF PathInv
  <2>3. CASE e \in Services /\ color[e] = 2
    BY <1>2, <2>3
  <2>4. CASE path[i + 1] = e /\ i + 1 = n
    BY <1>1, <1>2, <2>4
  <2>5. CASE path[i + 1] = e /\ i + 1 \in 1 .. n - 1
    BY <1>1, <1>3, <2>5
  <2> QED
    BY <2>1, <2>2, <2>3, <2>4, <2>5
<1>9. PathInv'
  BY <1>1, <1>3, <1>6, <1>7, <1>8 DEF PathInv
<1>10. \A s \in Services : color'[s] = 2 <=> color[s] = 2 \/ s = Top
  BY <1>2
<1>11. \A s \in Services : color'[s] = 2 =>
         \A e \in deps[s] : e \in Services /\ color'[e] = 2
  BY <1>5, <1>10 DEF DoneInv
<1>12. ASSUME NEW S \in SUBSET Services, S # {}, \A s \in S : color'[s] = 2
       PROVE  \E s \in S : deps[s] \cap S = {}
  <2>1. CASE S \ {Top} = {}
    <3>1. S = {Top}
      BY <1>12, <2>1
    <3> QED
      BY <1>5, <3>1
  <2>2. CASE S \ {Top} # {}
    <3>1. PICK s \in S \ {Top} : deps[s] \cap (S \ {Top}) = {}
      <4>1. S \ {Top} \in SUBSET Services /\ \A s \in S \ {Top} : color[s] = 2
        BY <1>10, <1>12
      <4> QED
        BY <2>2, <4>1 DEF DoneInv
    <3>2. color[s] = 2 /\ s \in Services
      BY <1>10, <1>12
    <3>3. Top \notin deps[s]
      BY <1>4, <3>2 DEF DoneInv
    <3> QED
      BY <3>1, <3>3
  <2> QED
    BY <2>1, <2>2
<1>13. DoneInv'
  BY <1>1, <1>11, <1>12 DEF DoneInv
<1> QED
  BY <1>9, <1>13

(* The reported part of the path is a cycle.                                *)
LEMMA CycleStep ==
  ASSUME GraphTypeOK, PathInv, NEW d \in Services, DfsCycle(d)
  PROVE  CycleIsReal' /\ cycle' \in Seq(Services)
<1> DEFINE n == Len(path)
<1>1. /\ n \in Nat /\ n # 0 /\ Top = path[n] /\ n \in 1 .. n
      /\ d \in left[Top] /\ Top \in Services
      /\ \A i \in 1 .. n : path[i] \in Services
  BY SMTT(30) DEF DfsCycle, Look, Top, GraphTypeOK
<1>2. PICK k \in 1 .. n : path[k] = d /\ cycle' = SubSeq(path, k, n)
  BY DEF DfsCycle
<1>3. d \in deps[Top]
  BY <1>1 DEF PathInv
<1>4. /\ cycle' \in Seq(Services)
      /\ Len(cycle') = IF k <= n THEN n - k + 1 ELSE 0
      /\ \A i \in 1 .. n - k + 1 : cycle'[i] = path[k + i - 1]
  <2>1. k \in Int /\ n \in Int /\ \A i \in k .. n : path[i] \in Services
    BY <1>1
  <2> QED
    BY <1>2, <2>1, SubSeqProperties
<1>5. Len(cycle') = n - k + 1 /\ Len(cycle') >= 1 /\ Len(cycle') \in Nat
  BY <1>1, <1>4
<1>6. cycle'[1] = d /\ cycle'[Len(cycle')] = Top
  <2>1. /\ 1 \in 1 .. n - k + 1 /\ n - k + 1 \in 1 .. n - k + 1
        /\ k + 1 - 1 = k /\ k + (n - k + 1) - 1 = n
    BY <1>1
  <2> QED
    BY <1>1, <1>2, <1>4, <1>5, <2>1
<1>7. \A i \in 1 .. Len(cycle') - 1 : cycle'[i + 1] \in deps[cycle'[i]]
  <2> SUFFICES ASSUME NEW i \in 1 .. n - k PROVE cycle'[i + 1] \in deps[cycle'[i]]
    BY <1>1, <1>5
  <2>1. /\ i \in 1 .. n - k + 1 /\ i + 1 \in 1 .. n - k + 1
        /\ k + (i + 1) - 1 = (k + i - 1) + 1
        /\ k + i - 1 \in 1 .. n - 1
    BY <1>1
  <2>2. path[(k + i - 1) + 1] \in deps[path[k + i - 1]]
    BY <2>1 DEF PathInv
  <2> QED
    BY <1>4, <2>1, <2>2
<1>8. deps' = deps
  BY DEF DfsCycle
<1> QED
  BY <1>3, <1>4, <1>5, <1>6, <1>7, <1>8 DEF CycleIsReal

----------------------------------------------------------------------------
(* The sort.                                                               *)

(* Open dependencies are finitely many.                                     *)
LEMMA OpenFinite ==
  ASSUME GraphTypeOK, KnownDeps, pc \in {"dfs", "sort", "sorted"}, NEW s \in Services
  PROVE  /\ IsFiniteSet(deps[s]) /\ IsFiniteSet(Open(s))
         /\ Cardinality(deps[s]) \in Nat /\ Cardinality(Open(s)) \in Nat
         /\ Cardinality(deps[s]) = 0 <=> deps[s] = {}
         /\ Cardinality(Open(s)) = 0 <=> Open(s) = {}
<1>1. deps[s] \in SUBSET Services /\ Open(s) \in SUBSET Services
  BY DEF KnownDeps, Open
<1>2. IsFiniteSet(deps[s]) /\ IsFiniteSet(Open(s))
  BY <1>1, NamesAssumption, FS_Subset
<1> QED
  BY <1>2, FS_CardinalityType, FS_EmptySet

(* The sort starts with the services that need nothing.                     *)
LEMMA SortStartStep ==
  ASSUME GraphTypeOK, KnownDeps, PathInv, DoneInv, SortIdle, SortStart
  PROVE  /\ OnlyAcyclicSorted' /\ SortInv'
         /\ queue' \in Seq(Services) /\ inDegree' \in [Services -> Nat]
<1>1. /\ pc = "dfs" /\ path = <<>> /\ pc' = "sort" /\ result = <<>>
      /\ \A s \in Services : color[s] # 0
      /\ UNCHANGED <<deps, result>>
  BY DEF SortStart, SortIdle
<1>2. \A s : ~In(s, result) /\ ~In(s, result')
  BY <1>1 DEF In
<1>3. \A s \in Services : color[s] = 2
  <2>1. \A s \in Services : color[s] # 1
    BY <1>1 DEF PathInv, In
  <2> QED
    BY <1>1, <2>1 DEF GraphTypeOK
<1>4. OnlyAcyclicSorted'
  BY <1>1, <1>3 DEF OnlyAcyclicSorted, Acyclic, DoneInv
<1>5. \A s \in Services : Open(s)' = deps[s] /\ Open(s) = deps[s]
  BY <1>1, <1>2 DEF Open
<1>6. \A s \in Services : /\ Cardinality(deps[s]) \in Nat
                          /\ Cardinality(deps[s]) = 0 <=> deps[s] = {}
  BY <1>1, OpenFinite
<1> DEFINE free == {s \in Services : Cardinality(deps[s]) = 0}
<1>7. /\ queue' \in Seq(Services) /\ Distinct(queue')
      /\ \A s : In(s, queue') <=> s \in free
  BY InEnumeration DEF SortStart
<1>8. inDegree' = [s \in Services |-> Cardinality(deps[s])]
  BY DEF SortStart
<1>9. SortInv'
  <2>1. \A s \in Services : inDegree'[s] = Cardinality(Open(s)')
    BY <1>5, <1>8
  <2>2. \A s \in Services : Open(s)' = {} <=> In(s, result') \/ In(s, queue')
    BY <1>2, <1>5, <1>6, <1>7
  <2>3. /\ Distinct(result')
        /\ \A i, j \in 1 .. Len(result') : result'[j] \in deps'[result'[i]] => j < i
    BY <1>1 DEF Distinct
  <2> QED
    BY <1>1, <1>2, <1>7, <2>1, <2>2, <2>3 DEF SortInv
<1> QED
  BY <1>4, <1>6, <1>7, <1>8, <1>9

(* One service goes from the queue to the result.                           *)
LEMMA SortNextStep ==
  ASSUME GraphTypeOK, KnownDeps, SortInv, SortNext
  PROVE  /\ SortInv' /\ queue' \in Seq(Services) /\ result' \in Seq(Services)
         /\ inDegree' \in [Services -> Nat]
<1> DEFINE h == Head(queue)
           n == Len(result)
<1>1. /\ pc = "sort" /\ pc' = "sort" /\ queue # <<>> /\ queue \in Seq(Services)
      /\ result \in Seq(Services) /\ result' = Append(result, h)
      /\ inDegree' = [s \in Services |-> IF s \in Dependents(h)
                                          THEN inDegree[s] - 1 ELSE inDegree[s]]
      /\ deps' = deps
  BY DEF SortNext, GraphTypeOK
<1>2. PICK ready \in Enumerations(Freed(h)) : queue' = Tail(queue) \o ready
  BY DEF SortNext
<1>3. /\ \A s \in Services : inDegree[s] = Cardinality(Open(s))
      /\ Distinct(result) /\ Distinct(queue)
      /\ \A s \in Services : ~(In(s, result) /\ In(s, queue))
      /\ \A s \in Services : Open(s) = {} <=> In(s, result) \/ In(s, queue)
      /\ \A i, j \in 1 .. n : result[j] \in deps[result[i]] => j < i
  BY <1>1 DEF SortInv
<1>4. /\ Tail(queue) \in Seq(Services) /\ h \in Services
      /\ \A s : In(s, queue) <=> s = h \/ In(s, Tail(queue))
      /\ ~In(h, Tail(queue)) /\ Distinct(Tail(queue))
  BY <1>1, <1>3, InTail
<1>5. ~In(h, result) /\ Open(h) = {}
  BY <1>3, <1>4
<1>6. /\ result' \in Seq(Services) /\ Distinct(result')
      /\ \A s : In(s, result') <=> In(s, result) \/ s = h
  BY <1>1, <1>3, <1>4, <1>5, InAppend
<1> HIDE DEF h
<1>7. \A s \in Services : Open(s)' = Open(s) \ {h}
  BY <1>1, <1>6 DEF Open
<1>8. \A s \in Services : s \in Dependents(h) <=> h \in Open(s)
  BY <1>5 DEF Dependents, Open
<1>9. ASSUME NEW s \in Services
      PROVE  /\ IsFiniteSet(Open(s)) /\ Cardinality(Open(s)) \in Nat
             /\ Cardinality(Open(s)) = 0 <=> Open(s) = {}
             /\ IsFiniteSet(Open(s)') /\ Cardinality(Open(s)') \in Nat
             /\ Cardinality(Open(s)') = 0 <=> Open(s)' = {}
             /\ Cardinality(Open(s)') = IF h \in Open(s)
                                        THEN Cardinality(Open(s)) - 1
                                        ELSE Cardinality(Open(s))
  <2>1. /\ IsFiniteSet(Open(s)) /\ Cardinality(Open(s)) \in Nat
        /\ Cardinality(Open(s)) = 0 <=> Open(s) = {}
    BY <1>1, OpenFinite
  <2>2. /\ IsFiniteSet(Open(s) \ {h})
        /\ Cardinality(Open(s) \ {h}) = IF h \in Open(s)
                                         THEN Cardinality(Open(s)) - 1
                                         ELSE Cardinality(Open(s))
    BY <2>1, FS_RemoveElement
  <2>3. /\ Cardinality(Open(s) \ {h}) \in Nat
        /\ Cardinality(Open(s) \ {h}) = 0 <=> Open(s) \ {h} = {}
    BY <2>2, FS_CardinalityType, FS_EmptySet
  <2> QED
    BY <1>7, <2>1, <2>2, <2>3
<1>10. \A s \in Services : inDegree'[s] = Cardinality(Open(s)')
  BY <1>1, <1>3, <1>8, <1>9
<1>11. Freed(h) \in SUBSET Services
  BY DEF Freed, Dependents
<1>12. \A s \in Services : s \in Freed(h) <=> h \in Open(s) /\ Open(s)' = {}
  <2> SUFFICES ASSUME NEW s \in Services
               PROVE  s \in Freed(h) <=> h \in Open(s) /\ Open(s)' = {}
    OBVIOUS
  <2>1. s \in Freed(h) <=> h \in Open(s) /\ inDegree[s] - 1 = 0
    BY <1>8 DEF Freed, Dependents
  <2> QED
    BY <1>3, <1>9, <2>1
<1>13. /\ ready \in Seq(Services) /\ Distinct(ready)
       /\ \A s : In(s, ready) <=> s \in Freed(h)
  BY <1>2, <1>11, InEnumeration
<1>14. \A s \in Services : ~(In(s, Tail(queue)) /\ In(s, ready))
  BY <1>3, <1>4, <1>12, <1>13
<1>15. /\ queue' \in Seq(Services) /\ Distinct(queue')
       /\ \A s : In(s, queue') <=> In(s, Tail(queue)) \/ In(s, ready)
  BY <1>2, <1>4, <1>13, <1>14, InConcat
<1>16. \A s \in Services : ~(In(s, result') /\ In(s, queue'))
  <2>1. ~In(h, ready)
    BY <1>4, <1>5, <1>12, <1>13
  <2>2. \A s \in Services : In(s, result) => ~In(s, Tail(queue)) /\ ~In(s, ready)
    BY <1>3, <1>4, <1>12, <1>13
  <2> QED
    BY <1>4, <1>6, <1>15, <2>1, <2>2
<1>17. \A s \in Services : Open(s)' = {} <=> In(s, result') \/ In(s, queue')
  <2> SUFFICES ASSUME NEW s \in Services
               PROVE  Open(s)' = {} <=> In(s, result') \/ In(s, queue')
    OBVIOUS
  <2>1. CASE h \in Open(s)
    <3>1. ~In(s, result) /\ ~In(s, Tail(queue)) /\ s # h
      BY <1>3, <1>4, <1>5, <2>1
    <3> QED
      BY <1>6, <1>12, <1>13, <1>15, <2>1, <3>1
  <2>2. CASE h \notin Open(s)
    <3>1. Open(s)' = Open(s) /\ ~In(s, ready)
      <4>1. Open(s)' = Open(s) \ {h}
        BY <1>7
      <4>2. Open(s) \ {h} = Open(s)
        BY <2>2
      <4>3. s \notin Freed(h)
        BY <1>12, <2>2
      <4> QED  BY <1>13, <4>1, <4>2, <4>3
    <3> QED
      BY <1>3, <1>4, <1>6, <1>15, <3>1
  <2> QED
    BY <2>1, <2>2
<1>18. \A i, j \in 1 .. Len(result') : result'[j] \in deps[result'[i]] => j < i
  <2>1. /\ n \in Nat /\ Len(result') = n + 1 /\ result'[n + 1] = h
        /\ \A i \in 1 .. n : result'[i] = result[i] /\ result[i] \in Services
    BY <1>1, <1>4
  <2>2. \A i \in 1 .. n + 1 : i \in 1 .. n \/ i = n + 1
    BY <2>1
  <2>3. \A i \in 1 .. n : h \notin deps[result[i]]
    <3> SUFFICES ASSUME NEW i \in 1 .. n PROVE h \notin deps[result[i]]
      OBVIOUS
    <3>1. In(result[i], result) /\ result[i] \in Services
      BY <2>1 DEF In
    <3>2. Open(result[i]) = {}
      BY <1>3, <3>1
    <3> QED
      BY <1>5, <3>2 DEF Open
  <2>4. h \notin deps[h]
    BY <1>5 DEF Open
  <2> SUFFICES ASSUME NEW i \in 1 .. n + 1, NEW j \in 1 .. n + 1,
                      result'[j] \in deps[result'[i]]
               PROVE  j < i
    BY <2>1
  <2>5. CASE i \in 1 .. n /\ j \in 1 .. n
    BY <1>3, <2>1, <2>5
  <2>6. CASE j = n + 1
    BY <2>1, <2>2, <2>3, <2>4, <2>6
  <2>7. CASE i = n + 1 /\ j \in 1 .. n
    BY <2>1, <2>7
  <2> QED
    BY <2>2, <2>5, <2>6, <2>7
<1>19. inDegree' \in [Services -> Nat]
  <2>1. \A s \in Services : inDegree'[s] \in Nat
    BY <1>9, <1>10
  <2>2. inDegree' = [s \in Services |-> inDegree'[s]]
    BY <1>1
  <2> QED
    BY <2>1, <2>2
<1>20. SortInv'
  BY <1>1, <1>6, <1>10, <1>15, <1>16, <1>17, <1>18 DEF SortInv
<1> QED
  BY <1>6, <1>15, <1>19, <1>20

----------------------------------------------------------------------------
(* The invariant.                                                          *)

(* A new construction satisfies it.                                         *)
LEMMA InitGraphInv == GraphInit => GraphInv
<1> SUFFICES ASSUME GraphInit PROVE GraphInv
  OBVIOUS
<1> USE DEF GraphInit
<1>1. GraphTypeOK
  BY DEF GraphTypeOK
<1>2. KnownDeps /\ OnlyAcyclicSorted /\ CycleIsReal /\ SortIdle /\ SortInv
  BY DEF KnownDeps, OnlyAcyclicSorted, CycleIsReal, SortIdle, SortInv
<1>3. PathInv
  BY DEF PathInv, Distinct, In
<1>4. DoneInv
  BY DEF DoneInv
<1> QED
  BY <1>1, <1>2, <1>3, <1>4 DEF GraphInv

(* What the search leaves alone while it goes on.                           *)
LEMMA SearchFrame ==
  ASSUME GraphInv, pc = "dfs", pc' = "dfs", GraphTypeOK', PathInv', DoneInv',
         UNCHANGED <<deps, result>>
  PROVE  GraphInv'
<1>1. KnownDeps' /\ SortIdle'
  BY DEF GraphInv, KnownDeps, SortIdle
<1>2. OnlyAcyclicSorted' /\ CycleIsReal' /\ SortInv'
  BY DEF OnlyAcyclicSorted, CycleIsReal, SortInv
<1> QED
  BY <1>1, <1>2 DEF GraphInv

(* What a step that leaves the search alone keeps of it.                    *)
LEMMA SearchIdle ==
  ASSUME PathInv, DoneInv, UNCHANGED <<deps, color, path, left>>
  PROVE  PathInv' /\ DoneInv'
<1>1. PathInv'
  BY DEF PathInv, In, Distinct
<1>2. DoneInv'
  BY DEF DoneInv
<1> QED
  BY <1>1, <1>2

(* Entering a service keeps the types.                                      *)
LEMMA EnterTypes ==
  ASSUME GraphTypeOK, NEW d \in Services, Enter(d)
  PROVE  color' \in [Services -> 0 .. 2] /\ path' \in Seq(Services)
BY DEF Enter, GraphTypeOK

(* Every step preserves it.                                                 *)
LEMMA NextGraphInv ==
  ASSUME GraphInv, [GraphNext]_graphVars
  PROVE  GraphInv'
<1>0. /\ GraphTypeOK /\ KnownDeps /\ PathInv /\ DoneInv
      /\ OnlyAcyclicSorted /\ CycleIsReal /\ SortIdle /\ SortInv
  BY DEF GraphInv
<1>1. CASE Build
  <2>1. GraphTypeOK'
    BY <1>0, <1>1 DEF Build, GraphTypeOK
  <2>2. KnownDeps' /\ SortIdle'
    BY <1>0, <1>1 DEF Build, KnownDeps, SortIdle
  <2>3. PathInv' /\ DoneInv'
    BY <1>0, <1>1, SearchIdle DEF Build
  <2>4. OnlyAcyclicSorted' /\ CycleIsReal' /\ SortInv'
    BY <1>1 DEF Build, OnlyAcyclicSorted, CycleIsReal, SortInv
  <2> QED
    BY <2>1, <2>2, <2>3, <2>4 DEF GraphInv
<1>2. CASE \E s \in Services : DfsRoot(s)
  <2>1. PICK s \in Services : DfsRoot(s)
    BY <1>2
  <2>2. color' \in [Services -> 0 .. 2] /\ path' \in Seq(Services)
    BY <1>0, <2>1, EnterTypes DEF DfsRoot
  <2>3. GraphTypeOK'
    BY <1>0, <2>1, <2>2 DEF DfsRoot, GraphTypeOK
  <2>4. PathInv' /\ DoneInv'
    BY <1>0, <2>1, EnterStep DEF DfsRoot
  <2> QED
    BY <2>1, <2>3, <2>4, SearchFrame DEF DfsRoot
<1>3. CASE \E s \in Services : DfsCycle(s)
  <2>1. PICK s \in Services : DfsCycle(s)
    BY <1>3
  <2>2. CycleIsReal' /\ cycle' \in Seq(Services)
    BY <1>0, <2>1, CycleStep
  <2>3. /\ pc = "dfs" /\ pc' = "cycle"
        /\ UNCHANGED <<deps, color, path, left, inDegree, queue, result>>
    BY <2>1 DEF DfsCycle, Look
  <2>4. GraphTypeOK'
    BY <1>0, <2>2, <2>3 DEF GraphTypeOK
  <2>5. KnownDeps' /\ SortIdle' /\ OnlyAcyclicSorted' /\ SortInv'
    BY <1>0, <2>3 DEF KnownDeps, SortIdle, OnlyAcyclicSorted, SortInv
  <2>6. PathInv' /\ DoneInv'
    BY <1>0, <2>3, SearchIdle
  <2> QED
    BY <2>2, <2>4, <2>5, <2>6 DEF GraphInv
<1>4. CASE \E s \in Services : DfsDescend(s)
  <2>1. PICK s \in Services : DfsDescend(s)
    BY <1>4
  <2>2. color' \in [Services -> 0 .. 2] /\ path' \in Seq(Services)
    BY <1>0, <2>1, EnterTypes DEF DfsDescend
  <2>3. left' \in [Services -> SUBSET (Services \cup Unknown)]
    BY <1>0, <2>1 DEF DfsDescend, GraphTypeOK
  <2>4. GraphTypeOK'
    BY <1>0, <2>1, <2>2, <2>3 DEF DfsDescend, GraphTypeOK
  <2>5. PathInv' /\ DoneInv'
    BY <1>0, <2>1, EnterStep DEF DfsDescend, Look
  <2> QED
    BY <2>1, <2>4, <2>5, SearchFrame DEF DfsDescend, Look
<1>5. CASE \E s \in Services : DfsSkip(s)
  <2>1. PICK s \in Services : DfsSkip(s)
    BY <1>5
  <2>2. GraphTypeOK'
    BY <1>0, <2>1 DEF DfsSkip, GraphTypeOK
  <2> QED
    BY <1>0, <2>1, <2>2, SkipStep, SearchFrame DEF DfsSkip, Look
<1>6. CASE DfsReturn
  <2>1. path \in Seq(Services) /\ path # <<>> /\ Distinct(path)
    BY <1>0, <1>6 DEF DfsReturn, GraphTypeOK, PathInv
  <2>2. path' \in Seq(Services)
    BY <1>6, <2>1, InFront DEF DfsReturn
  <2>3. color' \in [Services -> 0 .. 2]
    <3>1. color \in [Services -> 0 .. 2] /\ color' = [color EXCEPT ![Top] = 2]
      BY <1>0, <1>6 DEF DfsReturn, GraphTypeOK
    <3>2. 2 \in 0 .. 2 /\ Top \in Services
      BY <2>1 DEF Top
    <3> QED
      BY <3>1, <3>2
  <2>4. UNCHANGED <<deps, pc, left, cycle, inDegree, queue, result>>
    BY <1>6 DEF DfsReturn
  <2>5. GraphTypeOK'
    BY <1>0, <2>2, <2>3, <2>4 DEF GraphTypeOK
  <2> QED
    BY <1>0, <1>6, <2>5, ReturnStep, SearchFrame DEF DfsReturn
<1>7. CASE SortStart
  <2>1. /\ OnlyAcyclicSorted' /\ SortInv'
        /\ queue' \in Seq(Services) /\ inDegree' \in [Services -> Nat]
    BY <1>0, <1>7, SortStartStep
  <2>2. /\ pc = "dfs" /\ pc' = "sort"
        /\ UNCHANGED <<deps, color, path, left, cycle, result>>
    BY <1>7 DEF SortStart
  <2>3. GraphTypeOK'
    BY <1>0, <2>1, <2>2 DEF GraphTypeOK
  <2>4. KnownDeps' /\ SortIdle' /\ CycleIsReal'
    BY <1>0, <2>2 DEF KnownDeps, SortIdle, CycleIsReal
  <2>5. PathInv' /\ DoneInv'
    BY <1>0, <2>2, SearchIdle
  <2> QED
    BY <2>1, <2>3, <2>4, <2>5 DEF GraphInv
<1>8. CASE SortNext
  <2>1. /\ SortInv' /\ queue' \in Seq(Services) /\ result' \in Seq(Services)
        /\ inDegree' \in [Services -> Nat]
    BY <1>0, <1>8, SortNextStep
  <2>2. pc = "sort" /\ pc' = "sort" /\ UNCHANGED <<deps, color, path, left, cycle>>
    BY <1>8 DEF SortNext
  <2>3. GraphTypeOK'
    BY <1>0, <2>1, <2>2 DEF GraphTypeOK
  <2>4. KnownDeps' /\ SortIdle' /\ CycleIsReal'
    BY <1>0, <2>2 DEF KnownDeps, SortIdle, CycleIsReal
  <2>5. PathInv' /\ DoneInv'
    BY <1>0, <2>2, SearchIdle
  <2>6. OnlyAcyclicSorted'
    BY <1>0, <2>2 DEF OnlyAcyclicSorted, Acyclic
  <2> QED
    BY <2>1, <2>3, <2>4, <2>5, <2>6 DEF GraphInv
<1>9. CASE SortEnd
  <2>1. /\ pc = "sort" /\ pc' = "sorted" /\ queue = <<>>
        /\ UNCHANGED <<deps, color, path, left, cycle, inDegree, queue, result>>
    BY <1>9 DEF SortEnd
  <2>2. GraphTypeOK'
    BY <1>0, <2>1 DEF GraphTypeOK
  <2>3. KnownDeps' /\ SortIdle' /\ CycleIsReal'
    BY <1>0, <2>1 DEF KnownDeps, SortIdle, CycleIsReal
  <2>4. PathInv' /\ DoneInv'
    BY <1>0, <2>1, SearchIdle
  <2>5. OnlyAcyclicSorted'
    BY <1>0, <2>1 DEF OnlyAcyclicSorted, Acyclic
  <2>6. SortInv'
    BY <1>0, <2>1 DEF SortInv, Open, In, Distinct
  <2> QED
    BY <2>2, <2>3, <2>4, <2>5, <2>6 DEF GraphInv
<1>10. CASE UNCHANGED graphVars
  <2>1. GraphTypeOK' /\ KnownDeps' /\ SortIdle' /\ CycleIsReal'
    BY <1>0, <1>10 DEF graphVars, GraphTypeOK, KnownDeps, SortIdle, CycleIsReal
  <2>2. PathInv' /\ DoneInv'
    BY <1>0, <1>10, SearchIdle DEF graphVars
  <2>3. OnlyAcyclicSorted'
    BY <1>0, <1>10 DEF graphVars, OnlyAcyclicSorted, Acyclic
  <2>4. SortInv'
    BY <1>0, <1>10 DEF graphVars, SortInv, Open, In, Distinct
  <2> QED
    BY <2>1, <2>2, <2>3, <2>4 DEF GraphInv
<1> QED
  BY <1>1, <1>2, <1>3, <1>4, <1>5, <1>6, <1>7, <1>8, <1>9, <1>10 DEF GraphNext

(* Every state of the construction satisfies the inductive invariant.       *)
THEOREM Invariant == GraphSpec => []GraphInv
<1>1. GraphInv /\ [GraphNext]_graphVars => GraphInv'
  BY NextGraphInv
<1> QED
  BY <1>1, InitGraphInv, PTL DEF GraphSpec

(* A sorted graph is sorted completely: a service that were left out would  *)
(* be one of a set in which somebody has no open dependency, and the queue  *)
(* would still hold that one.                                               *)
LEMMA SortComplete == GraphInv => SortIsStartOrder
<1> SUFFICES ASSUME GraphInv, pc = "sorted" PROVE SortIsStartOrder
  BY DEF SortIsStartOrder
<1>1. GraphTypeOK /\ KnownDeps /\ SortInv /\ Acyclic
  BY DEF GraphInv, OnlyAcyclicSorted
<1>2. /\ queue = <<>> /\ Distinct(result)
      /\ \A s \in Services : Open(s) = {} <=> In(s, result) \/ In(s, queue)
      /\ \A i, j \in 1 .. Len(result) : result[j] \in deps[result[i]] => j < i
  BY <1>1 DEF SortInv
<1>3. \A s : ~In(s, queue)
  BY <1>2 DEF In
<1> DEFINE S == {s \in Services : ~In(s, result)}
<1>4. S = {}
  <2> SUFFICES ASSUME S # {} PROVE FALSE
    OBVIOUS
  <2>1. PICK s \in S : deps[s] \cap S = {}
    BY <1>1 DEF Acyclic
  <2>2. deps[s] \subseteq Services
    BY <1>1 DEF KnownDeps
  <2>3. Open(s) = {}
    BY <2>1, <2>2 DEF Open
  <2> QED
    BY <1>2, <1>3, <2>3
<1>5. \A s \in Services : In(s, result)
  BY <1>4
<1> QED
  BY <1>2, <1>5 DEF SortIsStartOrder, In, Distinct

(* The state stays well formed; in particular no in-degree underflows.      *)
THEOREM TypeCorrect == GraphSpec => []GraphTypeOK
BY Invariant, PTL DEF GraphInv

(* verify_no_cycles lets only acyclic graphs reach the sort.                *)
THEOREM OnlyAcyclicAlways == GraphSpec => []OnlyAcyclicSorted
BY Invariant, PTL DEF GraphInv

(* What verify_no_cycles reports is a cycle of the graph.                   *)
THEOREM CycleIsRealAlways == GraphSpec => []CycleIsReal
BY Invariant, PTL DEF GraphInv

(* topological_sort returns every service once, after what it needs: the    *)
(* order the supervisor's boot relies on.                                   *)
THEOREM StartOrder == GraphSpec => []SortIsStartOrder
BY Invariant, SortComplete, PTL
=============================================================================
