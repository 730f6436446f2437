-------------------------- MODULE DependencyGraph --------------------------
(***************************************************************************)
(* monitord's dependency graph (crates/monitord/src/graph.rs): build the    *)
(* edges from the manifests, refuse cycles by a coloured depth-first        *)
(* search, and put the services into start order by Kahn's algorithm.       *)
(*                                                                         *)
(* Services and edges are kept in HashMaps and HashSets, whose iteration    *)
(* order is arbitrary: it is a nondeterministic choice here.                *)
(***************************************************************************)
EXTENDS Naturals, Sequences, FiniteSets

CONSTANTS
  Services,   \* names of the manifests; load_from_dir refuses duplicates
  Unknown     \* names a manifest may depend on although no manifest has them

ASSUME NamesAssumption ==
  IsFiniteSet(Services) /\ Services \cap Unknown = {}

VARIABLES
  deps,       \* service -> the names its manifest depends on; never changes
  pc,         \* the phase, or how the construction ended
  color,      \* 0 unvisited, 1 in progress, 2 done
  path,       \* the services in progress, outermost first
  left,       \* service -> dependencies its visit has still to look at
  cycle,      \* the cycle that is reported
  inDegree,   \* service -> dependencies not yet in the result
  queue,      \* services with in-degree 0 that are not yet in the result
  result      \* the start order so far

graphVars == <<deps, pc, color, path, left, cycle, inDegree, queue, result>>

GraphInit ==
  /\ deps \in [Services -> SUBSET (Services \cup Unknown)]
  /\ pc = "build"
  /\ color = [s \in Services |-> 0]
  /\ path = <<>>
  /\ left = [s \in Services |-> {}]
  /\ cycle = <<>>
  /\ inDegree = [s \in Services |-> 0]
  /\ queue = <<>>
  /\ result = <<>>

(* The sequences that hold every element of a set once.                     *)
Enumerations(S) ==
  {q \in [1 .. Cardinality(S) -> S] :
     \A i, j \in 1 .. Cardinality(S) : q[i] = q[j] => i = j}

----------------------------------------------------------------------------
(* DependencyGraph::new                                                    *)

(* Every dependency must be a service.                                      *)
Build ==
  /\ pc = "build"
  /\ pc' = IF \A s \in Services : deps[s] \subseteq Services
           THEN "dfs" ELSE "missing"
  /\ UNCHANGED <<deps, color, path, left, cycle, inDegree, queue, result>>

----------------------------------------------------------------------------
(* verify_no_cycles and dfs_cycle_detect                                    *)

Enter(s) ==
  /\ color' = [color EXCEPT ![s] = 1]
  /\ path' = Append(path, s)

(* The outer loop starts a search at an unvisited service.                  *)
DfsRoot(s) ==
  /\ pc = "dfs"
  /\ path = <<>>
  /\ color[s] = 0
  /\ Enter(s)
  /\ left' = [left EXCEPT ![s] = deps[s]]
  /\ UNCHANGED <<deps, pc, cycle, inDegree, queue, result>>

Top == path[Len(path)]

(* The innermost visit looks at its next dependency d.                      *)
Look(d) ==
  /\ pc = "dfs"
  /\ path # <<>>
  /\ d \in left[Top]

(* Fault: the whole path is reported, not only the cycle.                   *)
DfsCycleWholePath(d) ==
  /\ Look(d)
  /\ color[d] = 1
  /\ cycle' = path
  /\ pc' = "cycle"
  /\ UNCHANGED <<deps, color, path, left, inDegree, queue, result>>

(* d is in progress: the path from d on is a cycle.                         *)
DfsCycle(d) ==
  /\ Look(d)
  /\ color[d] = 1
  /\ \E k \in 1 .. Len(path) : path[k] = d /\ cycle' = SubSeq(path, k, Len(path))
  /\ pc' = "cycle"
  /\ UNCHANGED <<deps, color, path, left, inDegree, queue, result>>

(* d is unvisited: recurse.                                                 *)
DfsDescend(d) ==
  /\ Look(d)
  /\ color[d] = 0
  /\ Enter(d)
  /\ left' = [left EXCEPT ![Top] = @ \ {d}, ![d] = deps[d]]
  /\ UNCHANGED <<deps, pc, cycle, inDegree, queue, result>>

(* Fault: a service in progress is taken for a visited one.                 *)
DfsSkipVisited(d) ==
  /\ Look(d)
  /\ color[d] # 0
  /\ left' = [left EXCEPT ![Top] = @ \ {d}]
  /\ UNCHANGED <<deps, pc, color, path, cycle, inDegree, queue, result>>

(* d is done: go on.                                                        *)
DfsSkip(d) ==
  /\ Look(d)
  /\ color[d] = 2
  /\ left' = [left EXCEPT ![Top] = @ \ {d}]
  /\ UNCHANGED <<deps, pc, color, path, cycle, inDegree, queue, result>>

(* Fault: the service stays in progress.                                    *)
DfsReturnUncoloured ==
  /\ pc = "dfs"
  /\ path # <<>>
  /\ left[Top] = {}
  /\ path' = SubSeq(path, 1, Len(path) - 1)
  /\ UNCHANGED <<deps, pc, color, left, cycle, inDegree, queue, result>>

(* Every dependency was looked at: the visit returns.                       *)
DfsReturn ==
  /\ pc = "dfs"
  /\ path # <<>>
  /\ left[Top] = {}
  /\ color' = [color EXCEPT ![Top] = 2]
  /\ path' = SubSeq(path, 1, Len(path) - 1)
  /\ UNCHANGED <<deps, pc, left, cycle, inDegree, queue, result>>

----------------------------------------------------------------------------
(* topological_sort                                                        *)

(* No service is unvisited any more; the sort begins.                       *)
SortStart ==
  /\ pc = "dfs"
  /\ path = <<>>
  /\ \A s \in Services : color[s] # 0
  /\ pc' = "sort"
  /\ inDegree' = [s \in Services |-> Cardinality(deps[s])]
  /\ queue' \in Enumerations({s \in Services : Cardinality(deps[s]) = 0})
  /\ UNCHANGED <<deps, color, path, left, cycle, result>>

(* Fault: a service counts as its own dependent.                            *)
DependentsAndSelf(s) == {t \in Services : s \in deps[t] \/ s = t}

(* Who needs s.                                                             *)
Dependents(s) == {t \in Services : s \in deps[t]}

(* Fault: off by one in the test for no open dependency.                    *)
FreedEarly(s) == {t \in Dependents(s) : inDegree[t] - 1 <= 1}

(* The dependents whose last open dependency is s.                          *)
Freed(s) == {t \in Dependents(s) : inDegree[t] - 1 = 0}

SortNext ==
  /\ pc = "sort"
  /\ queue # <<>>
  /\ result' = Append(result, Head(queue))
  /\ inDegree' = [s \in Services |->
                    IF s \in Dependents(Head(queue)) THEN inDegree[s] - 1
                                                     ELSE inDegree[s]]
  /\ \E ready \in Enumerations(Freed(Head(queue))) :
       queue' = Tail(queue) \o ready
  /\ UNCHANGED <<deps, pc, color, path, left, cycle>>

SortEnd ==
  /\ pc = "sort"
  /\ queue = <<>>
  /\ pc' = "sorted"
  /\ UNCHANGED <<deps, color, path, left, cycle, inDegree, queue, result>>

----------------------------------------------------------------------------
GraphNext ==
  \/ Build
  \/ \E s \in Services : \/ DfsRoot(s) \/ DfsCycle(s)
                         \/ DfsDescend(s) \/ DfsSkip(s)
  \/ DfsReturn
  \/ SortStart \/ SortNext \/ SortEnd

GraphSpec == GraphInit /\ [][GraphNext]_graphVars

(* It is one function call that runs to its end.                            *)
GraphFairSpec == GraphSpec /\ WF_graphVars(GraphNext)

----------------------------------------------------------------------------
(* Properties.                                                             *)

(* The state is well formed; no in-degree falls below 0 (usize would wrap). *)
GraphTypeOK ==
  /\ deps \in [Services -> SUBSET (Services \cup Unknown)]
  /\ pc \in {"build", "missing", "dfs", "cycle", "sort", "sorted"}
  /\ color \in [Services -> 0 .. 2]
  /\ path \in Seq(Services)
  /\ left \in [Services -> SUBSET (Services \cup Unknown)]
  /\ cycle \in Seq(Services)
  /\ inDegree \in [Services -> Nat]
  /\ queue \in Seq(Services)
  /\ result \in Seq(Services)

(* No service depends on itself, directly or through others: every set of   *)
(* services holds one that needs none of the others.                        *)
Acyclic ==
  \A S \in SUBSET Services :
    S # {} => \E s \in S : deps[s] \cap S = {}

(* The search lets only acyclic graphs pass, whatever the order in which    *)
(* it meets services and edges.                                             *)
OnlyAcyclicSorted == pc \in {"sort", "sorted"} => Acyclic

(* A graph is refused for a cycle it really has, and the services that are  *)
(* reported form it: each needs the next, the last one the first.           *)
CycleIsReal ==
  pc = "cycle" =>
    /\ cycle # <<>>
    /\ cycle[1] \in deps[cycle[Len(cycle)]]
    /\ \A i \in 1 .. Len(cycle) - 1 : cycle[i + 1] \in deps[cycle[i]]

(* The sort returns every service once, and after everything it needs.      *)
SortIsStartOrder ==
  pc = "sorted" =>
    /\ \A s \in Services : \E i \in 1 .. Len(result) : result[i] = s
    /\ \A i, j \in 1 .. Len(result) : result[i] = result[j] => i = j
    /\ \A i, j \in 1 .. Len(result) : result[j] \in deps[result[i]] => j < i

(* The construction ends: with a start order, or with one of the two        *)
(* errors.                                                                  *)
Terminates == <>(pc \in {"sorted", "missing", "cycle"})
=============================================================================
