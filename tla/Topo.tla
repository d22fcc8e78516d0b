--------------------------------- MODULE Topo ---------------------------------
(***************************************************************************)
(* The verification order (src/topo.rs): levels of the condensed call       *)
(* graph, bottom up, and the functions whose callees are all done.          *)
(*                                                                         *)
(* A call graph is [vertices, edges], function names are numbers, ordered   *)
(* like the names they stand for.  petgraph is external: its components     *)
(* are the classes of mutual reachability, its condensation has one edge    *)
(* between two of them at most.  The order of groups within one level is    *)
(* petgraph's own and left out.                                            *)
(***************************************************************************)
EXTENDS Naturals, FiniteSets, Graphs

\* build_graph: an edge with an unknown end is dropped.
BuildGraph(vertices, edges) ==
  [node |-> vertices, edge |-> {e \in edges : e[1] \in vertices /\ e[2] \in vertices}]

\* No edge leads out of S.
IsClosed(graph, S) == \A e \in graph.edge : e[1] \in S => e[2] \in S

\* w is v, or calls lead from v to it: it is in every closed set that v is in.
Reaches(graph, v, w) ==
  \A S \in SUBSET graph.node : v \in S /\ IsClosed(graph, S) => w \in S

\* tarjan_scc
Components(graph) ==
  {{w \in graph.node : Reaches(graph, v, w) /\ Reaches(graph, w, v)} : v \in graph.node}

ComponentOf(graph, v) == CHOOSE group \in Components(graph) : v \in group

IsCycle(graph, group) ==
  Cardinality(group) >= 2 \/ \E v \in group : <<v, v>> \in graph.edge

\* condensation(graph, true)
Condensation(graph) ==
  LET groups == Components(graph)
  IN [node |-> groups,
      edge |-> {e \in groups \X groups :
                  e[1] # e[2] /\ \E v \in e[1], w \in e[2] : <<v, w>> \in graph.edge}]

\* One round of the loop: each ready group takes itself off its callers' count,
\* and a caller whose count reaches zero is ready in the next round.
Peel(condensed, ready, degree) ==
  LET left(a) == degree[a] - Cardinality(Successors(condensed, a) \cap ready)
  IN [ready |-> {a \in condensed.node : Successors(condensed, a) \cap ready # {} /\ left(a) = 0},
      degree |-> [a \in condensed.node |-> left(a)]]

\* compute_topological_order: the groups that are ready in round n.
Rounds(condensed) ==
  LET round[n \in Nat] ==
        IF n = 0 THEN [ready |-> {a \in condensed.node : OutDegree(condensed, a) = 0},
                       degree |-> [a \in condensed.node |-> OutDegree(condensed, a)]]
        ELSE Peel(condensed, round[n - 1].ready, round[n - 1].degree)
  IN [n \in 0..Cardinality(condensed.node) |-> round[n].ready]

\* The levels, as a set of groups [members, level, is_cycle]; levels_map is zero
\* for a group that was never ready.
ComputeTopologicalOrder(vertices, edges) ==
  LET graph == BuildGraph(vertices, edges)
      rounds == Rounds(Condensation(graph))
      reached(group) == {n \in DOMAIN rounds : group \in rounds[n]}
  IN {[members |-> group,
       level |-> IF reached(group) = {} THEN 0 ELSE Max(reached(group)),
       is_cycle |-> IsCycle(graph, group)] : group \in Components(graph)}

\* flatten_levels_to_vo_scc: only defined members, and no empty group.
FlattenLevels(levels, defined) ==
  {group \in {[g EXCEPT !.members = @ \cap defined] : g \in levels} : group.members # {}}

\* Readiness without the exemption for recursive groups.
ComputeReadyFunctionsStrict(vertices, edges, done, in_progress) ==
  LET graph == BuildGraph(vertices, edges)
  IN {f \in vertices \ (done \cup in_progress) : Successors(graph, f) \subseteq done}

\* compute_ready_functions
ComputeReadyFunctions(vertices, edges, done, in_progress) ==
  LET graph == BuildGraph(vertices, edges)
      exempt(f) == LET group == ComponentOf(graph, f)
                   IN IF IsCycle(graph, group) THEN group ELSE {}
  IN {f \in vertices \ (done \cup in_progress) :
        Successors(graph, f) \subseteq done \cup exempt(f)}

-----------------------------------------------------------------------------
(* What the order should be, without the peeling. *)

\* v calls w, and not back.
CallsBelow(graph, v, w) == <<v, w>> \in graph.edge /\ ~Reaches(graph, w, v)
=============================================================================
