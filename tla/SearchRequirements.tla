------------------------- MODULE SearchRequirements -------------------------
(***************************************************************************)
(* What is required of find in examples/graph.rs.                          *)
(***************************************************************************)
EXTENDS PathSearch

\* Types, and: the indices that astar keeps are those of nodes that exist
\* (Start may not), as long as it runs.
SearchTypeOK ==
  /\ TypeOK
  /\ at \in [Searcher -> {"idle", "lock", "search", "print"}]
  /\ \A s \in Searcher :
       /\ visit_next[s] \subseteq DOMAIN came_from[s]
       /\ DOMAIN came_from[s] \subseteq DOMAIN graph.nodes \cup {Start}
       /\ \A n \in DOMAIN came_from[s] : came_from[s][n] \in DOMAIN came_from[s] \cup {0}
       /\ path[s] \in Seq(Nat) /\ printed[s] \in Nat

Adjacent(m, n) ==
  \E e \in DOMAIN graph.edges : {graph.edges[e].src, graph.edges[e].dst} = {m, n}

\* A path of the graph as it is now, with at least one node.
IsPath(p) ==
  /\ p[1] = Start /\ p[Len(p)] = Target
  /\ \A i \in 1 .. Len(p) - 1 : Adjacent(p[i], p[i + 1])

(***************************************************************************)
(* Whatever find prints is true of the graph while it prints it, although  *)
(* tasks wait to change the graph: the path leads from Start to Target     *)
(* along edges that are there and passes no node twice; and when find says *)
(* that there is none, there is none (examples/graph.rs:251-299).  Should  *)
(* there be a path, there is one with at most as many nodes as the graph.  *)
(***************************************************************************)
AnswerHolds ==
  \A s \in Searcher : at[s] = "print" =>
    IF path[s] = <<>>
    THEN \A n \in 1 .. Len(graph.nodes) : \A p \in [1 .. n -> DOMAIN graph.nodes] : ~IsPath(p)
    ELSE IsPath(path[s]) /\ \A i, j \in DOMAIN path[s] : path[s][i] = path[s][j] => i = j

(***************************************************************************)
(* Every search comes to an end, on any graph, however many writers are in *)
(* the line before it (examples/graph.rs:251-264).                         *)
(***************************************************************************)
FindCompletes == \A s \in Searcher : at[s] = "lock" ~> at[s] = "idle"
=============================================================================
