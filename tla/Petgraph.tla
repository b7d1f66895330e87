------------------------------ MODULE Petgraph ------------------------------
(***************************************************************************)
(* petgraph::Graph 0.8.1, the library behind GraphInstance::inner, as far  *)
(* as src/controller/graph.rs relies on it.  A graph is two dense arrays:  *)
(* nodes holds node weights, edges holds the indices of the two end points *)
(* and a weight.  NodeIndex and EdgeIndex are positions in these arrays,   *)
(* here counted from 1, and removal is swap_remove: the last element takes *)
(* the index of the removed one, so every removal can invalidate an index  *)
(* somebody else still keeps.                                              *)
(***************************************************************************)
EXTENDS Naturals, Sequences, FiniteSets

EmptyGraph == [nodes |-> <<>>, edges |-> <<>>]

HasNode(g, i) == i \in DOMAIN g.nodes

HasEdge(g, e) == e \in DOMAIN g.edges

\* The new node's index is Len(g.nodes) + 1, the new edge's Len(g.edges) + 1.
AddNode(g, weight) == [g EXCEPT !.nodes = Append(@, weight)]

\* Callers check HasNode(g, i) /\ HasNode(g, j): petgraph panics otherwise.
AddEdge(g, i, j, weight) ==
  [g EXCEPT !.edges = Append(@, [src |-> i, dst |-> j, weight |-> weight])]

SwapRemove(s, i) ==
  [k \in 1 .. Len(s) - 1 |-> IF k = i THEN s[Len(s)] ELSE s[k]]

\* Removing an index that does not exist returns None and changes nothing.
RemoveEdge(g, e) ==
  IF HasEdge(g, e) THEN [g EXCEPT !.edges = SwapRemove(@, e)] ELSE g

Incident(g, i) ==
  {e \in DOMAIN g.edges : g.edges[e].src = i \/ g.edges[e].dst = i}

(***************************************************************************)
(* The arrays left when the elements at the positions R are swap_removed   *)
(* one at a time, in whatever order.  Survivors in the first n positions   *)
(* never move; the others fill the holes.                                  *)
(***************************************************************************)
Compactions(s, R) ==
  LET n     == Len(s) - Cardinality(R)
      Kept  == DOMAIN s \ R
      Moves == {p \in [1 .. n -> Kept] :
                  /\ \A j, k \in 1 .. n : p[j] = p[k] => j = k
                  /\ \A k \in (1 .. n) \ R : p[k] = k}
  IN  {[k \in 1 .. n |-> s[p[k]]] : p \in Moves}

(***************************************************************************)
(* Graph::remove_node first removes the node's edges, in the order of its  *)
(* adjacency lists (any order, here), then swap_removes the node and       *)
(* re-targets the edges of the node that took its index.                   *)
(***************************************************************************)
RemoveNode(g, i) ==
  IF ~HasNode(g, i) THEN {g}
  ELSE LET last    == Len(g.nodes)
           Move(k) == IF k = last THEN i ELSE k
       IN  {[nodes |-> SwapRemove(g.nodes, i),
             edges |-> [e \in DOMAIN es |->
                          [es[e] EXCEPT !.src = Move(@), !.dst = Move(@)]]]
              : es \in Compactions(g.edges, Incident(g, i))}

\* Every edge joins two existing nodes.
WellFormed(g) ==
  \A e \in DOMAIN g.edges : HasNode(g, g.edges[e].src) /\ HasNode(g, g.edges[e].dst)
=============================================================================
