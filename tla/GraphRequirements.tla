------------------------- MODULE GraphRequirements -------------------------
(***************************************************************************)
(* What is required of GraphInstance: of any callers, of callers that do   *)
(* not remove, and by the tests and error values of graph.rs.              *)
(***************************************************************************)
EXTENDS GraphInstance

(***************************************************************************)
(* Types.  The one part that the methods could get wrong: no edge refers   *)
(* to a node that does not exist, whatever indices add_edge and            *)
(* remove_node were handed.                                                *)
(***************************************************************************)
StoredOK ==
  /\ graph \in [nodes : Seq(NodeM), edges : Seq([src : Nat, dst : Nat, weight : EdgeM])]
  /\ PG!WellFormed(graph)
  /\ node_cache \in [DOMAIN node_cache -> Nat]
  /\ DOMAIN node_cache \subseteq Vid
  /\ edge_cache \in [DOMAIN edge_cache -> Nat]

TasksOK ==
  /\ queue \in [Lock -> Seq([task : Task, mode : RW!Mode])]
  /\ pc \in [Task -> PC]
  /\ arg \in [Task -> Request \cup {NoCall}]
  /\ \A t \in Task : arg[t] = NoCall <=> pc[t] = "idle"
  /\ seen \in [Task -> Nat \X Nat]
  /\ reply \in [Task -> [outcome : Outcome, found : SUBSET NodeM]]

TypeOK == StoredOK /\ TasksOK

\* What the graph says, without the caches.
LiveVids == {graph.nodes[i].vid : i \in DOMAIN graph.nodes}

Ends(e) == <<graph.edges[e].weight.src_vid, graph.edges[e].weight.dst_vid>>

LiveLinks == {Ends(e) : e \in DOMAIN graph.edges}

(***************************************************************************)
(* At most one node has a given vid, although add_node decides on a cache  *)
(* it does not keep locked (graph.rs:62-67) and the caches go stale.       *)
(***************************************************************************)
UniqueVids ==
  \A i, j \in DOMAIN graph.nodes : graph.nodes[i].vid = graph.nodes[j].vid => i = j

(***************************************************************************)
(* At most one edge was added for a given pair of vids, although add_edge  *)
(* decides on a cache it does not keep locked (graph.rs:139-151).          *)
(***************************************************************************)
UniqueEdges ==
  \A d, e \in DOMAIN graph.edges : Ends(d) = Ends(e) => d = e

(***************************************************************************)
(* A removal is for ever: no method purges the caches, so a vid or a pair  *)
(* of vids that was added and is not in the graph any more never comes     *)
(* back, whoever calls add_node or add_edge (graph.rs:97-110, 229-259).    *)
(***************************************************************************)
RemovalIsForever ==
  [][/\ \A v \in DOMAIN node_cache : v \notin LiveVids => v \notin LiveVids'
     /\ \A link \in Link :
          EdgeKey(link[1], link[2]) \in DOMAIN edge_cache /\ link \notin LiveLinks
            => link \notin LiveLinks']_vars

(***************************************************************************)
(* Three locks, three nesting orders, and futures dropped at any .await:   *)
(* while calls are under way, at least one of them can take its next step  *)
(* without waiting for another.                                            *)
(***************************************************************************)
Ready(t) ==
  /\ pc[t] # "idle"
  /\ pc[t] \in Awaiting =>
       LET line == queue[Wants[pc[t]].lock]
       IN  RW!Places(line, t) = {} \/ RW!Granted(line, t)

NoDeadlock == (\E t \in Task : pc[t] # "idle") => \E t \in Task : Ready(t)

(***************************************************************************)
(* Every call comes to an end, however many other calls compete with it    *)
(* for the locks.                                                          *)
(***************************************************************************)
CallsComplete == \A t \in Task : pc[t] # "idle" ~> pc[t] = "idle"
-----------------------------------------------------------------------------
NodeAt(i, v) == PG!HasNode(graph, i) /\ graph.nodes[i].vid = v

EdgeAt(e, key) == PG!HasEdge(graph, e) /\ EdgeKey(Ends(e)[1], Ends(e)[2]) = key

(***************************************************************************)
(* Callers that never remove get a coherent cache: a vid's index is the    *)
(* index of its node, a key's index that of its edge, and so for the       *)
(* indices a task copied before it waited for the next lock.               *)
(***************************************************************************)
CacheCoherent ==
  /\ \A v \in DOMAIN node_cache : NodeAt(node_cache[v], v)
  /\ \A k \in DOMAIN edge_cache : EdgeAt(edge_cache[k], k)
  /\ \A t \in Task :
       /\ pc[t] \in {"findNode", "removeNode", "updateNode"} => NodeAt(seen[t][1], arg[t].vid)
       /\ pc[t] \in {"addEdgeLock", "addEdgeInsert"} =>
            NodeAt(seen[t][1], arg[t].vid) /\ NodeAt(seen[t][2], arg[t].to)
       /\ pc[t] \in {"updateEdge", "removeEdge"} => EdgeAt(seen[t][1], Key(t))

(***************************************************************************)
(* As long as no node was removed, every edge in the graph joins the nodes *)
(* whose vids it was added for, although add_edge keeps their indices      *)
(* across two waits and edges are removed meanwhile (graph.rs:143-169).    *)
(* The caches are never purged: a node was removed when they list a vid    *)
(* that the graph does not have.                                           *)
(***************************************************************************)
EdgesJoinTheirVids ==
  DOMAIN node_cache \subseteq LiveVids =>
    \A e \in DOMAIN graph.edges :
      /\ NodeAt(graph.edges[e].src, Ends(e)[1])
      /\ NodeAt(graph.edges[e].dst, Ends(e)[2])

\* GraphInstance as an implementation of GraphStore: a node or an edge exists
\* for the callers once its index is in the cache.
AbstractNodes == [v \in DOMAIN node_cache |-> graph.nodes[node_cache[v]].data]

Published == {edge_cache[k] : k \in DOMAIN edge_cache}

\* The vids of the nodes that the edge joins in the graph.
Joined(e) == <<graph.nodes[graph.edges[e].src].vid, graph.nodes[graph.edges[e].dst].vid>>

AbstractEdges ==
  [link \in {Joined(e) : e \in Published} |->
     graph.edges[CHOOSE e \in Published : Joined(e) = link].weight.data]

Store == INSTANCE GraphStore WITH
  nodes <- AbstractNodes, edges <- AbstractEdges, request <- arg, response <- reply

(***************************************************************************)
(* Without removals, and when no two pairs of vids have the same key, the  *)
(* methods are atomic: every call behaves as the call of GraphStore does   *)
(* at the step that decides it, and a cancelled call has no effect.        *)
(***************************************************************************)
Linearizable == Store!Spec
-----------------------------------------------------------------------------
(***************************************************************************)
(* What the tests and the error values of graph.rs say, and the code does  *)
(* not do.  Each property is about the step that ends a call, decided by   *)
(* the code from an index in a cache, and judged here by what is in the    *)
(* graph at that moment.                                                   *)
(***************************************************************************)

\* The call of t, to the method op, ends in this step and is not cancelled.
Answered(t, op) ==
  arg[t].op = op /\ arg'[t] = NoCall /\ reply'[t].outcome # "cancelled"

\* test_node_crud (graph.rs:301-302): a node that was removed is not found.
\* The index the cache keeps for it may be another node's by then.
RemovedNodeIsNotFound ==
  [][\A t \in Task :
       Answered(t, "find_node") /\ arg[t].vid \notin LiveVids
         => reply'[t].outcome = "None"]_vars

\* test_edge_crud (graph.rs:334-340): updating an edge that was removed is an
\* error.  The index the cache keeps for it may be another edge's by then.
RemovedEdgeIsNotUpdated ==
  [][\A t \in Task :
       Answered(t, "update_edge") /\ <<arg[t].vid, arg[t].to>> \notin LiveLinks
         => reply'[t].outcome = "EdgeNotFound"]_vars

\* "Edge between '{0}' and '{1}' already exists" (graph.rs:28) is said only of
\* an edge that exists, here by callers that never remove.  Two pairs of vids
\* have the same key when vids contain the segment.
EdgeExistsMeansEdge ==
  [][\A t \in Task :
       Answered(t, "add_edge") /\ reply'[t].outcome = "EdgeExists"
         => <<arg[t].vid, arg[t].to>> \in LiveLinks]_vars

\* add_edge reports a missing end point as "Node '{0}' not found"
\* (graph.rs:25).  When the node was removed it panics in petgraph, or adds the
\* edge to another node: it never says so.
MissingEndIsReported ==
  [][\A t \in Task :
       Answered(t, "add_edge") /\ ~({arg[t].vid, arg[t].to} \subseteq LiveVids)
         => reply'[t].outcome \in {"NodeNotFound", "EdgeExists"}]_vars
=============================================================================
