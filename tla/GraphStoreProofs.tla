-------------------------- MODULE GraphStoreProofs --------------------------
(***************************************************************************)
(* Proofs about the indices that GraphInstance keeps in its two caches and *)
(* its tasks copy out of them: they are right until a node is removed, and *)
(* callers that never remove are served as GraphStore serves them, one     *)
(* call at a time.  For every number of tasks, every set of vids and pairs *)
(* of vids, and all data maps.                                             *)
(***************************************************************************)
EXTENDS GraphInstanceProofs

-----------------------------------------------------------------------------
(***************************************************************************)
(* As long as no node was removed, the indices of nodes are right, in the  *)
(* node cache and in the hands of the tasks that copied them, and so are   *)
(* the end points of the edges.                                            *)
(***************************************************************************)
Whole == DOMAIN node_cache \subseteq LiveVids

FoundNodes(t) ==
  /\ pc[t] \in {"findNode", "removeNode", "updateNode"} =>
       arg[t].vid \in DOMAIN node_cache /\ NodeAt(seen[t][1], arg[t].vid)
  /\ pc[t] \in {"addEdgeLock", "addEdgeInsert"} =>
       /\ {arg[t].vid, arg[t].to} \subseteq DOMAIN node_cache
       /\ NodeAt(seen[t][1], arg[t].vid) /\ NodeAt(seen[t][2], arg[t].to)
  /\ pc[t] = "addNodePublish" => NodeAt(seen[t][1], arg[t].vid)

Joins(e) ==
  NodeAt(graph.edges[e].src, Ends(e)[1]) /\ NodeAt(graph.edges[e].dst, Ends(e)[2])

CachedNodes == \A v \in DOMAIN node_cache : NodeAt(node_cache[v], v)

RightIndices ==
  /\ CachedNodes
  /\ \A t \in Task : FoundNodes(t)
  /\ \A e \in DOMAIN graph.edges : Joins(e)

IndexInv == Whole => RightIndices
-----------------------------------------------------------------------------
(***************************************************************************)
(* The method a task calls is known from the step it is at.                *)
(***************************************************************************)
MethodsAt(step) ==
  CASE step \in {"addNodeCheck", "addNodeLock", "addNodeInsert", "addNodePublish"} ->
         {"add_node"}
    [] step \in {"addEdgeRead", "addEdgeCheck", "addEdgeLock", "addEdgeInsert",
                 "addEdgePublish"} -> {"add_edge"}
    [] step = "nodeLookup" -> {"find_node", "remove_node", "update_node"}
    [] step = "edgeLookup" -> {"update_edge", "remove_edge"}
    [] step = "findNode"   -> {"find_node"}
    [] step = "removeNode" -> {"remove_node"}
    [] step = "updateNode" -> {"update_node"}
    [] step = "updateEdge" -> {"update_edge"}
    [] step = "removeEdge" -> {"remove_edge"}
    [] OTHER -> {}

CallsInv ==
  /\ \A t \in Task :
       pc[t] # "idle" => arg[t] \in Requests /\ arg[t].op \in MethodsAt(pc[t])
  /\ \A e \in DOMAIN graph.edges : Ends(e) \in Link

(***************************************************************************)
(* Callers that never remove: also the indices of edges are right, and a   *)
(* task about to publish is the only one that knows what it stored.        *)
(***************************************************************************)
NeverRemove == Ops \cap {"remove_node", "remove_edge"} = {}

CachedEdges == \A k \in DOMAIN edge_cache : EdgeAt(edge_cache[k], k)

FoundEdge(t) ==
  pc[t] \in {"updateEdge", "removeEdge"} =>
    Key(t) \in DOMAIN edge_cache /\ EdgeAt(seen[t][1], Key(t))

StoredNode(t) ==
  pc[t] = "addNodePublish" =>
    /\ arg[t].vid \notin DOMAIN node_cache
    /\ PG!HasNode(graph, seen[t][1]) /\ graph.nodes[seen[t][1]] = NewNode(t)

StoredEdge(t) ==
  pc[t] = "addEdgePublish" =>
    /\ Key(t) \notin DOMAIN edge_cache
    /\ {arg[t].vid, arg[t].to} \subseteq DOMAIN node_cache
    /\ PG!HasEdge(graph, seen[t][1]) /\ graph.edges[seen[t][1]].weight = NewEdge(t)

StoreInv ==
  /\ Whole /\ CachedEdges
  /\ \A t \in Task : FoundEdge(t) /\ StoredNode(t) /\ StoredEdge(t)
-----------------------------------------------------------------------------
(***************************************************************************)
(* What each step of a task does to the graph, and what it leaves to the   *)
(* other tasks.                                                            *)
(***************************************************************************)
LEMMA UpdatedNode ==
  ASSUME TypeInv, NEW t \in Task, pc[t] # "idle", PG!HasNode(graph, seen[t][1]),
         graph' = [graph EXCEPT !.nodes[seen[t][1]].data = arg[t].data]
  PROVE  /\ graph'.edges = graph.edges /\ DOMAIN graph'.nodes = DOMAIN graph.nodes
         /\ \A k \in DOMAIN graph.nodes :
              /\ graph'.nodes[k].vid = graph.nodes[k].vid
              /\ graph'.nodes[k].data =
                   IF k = seen[t][1] THEN arg[t].data ELSE graph.nodes[k].data
<1> DEFINE i == seen[t][1]
           node == [graph.nodes[i] EXCEPT !.data = arg[t].data]
<1>1. graph.nodes \in Seq(NodeM) /\ i \in DOMAIN graph.nodes
  BY GraphFacts DEF PG!HasNode
<1>2. node.vid = graph.nodes[i].vid /\ node.data = arg[t].data
  <2>1. graph.nodes[i] \in NodeM
    BY <1>1
  <2> QED
    BY <2>1 DEF NodeM
<1>3. graph'.edges = graph.edges /\ graph'.nodes = [graph.nodes EXCEPT ![i] = node]
  BY GraphFacts DEF Graph
<1> HIDE DEF node, i
<1>4. /\ DOMAIN graph'.nodes = DOMAIN graph.nodes
      /\ \A k \in DOMAIN graph.nodes : graph'.nodes[k] = IF k = i THEN node ELSE graph.nodes[k]
  BY <1>3
<1> QED
  BY <1>2, <1>3, <1>4 DEF i

\* An array of edges of which one gets other data.
LEMMA EdgeData ==
  ASSUME NEW edges \in Seq(Edge), NEW i \in DOMAIN edges, NEW d,
         NEW new, new = [edges EXCEPT ![i].weight.data = d]
  PROVE  /\ DOMAIN new = DOMAIN edges
         /\ \A k \in DOMAIN edges :
              /\ new[k].src = edges[k].src /\ new[k].dst = edges[k].dst
              /\ new[k].weight.src_vid = edges[k].weight.src_vid
              /\ new[k].weight.dst_vid = edges[k].weight.dst_vid
              /\ new[k].weight.data = IF k = i THEN d ELSE edges[k].weight.data
<1> DEFINE w == edges[i].weight
           weight == [w EXCEPT !.data = d]
           edge == [edges[i] EXCEPT !.weight = weight]
<1>1. edges[i] \in Edge /\ w \in EdgeM
  <2>1. edges[i] \in Edge
    OBVIOUS
  <2> QED
    BY <2>1 DEF Edge
<1>2. weight.src_vid = w.src_vid /\ weight.dst_vid = w.dst_vid /\ weight.data = d
  <2> HIDE DEF w
  <2> QED
    BY <1>1 DEF EdgeM
<1>3. edge.src = edges[i].src /\ edge.dst = edges[i].dst /\ edge.weight = weight
  <2> HIDE DEF weight
  <2> QED
    BY <1>1 DEF Edge
<1>4. new = [edges EXCEPT ![i] = edge]
  OBVIOUS
<1> HIDE DEF edge, weight
<1>5. /\ DOMAIN new = DOMAIN edges
      /\ \A k \in DOMAIN edges : new[k] = IF k = i THEN edge ELSE edges[k]
  BY <1>4
<1> QED
  BY <1>2, <1>3, <1>5

LEMMA UpdatedEdge ==
  ASSUME TypeInv, NEW t \in Task, pc[t] # "idle", PG!HasEdge(graph, seen[t][1])
  PROVE  graph' = [graph EXCEPT !.edges[seen[t][1]].weight.data = Extend(@, arg[t].data)] =>
         /\ graph'.nodes = graph.nodes /\ DOMAIN graph'.edges = DOMAIN graph.edges
         /\ \A k \in DOMAIN graph.edges :
              /\ graph'.edges[k].src = graph.edges[k].src
              /\ graph'.edges[k].dst = graph.edges[k].dst
              /\ Ends(k)' = Ends(k)
              /\ graph'.edges[k].weight.data =
                   IF k = seen[t][1] THEN Extend(graph.edges[k].weight.data, arg[t].data)
                   ELSE graph.edges[k].weight.data
<1>0. SUFFICES
        ASSUME graph' = [graph EXCEPT !.edges[seen[t][1]].weight.data = Extend(@, arg[t].data)]
        PROVE  /\ graph'.nodes = graph.nodes /\ DOMAIN graph'.edges = DOMAIN graph.edges
               /\ \A k \in DOMAIN graph.edges :
                    /\ graph'.edges[k].src = graph.edges[k].src
                    /\ graph'.edges[k].dst = graph.edges[k].dst
                    /\ Ends(k)' = Ends(k)
                    /\ graph'.edges[k].weight.data =
                         IF k = seen[t][1] THEN Extend(graph.edges[k].weight.data, arg[t].data)
                         ELSE graph.edges[k].weight.data
  OBVIOUS
<1> DEFINE i == seen[t][1]
           d == Extend(graph.edges[i].weight.data, arg[t].data)
<1>1. graph.edges \in Seq(Edge) /\ i \in DOMAIN graph.edges
  BY GraphFacts DEF PG!HasEdge
<1>2. graph'.nodes = graph.nodes /\ graph'.edges = [graph.edges EXCEPT ![i].weight.data = d]
  BY <1>0, GraphFacts DEF Graph
<1> HIDE DEF d, i
<1>3. /\ DOMAIN graph'.edges = DOMAIN graph.edges
      /\ \A k \in DOMAIN graph.edges :
           /\ graph'.edges[k].src = graph.edges[k].src /\ graph'.edges[k].dst = graph.edges[k].dst
           /\ graph'.edges[k].weight.src_vid = graph.edges[k].weight.src_vid
           /\ graph'.edges[k].weight.dst_vid = graph.edges[k].weight.dst_vid
           /\ graph'.edges[k].weight.data = IF k = i THEN d ELSE graph.edges[k].weight.data
  BY <1>1, <1>2, EdgeData
<1>4. \A k \in DOMAIN graph.edges : Ends(k)' = Ends(k)
  BY <1>3 DEF Ends
<1> QED
  BY <1>2, <1>3, <1>4 DEF d, i

LEMMA StoredANode ==
  ASSUME TypeInv, NEW t \in Task, pc[t] # "idle", StoreNode(t)
  PROVE  LET n == Len(graph.nodes) + 1
         IN  /\ DOMAIN graph'.nodes = DOMAIN graph.nodes \cup {n} /\ n \notin DOMAIN graph.nodes
             /\ \A k \in DOMAIN graph.nodes : graph'.nodes[k] = graph.nodes[k]
             /\ graph'.nodes[n] = NewNode(t)
             /\ graph'.edges = graph.edges
<1>1. graph.nodes \in Seq(NodeM) /\ NewNode(t) \in NodeM
  BY GraphFacts, CallArgs DEF TypeInv, TypeOK
<1>2. graph'.edges = graph.edges /\ graph'.nodes = Append(graph.nodes, NewNode(t))
  BY GraphFacts DEF StoreNode, PG!AddNode, Graph
<1> QED
  BY <1>1, <1>2

LEMMA StoredAnEdge ==
  ASSUME TypeInv, NEW t \in Task, pc[t] # "idle", StoreEdge(t, Len(graph.edges) + 1)
  PROVE  LET n == Len(graph.edges) + 1
         IN  /\ DOMAIN graph'.edges = DOMAIN graph.edges \cup {n} /\ n \notin DOMAIN graph.edges
             /\ \A k \in DOMAIN graph.edges : graph'.edges[k] = graph.edges[k]
             /\ graph'.edges[n] =
                  [src |-> seen[t][1], dst |-> seen[t][2], weight |-> NewEdge(t)]
             /\ graph'.nodes = graph.nodes
<1> DEFINE new == [src |-> seen[t][1], dst |-> seen[t][2], weight |-> NewEdge(t)]
<1>1. graph.edges \in Seq(Edge) /\ new \in Edge
  BY GraphFacts, CallArgs DEF TypeInv, TypeOK, Edge
<1>2. graph'.nodes = graph.nodes /\ graph'.edges = Append(graph.edges, new)
  BY GraphFacts DEF StoreEdge, PG!AddEdge, Graph
<1> HIDE DEF new
<1>3. LET n == Len(graph.edges) + 1
      IN  /\ DOMAIN graph'.edges = DOMAIN graph.edges \cup {n} /\ n \notin DOMAIN graph.edges
          /\ \A k \in DOMAIN graph.edges : graph'.edges[k] = graph.edges[k]
          /\ graph'.edges[n] = new
  BY <1>1, <1>2
<1> QED
  BY <1>2, <1>3 DEF new

LEMMA RemovedAnEdge ==
  ASSUME TypeInv, NEW t \in Task, RemoveEdge(t)
  PROVE  /\ graph'.nodes = graph.nodes
         /\ \A k \in DOMAIN graph'.edges :
              \E q \in DOMAIN graph.edges : graph'.edges[k] = graph.edges[q]
<1> DEFINE i == seen[t][1]
<1>1. graph' = PG!RemoveEdge(graph, i) /\ graph.edges \in Seq(Edge)
  BY GraphFacts DEF RemoveEdge
<1>2. CASE ~PG!HasEdge(graph, i)
  BY <1>1, <1>2 DEF PG!RemoveEdge
<1>3. CASE PG!HasEdge(graph, i)
  <2>1. i \in DOMAIN graph.edges
    BY <1>3 DEF PG!HasEdge
  <2>2. graph'.nodes = graph.nodes /\ graph'.edges = PG!SwapRemove(graph.edges, i)
    BY <1>1, <1>3, GraphFacts DEF PG!RemoveEdge, Graph
  <2>3. /\ PG!SwapRemove(graph.edges, i) \in Seq(Edge)
        /\ Len(PG!SwapRemove(graph.edges, i)) = Len(graph.edges) - 1
        /\ \A k \in 1 .. Len(graph.edges) - 1 :
             PG!SwapRemove(graph.edges, i)[k] = graph.edges[IF k = i THEN Len(graph.edges) ELSE k]
    BY <1>1, <2>1, SwapRemoveArray, Zenon
  <2>4. /\ Len(graph.edges) \in Nat /\ DOMAIN graph.edges = 1 .. Len(graph.edges)
        /\ DOMAIN graph'.edges = 1 .. Len(graph.edges) - 1
    BY <1>1, <2>2, <2>3
  <2> QED
    BY <2>2, <2>3, <2>4
<1> QED
  BY <1>2, <1>3

\* No action of t touches the indices in the hands of another task.
LEMMA OthersSee ==
  ASSUME TypeInv, NEW t \in Task, Call(t) \/ Step(t) \/ Cancel(t)
  PROVE  \A u \in Task \ {t} : pc'[u] = pc[u] /\ arg'[u] = arg[u] /\ seen'[u] = seen[u]
<1>1. seen \in [Task -> Nat \X Nat]
  BY DEF TypeInv, TypeOK, TasksOK
<1>2. \A u \in Task \ {t} : seen'[u] = seen[u]
  <2>1. CASE Call(t) \/ Enqueue(t) \/ FirstGuard(t)
    BY <1>1, <2>1 DEF Call, Enqueue, FirstGuard, Continue
  <2>2. CASE \/ AddNodeCheck(t) \/ AddNodeInsert(t) \/ AddNodePublish(t) \/ NodeLookup(t)
             \/ FindNode(t) \/ RemoveNode(t) \/ UpdateNode(t)
    BY <1>1, <2>2 DEF AddNodeCheck, AddNodeInsert, AddNodePublish, StoreNode, NodeLookup,
                      FindNode, RemoveNode, UpdateNode, Return, Continue
  <2>3. CASE \/ AddEdgeCheck(t) \/ AddEdgeInsert(t) \/ AddEdgePublish(t) \/ EdgeLookup(t)
             \/ UpdateEdge(t) \/ RemoveEdge(t) \/ Cancel(t)
    BY <1>1, <2>3 DEF AddEdgeCheck, AddEdgeInsert, AddEdgePublish, StoreEdge, EdgeLookup,
                      UpdateEdge, RemoveEdge, Cancel, Return, Continue
  <2> QED
    BY <2>1, <2>2, <2>3 DEF Step
<1> QED
  BY <1>2, OthersStay DEF OthersSame

\* The steps that change the graph.
LEMMA GraphSteps ==
  ASSUME TypeInv, NEW t \in Task, Call(t) \/ Step(t) \/ Cancel(t)
  PROVE  \/ UNCHANGED graph
         \/ RemoveNode(t)
         \/ RemoveEdge(t)
         \/ /\ pc[t] = "updateNode" /\ PG!HasNode(graph, seen[t][1])
            /\ graph' = [graph EXCEPT !.nodes[seen[t][1]].data = arg[t].data]
         \/ /\ pc[t] = "updateEdge" /\ PG!HasEdge(graph, seen[t][1])
            /\ graph' = [graph EXCEPT !.edges[seen[t][1]].weight.data = Extend(@, arg[t].data)]
         \/ pc[t] = "addNodeInsert" /\ StoreNode(t)
         \/ pc[t] = "addEdgeInsert" /\ StoreEdge(t, Len(graph.edges) + 1)
<1>1. CASE \/ Call(t) \/ Enqueue(t) \/ FirstGuard(t) \/ AddNodeCheck(t) \/ AddNodePublish(t)
           \/ NodeLookup(t) \/ FindNode(t) \/ AddEdgeCheck(t) \/ AddEdgePublish(t)
           \/ EdgeLookup(t) \/ Cancel(t)
  BY <1>1 DEF Call, Enqueue, FirstGuard, AddNodeCheck, AddNodePublish, NodeLookup, FindNode,
              AddEdgeCheck, AddEdgePublish, EdgeLookup, Cancel, shared
<1>2. CASE AddNodeInsert(t) \/ UpdateNode(t)
  BY <1>2 DEF AddNodeInsert, UpdateNode, At
<1>3. CASE AddEdgeInsert(t) \/ UpdateEdge(t)
  BY <1>3 DEF AddEdgeInsert, UpdateEdge, At
<1> QED
  BY <1>1, <1>2, <1>3 DEF Step

\* Only the removal of a node takes a node away or moves one.
NodesStay == \A i, v : NodeAt(i, v) => NodeAt(i, v)'

LEMMA NodesStayIn ==
  ASSUME TypeInv, NEW t \in Task, Call(t) \/ Step(t) \/ Cancel(t), ~RemoveNode(t)
  PROVE  NodesStay
<1>1. CASE UNCHANGED graph.nodes
  BY <1>1 DEF NodesStay, NodeAt, PG!HasNode
<1>2. CASE /\ pc[t] = "updateNode" /\ PG!HasNode(graph, seen[t][1])
           /\ graph' = [graph EXCEPT !.nodes[seen[t][1]].data = arg[t].data]
  BY <1>2, UpdatedNode DEF NodesStay, NodeAt, PG!HasNode
<1>3. CASE pc[t] = "addNodeInsert" /\ StoreNode(t)
  BY <1>3, StoredANode DEF NodesStay, NodeAt, PG!HasNode
<1>4. CASE RemoveEdge(t)
  BY <1>1, <1>4, RemovedAnEdge
<1>5. CASE /\ pc[t] = "updateEdge" /\ PG!HasEdge(graph, seen[t][1])
           /\ graph' = [graph EXCEPT !.edges[seen[t][1]].weight.data = Extend(@, arg[t].data)]
  BY <1>1, <1>5, UpdatedEdge
<1>6. CASE pc[t] = "addEdgeInsert" /\ StoreEdge(t, Len(graph.edges) + 1)
  BY <1>1, <1>6, StoredAnEdge
<1> QED
  BY <1>1, <1>2, <1>3, <1>4, <1>5, <1>6, GraphSteps

\* Only add_edge brings an edge, and only the removal of a node changes the
\* end points of one.
EdgesDrawn ==
  \A k \in DOMAIN graph'.edges :
    \E q \in DOMAIN graph.edges :
      /\ graph'.edges[k].src = graph.edges[q].src /\ graph'.edges[k].dst = graph.edges[q].dst
      /\ Ends(k)' = Ends(q)

LEMMA EdgesDrawnFrom ==
  ASSUME TypeInv, NEW t \in Task, Call(t) \/ Step(t) \/ Cancel(t),
         ~RemoveNode(t)
  PROVE  EdgesDrawn \/ (pc[t] = "addEdgeInsert" /\ StoreEdge(t, Len(graph.edges) + 1))
<1>1. CASE UNCHANGED graph.edges
  BY <1>1 DEF EdgesDrawn, Ends
<1>2. CASE /\ pc[t] = "updateNode" /\ PG!HasNode(graph, seen[t][1])
           /\ graph' = [graph EXCEPT !.nodes[seen[t][1]].data = arg[t].data]
  BY <1>1, <1>2, UpdatedNode
<1>3. CASE pc[t] = "addNodeInsert" /\ StoreNode(t)
  BY <1>1, <1>3, StoredANode
<1>4. CASE RemoveEdge(t)
  BY <1>4, RemovedAnEdge DEF EdgesDrawn, Ends
<1>5. CASE /\ pc[t] = "updateEdge" /\ PG!HasEdge(graph, seen[t][1])
           /\ graph' = [graph EXCEPT !.edges[seen[t][1]].weight.data = Extend(@, arg[t].data)]
  BY <1>5, UpdatedEdge DEF EdgesDrawn
<1> QED
  BY <1>1, <1>2, <1>3, <1>4, <1>5, GraphSteps

\* The caches only grow, by what a task publishes.
LEMMA CacheSteps ==
  ASSUME NEW t \in Task, Call(t) \/ Step(t) \/ Cancel(t)
  PROVE  /\ \/ UNCHANGED node_cache
            \/ AddNodePublish(t) /\ node_cache' = Insert(node_cache, arg[t].vid, seen[t][1])
         /\ \/ UNCHANGED edge_cache
            \/ AddEdgePublish(t) /\ edge_cache' = Insert(edge_cache, Key(t), seen[t][1])
         /\ DOMAIN node_cache \subseteq DOMAIN node_cache'
         /\ DOMAIN edge_cache \subseteq DOMAIN edge_cache'
<1>1. /\ \/ UNCHANGED node_cache
         \/ AddNodePublish(t) /\ node_cache' = Insert(node_cache, arg[t].vid, seen[t][1])
      /\ \/ UNCHANGED edge_cache
         \/ AddEdgePublish(t) /\ edge_cache' = Insert(edge_cache, Key(t), seen[t][1])
  <2>1. CASE \/ Call(t) \/ Enqueue(t) \/ FirstGuard(t) \/ AddNodeCheck(t) \/ AddNodeInsert(t)
             \/ NodeLookup(t) \/ FindNode(t) \/ RemoveNode(t) \/ UpdateNode(t)
             \/ AddEdgeCheck(t) \/ AddEdgeInsert(t) \/ EdgeLookup(t)
             \/ UpdateEdge(t) \/ RemoveEdge(t) \/ Cancel(t)
    BY <2>1 DEF Call, Enqueue, FirstGuard, AddNodeCheck, AddNodeInsert, NodeLookup, FindNode,
                RemoveNode, UpdateNode, AddEdgeCheck, AddEdgeInsert, EdgeLookup, UpdateEdge,
                RemoveEdge, Cancel, shared, caches
  <2>2. CASE AddNodePublish(t)
    BY <2>2 DEF AddNodePublish
  <2>3. CASE AddEdgePublish(t)
    BY <2>3 DEF AddEdgePublish
  <2> QED
    BY <2>1, <2>2, <2>3 DEF Step
<1>2. DOMAIN node_cache \subseteq DOMAIN Insert(node_cache, arg[t].vid, seen[t][1])
  BY DEF Insert, Extend
<1>3. DOMAIN edge_cache \subseteq DOMAIN Insert(edge_cache, Key(t), seen[t][1])
  BY DEF Insert, Extend
<1> QED
  BY <1>1, <1>2, <1>3, Zenon

-----------------------------------------------------------------------------
(***************************************************************************)
(* The indices of nodes, step by step.  Whoever removes a node makes the   *)
(* cache list a vid that the graph does not have.                          *)
(***************************************************************************)
LEMMA WholeBefore ==
  ASSUME TypeInv, NEW t \in Task, Call(t) \/ Step(t) \/ Cancel(t), Whole'
  PROVE  Whole
<1>1. Kept
  BY RemovalStep DEF Next
<1>2. DOMAIN node_cache \subseteq DOMAIN node_cache'
  BY CacheSteps
<1> QED
  BY <1>1, <1>2 DEF Kept, Whole

LEMMA RemoveNodeArray ==
  ASSUME NEW g, NEW i, PG!HasNode(g, i), NEW h \in PG!RemoveNode(g, i)
  PROVE  h.nodes = PG!SwapRemove(g.nodes, i)
<1>1. PICK es \in PG!Compactions(g.edges, PG!Incident(g, i)) :
        h = [nodes |-> PG!SwapRemove(g.nodes, i),
             edges |-> [e \in DOMAIN es |->
               [es[e] EXCEPT !.src = IF @ = Len(g.nodes) THEN i ELSE @,
                             !.dst = IF @ = Len(g.nodes) THEN i ELSE @]]]
  BY DEF PG!RemoveNode
<1> QED
  BY <1>1

LEMMA RemovalShows ==
  ASSUME TypeInv, NamesInv, RightIndices, NEW t \in Task, RemoveNode(t)
  PROVE  ~Whole'
<1> DEFINE i == seen[t][1]
           v == arg[t].vid
<1>1. v \in DOMAIN node_cache /\ i \in DOMAIN graph.nodes /\ graph.nodes[i].vid = v
  BY DEF RightIndices, FoundNodes, RemoveNode, At, NodeAt, PG!HasNode
<1>2. graph.nodes \in Seq(NodeM)
  BY GraphFacts
<1>3. graph'.nodes = PG!SwapRemove(graph.nodes, i) /\ node_cache' = node_cache
  <2>1. graph' \in PG!RemoveNode(graph, i) /\ PG!HasNode(graph, i) /\ node_cache' = node_cache
    BY <1>1 DEF RemoveNode, PG!HasNode, caches
  <2>2. \A h \in PG!RemoveNode(graph, i) : h.nodes = PG!SwapRemove(graph.nodes, i)
    BY <2>1, RemoveNodeArray
  <2> QED
    BY <2>1, <2>2
<1> HIDE DEF i, v
<1>4. /\ PG!SwapRemove(graph.nodes, i) \in Seq(NodeM)
      /\ Len(PG!SwapRemove(graph.nodes, i)) = Len(graph.nodes) - 1
      /\ \A k \in 1 .. Len(graph.nodes) - 1 :
           PG!SwapRemove(graph.nodes, i)[k] = graph.nodes[IF k = i THEN Len(graph.nodes) ELSE k]
  BY <1>1, <1>2, SwapRemoveArray, Zenon
<1>5. ASSUME NEW k \in DOMAIN graph'.nodes
      PROVE  graph'.nodes[k].vid # v
  <2> DEFINE q == IF k = i THEN Len(graph.nodes) ELSE k
  <2>1. /\ k \in 1 .. Len(graph.nodes) - 1 /\ Len(graph.nodes) \in Nat
        /\ DOMAIN graph.nodes = 1 .. Len(graph.nodes)
    BY <1>2, <1>3, <1>4
  <2>2. q \in DOMAIN graph.nodes /\ q # i /\ graph'.nodes[k] = graph.nodes[q]
    BY <1>1, <1>3, <1>4, <2>1
  <2> HIDE DEF q
  <2> QED
    BY <1>1, <2>2 DEF NamesInv, UniqueVids
<1>6. \A w : w = v => w \notin LiveVids'
  BY <1>5 DEF LiveVids
<1> QED
  BY <1>1, <1>3, <1>6 DEF Whole

LEMMA OwnIndices ==
  ASSUME TypeInv, RightIndices, NEW t \in Task, Call(t) \/ Step(t) \/ Cancel(t), NodesStay,
         DOMAIN node_cache \subseteq DOMAIN node_cache'
  PROVE  FoundNodes(t)'
<1>0. /\ pc \in [Task -> PC] /\ seen \in [Task -> Nat \X Nat]
      /\ arg \in [Task -> Request \cup {NoCall}]
  BY DEF TypeInv, TypeOK, TasksOK
<1> DEFINE Quiet == {"idle", "addNodeCheck", "addNodeLock", "addNodeInsert", "addEdgeRead",
                     "addEdgeCheck", "nodeLookup", "edgeLookup", "updateEdge", "removeEdge",
                     "addEdgePublish"}
<1>1. CASE pc'[t] \in Quiet
  BY <1>1 DEF FoundNodes
<1>2. ASSUME NEW value, Return(t, value)
      PROVE  FoundNodes(t)'
  BY <1>0, <1>1, <1>2 DEF Return, Proceed
<1>3. CASE Call(t)
  <2>1. PICK r \in Requests : Proceed(t, FirstStep(r.op))
    BY <1>3 DEF Call
  <2>2. r.op \in NodeOps \cup EdgeOps
    BY DEF Requests, Request
  <2>3. FirstStep(r.op) \in {"addNodeCheck", "addEdgeRead", "nodeLookup", "edgeLookup"}
    BY <2>2 DEF FirstStep, NodeOps, EdgeOps
  <2> QED
    BY <1>0, <1>1, <2>1, <2>3 DEF Proceed
<1>4. CASE UNCHANGED <<pc, arg, seen>>
  BY <1>4 DEF RightIndices, FoundNodes, NodesStay, NodeAt
<1>5. CASE FirstGuard(t)
  <2>1. PICK step \in DOMAIN Nested : At(t, step) /\ Continue(t, Nested[step], seen[t])
    BY <1>5 DEF FirstGuard
  <2>2. /\ <<pc[t], pc'[t]>> \in {<<"addNodeLock", "addNodeInsert">>,
             <<"addEdgeRead", "addEdgeCheck">>, <<"addEdgeLock", "addEdgeInsert">>}
        /\ arg' = arg /\ seen'[t] = seen[t]
    BY <1>0, <2>1 DEF Nested, At, Continue, Proceed
  <2>3. CASE pc[t] = "addEdgeLock" /\ pc'[t] = "addEdgeInsert"
    BY <2>2, <2>3 DEF RightIndices, FoundNodes, NodesStay, NodeAt
  <2> QED
    BY <1>1, <2>2, <2>3
<1>6. CASE NodeLookup(t)
  <2>1. CASE /\ arg[t].vid \in DOMAIN node_cache
             /\ \E next \in {"findNode", "removeNode", "updateNode"} :
                  Continue(t, next, <<node_cache[arg[t].vid], 0>>)
    <3>1. /\ pc'[t] \in {"findNode", "removeNode", "updateNode"} /\ arg' = arg
          /\ seen'[t] = <<node_cache[arg[t].vid], 0>>
      BY <1>0, <2>1 DEF Continue, Proceed
    <3>2. NodeAt(node_cache[arg[t].vid], arg[t].vid)
      BY <2>1 DEF RightIndices, CachedNodes
    <3>3. seen'[t][1] = node_cache[arg[t].vid]
      BY <3>1
    <3> QED
      BY <2>1, <3>1, <3>2, <3>3 DEF FoundNodes, NodesStay, NodeAt
  <2> QED
    BY <1>2, <1>6, <2>1 DEF NodeLookup
<1>7. CASE AddEdgeCheck(t)
  <2> DEFINE ends == <<Lookup(node_cache, arg[t].vid), Lookup(node_cache, arg[t].to)>>
  <2>1. CASE Continue(t, "addEdgeLock", ends) /\ 0 \notin {ends[1], ends[2]}
    <3>1. pc'[t] = "addEdgeLock" /\ arg' = arg /\ seen'[t] = ends
      BY <1>0, <2>1 DEF Continue, Proceed
    <3>2. /\ arg[t].vid \in DOMAIN node_cache /\ ends[1] = node_cache[arg[t].vid]
          /\ arg[t].to \in DOMAIN node_cache /\ ends[2] = node_cache[arg[t].to]
      BY <2>1 DEF Lookup
    <3>3. NodeAt(ends[1], arg[t].vid) /\ NodeAt(ends[2], arg[t].to)
      BY <3>2 DEF RightIndices, CachedNodes
    <3> HIDE DEF ends
    <3> QED
      BY <3>1, <3>2, <3>3 DEF FoundNodes, NodesStay, NodeAt
  <2> QED
    BY <1>2, <1>7, <2>1 DEF AddEdgeCheck
<1>8. CASE AddNodeInsert(t)
  <2>1. CASE StoreNode(t)
    <3>1. /\ pc'[t] = "addNodePublish" /\ arg' = arg /\ seen'[t] = <<Len(graph.nodes) + 1, 0>>
          /\ pc[t] # "idle"
      BY <1>0, <1>8, <2>1 DEF AddNodeInsert, At, StoreNode, Continue, Proceed
    <3>2. /\ Len(graph.nodes) + 1 \in DOMAIN graph'.nodes
          /\ graph'.nodes[Len(graph.nodes) + 1] = NewNode(t)
      BY <2>1, <3>1, StoredANode
    <3>3. NewNode(t).vid = arg[t].vid
      BY DEF NewNode
    <3> QED
      BY <3>1, <3>2, <3>3 DEF FoundNodes, NodeAt, PG!HasNode
  <2> QED
    BY <1>2, <1>8, <2>1 DEF AddNodeInsert
<1>9. CASE AddNodeCheck(t) \/ EdgeLookup(t) \/ AddEdgeInsert(t)
  <2>1. \/ \E value : Return(t, value)
        \/ \E next \in Quiet : \E indices : Continue(t, next, indices)
    BY <1>9 DEF AddNodeCheck, EdgeLookup, AddEdgeInsert, StoreEdge
  <2> QED
    BY <1>0, <1>1, <1>2, <2>1 DEF Continue, Proceed
<1>10. CASE \/ AddNodePublish(t) \/ FindNode(t) \/ RemoveNode(t) \/ UpdateNode(t)
            \/ AddEdgePublish(t) \/ UpdateEdge(t) \/ RemoveEdge(t) \/ Cancel(t)
  BY <1>2, <1>10 DEF AddNodePublish, FindNode, RemoveNode, UpdateNode, AddEdgePublish,
                     UpdateEdge, RemoveEdge, Cancel
<1> QED
  BY <1>3, <1>4, <1>5, <1>6, <1>7, <1>8, <1>9, <1>10 DEF Step, Enqueue

LEMMA IndexInvStep ==
  ASSUME TypeInv, NamesInv, IndexInv, [Next]_vars
  PROVE  IndexInv'
<1>1. CASE UNCHANGED vars
  BY <1>1 DEF vars, IndexInv, Whole, LiveVids, RightIndices, CachedNodes, FoundNodes, Joins,
              Ends, NodeAt, PG!HasNode
<1>2. ASSUME NEW t \in Task, Call(t) \/ Step(t) \/ Cancel(t), Whole'
      PROVE  RightIndices'
  <2>1. RightIndices
    BY <1>2, WholeBefore DEF IndexInv
  <2>2. ~RemoveNode(t)
    BY <1>2, <2>1, RemovalShows
  <2>3. NodesStay
    BY <1>2, <2>2, NodesStayIn
  <2>4. DOMAIN node_cache \subseteq DOMAIN node_cache'
    BY <1>2, CacheSteps
  <2>5. CachedNodes'
    <3>1. CASE UNCHANGED node_cache
      BY <2>1, <2>3, <3>1 DEF RightIndices, CachedNodes, NodesStay, NodeAt
    <3>2. CASE AddNodePublish(t) /\ node_cache' = Insert(node_cache, arg[t].vid, seen[t][1])
      <4> DEFINE v == arg[t].vid
                 i == seen[t][1]
      <4>1. NodeAt(i, v)
        BY <2>1, <3>2 DEF RightIndices, FoundNodes, AddNodePublish, At
      <4>2. /\ DOMAIN node_cache' = DOMAIN node_cache \cup {v}
            /\ node_cache'[v] = i
            /\ \A x \in DOMAIN node_cache : x # v => node_cache'[x] = node_cache[x]
        BY <3>2 DEF Insert, Extend
      <4> HIDE DEF i, v
      <4>3. \A x \in DOMAIN node_cache' : NodeAt(node_cache'[x], x)
        BY <2>1, <4>1, <4>2 DEF RightIndices, CachedNodes
      <4> QED
        BY <2>3, <4>3 DEF CachedNodes, NodesStay, NodeAt
    <3> QED
      BY <1>2, <3>1, <3>2, CacheSteps
  <2>6. ASSUME NEW u \in Task
        PROVE  FoundNodes(u)'
    <3>1. CASE u = t
      BY <1>2, <2>1, <2>3, <2>4, <3>1, OwnIndices
    <3>2. CASE u # t
      <4>1. pc'[u] = pc[u] /\ arg'[u] = arg[u] /\ seen'[u] = seen[u]
        BY <1>2, <3>2, OthersSee
      <4>2. pc[u] # "addNodeCheck" => FoundNodes(u)
        BY <2>1 DEF RightIndices
      <4> QED
        BY <2>1, <2>3, <2>4, <4>1 DEF RightIndices, FoundNodes, NodesStay, NodeAt
    <3> QED
      BY <3>1, <3>2
  <2>7. ASSUME NEW e \in DOMAIN graph'.edges
        PROVE  Joins(e)'
    <3>1. CASE EdgesDrawn
      BY <2>1, <2>3, <3>1 DEF EdgesDrawn, RightIndices, Joins, NodesStay, NodeAt
    <3>2. CASE pc[t] = "addEdgeInsert" /\ StoreEdge(t, Len(graph.edges) + 1)
      <4> DEFINE n == Len(graph.edges) + 1
      <4>1. /\ DOMAIN graph'.edges = DOMAIN graph.edges \cup {n}
            /\ \A k \in DOMAIN graph.edges : graph'.edges[k] = graph.edges[k]
            /\ graph'.edges[n] = [src |-> seen[t][1], dst |-> seen[t][2], weight |-> NewEdge(t)]
        BY <3>2, StoredAnEdge
      <4>2. NodeAt(seen[t][1], arg[t].vid) /\ NodeAt(seen[t][2], arg[t].to)
        BY <2>1, <3>2 DEF RightIndices, FoundNodes
      <4>3. CASE e \in DOMAIN graph.edges
        <5>1. Joins(e) /\ graph'.edges[e] = graph.edges[e] /\ Ends(e)' = Ends(e)
          BY <2>1, <4>1, <4>3 DEF RightIndices, Ends
        <5> QED
          BY <2>3, <5>1 DEF Joins, NodesStay, NodeAt
      <4>4. CASE e = n
        <5>1. /\ graph'.edges[e].src = seen[t][1] /\ graph'.edges[e].dst = seen[t][2]
              /\ Ends(e)' = <<arg[t].vid, arg[t].to>>
          BY <4>1, <4>4 DEF Ends, NewEdge
        <5> QED
          BY <2>3, <4>2, <5>1 DEF Joins, NodesStay, NodeAt
      <4> QED
        BY <4>1, <4>3, <4>4
    <3> QED
      BY <1>2, <2>2, <3>1, <3>2, EdgesDrawnFrom
  <2> QED
    BY <2>5, <2>6, <2>7 DEF RightIndices
<1> QED
  BY <1>1, <1>2 DEF Next, IndexInv

LEMMA IndexInvInit ==
  ASSUME Init
  PROVE  IndexInv
<1>1. DOMAIN node_cache = {} /\ DOMAIN graph.edges = {} /\ \A t \in Task : pc[t] = "idle"
  BY DEF Init, PG!EmptyGraph
<1> QED
  BY <1>1 DEF IndexInv, RightIndices, CachedNodes, FoundNodes

\* Until a node is removed, every edge joins the nodes whose vids it was added
\* for, whatever add_edge waited for between looking the nodes up and storing
\* the edge, and whoever removes edges meanwhile (graph.rs:143-169).
THEOREM EdgesJoin == Spec => []EdgesJoinTheirVids
<1>1. Init => TypeInv /\ NamesInv /\ IndexInv
  BY TypeInvInit, NamesInvInit, IndexInvInit
<1>2. TypeInv /\ NamesInv /\ IndexInv /\ [Next]_vars => (TypeInv /\ NamesInv /\ IndexInv)'
  BY TypeInvStep, NamesInvStep, IndexInvStep
<1>3. IndexInv => EdgesJoinTheirVids
  BY DEF IndexInv, RightIndices, Whole, Joins, EdgesJoinTheirVids
<1> QED
  BY <1>1, <1>2, <1>3, PTL DEF Spec
-----------------------------------------------------------------------------
(***************************************************************************)
(* The method a task calls, and whose edges the graph has.                 *)
(***************************************************************************)
LEMMA MethodsOfSteps ==
  /\ \A step \in {"addNodeCheck", "addNodeLock", "addNodeInsert", "addNodePublish"} :
       MethodsAt(step) = {"add_node"}
  /\ \A step \in {"addEdgeRead", "addEdgeCheck", "addEdgeLock", "addEdgeInsert",
                  "addEdgePublish"} : MethodsAt(step) = {"add_edge"}
  /\ MethodsAt("nodeLookup") = {"find_node", "remove_node", "update_node"}
  /\ MethodsAt("edgeLookup") = {"update_edge", "remove_edge"}
  /\ MethodsAt("findNode") = {"find_node"} /\ MethodsAt("removeNode") = {"remove_node"}
  /\ MethodsAt("updateNode") = {"update_node"} /\ MethodsAt("updateEdge") = {"update_edge"}
  /\ MethodsAt("removeEdge") = {"remove_edge"}
BY DEF MethodsAt

LEMMA OwnMethod ==
  ASSUME TypeInv, CallsInv, NEW t \in Task, Call(t) \/ Step(t) \/ Cancel(t)
  PROVE  pc'[t] # "idle" => arg'[t] \in Requests /\ arg'[t].op \in MethodsAt(pc'[t])
<1>0. /\ pc \in [Task -> PC] /\ arg \in [Task -> Request \cup {NoCall}]
      /\ pc[t] # "idle" => arg[t] \in Requests /\ arg[t].op \in MethodsAt(pc[t])
  BY DEF TypeInv, TypeOK, TasksOK, CallsInv
<1>1. ASSUME NEW value, Return(t, value)
      PROVE  pc'[t] = "idle"
  BY <1>0, <1>1 DEF Return, Proceed
<1>2. ASSUME NEW next, NEW indices, Continue(t, next, indices)
      PROVE  pc'[t] = next /\ arg' = arg
  BY <1>0, <1>2 DEF Continue, Proceed
<1>3. CASE Call(t)
  <2>1. PICK r \in Requests : Proceed(t, FirstStep(r.op)) /\ arg' = [arg EXCEPT ![t] = r]
    BY <1>3 DEF Call
  <2>2. r.op \in NodeOps \cup EdgeOps
    BY DEF Requests, Request
  <2>3. r.op \in MethodsAt(FirstStep(r.op))
    BY <2>2, MethodsOfSteps DEF FirstStep, NodeOps, EdgeOps
  <2>4. pc'[t] = FirstStep(r.op) /\ arg'[t] = r
    BY <1>0, <2>1 DEF Proceed
  <2> QED
    BY <2>3, <2>4
<1>4. CASE Enqueue(t)
  BY <1>0, <1>4 DEF Enqueue
<1>5. CASE FirstGuard(t)
  <2>1. PICK step \in DOMAIN Nested : At(t, step) /\ Continue(t, Nested[step], seen[t])
    BY <1>5 DEF FirstGuard
  <2>2. /\ <<pc[t], pc'[t]>> \in {<<"addNodeLock", "addNodeInsert">>,
             <<"addEdgeRead", "addEdgeCheck">>, <<"addEdgeLock", "addEdgeInsert">>}
        /\ arg' = arg
    BY <1>2, <2>1 DEF Nested, At
  <2> QED
    BY <1>0, <2>2, MethodsOfSteps
<1>6. CASE AddNodeCheck(t) \/ AddNodeInsert(t)
  <2>1. \/ \E value : Return(t, value)
        \/ /\ pc[t] \in {"addNodeCheck", "addNodeInsert"}
           /\ \E next \in {"addNodeLock", "addNodePublish"} :
                \E indices : Continue(t, next, indices)
    BY <1>6 DEF AddNodeCheck, AddNodeInsert, StoreNode, At
  <2> QED
    BY <1>0, <1>1, <1>2, <2>1, MethodsOfSteps
<1>7. CASE NodeLookup(t)
  <2>1. \/ \E value : Return(t, value)
        \/ /\ pc[t] = "nodeLookup"
           /\ \E next \in {"findNode", "removeNode", "updateNode"} : \E indices :
                /\ Continue(t, next, indices)
                /\ next = CASE arg[t].op = "find_node"   -> "findNode"
                            [] arg[t].op = "remove_node" -> "removeNode"
                            [] OTHER                     -> "updateNode"
    BY <1>7 DEF NodeLookup, At
  <2> QED
    BY <1>0, <1>1, <1>2, <2>1, MethodsOfSteps
<1>8. CASE AddEdgeCheck(t) \/ AddEdgeInsert(t)
  <2>1. \/ \E value : Return(t, value)
        \/ /\ pc[t] \in {"addEdgeCheck", "addEdgeInsert"}
           /\ \E next \in {"addEdgeLock", "addEdgePublish"} :
                \E indices : Continue(t, next, indices)
    BY <1>8 DEF AddEdgeCheck, AddEdgeInsert, StoreEdge, At
  <2> QED
    BY <1>0, <1>1, <1>2, <2>1, MethodsOfSteps
<1>9. CASE EdgeLookup(t)
  <2>1. \/ \E value : Return(t, value)
        \/ /\ pc[t] = "edgeLookup"
           /\ \E indices :
                Continue(t, IF arg[t].op = "update_edge" THEN "updateEdge" ELSE "removeEdge",
                         indices)
    BY <1>9 DEF EdgeLookup, At
  <2> QED
    BY <1>0, <1>1, <1>2, <2>1, MethodsOfSteps
<1>10. CASE \/ AddNodePublish(t) \/ FindNode(t) \/ RemoveNode(t) \/ UpdateNode(t)
            \/ AddEdgePublish(t) \/ UpdateEdge(t) \/ RemoveEdge(t) \/ Cancel(t)
  BY <1>1, <1>10 DEF AddNodePublish, FindNode, RemoveNode, UpdateNode, AddEdgePublish,
                     UpdateEdge, RemoveEdge, Cancel
<1> QED
  BY <1>3, <1>4, <1>5, <1>6, <1>7, <1>8, <1>9, <1>10 DEF Step

LEMMA CallsInvStep ==
  ASSUME TypeInv, CallsInv, [Next]_vars
  PROVE  CallsInv'
<1>1. CASE UNCHANGED vars
  BY <1>1 DEF vars, CallsInv, Ends
<1>2. ASSUME NEW t \in Task, Call(t) \/ Step(t) \/ Cancel(t)
      PROVE  CallsInv'
  <2>1. \A u \in Task :
          pc'[u] # "idle" => arg'[u] \in Requests /\ arg'[u].op \in MethodsAt(pc'[u])
    BY <1>2, OwnMethod, OthersSee DEF CallsInv
  <2>2. CASE NoNewNames
    BY <2>1, <2>2 DEF NoNewNames, CallsInv
  <2>3. CASE UNCHANGED graph
    BY <2>2, <2>3, NamesSame
  <2>4. CASE AddNodeInsert(t) /\ StoreNode(t)
    <3>1. graph'.edges = graph.edges
      BY <2>4, NodeStored DEF AddNodeInsert
    <3> QED
      BY <2>1, <3>1 DEF CallsInv, Ends
  <2>5. CASE AddEdgeInsert(t) /\ StoreEdge(t, Len(graph.edges) + 1)
    <3>1. PICK n :
            /\ DOMAIN graph'.edges = DOMAIN graph.edges \cup {n}
            /\ \A e \in DOMAIN graph.edges : Ends(e)' = Ends(e)
            /\ Ends(n)' = <<arg[t].vid, arg[t].to>>
      BY <2>5, EdgeStored DEF AddEdgeInsert
    <3>2. arg[t] \in Requests /\ arg[t].op = "add_edge"
      BY <2>5, MethodsOfSteps DEF AddEdgeInsert, At, CallsInv
    <3>3. <<arg[t].vid, arg[t].to>> \in Link
      BY <3>2 DEF Requests, EdgeOps
    <3> QED
      BY <2>1, <3>1, <3>3 DEF CallsInv
  <2>6. CASE /\ ~AddNodeInsert(t) /\ ~AddEdgeInsert(t)
             /\ ~AddNodePublish(t) /\ ~AddEdgePublish(t)
    BY <1>2, <2>2, <2>6, QuietSteps DEF Step
  <2> QED
    BY <2>3, <2>4, <2>5, <2>6 DEF AddNodeInsert, AddEdgeInsert, AddNodePublish, AddEdgePublish
<1> QED
  BY <1>1, <1>2 DEF Next

LEMMA CallsInvInit ==
  ASSUME Init
  PROVE  CallsInv
BY DEF Init, PG!EmptyGraph, CallsInv
-----------------------------------------------------------------------------
(***************************************************************************)
(* While a task is about to publish what it stored, it holds the graph for *)
(* writing: nobody else changes anything.                                  *)
(***************************************************************************)
LEMMA InnerAlone ==
  ASSUME TypeInv, NEW t \in Task, NEW u \in Task,
         pc[u] \in {"addNodePublish", "addEdgePublish"}, RW!Granted(queue["inner"], t)
  PROVE  t = u
<1>1. "inner" \in Lock /\ queue["inner"] \in Line
  BY QueueType DEF Lock, TypeInv, TypeOK
<1>2. RW!Granted(queue["inner"], u)
  BY <1>1, HoldsOfSteps DEF TypeInv, LinesOK, LinesOf
<1>3. \A i \in RW!Places(queue["inner"], u) : queue["inner"][i].mode = "write"
  <2>1. ModeOf(pc[u], "inner") = "write"
    BY Steps DEF ModeOf
  <2> QED
    BY <1>1, <2>1 DEF TypeInv, LinesOK, LinesOf
<1> QED
  BY <1>1, <1>2, <1>3, Exclusion

LEMMA PublisherAlone ==
  ASSUME TypeInv, NEW t \in Task, NEW u \in Task, t # u,
         pc[u] \in {"addNodePublish", "addEdgePublish"}, Call(t) \/ Step(t) \/ Cancel(t)
  PROVE  UNCHANGED shared
<1>1. ~RW!Granted(queue["inner"], t)
  BY InnerAlone
<1>2. "inner" \notin Holds(pc[t])
  BY <1>1 DEF TypeInv, LinesOK, LinesOf, Lock
<1>3. /\ Wants["removeNode"].lock = "inner" /\ Wants["updateNode"].lock = "inner"
      /\ Wants["updateEdge"].lock = "inner" /\ Wants["removeEdge"].lock = "inner"
  BY DEF Wants, WriteOf
<1>4. ~RemoveNode(t) /\ ~UpdateNode(t) /\ ~UpdateEdge(t) /\ ~RemoveEdge(t)
  BY <1>1, <1>3, Steps DEF RemoveNode, UpdateNode, UpdateEdge, RemoveEdge, At
<1>5. ~AddNodeInsert(t) /\ ~AddNodePublish(t) /\ ~AddEdgeInsert(t) /\ ~AddEdgePublish(t)
  BY <1>2, HoldsOfSteps DEF AddNodeInsert, AddNodePublish, AddEdgeInsert, AddEdgePublish, At
<1> QED
  BY <1>4, <1>5 DEF Step, Call, Enqueue, FirstGuard, AddNodeCheck, NodeLookup, FindNode,
                    AddEdgeCheck, EdgeLookup, Cancel, shared
-----------------------------------------------------------------------------
(***************************************************************************)
(* Callers that never remove.                                              *)
(***************************************************************************)
LEMMA NoRemoval ==
  ASSUME NeverRemove, CallsInv, NEW t \in Task
  PROVE  /\ pc[t] \notin {"removeNode", "removeEdge"} /\ ~RemoveNode(t) /\ ~RemoveEdge(t)
         /\ arg[t].op \notin {"remove_node", "remove_edge"} \/ pc[t] = "idle"
<1>1. pc[t] # "idle" => arg[t].op \in Ops /\ arg[t].op \in MethodsAt(pc[t])
  BY DEF CallsInv, Requests
<1>2. pc[t] \notin {"removeNode", "removeEdge"}
  BY <1>1, MethodsOfSteps DEF NeverRemove
<1> QED
  BY <1>1, <1>2 DEF NeverRemove, RemoveNode, RemoveEdge, At

\* No edge goes, moves or gets other end points.
EdgesStay ==
  \A e \in DOMAIN graph.edges :
    /\ e \in DOMAIN graph'.edges /\ Ends(e)' = Ends(e)
    /\ graph'.edges[e].src = graph.edges[e].src /\ graph'.edges[e].dst = graph.edges[e].dst

LEMMA EdgesStayIn ==
  ASSUME TypeInv, NEW t \in Task, Call(t) \/ Step(t) \/ Cancel(t),
         ~RemoveNode(t), ~RemoveEdge(t)
  PROVE  EdgesStay
<1>1. CASE UNCHANGED graph.edges
  BY <1>1 DEF EdgesStay, Ends
<1>2. CASE /\ pc[t] = "updateNode" /\ PG!HasNode(graph, seen[t][1])
           /\ graph' = [graph EXCEPT !.nodes[seen[t][1]].data = arg[t].data]
  BY <1>1, <1>2, UpdatedNode
<1>3. CASE pc[t] = "addNodeInsert" /\ StoreNode(t)
  BY <1>1, <1>3, StoredANode
<1>4. CASE pc[t] = "addEdgeInsert" /\ StoreEdge(t, Len(graph.edges) + 1)
  BY <1>4, StoredAnEdge DEF EdgesStay, Ends
<1>5. CASE /\ pc[t] = "updateEdge" /\ PG!HasEdge(graph, seen[t][1])
           /\ graph' = [graph EXCEPT !.edges[seen[t][1]].weight.data = Extend(@, arg[t].data)]
  BY <1>5, UpdatedEdge DEF EdgesStay
<1> QED
  BY <1>1, <1>2, <1>3, <1>4, <1>5, GraphSteps

\* What t itself finds in the caches, or stores.
LEMMA OwnEdge ==
  ASSUME TypeInv, CachedEdges, EdgesStay, NEW t \in Task, FoundEdge(t),
         Call(t) \/ Step(t) \/ Cancel(t), DOMAIN edge_cache \subseteq DOMAIN edge_cache'
  PROVE  FoundEdge(t)'
<1>0. pc \in [Task -> PC] /\ seen \in [Task -> Nat \X Nat]
  BY DEF TypeInv, TypeOK, TasksOK
<1>1. CASE pc'[t] \notin {"updateEdge", "removeEdge"}
  BY <1>1 DEF FoundEdge
<1>2. ASSUME NEW value, Return(t, value)
      PROVE  FoundEdge(t)'
  BY <1>0, <1>1, <1>2 DEF Return, Proceed
<1>3. ASSUME NEW next \in PC \ {"updateEdge", "removeEdge"}, NEW indices,
             Continue(t, next, indices)
      PROVE  FoundEdge(t)'
  BY <1>0, <1>1, <1>3 DEF Continue, Proceed
<1>4. CASE Call(t)
  <2>1. PICK r \in Requests : Proceed(t, FirstStep(r.op))
    BY <1>4 DEF Call
  <2>2. r.op \in NodeOps \cup EdgeOps
    BY DEF Requests, Request
  <2>3. FirstStep(r.op) \in {"addNodeCheck", "addEdgeRead", "nodeLookup", "edgeLookup"}
    BY <2>2 DEF FirstStep, NodeOps, EdgeOps
  <2> QED
    BY <1>0, <1>1, <2>1, <2>3 DEF Proceed
<1>5. CASE Enqueue(t)
  BY <1>5 DEF Enqueue, FoundEdge, EdgesStay, EdgeAt, PG!HasEdge, Key
<1>6. CASE EdgeLookup(t)
  <2>1. CASE /\ Key(t) \in DOMAIN edge_cache
             /\ \E next \in {"updateEdge", "removeEdge"} :
                  Continue(t, next, <<edge_cache[Key(t)], 0>>)
    <3>1. arg' = arg /\ seen'[t][1] = edge_cache[Key(t)]
      BY <1>0, <2>1 DEF Continue
    <3>2. EdgeAt(edge_cache[Key(t)], Key(t))
      BY <2>1 DEF CachedEdges
    <3>3. Key(t)' = Key(t)
      BY <3>1 DEF Key
    <3> QED
      BY <2>1, <3>1, <3>2, <3>3 DEF FoundEdge, EdgesStay, EdgeAt, PG!HasEdge
  <2> QED
    BY <1>2, <1>6, <2>1 DEF EdgeLookup
<1>7. CASE FirstGuard(t)
  <2>1. PICK step \in DOMAIN Nested : Continue(t, Nested[step], seen[t])
    BY <1>7 DEF FirstGuard
  <2>2. Nested[step] \in PC \ {"updateEdge", "removeEdge"}
    BY Steps DEF Nested
  <2> QED
    BY <1>3, <2>1, <2>2
<1>8. CASE NodeLookup(t)
  <2>1. \/ \E value : Return(t, value)
        \/ \E next \in {"findNode", "removeNode", "updateNode"} : \E indices :
             Continue(t, next, indices)
    BY <1>8 DEF NodeLookup
  <2> QED
    BY <1>2, <1>3, <2>1, Steps
<1>9. CASE AddNodeCheck(t) \/ AddNodeInsert(t) \/ AddEdgeCheck(t) \/ AddEdgeInsert(t)
  <2>1. \/ \E value : Return(t, value)
        \/ \E next \in {"addNodeLock", "addNodePublish", "addEdgeLock", "addEdgePublish"} :
              \E indices : Continue(t, next, indices)
    BY <1>9 DEF AddNodeCheck, AddNodeInsert, StoreNode, AddEdgeCheck, AddEdgeInsert, StoreEdge
  <2> QED
    BY <1>2, <1>3, <2>1, Steps
<1>10. CASE \/ AddNodePublish(t) \/ FindNode(t) \/ RemoveNode(t) \/ UpdateNode(t)
            \/ AddEdgePublish(t) \/ UpdateEdge(t) \/ RemoveEdge(t) \/ Cancel(t)
  BY <1>2, <1>10 DEF AddNodePublish, FindNode, RemoveNode, UpdateNode, AddEdgePublish,
                     UpdateEdge, RemoveEdge, Cancel
<1> QED
  BY <1>4, <1>5, <1>6, <1>7, <1>8, <1>9, <1>10 DEF Step

LEMMA OwnStore ==
  ASSUME TypeInv, RightIndices, NEW t \in Task, Call(t) \/ Step(t) \/ Cancel(t)
  PROVE  StoredNode(t)' /\ StoredEdge(t)'
<1>0. pc \in [Task -> PC] /\ seen \in [Task -> Nat \X Nat]
  BY DEF TypeInv, TypeOK, TasksOK
<1>1. CASE pc'[t] \notin {"addNodePublish", "addEdgePublish"}
  BY <1>1 DEF StoredNode, StoredEdge
<1>2. ASSUME NEW value, Return(t, value)
      PROVE  pc'[t] = "idle"
  BY <1>0, <1>2 DEF Return, Proceed
<1>3. ASSUME NEW next, NEW indices, Continue(t, next, indices)
      PROVE  pc'[t] = next /\ arg' = arg /\ seen'[t] = indices
  BY <1>0, <1>3 DEF Continue, Proceed
<1>4. CASE AddNodeInsert(t) /\ StoreNode(t) /\ arg[t].vid \notin DOMAIN node_cache
  <2>1. pc[t] # "idle" /\ UNCHANGED caches
    BY <1>4 DEF AddNodeInsert, At
  <2>2. pc'[t] = "addNodePublish" /\ arg' = arg /\ seen'[t] = <<Len(graph.nodes) + 1, 0>>
    BY <1>3, <1>4 DEF StoreNode
  <2>3. /\ Len(graph.nodes) + 1 \in DOMAIN graph'.nodes
        /\ graph'.nodes[Len(graph.nodes) + 1] = NewNode(t)
    BY <1>4, <2>1, StoredANode
  <2> QED
    BY <1>4, <2>1, <2>2, <2>3 DEF StoredNode, StoredEdge, PG!HasNode, NewNode, caches
<1>5. CASE /\ AddEdgeInsert(t) /\ StoreEdge(t, Len(graph.edges) + 1)
           /\ Key(t) \notin DOMAIN edge_cache
  <2>1. pc[t] = "addEdgeInsert" /\ UNCHANGED caches
    BY <1>5 DEF AddEdgeInsert, At
  <2>2. pc'[t] = "addEdgePublish" /\ arg' = arg /\ seen'[t] = <<Len(graph.edges) + 1, 0>>
    BY <1>3, <1>5 DEF StoreEdge
  <2>3. /\ Len(graph.edges) + 1 \in DOMAIN graph'.edges
        /\ graph'.edges[Len(graph.edges) + 1].weight = NewEdge(t)
    <3>1. pc[t] # "idle" /\ StoreEdge(t, Len(graph.edges) + 1)
      BY <1>5, <2>1
    <3>2. /\ DOMAIN graph'.edges = DOMAIN graph.edges \cup {Len(graph.edges) + 1}
          /\ graph'.edges[Len(graph.edges) + 1] =
               [src |-> seen[t][1], dst |-> seen[t][2], weight |-> NewEdge(t)]
      BY <3>1, StoredAnEdge
    <3> QED
      BY <3>2
  <2>4. {arg[t].vid, arg[t].to} \subseteq DOMAIN node_cache
    BY <2>1 DEF RightIndices, FoundNodes
  <2> QED
    BY <1>5, <2>1, <2>2, <2>3, <2>4 DEF StoredNode, StoredEdge, PG!HasEdge, NewEdge, Key, caches
<1>6. CASE /\ AddNodeInsert(t) \/ AddEdgeInsert(t)
           /\ \E value : Return(t, value)
  BY <1>1, <1>2, <1>6
<1>7. CASE ~AddNodeInsert(t) /\ ~AddEdgeInsert(t)
  <2>1. CASE Call(t)
    <3>1. PICK r \in Requests : Proceed(t, FirstStep(r.op))
      BY <2>1 DEF Call
    <3>2. r.op \in NodeOps \cup EdgeOps
      BY DEF Requests, Request
    <3>3. FirstStep(r.op) \in {"addNodeCheck", "addEdgeRead", "nodeLookup", "edgeLookup"}
      BY <3>2 DEF FirstStep, NodeOps, EdgeOps
    <3> QED
      BY <1>0, <1>1, <3>1, <3>3 DEF Proceed
  <2>2. CASE Enqueue(t)
    BY <1>1, <2>2, Steps DEF Enqueue
  <2>3. CASE FirstGuard(t)
    <3>1. PICK step \in DOMAIN Nested : Continue(t, Nested[step], seen[t])
      BY <2>3 DEF FirstGuard
    <3>2. Nested[step] \notin {"addNodePublish", "addEdgePublish"}
      BY DEF Nested
    <3> QED
      BY <1>1, <1>3, <3>1, <3>2
  <2>4. CASE AddNodeCheck(t) \/ NodeLookup(t) \/ AddEdgeCheck(t) \/ EdgeLookup(t)
    <3>1. \/ \E value : Return(t, value)
          \/ \E next \in Free : \E indices : Continue(t, next, indices)
      BY <2>4 DEF AddNodeCheck, NodeLookup, AddEdgeCheck, EdgeLookup, Free
    <3> QED
      BY <1>1, <1>2, <1>3, <3>1 DEF Free
  <2>5. CASE \/ AddNodePublish(t) \/ FindNode(t) \/ RemoveNode(t) \/ UpdateNode(t)
             \/ AddEdgePublish(t) \/ UpdateEdge(t) \/ RemoveEdge(t) \/ Cancel(t)
    BY <1>1, <1>2, <2>5 DEF AddNodePublish, FindNode, RemoveNode, UpdateNode, AddEdgePublish,
                            UpdateEdge, RemoveEdge, Cancel
  <2> QED
    BY <1>7, <2>1, <2>2, <2>3, <2>4, <2>5 DEF Step
<1> QED
  BY <1>4, <1>5, <1>6, <1>7 DEF AddNodeInsert, AddEdgeInsert

\* Any step but a removal keeps it, whoever the callers are.
LEMMA StoreInvKept ==
  ASSUME TypeInv, IndexInv, StoreInv, NEW t \in Task, Call(t) \/ Step(t) \/ Cancel(t),
         ~RemoveNode(t), ~RemoveEdge(t)
  PROVE  StoreInv'
<1>0. RightIndices
  BY DEF StoreInv, IndexInv
<1>1. NodesStay /\ EdgesStay
  BY NodesStayIn, EdgesStayIn
<1>2. /\ DOMAIN node_cache \subseteq DOMAIN node_cache'
      /\ DOMAIN edge_cache \subseteq DOMAIN edge_cache'
  BY CacheSteps
<1>3. Whole'
  <2>1. \A i, v : NodeAt(i, v) => v \in LiveVids'
    BY <1>1 DEF NodesStay, NodeAt, PG!HasNode, LiveVids
  <2>2. \A v \in DOMAIN node_cache : NodeAt(node_cache[v], v)
    BY <1>0 DEF RightIndices, CachedNodes
  <2>3. AddNodePublish(t) => NodeAt(seen[t][1], arg[t].vid)
    BY <1>0 DEF RightIndices, FoundNodes, AddNodePublish, At
  <2>4. DOMAIN Insert(node_cache, arg[t].vid, seen[t][1]) = DOMAIN node_cache \cup {arg[t].vid}
    BY DEF Insert, Extend
  <2>5. \A v \in DOMAIN node_cache' : v \in LiveVids'
    BY <2>1, <2>2, <2>3, <2>4, CacheSteps
  <2> QED
    BY <2>5 DEF Whole
<1>4. CachedEdges'
  <2>1. CASE UNCHANGED edge_cache
    BY <1>1, <2>1 DEF StoreInv, CachedEdges, EdgesStay, EdgeAt, PG!HasEdge
  <2>2. CASE AddEdgePublish(t) /\ edge_cache' = Insert(edge_cache, Key(t), seen[t][1])
    <3> DEFINE k == Key(t)
               i == seen[t][1]
    <3>1. EdgeAt(i, k)
      <4>1. PG!HasEdge(graph, i) /\ graph.edges[i].weight = NewEdge(t)
        BY <2>2 DEF StoreInv, StoredEdge, AddEdgePublish, At
      <4>2. Ends(i)[1] = arg[t].vid /\ Ends(i)[2] = arg[t].to
        BY <4>1 DEF Ends, NewEdge
      <4> QED
        BY <4>1, <4>2 DEF EdgeAt, Key
    <3>2. /\ DOMAIN edge_cache' = DOMAIN edge_cache \cup {k}
          /\ edge_cache'[k] = i
          /\ \A x \in DOMAIN edge_cache : x # k => edge_cache'[x] = edge_cache[x]
      BY <2>2 DEF Insert, Extend
    <3> HIDE DEF i, k
    <3>3. \A x \in DOMAIN edge_cache' : EdgeAt(edge_cache'[x], x)
      BY <3>1, <3>2 DEF StoreInv, CachedEdges
    <3> QED
      BY <1>1, <3>3 DEF CachedEdges, EdgesStay, EdgeAt, PG!HasEdge
  <2> QED
    BY <2>1, <2>2, CacheSteps
<1>5. ASSUME NEW u \in Task
      PROVE  FoundEdge(u)' /\ StoredNode(u)' /\ StoredEdge(u)'
  <2>1. CASE u = t
    BY <1>0, <1>1, <1>2, <2>1, OwnEdge, OwnStore DEF StoreInv
  <2>2. CASE u # t
    <3>1. pc'[u] = pc[u] /\ arg'[u] = arg[u] /\ seen'[u] = seen[u]
      BY <2>2, OthersSee
    <3>2. FoundEdge(u) /\ StoredNode(u) /\ StoredEdge(u)
      BY DEF StoreInv
    <3>3. FoundEdge(u)'
      BY <1>1, <1>2, <3>1, <3>2 DEF FoundEdge, EdgesStay, EdgeAt, PG!HasEdge, Key
    <3>4. pc[u] \in {"addNodePublish", "addEdgePublish"} => UNCHANGED shared
      BY <2>2, PublisherAlone
    <3>5. StoredNode(u)' /\ StoredEdge(u)'
      BY <3>1, <3>2, <3>4 DEF StoredNode, StoredEdge, shared, Key, NewNode, NewEdge,
                              PG!HasNode, PG!HasEdge
    <3> QED
      BY <3>3, <3>5
  <2> QED
    BY <2>1, <2>2
<1> QED
  BY <1>3, <1>4, <1>5 DEF StoreInv

LEMMA StoreInvStep ==
  ASSUME NeverRemove, TypeInv, CallsInv, IndexInv, StoreInv, [Next]_vars
  PROVE  StoreInv'
<1>1. CASE UNCHANGED vars
  BY <1>1 DEF vars, StoreInv, Whole, LiveVids, CachedEdges, FoundEdge, StoredNode, StoredEdge,
              EdgeAt, Ends, Key, NewNode, NewEdge, PG!HasNode, PG!HasEdge
<1>2. ASSUME NEW t \in Task, Call(t) \/ Step(t) \/ Cancel(t)
      PROVE  StoreInv'
  BY <1>2, NoRemoval, StoreInvKept
<1> QED
  BY <1>1, <1>2 DEF Next

LEMMA StoreInvInit ==
  ASSUME Init
  PROVE  StoreInv
<1>1. /\ DOMAIN node_cache = {} /\ DOMAIN edge_cache = {}
      /\ \A t \in Task : pc[t] = "idle"
  BY DEF Init
<1> QED
  BY <1>1 DEF StoreInv, Whole, CachedEdges, FoundEdge, StoredNode, StoredEdge

\* The inductive invariant of callers that never remove.
CoherentInv == TypeInv /\ NamesInv /\ CallsInv /\ IndexInv /\ StoreInv

LEMMA CoherentInvInit ==
  ASSUME Init
  PROVE  CoherentInv
BY TypeInvInit, NamesInvInit, CallsInvInit, IndexInvInit, StoreInvInit DEF CoherentInv

LEMMA CoherentInvStep ==
  ASSUME NeverRemove, CoherentInv, [Next]_vars
  PROVE  CoherentInv'
BY TypeInvStep, NamesInvStep, CallsInvStep, IndexInvStep, StoreInvStep DEF CoherentInv

\* For callers that never remove, every index in a cache, and every index a
\* task copied out of one before it waited for the next lock (graph.rs:76-90,
\* 143-157, 187-219), is that of the node or edge it was looked up for.
THEOREM CachesCohere == ASSUME NeverRemove PROVE Spec => []CacheCoherent
<1>1. Init => CoherentInv
  BY CoherentInvInit
<1>2. CoherentInv /\ [Next]_vars => CoherentInv'
  BY CoherentInvStep
<1>3. CoherentInv => CacheCoherent
  <2>1. SUFFICES ASSUME CoherentInv PROVE CacheCoherent
    OBVIOUS
  <2>2. RightIndices
    BY <2>1 DEF CoherentInv, StoreInv, IndexInv
  <2> QED
    BY <2>1, <2>2 DEF CoherentInv, StoreInv, CachedEdges, FoundEdge, RightIndices, CachedNodes,
                      FoundNodes, CacheCoherent
<1> QED
  BY <1>1, <1>2, <1>3, PTL DEF Spec
-----------------------------------------------------------------------------
(***************************************************************************)
(* What GraphStore sees of the graph and its caches.                       *)
(***************************************************************************)
DistinctKeys ==
  \A l, m \in Link : EdgeKey(l[1], l[2]) = EdgeKey(m[1], m[2]) => l = m

NodesAre ==
  /\ AbstractNodes = [v \in DOMAIN node_cache |-> AbstractNodes[v]]
  /\ DOMAIN AbstractNodes = DOMAIN node_cache
  /\ \A v \in DOMAIN node_cache :
       /\ NodeAt(node_cache[v], v)
       /\ AbstractNodes[v] = graph.nodes[node_cache[v]].data

EdgesAre ==
  /\ AbstractEdges = [link \in DOMAIN AbstractEdges |-> AbstractEdges[link]]
  /\ DOMAIN AbstractEdges = {Ends(e) : e \in Published}
  /\ Published \subseteq DOMAIN graph.edges
  /\ \A e \in Published : AbstractEdges[Ends(e)] = graph.edges[e].weight.data

LEMMA AbstractNodesAre == CoherentInv => NodesAre
<1> SUFFICES ASSUME CoherentInv PROVE NodesAre
  OBVIOUS
<1>1. \A v \in DOMAIN node_cache : NodeAt(node_cache[v], v)
  BY DEF CoherentInv, StoreInv, IndexInv, RightIndices, CachedNodes
<1> QED
  BY <1>1 DEF NodesAre, AbstractNodes

LEMMA AbstractEdgesAre == CoherentInv => EdgesAre
<1> SUFFICES ASSUME CoherentInv PROVE EdgesAre
  OBVIOUS
<1>1. Published \subseteq DOMAIN graph.edges
  BY DEF CoherentInv, StoreInv, CachedEdges, EdgeAt, PG!HasEdge, Published
<1>2. \A e \in DOMAIN graph.edges : Joined(e) = Ends(e)
  BY DEF CoherentInv, StoreInv, IndexInv, RightIndices, Joins, NodeAt, Joined, Ends
<1>3. DOMAIN AbstractEdges = {Ends(e) : e \in Published}
  BY <1>1, <1>2 DEF AbstractEdges
<1>4. AbstractEdges = [link \in DOMAIN AbstractEdges |-> AbstractEdges[link]]
  BY DEF AbstractEdges
<1>5. ASSUME NEW e \in Published
      PROVE  AbstractEdges[Ends(e)] = graph.edges[e].weight.data
  <2> DEFINE d == CHOOSE d \in Published : Joined(d) = Ends(e)
  <2>1. d \in Published /\ Joined(d) = Ends(e)
    BY <1>1, <1>2
  <2>2. Ends(d) = Ends(e)
    BY <1>1, <1>2, <2>1
  <2> HIDE DEF d
  <2>3. d = e
    BY <1>1, <2>1, <2>2 DEF CoherentInv, NamesInv, UniqueEdges
  <2>4. Ends(e) \in {Joined(c) : c \in Published}
    BY <1>1, <1>2
  <2>5. AbstractEdges[Ends(e)] = graph.edges[d].weight.data
    BY <2>4 DEF AbstractEdges, d
  <2> QED
    BY <2>3, <2>5
<1> QED
  BY <1>1, <1>3, <1>4, <1>5 DEF EdgesAre

\* An edge is in the store when its key is in the cache.
LEMMA ListedEdges ==
  ASSUME CoherentInv, DistinctKeys, NEW link \in Link
  PROVE  /\ link \in DOMAIN AbstractEdges <=> EdgeKey(link[1], link[2]) \in DOMAIN edge_cache
         /\ \A e \in DOMAIN graph.edges :
              EdgeKey(Ends(e)[1], Ends(e)[2]) = EdgeKey(link[1], link[2]) => Ends(e) = link
<1>1. \A e \in DOMAIN graph.edges :
        EdgeKey(Ends(e)[1], Ends(e)[2]) = EdgeKey(link[1], link[2]) => Ends(e) = link
  BY DEF CoherentInv, CallsInv, DistinctKeys
<1>2. EdgesAre
  BY AbstractEdgesAre
<1>3. \A k \in DOMAIN edge_cache :
        /\ edge_cache[k] \in DOMAIN graph.edges /\ edge_cache[k] \in Published
        /\ EdgeKey(Ends(edge_cache[k])[1], Ends(edge_cache[k])[2]) = k
  BY DEF CoherentInv, StoreInv, CachedEdges, EdgeAt, PG!HasEdge, Published
<1>4. ASSUME link \in DOMAIN AbstractEdges
      PROVE  EdgeKey(link[1], link[2]) \in DOMAIN edge_cache
  <2>1. PICK e \in Published : link = Ends(e)
    BY <1>2, <1>4 DEF EdgesAre
  <2>2. PICK k \in DOMAIN edge_cache : e = edge_cache[k]
    BY DEF Published
  <2> QED
    BY <1>3, <2>1, <2>2
<1>5. ASSUME EdgeKey(link[1], link[2]) \in DOMAIN edge_cache
      PROVE  link \in DOMAIN AbstractEdges
  BY <1>1, <1>2, <1>3, <1>5 DEF EdgesAre
<1> QED
  BY <1>1, <1>4, <1>5

LEMMA AbstractNow ==
  ASSUME CoherentInv, CoherentInv'
  PROVE  NodesAre /\ EdgesAre /\ NodesAre' /\ EdgesAre'
<1>1. (CoherentInv => NodesAre)'
  BY AbstractNodesAre, PTL
<1>2. (CoherentInv => EdgesAre)'
  BY AbstractEdgesAre, PTL
<1> QED
  BY <1>1, <1>2, AbstractNodesAre, AbstractEdgesAre

LEMMA EdgesSame ==
  ASSUME CoherentInv, CoherentInv', edge_cache' = edge_cache, graph'.edges = graph.edges
  PROVE  AbstractEdges' = AbstractEdges
<1>1. EdgesAre /\ EdgesAre'
  BY AbstractNow
<1>2. Published' = Published /\ \A e : Ends(e)' = Ends(e)
  BY DEF Published, Ends
<1>3. DOMAIN AbstractEdges' = DOMAIN AbstractEdges
  BY <1>1, <1>2 DEF EdgesAre
<1>4. \A link \in DOMAIN AbstractEdges : AbstractEdges'[link] = AbstractEdges[link]
  BY <1>1, <1>2 DEF EdgesAre
<1> QED
  BY <1>1, <1>3, <1>4 DEF EdgesAre

LEMMA NodesSame ==
  ASSUME CoherentInv, CoherentInv', node_cache' = node_cache, graph'.nodes = graph.nodes
  PROVE  AbstractNodes' = AbstractNodes
BY AbstractNow DEF NodesAre

\* The store does not see what is stored and not published yet.
LEMMA StoreSame ==
  ASSUME CoherentInv, CoherentInv', node_cache' = node_cache, edge_cache' = edge_cache,
         \A i \in DOMAIN graph.nodes : graph'.nodes[i].data = graph.nodes[i].data,
         \A e \in DOMAIN graph.edges :
           Ends(e)' = Ends(e) /\ graph'.edges[e].weight.data = graph.edges[e].weight.data
  PROVE  AbstractNodes' = AbstractNodes /\ AbstractEdges' = AbstractEdges
<1>0. NodesAre /\ EdgesAre /\ NodesAre' /\ EdgesAre'
  BY AbstractNow
<1>1. \A v \in DOMAIN node_cache : node_cache[v] \in DOMAIN graph.nodes
  BY <1>0 DEF NodesAre, NodeAt, PG!HasNode
<1>2. AbstractNodes' = AbstractNodes
  BY <1>0, <1>1 DEF NodesAre
<1>3. Published' = Published
  BY DEF Published
<1>4. \A e \in Published : Ends(e)' = Ends(e) /\ AbstractEdges'[Ends(e)'] = AbstractEdges[Ends(e)]
  BY <1>0, <1>3 DEF EdgesAre
<1>5. DOMAIN AbstractEdges' = DOMAIN AbstractEdges
  BY <1>0, <1>3, <1>4 DEF EdgesAre
<1>6. \A link \in DOMAIN AbstractEdges : AbstractEdges'[link] = AbstractEdges[link]
  BY <1>0, <1>4 DEF EdgesAre
<1>7. AbstractEdges' = AbstractEdges
  BY <1>0, <1>5, <1>6 DEF EdgesAre
<1> QED
  BY <1>2, <1>7
-----------------------------------------------------------------------------
(***************************************************************************)
(* Each step is one of GraphStore, or one it does not see.                 *)
(***************************************************************************)
LEMMA SharedSame ==
  ASSUME CoherentInv, CoherentInv', UNCHANGED shared
  PROVE  AbstractNodes' = AbstractNodes /\ AbstractEdges' = AbstractEdges
BY StoreSame DEF shared, Ends

\* A return is the instant at which the store serves the call.
LEMMA Returns ==
  ASSUME TypeInv, NEW t \in Task, pc[t] # "idle", NEW value, Return(t, value)
  PROVE  /\ Store!Serve(t, arg[t].op, value)
         /\ arg[t] # NoCall
<1>1. arg[t] # NoCall
  BY DEF TypeInv, TypeOK, TasksOK
<1> QED
  BY <1>1 DEF Return, Store!Serve

LEMMA OpAt ==
  ASSUME NeverRemove, CoherentInv, NEW t \in Task, pc[t] # "idle"
  PROVE  /\ arg[t] \in Requests /\ arg[t].op \in MethodsAt(pc[t])
         /\ arg[t].op \notin {"remove_node", "remove_edge"}
         /\ arg[t].op \in EdgeOps => <<arg[t].vid, arg[t].to>> \in Link
BY NoRemoval DEF CoherentInv, CallsInv, Requests

LEMMA SimCall ==
  ASSUME CoherentInv, CoherentInv', NEW t \in Task, Call(t)
  PROVE  Store!Invoke(t)
<1>1. PICK r \in Requests : arg' = [arg EXCEPT ![t] = r]
  BY DEF Call
<1>2. r \in Request /\ arg[t] = NoCall
  BY DEF Call, Requests, CoherentInv, TypeInv, TypeOK, TasksOK
<1>3. reply' = [reply EXCEPT ![t] = Store!Reply("pending")]
  BY DEF Call, Reply, Store!Reply
<1>4. UNCHANGED shared
  BY DEF Call, shared
<1> QED
  BY <1>1, <1>2, <1>3, <1>4, SharedSame DEF Store!Invoke

LEMMA SimCancel ==
  ASSUME CoherentInv, CoherentInv', NEW t \in Task, Cancel(t)
  PROVE  Store!Cancel(t)
<1>1. pc[t] # "idle" /\ Return(t, Reply("cancelled")) /\ UNCHANGED shared
  BY Steps DEF Cancel
<1>2. Store!Serve(t, arg[t].op, Reply("cancelled")) /\ arg[t] # NoCall
  BY <1>1, Returns DEF CoherentInv
<1> QED
  BY <1>1, <1>2, SharedSame DEF Store!Cancel, Store!Serve, Reply, Store!Reply

\* A call goes on: the store sees nothing.
LEMMA SimContinue ==
  ASSUME CoherentInv, CoherentInv', NEW t \in Task, NEW next, NEW indices,
         Continue(t, next, indices), AbstractNodes' = AbstractNodes,
         AbstractEdges' = AbstractEdges
  PROVE  UNCHANGED Store!vars
BY DEF Continue, Store!vars

LEMMA SimNodeExists ==
  ASSUME NeverRemove, CoherentInv, CoherentInv', NEW t \in Task,
         pc[t] \in {"addNodeCheck", "addNodeInsert"}, arg[t].vid \in DOMAIN node_cache,
         Return(t, Reply("NodeExists")), UNCHANGED shared
  PROVE  Store!AddNode(t)
<1>1. arg[t].op = "add_node"
  <2>1. arg[t].op \in MethodsAt(pc[t])
    BY OpAt
  <2>2. MethodsAt(pc[t]) = {"add_node"}
    BY MethodsOfSteps
  <2> QED
    BY <2>1, <2>2
<1>2. Store!Serve(t, "add_node", Store!Reply("NodeExists"))
  BY <1>1, Returns DEF CoherentInv, Reply, Store!Reply
<1>3. arg[t].vid \in DOMAIN AbstractNodes
  BY AbstractNow DEF NodesAre
<1> QED
  BY <1>2, <1>3, SharedSame DEF Store!AddNode

LEMMA SimAddNodeInsert ==
  ASSUME NeverRemove, CoherentInv, CoherentInv', NEW t \in Task, AddNodeInsert(t)
  PROVE  Store!AddNode(t) \/ UNCHANGED Store!vars
<1>1. pc[t] = "addNodeInsert" /\ UNCHANGED caches
  BY DEF AddNodeInsert, At
<1>2. CASE /\ arg[t].vid \in DOMAIN node_cache
           /\ Return(t, Reply("NodeExists")) /\ UNCHANGED graph
  BY <1>1, <1>2, SimNodeExists DEF caches, shared
<1>3. CASE StoreNode(t)
  <2>1. /\ \A i \in DOMAIN graph.nodes : graph'.nodes[i] = graph.nodes[i]
        /\ graph'.edges = graph.edges
    BY <1>1, <1>3, StoredANode DEF CoherentInv
  <2>2. AbstractNodes' = AbstractNodes /\ AbstractEdges' = AbstractEdges
    BY <1>1, <2>1, StoreSame DEF Ends, caches
  <2> QED
    BY <1>3, <2>2, SimContinue DEF StoreNode
<1> QED
  BY <1>2, <1>3 DEF AddNodeInsert

LEMMA SimAddNodePublish ==
  ASSUME NeverRemove, CoherentInv, CoherentInv', NEW t \in Task, AddNodePublish(t)
  PROVE  Store!AddNode(t)
<1> DEFINE v == arg[t].vid
           i == seen[t][1]
           d == arg[t].data
<1>1. /\ pc[t] = "addNodePublish" /\ Return(t, Reply("Ok")) /\ UNCHANGED <<graph, edge_cache>>
      /\ node_cache' = Insert(node_cache, v, i)
  BY DEF AddNodePublish, At
<1>2. arg[t].op = "add_node"
  BY <1>1, OpAt, MethodsOfSteps
<1>3. Store!Serve(t, "add_node", Store!Reply("Ok"))
  BY <1>1, <1>2, Returns DEF CoherentInv, Reply, Store!Reply
<1>4. v \notin DOMAIN node_cache /\ graph.nodes[i].data = d
  <2>1. StoredNode(t)
    BY DEF CoherentInv, StoreInv
  <2>2. v \notin DOMAIN node_cache /\ graph.nodes[i] = NewNode(t)
    BY <1>1, <2>1 DEF StoredNode
  <2> QED
    BY <2>2 DEF NewNode
<1>5. /\ DOMAIN node_cache' = DOMAIN node_cache \cup {v}
      /\ node_cache'[v] = i
      /\ \A x \in DOMAIN node_cache : node_cache'[x] = node_cache[x]
  BY <1>1, <1>4 DEF Insert, Extend
<1>6. NodesAre /\ NodesAre' /\ EdgesAre /\ EdgesAre'
  BY AbstractNow
<1> HIDE DEF v, i, d
<1>7. AbstractNodes' = Store!With(AbstractNodes, [x \in {v} |-> d])
  BY <1>1, <1>4, <1>5, <1>6 DEF NodesAre, Store!With
<1>8. AbstractEdges' = AbstractEdges
  BY <1>1, EdgesSame
<1> QED
  BY <1>3, <1>4, <1>6, <1>7, <1>8 DEF Store!AddNode, NodesAre, v, d

\* find_node_by_vid and update_node end here when the cache does not know the
\* vid.
LEMMA SimNodeLookup ==
  ASSUME NeverRemove, CoherentInv, CoherentInv', NEW t \in Task, NodeLookup(t)
  PROVE  Store!FindNode(t) \/ Store!UpdateNode(t) \/ UNCHANGED Store!vars
<1>1. pc[t] = "nodeLookup" /\ UNCHANGED shared
  BY DEF NodeLookup, At
<1>2. AbstractNodes' = AbstractNodes /\ AbstractEdges' = AbstractEdges
  BY <1>1, SharedSame
<1>3. CASE \E next, indices : Continue(t, next, indices)
  BY <1>2, <1>3, SimContinue
<1>4. CASE /\ arg[t].vid \notin DOMAIN node_cache
           /\ Return(t, Reply(IF arg[t].op = "find_node" THEN "None" ELSE "false"))
  <2>1. arg[t].vid \notin DOMAIN AbstractNodes
    BY <1>4, AbstractNow DEF NodesAre
  <2>2. arg[t].op \in {"find_node", "update_node"}
    BY <1>1, OpAt, MethodsOfSteps
  <2>3. CASE arg[t].op = "find_node"
    <3>1. Store!Serve(t, "find_node", Store!Reply("None"))
      BY <1>1, <1>4, <2>3, Returns DEF CoherentInv, Reply, Store!Reply
    <3> QED
      BY <1>2, <2>1, <3>1 DEF Store!FindNode
  <2>4. CASE arg[t].op = "update_node"
    <3>1. Store!Serve(t, "update_node", Store!Reply("false"))
      BY <1>1, <1>4, <2>4, Returns DEF CoherentInv, Reply, Store!Reply
    <3> QED
      BY <1>2, <2>1, <3>1 DEF Store!UpdateNode
  <2> QED
    BY <2>2, <2>3, <2>4
<1> QED
  BY <1>3, <1>4 DEF NodeLookup

\* The index a task copied is still the one in the cache.
LEMMA SameNode ==
  ASSUME CoherentInv, NEW t \in Task, pc[t] \in {"findNode", "updateNode"}
  PROVE  /\ arg[t].vid \in DOMAIN node_cache /\ seen[t][1] = node_cache[arg[t].vid]
         /\ PG!HasNode(graph, seen[t][1]) /\ graph.nodes[seen[t][1]].vid = arg[t].vid
<1>1. FoundNodes(t) /\ CachedNodes
  BY DEF CoherentInv, StoreInv, IndexInv, RightIndices
<1>2. arg[t].vid \in DOMAIN node_cache /\ NodeAt(seen[t][1], arg[t].vid)
  BY <1>1 DEF FoundNodes
<1>3. NodeAt(node_cache[arg[t].vid], arg[t].vid)
  BY <1>1, <1>2 DEF CachedNodes
<1> QED
  BY <1>2, <1>3 DEF NodeAt, PG!HasNode, CoherentInv, NamesInv, UniqueVids

LEMMA SimFindNode ==
  ASSUME NeverRemove, CoherentInv, CoherentInv', NEW t \in Task, FindNode(t)
  PROVE  Store!FindNode(t)
<1> DEFINE i == seen[t][1]
           v == arg[t].vid
<1>1. pc[t] = "findNode" /\ UNCHANGED shared
  BY DEF FindNode, At
<1>2. v \in DOMAIN node_cache /\ i = node_cache[v] /\ PG!HasNode(graph, i) /\ graph.nodes[i].vid = v
  BY <1>1, SameNode
<1>3. Return(t, [outcome |-> "Some", found |-> {graph.nodes[i]}])
  BY <1>2 DEF FindNode
<1>4. arg[t].op = "find_node"
  BY <1>1, OpAt, MethodsOfSteps
<1>5. graph.nodes[i] = [vid |-> v, data |-> AbstractNodes[v]] /\ v \in DOMAIN AbstractNodes
  <2>1. graph.nodes[i] \in NodeM
    BY <1>2, GraphFacts DEF CoherentInv, PG!HasNode
  <2>2. AbstractNodes[v] = graph.nodes[i].data /\ v \in DOMAIN AbstractNodes
    BY <1>2, AbstractNow DEF NodesAre
  <2> HIDE DEF i, v
  <2> QED
    BY <1>2, <2>1, <2>2 DEF NodeM
<1>6. Store!Serve(t, "find_node",
        [outcome |-> "Some", found |-> {[vid |-> v, data |-> AbstractNodes[v]]}])
  BY <1>1, <1>3, <1>4, <1>5, Returns DEF CoherentInv
<1> QED
  BY <1>1, <1>5, <1>6, SharedSame DEF Store!FindNode

LEMMA SimUpdateNode ==
  ASSUME NeverRemove, CoherentInv, CoherentInv', NEW t \in Task, UpdateNode(t)
  PROVE  Store!UpdateNode(t)
<1> DEFINE i == seen[t][1]
           v == arg[t].vid
           d == arg[t].data
<1>1. pc[t] = "updateNode" /\ UNCHANGED caches
  BY DEF UpdateNode, At
<1>2. v \in DOMAIN node_cache /\ i = node_cache[v] /\ PG!HasNode(graph, i) /\ graph.nodes[i].vid = v
  BY <1>1, SameNode
<1>3. /\ Return(t, Reply("true"))
      /\ graph' = [graph EXCEPT !.nodes[seen[t][1]].data = arg[t].data]
  BY <1>2 DEF UpdateNode
<1>4. arg[t].op = "update_node"
  BY <1>1, OpAt, MethodsOfSteps
<1>5. Store!Serve(t, "update_node", Store!Reply("true"))
  BY <1>1, <1>3, <1>4, Returns DEF CoherentInv, Reply, Store!Reply
<1>6. /\ graph'.edges = graph.edges
      /\ \A k \in DOMAIN graph.nodes :
           graph'.nodes[k].data = IF k = i THEN d ELSE graph.nodes[k].data
  BY <1>1, <1>2, <1>3, UpdatedNode DEF CoherentInv
<1>7. NodesAre /\ NodesAre' /\ EdgesAre /\ EdgesAre'
  BY AbstractNow
<1>8. \A x \in DOMAIN node_cache :
        node_cache[x] \in DOMAIN graph.nodes /\ (node_cache[x] = i <=> x = v)
  BY <1>2, <1>7 DEF NodesAre, NodeAt, PG!HasNode
<1> HIDE DEF v, i, d
<1>9. AbstractNodes' = [AbstractNodes EXCEPT ![v] = d] /\ v \in DOMAIN AbstractNodes
  BY <1>1, <1>2, <1>6, <1>7, <1>8 DEF NodesAre, caches
<1>10. AbstractEdges' = AbstractEdges
  BY <1>1, <1>6, EdgesSame DEF caches
<1> QED
  BY <1>5, <1>9, <1>10 DEF Store!UpdateNode, v, d

\* add_edge and update_edge end here when the key is, or is not, in the cache.
LEMMA SimEdgeExists ==
  ASSUME NeverRemove, DistinctKeys, CoherentInv, CoherentInv', NEW t \in Task,
         pc[t] \in {"addEdgeCheck", "addEdgeInsert"}, Key(t) \in DOMAIN edge_cache,
         Return(t, Reply("EdgeExists")), UNCHANGED shared
  PROVE  Store!AddEdge(t)
<1>1. arg[t].op = "add_edge" /\ <<arg[t].vid, arg[t].to>> \in Link
  BY OpAt, MethodsOfSteps DEF EdgeOps
<1>2. Store!Serve(t, "add_edge", Store!Reply("EdgeExists"))
  BY <1>1, Returns DEF CoherentInv, Reply, Store!Reply
<1>3. <<arg[t].vid, arg[t].to>> \in DOMAIN AbstractEdges
  BY <1>1, ListedEdges DEF Key
<1> QED
  BY <1>2, <1>3, SharedSame DEF Store!AddEdge

LEMMA SimAddEdgeCheck ==
  ASSUME NeverRemove, DistinctKeys, CoherentInv, CoherentInv', NEW t \in Task, AddEdgeCheck(t)
  PROVE  Store!AddEdge(t) \/ UNCHANGED Store!vars
<1> DEFINE ends == <<Lookup(node_cache, arg[t].vid), Lookup(node_cache, arg[t].to)>>
<1>1. pc[t] = "addEdgeCheck" /\ UNCHANGED shared
  BY DEF AddEdgeCheck, At
<1>2. CASE Key(t) \in DOMAIN edge_cache /\ Return(t, Reply("EdgeExists"))
  BY <1>1, <1>2, SimEdgeExists
<1>3. CASE 0 \in {ends[1], ends[2]} /\ Return(t, Reply("NodeNotFound"))
  <2>1. arg[t].op = "add_edge"
    BY <1>1, OpAt, MethodsOfSteps
  <2>2. Store!Serve(t, "add_edge", Store!Reply("NodeNotFound"))
    BY <1>1, <1>3, <2>1, Returns DEF CoherentInv, Reply, Store!Reply
  <2>3. \A v \in DOMAIN node_cache : node_cache[v] # 0
    <3>1. \A v \in DOMAIN node_cache : node_cache[v] \in DOMAIN graph.nodes
      BY AbstractNow DEF NodesAre, NodeAt, PG!HasNode
    <3>2. 0 \notin DOMAIN graph.nodes
      BY GraphFacts DEF CoherentInv
    <3> QED
      BY <3>1, <3>2
  <2>4. ~({arg[t].vid, arg[t].to} \subseteq DOMAIN node_cache)
    BY <1>3, <2>3 DEF Lookup
  <2>5. ~({arg[t].vid, arg[t].to} \subseteq DOMAIN AbstractNodes)
    BY <2>4, AbstractNow DEF NodesAre
  <2> QED
    BY <1>1, <2>2, <2>5, SharedSame DEF Store!AddEdge
<1>4. CASE Continue(t, "addEdgeLock", ends)
  BY <1>1, <1>4, SharedSame, SimContinue
<1> QED
  BY <1>2, <1>3, <1>4 DEF AddEdgeCheck

\* The end points were looked up before the wait for the graph, and exist.
LEMMA SimAddEdgeInsert ==
  ASSUME NeverRemove, DistinctKeys, CoherentInv, CoherentInv', NEW t \in Task, AddEdgeInsert(t)
  PROVE  Store!AddEdge(t) \/ UNCHANGED Store!vars
<1>1. pc[t] = "addEdgeInsert" /\ UNCHANGED caches
  BY DEF AddEdgeInsert, At
<1>2. CASE /\ Key(t) \in DOMAIN edge_cache
           /\ Return(t, Reply("EdgeExists")) /\ UNCHANGED graph
  BY <1>1, <1>2, SimEdgeExists DEF caches, shared
<1>3. CASE StoreEdge(t, Len(graph.edges) + 1)
  <2>1. /\ \A e \in DOMAIN graph.edges : graph'.edges[e] = graph.edges[e]
        /\ graph'.nodes = graph.nodes
    BY <1>1, <1>3, StoredAnEdge DEF CoherentInv
  <2>2. AbstractNodes' = AbstractNodes /\ AbstractEdges' = AbstractEdges
    BY <1>1, <2>1, StoreSame DEF Ends, caches
  <2> QED
    BY <1>3, <2>2, SimContinue DEF StoreEdge
<1>4. EndsExist(t)
  <2>1. FoundNodes(t)
    BY DEF CoherentInv, StoreInv, IndexInv, RightIndices
  <2> QED
    BY <1>1, <2>1 DEF FoundNodes, NodeAt, EndsExist
<1> QED
  BY <1>2, <1>3, <1>4 DEF AddEdgeInsert

LEMMA SimAddEdgePublish ==
  ASSUME NeverRemove, DistinctKeys, CoherentInv, CoherentInv', NEW t \in Task,
         AddEdgePublish(t)
  PROVE  Store!AddEdge(t)
<1> DEFINE i == seen[t][1]
           d == arg[t].data
           link == <<arg[t].vid, arg[t].to>>
<1>1. /\ pc[t] = "addEdgePublish" /\ Return(t, Reply("Ok")) /\ UNCHANGED <<graph, node_cache>>
      /\ edge_cache' = Insert(edge_cache, Key(t), i)
  BY DEF AddEdgePublish, At
<1>2. arg[t].op = "add_edge" /\ link \in Link
  BY <1>1, OpAt, MethodsOfSteps DEF EdgeOps
<1>3. Store!Serve(t, "add_edge", Store!Reply("Ok"))
  BY <1>1, <1>2, Returns DEF CoherentInv, Reply, Store!Reply
<1>4. /\ Key(t) \notin DOMAIN edge_cache /\ {arg[t].vid, arg[t].to} \subseteq DOMAIN node_cache
      /\ graph.edges[i].weight.data = d /\ Ends(i) = link
  <2>1. StoredEdge(t)
    BY DEF CoherentInv, StoreInv
  <2>2. /\ Key(t) \notin DOMAIN edge_cache /\ {arg[t].vid, arg[t].to} \subseteq DOMAIN node_cache
        /\ graph.edges[i].weight = NewEdge(t)
    BY <1>1, <2>1 DEF StoredEdge
  <2> QED
    BY <2>2 DEF NewEdge, Ends
<1>5. NodesAre /\ EdgesAre /\ EdgesAre'
  BY AbstractNow
<1>6. {arg[t].vid, arg[t].to} \subseteq DOMAIN AbstractNodes
  BY <1>4, <1>5 DEF NodesAre
<1>7. link \notin DOMAIN AbstractEdges
  BY <1>2, <1>4, ListedEdges DEF Key
<1>8. AbstractNodes' = AbstractNodes
  BY <1>1, NodesSame
<1>9. Published' = Published \cup {i}
  BY <1>1, <1>4 DEF Published, Insert, Extend
<1>10. \A e : Ends(e)' = Ends(e) /\ graph'.edges[e] = graph.edges[e]
  BY <1>1 DEF Ends
<1> HIDE DEF i, d, link
<1>11. DOMAIN AbstractEdges' = DOMAIN AbstractEdges \cup {link}
  BY <1>4, <1>5, <1>9, <1>10 DEF EdgesAre
<1>12. AbstractEdges'[link] = d
  BY <1>4, <1>5, <1>9, <1>10 DEF EdgesAre
<1>13. \A l \in DOMAIN AbstractEdges : AbstractEdges'[l] = AbstractEdges[l]
  BY <1>5, <1>9, <1>10 DEF EdgesAre
<1>14. AbstractEdges' = Store!With(AbstractEdges, [l \in {link} |-> d])
  BY <1>5, <1>7, <1>11, <1>12, <1>13 DEF EdgesAre, Store!With
<1> QED
  BY <1>3, <1>6, <1>7, <1>8, <1>14 DEF Store!AddEdge, link, d

LEMMA SimEdgeLookup ==
  ASSUME NeverRemove, DistinctKeys, CoherentInv, CoherentInv', NEW t \in Task, EdgeLookup(t)
  PROVE  Store!UpdateEdge(t) \/ UNCHANGED Store!vars
<1>1. pc[t] = "edgeLookup" /\ UNCHANGED shared
  BY DEF EdgeLookup, At
<1>2. arg[t].op = "update_edge" /\ <<arg[t].vid, arg[t].to>> \in Link
  BY <1>1, OpAt, MethodsOfSteps DEF EdgeOps
<1>3. CASE \E next, indices : Continue(t, next, indices)
  BY <1>1, <1>3, SharedSame, SimContinue
<1>4. CASE Key(t) \notin DOMAIN edge_cache /\ Return(t, Reply("EdgeNotFound"))
  <2>1. Store!Serve(t, "update_edge", Store!Reply("EdgeNotFound"))
    BY <1>1, <1>2, <1>4, Returns DEF CoherentInv, Reply, Store!Reply
  <2>2. <<arg[t].vid, arg[t].to>> \notin DOMAIN AbstractEdges
    BY <1>2, <1>4, ListedEdges DEF Key
  <2> QED
    BY <1>1, <2>1, <2>2, SharedSame DEF Store!UpdateEdge
<1> QED
  BY <1>2, <1>3, <1>4 DEF EdgeLookup

LEMMA SimUpdateEdge ==
  ASSUME NeverRemove, DistinctKeys, CoherentInv, CoherentInv', NEW t \in Task, UpdateEdge(t)
  PROVE  Store!UpdateEdge(t)
<1> DEFINE i == seen[t][1]
           d == arg[t].data
           link == <<arg[t].vid, arg[t].to>>
<1>1. pc[t] = "updateEdge" /\ UNCHANGED caches
  BY DEF UpdateEdge, At
<1>2. arg[t].op = "update_edge" /\ link \in Link
  BY <1>1, OpAt, MethodsOfSteps DEF EdgeOps
<1>3. Key(t) \in DOMAIN edge_cache /\ i \in DOMAIN graph.edges /\ Ends(i) = link
  <2>1. FoundEdge(t)
    BY DEF CoherentInv, StoreInv
  <2>2. Key(t) \in DOMAIN edge_cache /\ EdgeAt(i, Key(t))
    BY <1>1, <2>1 DEF FoundEdge
  <2> QED
    BY <1>2, <2>2, ListedEdges DEF EdgeAt, PG!HasEdge, Key
<1>4. /\ Return(t, Reply("Ok"))
      /\ graph' = [graph EXCEPT !.edges[seen[t][1]].weight.data = Extend(@, arg[t].data)]
  BY <1>3 DEF UpdateEdge, PG!HasEdge
<1>5. Store!Serve(t, "update_edge", Store!Reply("Ok"))
  BY <1>1, <1>2, <1>4, Returns DEF CoherentInv, Reply, Store!Reply
<1>6. /\ graph'.nodes = graph.nodes
      /\ \A k \in DOMAIN graph.edges :
           /\ Ends(k)' = Ends(k)
           /\ graph'.edges[k].weight.data =
                IF k = i THEN Store!With(graph.edges[k].weight.data, d)
                ELSE graph.edges[k].weight.data
  <2>1. \A old : Extend(old, d) = Store!With(old, d)
    BY DEF Extend, Store!With
  <2>2. /\ graph'.nodes = graph.nodes
        /\ \A k \in DOMAIN graph.edges :
             /\ Ends(k)' = Ends(k)
             /\ graph'.edges[k].weight.data =
                  IF k = i THEN Extend(graph.edges[k].weight.data, d)
                  ELSE graph.edges[k].weight.data
    BY <1>1, <1>3, <1>4, UpdatedEdge DEF CoherentInv, PG!HasEdge
  <2> QED
    BY <2>1, <2>2
<1>7. NodesAre /\ EdgesAre /\ EdgesAre'
  BY AbstractNow
<1>8. AbstractNodes' = AbstractNodes
  BY <1>1, <1>6, NodesSame DEF caches
<1>9. link \in DOMAIN AbstractEdges
  BY <1>2, <1>3, ListedEdges DEF Key
<1>10. \A e \in Published : e = i <=> Ends(e) = link
  BY <1>3, <1>7 DEF EdgesAre, CoherentInv, NamesInv, UniqueEdges
<1>11. Published' = Published
  BY <1>1 DEF Published, caches
<1> HIDE DEF i, d, link
<1>12. DOMAIN AbstractEdges' = DOMAIN AbstractEdges
  BY <1>6, <1>7, <1>11 DEF EdgesAre
<1>13. \A e \in Published :
         AbstractEdges'[Ends(e)] = IF Ends(e) = link THEN Store!With(AbstractEdges[link], d)
                                   ELSE AbstractEdges[Ends(e)]
  BY <1>6, <1>7, <1>10, <1>11 DEF EdgesAre
<1>14. AbstractEdges' = [AbstractEdges EXCEPT ![link] = Store!With(AbstractEdges[link], d)]
  <2> DEFINE w == Store!With(AbstractEdges[link], d)
  <2>1. \A l \in DOMAIN AbstractEdges :
          AbstractEdges'[l] = IF l = link THEN w ELSE AbstractEdges[l]
    BY <1>7, <1>13 DEF EdgesAre
  <2>2. /\ AbstractEdges' = [l \in DOMAIN AbstractEdges |-> AbstractEdges'[l]]
        /\ AbstractEdges = [l \in DOMAIN AbstractEdges |-> AbstractEdges[l]]
    BY <1>7, <1>12 DEF EdgesAre
  <2> HIDE DEF w
  <2>3. AbstractEdges' = [AbstractEdges EXCEPT ![link] = w]
    BY <2>1, <2>2
  <2> QED
    BY <2>3 DEF w
<1> QED
  BY <1>5, <1>8, <1>9, <1>14 DEF Store!UpdateEdge, link, d

LEMMA SimStep ==
  ASSUME NeverRemove, DistinctKeys, CoherentInv, CoherentInv', [Next]_vars
  PROVE  [Store!Next]_(Store!vars)
<1>1. CASE UNCHANGED vars
  BY <1>1, SharedSame DEF vars, shared, Store!vars
<1>2. ASSUME NEW t \in Task, Call(t) \/ Step(t) \/ Cancel(t)
      PROVE  [Store!Next]_(Store!vars)
  <2>1. CASE Call(t) \/ Cancel(t)
    BY <2>1, SimCall, SimCancel DEF Store!Next
  <2>2. CASE Enqueue(t)
    BY <2>2, SharedSame DEF Enqueue, shared, Store!vars
  <2>3. CASE FirstGuard(t)
    BY <2>3, SharedSame, SimContinue DEF FirstGuard
  <2>4. CASE AddNodeCheck(t)
    <3>1. pc[t] = "addNodeCheck" /\ UNCHANGED shared
      BY <2>4 DEF AddNodeCheck, At
    <3>2. CASE Continue(t, "addNodeLock", seen[t])
      BY <3>1, <3>2, SharedSame, SimContinue
    <3> QED
      BY <2>4, <3>1, <3>2, SimNodeExists DEF AddNodeCheck, Store!Next
  <2>5. CASE AddNodeInsert(t) \/ AddNodePublish(t)
    BY <2>5, SimAddNodeInsert, SimAddNodePublish DEF Store!Next
  <2>6. CASE NodeLookup(t) \/ FindNode(t) \/ UpdateNode(t)
    BY <2>6, SimNodeLookup, SimFindNode, SimUpdateNode DEF Store!Next
  <2>7. CASE AddEdgeCheck(t) \/ AddEdgeInsert(t) \/ AddEdgePublish(t)
    BY <2>7, SimAddEdgeCheck, SimAddEdgeInsert, SimAddEdgePublish DEF Store!Next
  <2>8. CASE EdgeLookup(t) \/ UpdateEdge(t)
    BY <2>8, SimEdgeLookup, SimUpdateEdge DEF Store!Next
  <2>9. ~RemoveNode(t) /\ ~RemoveEdge(t)
    BY NoRemoval DEF CoherentInv
  <2> QED
    BY <1>2, <2>1, <2>2, <2>3, <2>4, <2>5, <2>6, <2>7, <2>8, <2>9 DEF Step
<1> QED
  BY <1>1, <1>2 DEF Next

LEMMA SimInit ==
  ASSUME Init
  PROVE  Store!Init
<1>1. node_cache = <<>> /\ edge_cache = <<>>
  BY DEF Init
<1>2. DOMAIN AbstractNodes = {} /\ AbstractNodes = <<>>
  BY <1>1 DEF AbstractNodes
<1>3. Published = {}
  BY <1>1 DEF Published
<1>4. AbstractEdges = <<>>
  BY <1>3 DEF AbstractEdges
<1> QED
  BY <1>2, <1>4 DEF Init, Store!Init, Reply, Store!Reply

\* Callers that never remove, and whose pairs of vids have keys of their own,
\* get what GraphStore promises: every call takes effect at one instant, with
\* the answer the maps of nodes and edges give then, and a cancelled call has
\* no effect (graph.rs:50-219).
THEOREM ServedOneByOne == ASSUME NeverRemove, DistinctKeys PROVE Spec => Linearizable
<1>1. Init => CoherentInv /\ Store!Init
  BY CoherentInvInit, SimInit
<1>2. CoherentInv /\ [Next]_vars => CoherentInv'
  BY CoherentInvStep
<1>3. CoherentInv /\ CoherentInv' /\ [Next]_vars => [Store!Next]_(Store!vars)
  BY SimStep
<1> QED
  BY <1>1, <1>2, <1>3, PTL DEF Spec, Linearizable, Store!Spec
=============================================================================
