--------------------------- MODULE GraphInstance ---------------------------
(***************************************************************************)
(* src/controller/graph.rs: GraphInstance, a petgraph graph behind a       *)
(* tokio RwLock with two more RwLocks around HashMaps that remember the    *)
(* index of every node (by vid) and of every edge (by "from_to").  Any     *)
(* number of tasks call its async methods at the same time.                *)
(*                                                                         *)
(* A task moves from one lock acquisition (.await) to the next.  It asks   *)
(* for the lock in one action (Enqueue) and, once the lock is granted,     *)
(* does in another what it can do before the next .await, dropping the     *)
(* guards whose scope ends on the way.  The sections that write two        *)
(* objects have one action for each write: add_node and add_edge store in  *)
(* the graph, then publish in the cache, and only the guards keep other    *)
(* tasks from running between the two.                                     *)
(***************************************************************************)
EXTENDS Naturals, Sequences, FiniteSets

CONSTANTS
  Task,      \* the tasks that call methods of the one GraphInstance
  Vid,       \* the vids they use: sequences of characters
  Segment,   \* the character GraphInstance::segment joins two vids with
  Link,      \* the (from, to) pairs of vids of their edge calls
  Attr, Val, \* keys and values of the data maps of nodes and edges
  Payload,   \* the data maps they pass
  Ops        \* the methods they call

PG == INSTANCE Petgraph
RW == INSTANCE RwLock

NodeOps == {"add_node", "find_node", "remove_node", "update_node"}
EdgeOps == {"add_edge", "update_edge", "remove_edge"}

DataMap == UNION {[A -> Val] : A \in SUBSET Attr}
NoData  == <<>>

ASSUME ConstantsAssumption ==
  /\ Link \subseteq Vid \X Vid
  /\ Payload \subseteq DataMap
  /\ NoData \in DataMap
  /\ Ops \subseteq NodeOps \cup EdgeOps

VARIABLES
  graph,      \* GraphInstance::inner
  node_cache, \* vid |-> node index, never purged
  edge_cache, \* edge key |-> edge index, never purged
  queue,      \* the line of requests for each lock
  pc,         \* where each task is: "idle", or at which step of its call
  arg,        \* the arguments of a task's current call
  seen,       \* the indices it copied out of the caches (0: none)
  reply       \* what its last call returned, "pending" during a call

vars   == <<graph, node_cache, edge_cache, queue, pc, arg, seen, reply>>
caches == <<node_cache, edge_cache>>
shared == <<graph, node_cache, edge_cache>>
-----------------------------------------------------------------------------
(***************************************************************************)
(* Calls, replies and stored values.  An edge call names its edge by key   *)
(* (update_edge, remove_edge) or by end points (update_edge_by_node,       *)
(* remove_edge_by_node); the key is computed from the end points, so one   *)
(* request stands for both.                                                *)
(***************************************************************************)
EdgeKey(from, to) == from \o <<Segment>> \o to

NodeM == [vid : Vid, data : DataMap]
EdgeM == [src_vid : Vid, dst_vid : Vid, data : DataMap]

Request == [op : NodeOps \cup EdgeOps, vid : Vid, to : Vid, data : DataMap]

\* The arguments of a task that makes no call.
NoCall == [op |-> "none", vid |-> <<>>, to |-> <<>>, data |-> NoData]

\* The requests that the callers of this instance make.
Requests ==
  {r \in Request :
     /\ r.op \in Ops
     /\ IF r.op \in EdgeOps THEN <<r.vid, r.to>> \in Link ELSE r.to = r.vid
     /\ r.data \in IF r.op \in {"find_node", "remove_node", "remove_edge"}
                   THEN {NoData} ELSE Payload}

Outcome == {"pending", "None", "Some", "Ok", "NodeExists", "NodeNotFound", "EdgeExists",
            "EdgeNotFound", "true", "false", "panic", "cancelled"}

\* found holds the node that find_node_by_vid returns, and is {} otherwise.
Reply(outcome) == [outcome |-> outcome, found |-> {}]

Key(t)     == EdgeKey(arg[t].vid, arg[t].to)
NewNode(t) == [vid |-> arg[t].vid, data |-> arg[t].data]
NewEdge(t) == [src_vid |-> arg[t].vid, dst_vid |-> arg[t].to, data |-> arg[t].data]

\* The maps: HashMap::get (0 for None), extend and insert (new values win).
Lookup(cache, k) == IF k \in DOMAIN cache THEN cache[k] ELSE 0

Extend(map, new) ==
  [k \in DOMAIN map \cup DOMAIN new |-> IF k \in DOMAIN new THEN new[k] ELSE map[k]]

Insert(map, k, value) == Extend(map, [x \in {k} |-> value])
-----------------------------------------------------------------------------
(***************************************************************************)
(* The locks: the order in which the methods that nest guards take them,   *)
(* the request a task makes at each step, the guards it keeps while it     *)
(* waits there.                                                            *)
(***************************************************************************)
Lock == {"inner", "node_cache", "edge_cache"}

\* Mutant of AddNodeOrder: the lock of the cache is taken first.
AddNodeOrderSwapped == <<"node_cache", "inner">>

AddNodeOrder      == <<"inner", "node_cache">>
AddEdgeCheckOrder == <<"edge_cache", "node_cache">>
AddEdgeWriteOrder == <<"inner", "edge_cache">>

ReadOf(l)  == [lock |-> l, mode |-> "read"]
WriteOf(l) == [lock |-> l, mode |-> "write"]

Wants ==
  [ addNodeCheck   |-> ReadOf("node_cache"),
    addNodeLock    |-> WriteOf(AddNodeOrder[1]),
    addNodeInsert  |-> WriteOf(AddNodeOrder[2]),
    nodeLookup     |-> ReadOf("node_cache"),
    findNode       |-> ReadOf("inner"),
    removeNode     |-> WriteOf("inner"),
    updateNode     |-> WriteOf("inner"),
    addEdgeRead    |-> ReadOf(AddEdgeCheckOrder[1]),
    addEdgeCheck   |-> ReadOf(AddEdgeCheckOrder[2]),
    addEdgeLock    |-> WriteOf(AddEdgeWriteOrder[1]),
    addEdgeInsert  |-> WriteOf(AddEdgeWriteOrder[2]),
    edgeLookup     |-> ReadOf("edge_cache"),
    updateEdge     |-> WriteOf("inner"),
    removeEdge     |-> WriteOf("inner") ]

Awaiting == DOMAIN Wants
PC       == Awaiting \cup {"idle", "addNodePublish", "addEdgePublish"}

HeldDuring ==
  [ addNodeInsert  |-> {AddNodeOrder[1]},
    addNodePublish |-> {AddNodeOrder[1], AddNodeOrder[2]},
    addEdgeCheck   |-> {AddEdgeCheckOrder[1]},
    addEdgeInsert  |-> {AddEdgeWriteOrder[1]},
    addEdgePublish |-> {AddEdgeWriteOrder[1], AddEdgeWriteOrder[2]} ]

\* Mutant of Holds: the guard of update_edge's lookup lives as long as the call.
HoldsLookup(step) ==
  IF step \in DOMAIN HeldDuring THEN HeldDuring[step]
  ELSE IF step = "updateEdge" THEN {"edge_cache"} ELSE {}

Holds(step) == IF step \in DOMAIN HeldDuring THEN HeldDuring[step] ELSE {}

\* Task t is at the step, and was granted the lock it waited for there.
At(t, step) ==
  /\ pc[t] = step
  /\ step \in Awaiting => RW!Granted(queue[Wants[step].lock], t)

\* t goes on to the next step and drops the guards it does not keep there.
Proceed(t, next) ==
  /\ pc' = [pc EXCEPT ![t] = next]
  /\ queue' = [l \in Lock |->
                 IF l \in Holds(next) THEN queue[l] ELSE RW!Leave(queue[l], t)]

\* The call goes on, remembering the indices.
Continue(t, next, indices) ==
  /\ Proceed(t, next)
  /\ seen' = [seen EXCEPT ![t] = indices]
  /\ UNCHANGED <<arg, reply>>

\* The end of a call: all its guards and locals are dropped.
Return(t, value) ==
  /\ Proceed(t, "idle")
  /\ reply' = [reply EXCEPT ![t] = value]
  /\ arg' = [arg EXCEPT ![t] = NoCall]
  /\ seen' = [seen EXCEPT ![t] = <<0, 0>>]
-----------------------------------------------------------------------------
Init ==
  /\ graph = PG!EmptyGraph
  /\ node_cache = <<>>
  /\ edge_cache = <<>>
  /\ queue = [l \in Lock |-> <<>>]
  /\ pc = [t \in Task |-> "idle"]
  /\ arg = [t \in Task |-> NoCall]
  /\ seen = [t \in Task |-> <<0, 0>>]
  /\ reply = [t \in Task |-> Reply("None")]

FirstStep(op) ==
  CASE op = "add_node" -> "addNodeCheck"
    [] op = "add_edge" -> "addEdgeRead"
    [] op \in NodeOps \ {"add_node"} -> "nodeLookup"
    [] op \in EdgeOps \ {"add_edge"} -> "edgeLookup"

Call(t) ==
  /\ pc[t] = "idle"
  /\ \E r \in Requests :
       /\ arg' = [arg EXCEPT ![t] = r]
       /\ Proceed(t, FirstStep(r.op))
  /\ reply' = [reply EXCEPT ![t] = Reply("pending")]
  /\ UNCHANGED <<graph, node_cache, edge_cache, seen>>

\* t's future is polled and asks for the lock of its step.
Enqueue(t) ==
  /\ pc[t] \in Awaiting
  /\ LET want == Wants[pc[t]]
     IN  /\ RW!Places(queue[want.lock], t) = {}
         /\ queue' = [queue EXCEPT ![want.lock] = RW!Enter(@, t, want.mode)]
  /\ UNCHANGED <<graph, node_cache, edge_cache, pc, arg, seen, reply>>

\* The first of two nested guards is granted: t keeps it and wants the second.
Nested ==
  [addNodeLock |-> "addNodeInsert", addEdgeRead |-> "addEdgeCheck",
   addEdgeLock |-> "addEdgeInsert"]

FirstGuard(t) ==
  /\ \E step \in DOMAIN Nested : At(t, step) /\ Continue(t, Nested[step], seen[t])
  /\ UNCHANGED shared
-----------------------------------------------------------------------------
\* add_node: the early check, under a read guard that is dropped with its block.
AddNodeCheck(t) ==
  /\ At(t, "addNodeCheck")
  /\ IF arg[t].vid \in DOMAIN node_cache
     THEN Return(t, Reply("NodeExists"))
     ELSE Continue(t, "addNodeLock", seen[t])
  /\ UNCHANGED shared

StoreNode(t) ==
  /\ graph' = PG!AddNode(graph, NewNode(t))
  /\ Continue(t, "addNodePublish", <<Len(graph.nodes) + 1, 0>>)

\* Mutant of AddNodeInsert: the early check is trusted.
AddNodeInsertUnchecked(t) ==
  At(t, "addNodeInsert") /\ StoreNode(t) /\ UNCHANGED caches

\* Both write guards are held: check again, then store the node.
AddNodeInsert(t) ==
  /\ At(t, "addNodeInsert")
  /\ IF arg[t].vid \in DOMAIN node_cache
     THEN Return(t, Reply("NodeExists")) /\ UNCHANGED graph
     ELSE StoreNode(t)
  /\ UNCHANGED caches

AddNodePublish(t) ==
  /\ At(t, "addNodePublish")
  /\ node_cache' = Insert(node_cache, arg[t].vid, seen[t][1])
  /\ Return(t, Reply("Ok"))
  /\ UNCHANGED <<graph, edge_cache>>
-----------------------------------------------------------------------------
\* find_node_by_vid, remove_node, update_node: copy the index out of the cache
\* and drop the guard.  From here on the index is a snapshot.
NodeLookup(t) ==
  /\ At(t, "nodeLookup")
  /\ LET op   == arg[t].op
         next == CASE op = "find_node"   -> "findNode"
                   [] op = "remove_node" -> "removeNode"
                   [] OTHER              -> "updateNode"
     IN  IF arg[t].vid \in DOMAIN node_cache
         THEN Continue(t, next, <<node_cache[arg[t].vid], 0>>)
         ELSE Return(t, Reply(IF op = "find_node" THEN "None" ELSE "false"))
  /\ UNCHANGED shared

FindNode(t) ==
  /\ At(t, "findNode")
  /\ IF PG!HasNode(graph, seen[t][1])
     THEN Return(t, [outcome |-> "Some", found |-> {graph.nodes[seen[t][1]]}])
     ELSE Return(t, Reply("None"))
  /\ UNCHANGED shared

\* The caches keep what they say about the node and its edges, and about
\* the node and the edges whose indices the removal changes.
RemoveNode(t) ==
  /\ At(t, "removeNode")
  /\ graph' \in PG!RemoveNode(graph, seen[t][1])
  /\ Return(t, Reply("true"))
  /\ UNCHANGED caches

UpdateNode(t) ==
  /\ At(t, "updateNode")
  /\ IF PG!HasNode(graph, seen[t][1])
     THEN /\ graph' = [graph EXCEPT !.nodes[seen[t][1]].data = arg[t].data]
          /\ Return(t, Reply("true"))
     ELSE Return(t, Reply("false")) /\ UNCHANGED graph
  /\ UNCHANGED caches
-----------------------------------------------------------------------------
\* Mutant of AddEdgeCheck: the two end points are mixed up.
AddEdgeCheckSwapped(t) ==
  /\ At(t, "addEdgeCheck")
  /\ Key(t) \notin DOMAIN edge_cache
  /\ {arg[t].vid, arg[t].to} \subseteq DOMAIN node_cache
  /\ Continue(t, "addEdgeLock", <<node_cache[arg[t].to], node_cache[arg[t].vid]>>)
  /\ UNCHANGED shared

\* add_edge, under both read guards: is the key taken, where are the end points?
AddEdgeCheck(t) ==
  /\ At(t, "addEdgeCheck")
  /\ LET ends == <<Lookup(node_cache, arg[t].vid), Lookup(node_cache, arg[t].to)>>
     IN  IF Key(t) \in DOMAIN edge_cache THEN Return(t, Reply("EdgeExists"))
         ELSE IF 0 \in {ends[1], ends[2]} THEN Return(t, Reply("NodeNotFound"))
         ELSE Continue(t, "addEdgeLock", ends)
  /\ UNCHANGED shared

StoreEdge(t, index) ==
  /\ graph' = PG!AddEdge(graph, seen[t][1], seen[t][2], NewEdge(t))
  /\ Continue(t, "addEdgePublish", <<index, 0>>)

EndsExist(t) == PG!HasNode(graph, seen[t][1]) /\ PG!HasNode(graph, seen[t][2])

\* Mutant of AddEdgeInsert: the early check of the key is trusted.
AddEdgeInsertUnchecked(t) ==
  /\ At(t, "addEdgeInsert") /\ EndsExist(t)
  /\ StoreEdge(t, Len(graph.edges) + 1)
  /\ UNCHANGED caches

\* Mutant of AddEdgeInsert: nobody looks whether the end points still exist.
AddEdgeInsertAnywhere(t) ==
  /\ At(t, "addEdgeInsert") /\ Key(t) \notin DOMAIN edge_cache
  /\ StoreEdge(t, Len(graph.edges) + 1)
  /\ UNCHANGED caches

\* Mutant of AddEdgeInsert: the index remembered is that of the edge before.
AddEdgeInsertOffByOne(t) ==
  /\ At(t, "addEdgeInsert") /\ Key(t) \notin DOMAIN edge_cache /\ EndsExist(t)
  /\ StoreEdge(t, Len(graph.edges))
  /\ UNCHANGED caches

\* Both write guards are held.  The key is checked again, the end points are
\* not: petgraph panics on an index past its node array, and the panic drops
\* the guards and ends the call.
AddEdgeInsert(t) ==
  /\ At(t, "addEdgeInsert")
  /\ IF Key(t) \in DOMAIN edge_cache
     THEN Return(t, Reply("EdgeExists")) /\ UNCHANGED graph
     ELSE IF EndsExist(t) THEN StoreEdge(t, Len(graph.edges) + 1)
     ELSE Return(t, Reply("panic")) /\ UNCHANGED graph
  /\ UNCHANGED caches

AddEdgePublish(t) ==
  /\ At(t, "addEdgePublish")
  /\ edge_cache' = Insert(edge_cache, Key(t), seen[t][1])
  /\ Return(t, Reply("Ok"))
  /\ UNCHANGED <<graph, node_cache>>
-----------------------------------------------------------------------------
\* update_edge, update_edge_by_node, remove_edge and remove_edge_by_node: again
\* the index is a snapshot.
EdgeLookup(t) ==
  /\ At(t, "edgeLookup")
  /\ LET update == arg[t].op = "update_edge"
         next   == IF update THEN "updateEdge" ELSE "removeEdge"
     IN  IF Key(t) \in DOMAIN edge_cache
         THEN Continue(t, next, <<edge_cache[Key(t)], 0>>)
         ELSE Return(t, Reply(IF update THEN "EdgeNotFound" ELSE "false"))
  /\ UNCHANGED shared

\* Mutant of UpdateEdge: the new data replaces the old.
UpdateEdgeReplacing(t) ==
  /\ At(t, "updateEdge") /\ PG!HasEdge(graph, seen[t][1])
  /\ graph' = [graph EXCEPT !.edges[seen[t][1]].weight.data = arg[t].data]
  /\ Return(t, Reply("Ok"))
  /\ UNCHANGED caches

UpdateEdge(t) ==
  /\ At(t, "updateEdge")
  /\ IF PG!HasEdge(graph, seen[t][1])
     THEN /\ graph' = [graph EXCEPT !.edges[seen[t][1]].weight.data =
                         Extend(@, arg[t].data)]
          /\ Return(t, Reply("Ok"))
     ELSE Return(t, Reply("EdgeNotFound")) /\ UNCHANGED graph
  /\ UNCHANGED caches

RemoveEdge(t) ==
  /\ At(t, "removeEdge")
  /\ graph' = PG!RemoveEdge(graph, seen[t][1])
  /\ Return(t, Reply("true"))
  /\ UNCHANGED caches
-----------------------------------------------------------------------------
\* The caller drops the future at one of its .await points (a timeout, a
\* select!, an aborted task): what it holds and what it waits for is given up.
Cancel(t) ==
  /\ pc[t] \in Awaiting
  /\ Return(t, Reply("cancelled"))
  /\ UNCHANGED shared

Step(t) ==
  \/ Enqueue(t) \/ FirstGuard(t)
  \/ AddNodeCheck(t) \/ AddNodeInsert(t) \/ AddNodePublish(t)
  \/ NodeLookup(t) \/ FindNode(t) \/ RemoveNode(t) \/ UpdateNode(t)
  \/ AddEdgeCheck(t) \/ AddEdgeInsert(t) \/ AddEdgePublish(t)
  \/ EdgeLookup(t) \/ UpdateEdge(t) \/ RemoveEdge(t)

Next == \E t \in Task : Call(t) \/ Step(t) \/ Cancel(t)

Spec == Init /\ [][Next]_vars

(***************************************************************************)
(* The runtime polls a new future and one whose lock request was granted;  *)
(* whether to make another call, or to drop one, is up to the callers.     *)
(***************************************************************************)
FairSpec == Spec /\ \A t \in Task : WF_vars(Step(t))
=============================================================================
