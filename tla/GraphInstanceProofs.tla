------------------------ MODULE GraphInstanceProofs ------------------------
(***************************************************************************)
(* Proofs about GraphInstance for every number of tasks, every set of vids *)
(* and data maps and every choice of methods.                              *)
(***************************************************************************)
EXTENDS GraphRequirements, GraphLemmas

-----------------------------------------------------------------------------
(***************************************************************************)
(* The lines and the program counters agree: a task stands in the line of  *)
(* a lock only while it holds the lock or wants it, at most once, with the *)
(* mode of its step, and it was granted what it holds.                     *)
(***************************************************************************)
ModeOf(step, l) ==
  IF step \in Awaiting /\ Wants[step].lock = l THEN Wants[step].mode
  ELSE IF step = "addEdgeCheck" THEN "read" ELSE "write"

LinesOf(t, l) ==
  /\ Single(queue[l], t)
  /\ RW!Places(queue[l], t) # {} =>
       l \in Holds(pc[t]) \/ (pc[t] \in Awaiting /\ Wants[pc[t]].lock = l)
  /\ l \in Holds(pc[t]) => RW!Granted(queue[l], t)
  /\ \A i \in RW!Places(queue[l], t) : queue[l][i].mode = ModeOf(pc[t], l)

LinesOK(T) == \A t \in T, l \in Lock : LinesOf(t, l)

\* The tables of the steps, read out.
LEMMA Steps ==
  /\ Awaiting = {"addNodeCheck", "addNodeLock", "addNodeInsert", "nodeLookup",
                 "findNode", "removeNode", "updateNode", "addEdgeRead",
                 "addEdgeCheck", "addEdgeLock", "addEdgeInsert", "edgeLookup",
                 "updateEdge", "removeEdge"}
  /\ PC = Awaiting \cup {"idle", "addNodePublish", "addEdgePublish"}
  /\ \A step \in Awaiting : Wants[step] \in [lock : Lock, mode : RW!Mode]
BY DEF Awaiting, PC, Wants, ReadOf, WriteOf, AddNodeOrder, AddEdgeCheckOrder,
       AddEdgeWriteOrder, Lock, RW!Mode

LEMMA WantsOfSteps ==
  /\ Wants["addNodeLock"]   = [lock |-> "inner", mode |-> "write"]
  /\ Wants["addNodeInsert"] = [lock |-> "node_cache", mode |-> "write"]
  /\ Wants["addEdgeRead"]   = [lock |-> "edge_cache", mode |-> "read"]
  /\ Wants["addEdgeCheck"]  = [lock |-> "node_cache", mode |-> "read"]
  /\ Wants["addEdgeLock"]   = [lock |-> "inner", mode |-> "write"]
  /\ Wants["addEdgeInsert"] = [lock |-> "edge_cache", mode |-> "write"]
BY DEF Wants, ReadOf, WriteOf, AddNodeOrder, AddEdgeCheckOrder, AddEdgeWriteOrder

LEMMA HoldsOfSteps ==
  /\ Holds("addNodeInsert")  = {"inner"}
  /\ Holds("addNodePublish") = {"inner", "node_cache"}
  /\ Holds("addEdgeCheck")   = {"edge_cache"}
  /\ Holds("addEdgeInsert")  = {"inner"}
  /\ Holds("addEdgePublish") = {"inner", "edge_cache"}
  /\ \A step : step \notin {"addNodeInsert", "addNodePublish", "addEdgeCheck",
                            "addEdgeInsert", "addEdgePublish"} => Holds(step) = {}
BY DEF Holds, HeldDuring, AddNodeOrder, AddEdgeCheckOrder, AddEdgeWriteOrder

\* t goes on to a step whose guards it was granted already.
Advances(t, next) ==
  /\ next \in PC
  /\ Proceed(t, next)
  /\ \A l \in Holds(next) :
       RW!Granted(queue[l], t) /\ ModeOf(next, l) = ModeOf(pc[t], l)

LEMMA QueueType ==
  ASSUME TasksOK
  PROVE  queue \in [Lock -> Line] /\ \A l \in Lock : queue[l] \in Line
BY DEF TasksOK, Line, Place

LEMMA AdvanceLines ==
  ASSUME NEW T \in SUBSET Task, TasksOK, LinesOK(T), NEW t \in T,
         NEW next, Advances(t, next)
  PROVE  LinesOK(T)' /\ queue' \in [Lock -> Line] /\ pc' \in [Task -> PC]
<1>1. /\ pc' = [pc EXCEPT ![t] = next] /\ pc \in [Task -> PC] /\ next \in PC
      /\ queue' = [l \in Lock |-> IF l \in Holds(next) THEN queue[l] ELSE RW!Leave(queue[l], t)]
  BY DEF Advances, Proceed, TasksOK
<1>2. pc' \in [Task -> PC] /\ pc'[t] = next /\ \A u \in Task \ {t} : pc'[u] = pc[u]
  BY <1>1
<1>3. ASSUME NEW l \in Lock
      PROVE  queue'[l] \in Line /\ \A u \in T : LinesOf(u, l)'
  <2>0. /\ queue[l] \in Line /\ \A u \in T : LinesOf(u, l)
        /\ Single(queue[l], t)
    BY QueueType DEF LinesOK, LinesOf
  <2>1. CASE l \in Holds(next)
    <3>1. queue'[l] = queue[l] /\ RW!Granted(queue[l], t) /\ ModeOf(next, l) = ModeOf(pc[t], l)
      BY <1>1, <2>1 DEF Advances
    <3>2. LinesOf(t, l)'
      BY <1>2, <2>0, <2>1, <3>1 DEF LinesOf
    <3>3. \A u \in T \ {t} : LinesOf(u, l)'
      BY <1>2, <2>0, <3>1 DEF LinesOf
    <3> QED
      BY <2>0, <3>1, <3>2, <3>3
  <2>2. CASE l \notin Holds(next)
    <3> DEFINE new == RW!Leave(queue[l], t)
    <3>1. queue'[l] = new
      BY <1>1, <2>2
    <3>2. /\ new \in Line
          /\ RW!Places(new, t) = {}
          /\ \A u \in Task \ {t} :
              /\ Single(queue[l], u) => Single(new, u)
              /\ RW!Places(new, u) # {} => RW!Places(queue[l], u) # {}
              /\ RW!Granted(queue[l], u) => RW!Granted(new, u)
              /\ \A i \in RW!Places(new, u) :
                   \E j \in RW!Places(queue[l], u) : new[i] = queue[l][j]
      BY <2>0, LeaveLine
    <3> HIDE DEF new
    <3>3. LinesOf(t, l)'
      BY <1>2, <2>2, <3>1, <3>2 DEF LinesOf, Single
    <3>4. ASSUME NEW u \in T \ {t}
          PROVE  LinesOf(u, l)'
      <4>1. LinesOf(u, l) /\ pc'[u] = pc[u]
        BY <1>2, <2>0
      <4> QED
        BY <3>1, <3>2, <4>1 DEF LinesOf
    <3> QED
      BY <3>1, <3>2, <3>3, <3>4
  <2> QED
    BY <2>1, <2>2
<1>4. queue' \in [Lock -> Line]
  BY <1>1, <1>3
<1> QED
  BY <1>2, <1>3, <1>4 DEF LinesOK

LEMMA EnqueueLines ==
  ASSUME NEW T \in SUBSET Task, TasksOK, LinesOK(T), NEW t \in T, Enqueue(t)
  PROVE  LinesOK(T)' /\ queue' \in [Lock -> Line] /\ pc' = pc
<1> DEFINE l == Wants[pc[t]].lock
           mode == Wants[pc[t]].mode
           new == RW!Enter(queue[l], t, mode)
<1>1. /\ pc[t] \in Awaiting /\ l \in Lock /\ mode \in RW!Mode /\ pc' = pc
      /\ RW!Places(queue[l], t) = {}
      /\ queue' = [queue EXCEPT ![l] = new]
  BY Steps DEF Enqueue
<1>2. queue \in [Lock -> Line] /\ queue[l] \in Line
  BY <1>1, QueueType
<1>3. /\ new \in Line
      /\ RW!Places(new, t) = {Len(queue[l]) + 1}
      /\ new[Len(queue[l]) + 1].mode = mode
      /\ \A u \in Task \ {t} :
           /\ RW!Places(new, u) = RW!Places(queue[l], u)
           /\ \A i \in RW!Places(queue[l], u) : new[i] = queue[l][i]
           /\ RW!Granted(queue[l], u) => RW!Granted(new, u)
  BY <1>1, <1>2, EnterLine
<1> HIDE DEF new
<1>4. queue' \in [Lock -> Line] /\ queue'[l] = new /\ \A k \in Lock \ {l} : queue'[k] = queue[k]
  BY <1>1, <1>2, <1>3
<1>5. \A u \in T, k \in Lock \ {l} : LinesOf(u, k)'
  BY <1>1, <1>4 DEF LinesOK, LinesOf
<1>6. \A u \in T \ {t} : LinesOf(u, l)'
  BY <1>1, <1>3, <1>4 DEF LinesOK, LinesOf, Single
<1>7. LinesOf(t, l)'
  <2>1. l \notin Holds(pc[t])
    BY <1>1, HoldsOfSteps, WantsOfSteps, Steps
  <2> QED
    BY <1>1, <1>3, <1>4, <2>1 DEF LinesOf, Single, ModeOf
<1> QED
  BY <1>1, <1>4, <1>5, <1>6, <1>7 DEF LinesOK
-----------------------------------------------------------------------------
(***************************************************************************)
(* The four ways in which a step changes what the tasks are at.            *)
(***************************************************************************)
Replies == [outcome : Outcome, found : SUBSET NodeM]

LEMMA ReturnTasks ==
  ASSUME NEW T \in SUBSET Task, TasksOK, LinesOK(T), NEW t \in T,
         NEW value \in Replies, Return(t, value)
  PROVE  TasksOK' /\ LinesOK(T)'
<1>1. Advances(t, "idle")
  BY Steps, HoldsOfSteps DEF Return, Advances
<1>2. LinesOK(T)' /\ queue' \in [Lock -> Line] /\ pc' \in [Task -> PC]
  BY <1>1, AdvanceLines
<1>3. pc' = [pc EXCEPT ![t] = "idle"] /\ arg' = [arg EXCEPT ![t] = NoCall]
  BY DEF Return, Proceed
<1>4. \A u \in Task : arg'[u] = NoCall <=> pc'[u] = "idle"
  BY <1>3 DEF TasksOK
<1>5. arg' \in [Task -> Request \cup {NoCall}]
  BY <1>3 DEF TasksOK
<1>6. seen' \in [Task -> Nat \X Nat] /\ reply' \in [Task -> Replies]
  BY DEF Return, TasksOK, Replies
<1> QED
  BY <1>2, <1>4, <1>5, <1>6 DEF TasksOK, Line, Place, Replies

LEMMA ContinueTasks ==
  ASSUME NEW T \in SUBSET Task, TasksOK, LinesOK(T), NEW t \in T,
         NEW next, NEW indices \in Nat \X Nat,
         Continue(t, next, indices), Advances(t, next), pc[t] # "idle", next # "idle"
  PROVE  TasksOK' /\ LinesOK(T)'
<1>1. LinesOK(T)' /\ queue' \in [Lock -> Line] /\ pc' \in [Task -> PC]
  BY AdvanceLines
<1>2. pc' = [pc EXCEPT ![t] = next] /\ arg' = arg /\ reply' = reply
  BY DEF Continue, Proceed
<1>3. \A u \in Task : arg'[u] = NoCall <=> pc'[u] = "idle"
  BY <1>2 DEF TasksOK
<1>4. seen' \in [Task -> Nat \X Nat]
  BY DEF Continue, TasksOK
<1> QED
  BY <1>1, <1>2, <1>3, <1>4 DEF TasksOK, Line, Place

LEMMA CallTasks ==
  ASSUME NEW T \in SUBSET Task, TasksOK, LinesOK(T), NEW t \in T, Call(t)
  PROVE  TasksOK' /\ LinesOK(T)'
<1>1. PICK r \in Requests : arg' = [arg EXCEPT ![t] = r] /\ Proceed(t, FirstStep(r.op))
  BY DEF Call
<1>2. r \in Request /\ r # NoCall /\ r.op \in NodeOps \cup EdgeOps
  BY DEF Requests, Request, NoCall, NodeOps, EdgeOps
<1>3. FirstStep(r.op) \in {"addNodeCheck", "addEdgeRead", "nodeLookup", "edgeLookup"}
  BY <1>2 DEF FirstStep, NodeOps, EdgeOps
<1>4. Advances(t, FirstStep(r.op)) /\ FirstStep(r.op) # "idle"
  BY <1>1, <1>3, Steps, HoldsOfSteps DEF Advances
<1>5. LinesOK(T)' /\ queue' \in [Lock -> Line] /\ pc' \in [Task -> PC]
  BY <1>4, AdvanceLines
<1>6. pc' = [pc EXCEPT ![t] = FirstStep(r.op)]
  BY <1>1 DEF Proceed
<1>7. \A u \in Task : arg'[u] = NoCall <=> pc'[u] = "idle"
  BY <1>1, <1>2, <1>4, <1>6 DEF TasksOK
<1>8. arg' \in [Task -> Request \cup {NoCall}]
  BY <1>1, <1>2 DEF TasksOK
<1>9. seen' \in [Task -> Nat \X Nat] /\ reply' \in [Task -> Replies]
  BY DEF Call, TasksOK, Replies, Reply, Outcome
<1> QED
  BY <1>5, <1>7, <1>8, <1>9 DEF TasksOK, Line, Place, Replies

LEMMA EnqueueTasks ==
  ASSUME NEW T \in SUBSET Task, TasksOK, LinesOK(T), NEW t \in T, Enqueue(t)
  PROVE  TasksOK' /\ LinesOK(T)'
<1>1. LinesOK(T)' /\ queue' \in [Lock -> Line] /\ pc' = pc
  BY EnqueueLines
<1>2. arg' = arg /\ seen' = seen /\ reply' = reply
  BY DEF Enqueue
<1> QED
  BY <1>1, <1>2 DEF TasksOK, Line, Place

\* A step that keeps no guard: nothing needs to have been granted.
LEMMA AdvanceFree ==
  ASSUME NEW t \in Task, NEW next \in PC, Proceed(t, next), Holds(next) = {}
  PROVE  Advances(t, next)
BY DEF Advances

LEMMA ReplyTypes ==
  \A outcome \in Outcome : Reply(outcome) \in Replies
BY DEF Reply, Replies

\* A step that keeps guards was granted the one it waited for, and the others
\* before.
LEMMA AdvanceHolding ==
  ASSUME NEW T \in SUBSET Task, TasksOK, LinesOK(T), NEW t \in T, NEW step, NEW next,
         <<step, next>> \in {<<"addNodeLock", "addNodeInsert">>,
                             <<"addNodeInsert", "addNodePublish">>,
                             <<"addEdgeRead", "addEdgeCheck">>,
                             <<"addEdgeLock", "addEdgeInsert">>,
                             <<"addEdgeInsert", "addEdgePublish">>},
         At(t, step), Proceed(t, next)
  PROVE  Advances(t, next)
<1>1. /\ pc[t] = step /\ step \in Awaiting /\ next \in PC
      /\ RW!Granted(queue[Wants[step].lock], t)
  BY Steps DEF At
<1>2. \A l \in Lock : l \in Holds(step) => RW!Granted(queue[l], t)
  BY <1>1 DEF LinesOK, LinesOf
<1>3. Holds(next) = Holds(step) \cup {Wants[step].lock}
  BY HoldsOfSteps, WantsOfSteps
<1>4. ASSUME NEW l \in Holds(next)
      PROVE  RW!Granted(queue[l], t) /\ ModeOf(next, l) = ModeOf(step, l)
  <2>1. l \in Lock
    BY HoldsOfSteps DEF Lock
  <2>2. RW!Granted(queue[l], t)
    BY <1>1, <1>2, <1>3, <2>1
  <2>3. ModeOf(next, l) = ModeOf(step, l)
    BY <1>1, HoldsOfSteps, WantsOfSteps, Steps DEF ModeOf
  <2> QED
    BY <2>2, <2>3
<1> QED
  BY <1>1, <1>4 DEF Advances
-----------------------------------------------------------------------------
(***************************************************************************)
(* Type correctness, action by action.  T are the tasks that call methods  *)
(* only: all of them here, not so where others ask for the same locks.     *)
(***************************************************************************)
Typed(T) == TypeOK /\ LinesOK(T)

TypeInv == TypeOK /\ LinesOK(Task)

LEMMA CallArgs ==
  ASSUME TasksOK, NEW t \in Task, pc[t] # "idle"
  PROVE  /\ arg[t] \in Request
         /\ arg[t].vid \in Vid /\ arg[t].to \in Vid /\ arg[t].data \in DataMap
         /\ NewNode(t) \in NodeM /\ NewEdge(t) \in EdgeM
         /\ seen[t] \in Nat \X Nat /\ seen[t][1] \in Nat /\ seen[t][2] \in Nat
<1>1. arg[t] \in Request /\ seen[t] \in Nat \X Nat
  BY DEF TasksOK
<1> QED
  BY <1>1 DEF Request, NewNode, NewEdge, NodeM, EdgeM

LEMMA StoredSame ==
  ASSUME StoredOK, UNCHANGED shared
  PROVE  StoredOK'
BY DEF StoredOK, shared, PG!WellFormed, PG!HasNode

LEMMA FirstGuardType ==
  ASSUME NEW T \in SUBSET Task, Typed(T), NEW t \in T, FirstGuard(t)
  PROVE  Typed(T)'
<1>1. PICK step \in DOMAIN Nested : At(t, step) /\ Continue(t, Nested[step], seen[t])
  BY DEF FirstGuard
<1>2. <<step, Nested[step]>> \in {<<"addNodeLock", "addNodeInsert">>,
        <<"addEdgeRead", "addEdgeCheck">>, <<"addEdgeLock", "addEdgeInsert">>}
  BY DEF Nested
<1>3. pc[t] # "idle" /\ Nested[step] # "idle" /\ Proceed(t, Nested[step])
  BY <1>1, <1>2 DEF At, Continue
<1>4. Advances(t, Nested[step])
  BY <1>1, <1>2, <1>3, AdvanceHolding DEF Typed, TypeOK
<1>5. TasksOK' /\ LinesOK(T)'
  BY <1>1, <1>3, <1>4, CallArgs, ContinueTasks DEF Typed, TypeOK
<1>6. StoredOK'
  BY StoredSame DEF FirstGuard, Typed, TypeOK
<1> QED
  BY <1>5, <1>6 DEF Typed, TypeOK

\* The two ends of a step that keeps no guard and stores nothing.
LEMMA ReturnType ==
  ASSUME NEW T \in SUBSET Task, Typed(T), NEW t \in T,
         NEW value \in Replies, Return(t, value), StoredOK'
  PROVE  Typed(T)'
BY ReturnTasks DEF Typed, TypeOK

LEMMA ContinueType ==
  ASSUME NEW T \in SUBSET Task, Typed(T), NEW t \in T,
         pc[t] # "idle", NEW next \in PC \ {"idle"},
         Holds(next) = {}, NEW indices \in Nat \X Nat, Continue(t, next, indices), StoredOK'
  PROVE  Typed(T)'
<1>1. Advances(t, next)
  BY AdvanceFree DEF Continue
<1> QED
  BY <1>1, ContinueTasks DEF Typed, TypeOK

\* The steps between two guards that are not kept.
Free == {"addNodeLock", "addEdgeLock", "findNode", "removeNode", "updateNode",
         "updateEdge", "removeEdge"}

LEMMA FreeSteps ==
  \A next \in Free : next \in PC \ {"idle"} /\ Holds(next) = {}
BY Steps, HoldsOfSteps DEF Free

LEMMA AddNodeCheckType ==
  ASSUME NEW T \in SUBSET Task, Typed(T), NEW t \in T, AddNodeCheck(t)
  PROVE  Typed(T)'
<1>1. StoredOK'
  BY StoredSame DEF AddNodeCheck, Typed, TypeOK
<1>2. pc[t] # "idle"
  BY DEF AddNodeCheck, At
<1>3. CASE Return(t, Reply("NodeExists"))
  BY <1>1, <1>3, ReturnType, ReplyTypes DEF Outcome
<1>4. CASE Continue(t, "addNodeLock", seen[t])
  BY <1>1, <1>2, <1>4, ContinueType, FreeSteps, CallArgs DEF Free, Typed, TypeOK
<1> QED
  BY <1>3, <1>4 DEF AddNodeCheck

LEMMA AddNodeInsertType ==
  ASSUME NEW T \in SUBSET Task, Typed(T), NEW t \in T, AddNodeInsert(t)
  PROVE  Typed(T)'
<1>1. At(t, "addNodeInsert") /\ pc[t] # "idle" /\ UNCHANGED caches
  BY DEF AddNodeInsert, At
<1>2. CASE Return(t, Reply("NodeExists")) /\ UNCHANGED graph
  <2>1. StoredOK'
    BY <1>1, <1>2, StoredSame DEF shared, caches, Typed, TypeOK
  <2> QED
    BY <1>2, <2>1, ReturnType, ReplyTypes DEF Outcome
<1>3. CASE StoreNode(t)
  <2>1. Continue(t, "addNodePublish", <<Len(graph.nodes) + 1, 0>>)
    BY <1>3 DEF StoreNode
  <2>2. Advances(t, "addNodePublish")
    BY <1>1, <2>1, AdvanceHolding DEF Continue, Typed, TypeOK
  <2>3. graph.nodes \in Seq(NodeM) /\ graph.edges \in Seq(Edge) /\ graph \in Graph
    BY DEF Typed, TypeOK, StoredOK, Graph, Edge
  <2>4. TasksOK' /\ LinesOK(T)'
    <3>1. <<Len(graph.nodes) + 1, 0>> \in Nat \X Nat
      BY <2>3
    <3> QED
      BY <1>1, <2>1, <2>2, <3>1, ContinueTasks DEF Typed, TypeOK
  <2>5. /\ graph'.nodes = Append(graph.nodes, NewNode(t)) /\ graph'.edges = graph.edges
        /\ graph' \in Graph
    <3>1. graph' = [graph EXCEPT !.nodes = Append(graph.nodes, NewNode(t))]
      BY <1>3 DEF StoreNode, PG!AddNode
    <3>2. Append(graph.nodes, NewNode(t)) \in Seq(NodeM)
      BY <1>1, <2>3, CallArgs DEF Typed, TypeOK
    <3> QED
      BY <2>3, <3>1, <3>2 DEF Graph
  <2>6. PG!WellFormed(graph)'
    <3>1. DOMAIN graph.nodes \subseteq DOMAIN graph'.nodes
      BY <2>3, <2>5
    <3> QED
      BY <2>5, <3>1 DEF Typed, TypeOK, StoredOK, PG!WellFormed, PG!HasNode
  <2>7. StoredOK'
    BY <1>1, <2>5, <2>6 DEF Typed, TypeOK, StoredOK, caches, Graph, Edge
  <2> QED
    BY <2>4, <2>7 DEF Typed, TypeOK
<1> QED
  BY <1>2, <1>3 DEF AddNodeInsert

\* An index put into a cache.
LEMMA InsertType ==
  ASSUME NEW map, map \in [DOMAIN map -> Nat], NEW k, NEW i \in Nat
  PROVE  /\ Insert(map, k, i) \in [DOMAIN Insert(map, k, i) -> Nat]
         /\ DOMAIN Insert(map, k, i) = DOMAIN map \cup {k}
BY DEF Insert, Extend

LEMMA AddNodePublishType ==
  ASSUME NEW T \in SUBSET Task, Typed(T), NEW t \in T, AddNodePublish(t)
  PROVE  Typed(T)'
<1>1. pc[t] # "idle"
  BY DEF AddNodePublish, At
<1>2. node_cache' = Insert(node_cache, arg[t].vid, seen[t][1]) /\ UNCHANGED <<graph, edge_cache>>
  BY DEF AddNodePublish
<1>3. seen[t][1] \in Nat /\ arg[t].vid \in Vid
  BY <1>1, CallArgs DEF Typed, TypeOK
<1>4. node_cache \in [DOMAIN node_cache -> Nat]
  BY DEF Typed, TypeOK, StoredOK
<1>5. /\ node_cache' \in [DOMAIN node_cache' -> Nat]
      /\ DOMAIN node_cache' = DOMAIN node_cache \cup {arg[t].vid}
  BY <1>2, <1>3, <1>4, InsertType
<1>6. StoredOK'
  BY <1>2, <1>3, <1>5 DEF Typed, TypeOK, StoredOK, PG!WellFormed, PG!HasNode
<1> QED
  BY <1>6, ReturnType, ReplyTypes DEF AddNodePublish, Outcome

LEMMA NodeLookupType ==
  ASSUME NEW T \in SUBSET Task, Typed(T), NEW t \in T, NodeLookup(t)
  PROVE  Typed(T)'
<1>1. StoredOK' /\ pc[t] # "idle"
  BY StoredSame DEF NodeLookup, At, Typed, TypeOK
<1>2. CASE \E outcome \in {"None", "false"} : Return(t, Reply(outcome))
  BY <1>1, <1>2, ReturnType, ReplyTypes DEF Outcome
<1>3. CASE /\ arg[t].vid \in DOMAIN node_cache
           /\ \E next \in {"findNode", "removeNode", "updateNode"} :
                Continue(t, next, <<node_cache[arg[t].vid], 0>>)
  <2>1. <<node_cache[arg[t].vid], 0>> \in Nat \X Nat
    BY <1>3 DEF Typed, TypeOK, StoredOK
  <2> QED
    BY <1>1, <1>3, <2>1, ContinueType, FreeSteps DEF Free
<1> QED
  BY <1>2, <1>3 DEF NodeLookup

LEMMA FindNodeType ==
  ASSUME NEW T \in SUBSET Task, Typed(T), NEW t \in T, FindNode(t)
  PROVE  Typed(T)'
<1>1. StoredOK'
  BY StoredSame DEF FindNode, Typed, TypeOK
<1>2. CASE Return(t, Reply("None"))
  BY <1>1, <1>2, ReturnType, ReplyTypes DEF Outcome
<1>3. CASE /\ PG!HasNode(graph, seen[t][1])
           /\ Return(t, [outcome |-> "Some", found |-> {graph.nodes[seen[t][1]]}])
  <2>1. graph.nodes \in Seq(NodeM)
    BY DEF Typed, TypeOK, StoredOK
  <2>2. graph.nodes[seen[t][1]] \in NodeM
    BY <1>3, <2>1 DEF PG!HasNode
  <2>3. [outcome |-> "Some", found |-> {graph.nodes[seen[t][1]]}] \in Replies
    BY <2>2 DEF Replies, Outcome
  <2> QED
    BY <1>1, <1>3, <2>3, ReturnType
<1> QED
  BY <1>2, <1>3 DEF FindNode

\* A step that replaces the graph by another well-formed one.
LEMMA GraphType ==
  ASSUME StoredOK, UNCHANGED caches, graph' \in Graph, PG!WellFormed(graph')
  PROVE  StoredOK'
BY DEF StoredOK, caches, Graph, Edge

LEMMA GraphTypes ==
  ASSUME TypeOK
  PROVE  /\ graph \in Graph /\ PG!WellFormed(graph)
         /\ graph.nodes \in Seq(NodeM) /\ graph.edges \in Seq(Edge)
BY DEF TypeOK, StoredOK, Graph, Edge

LEMMA GraphFacts ==
  ASSUME TypeInv
  PROVE  /\ graph \in Graph /\ PG!WellFormed(graph)
         /\ graph.nodes \in Seq(NodeM) /\ graph.edges \in Seq(Edge)
BY GraphTypes DEF TypeInv

LEMMA RemoveNodeType ==
  ASSUME NEW T \in SUBSET Task, Typed(T), NEW t \in T, RemoveNode(t)
  PROVE  Typed(T)'
<1>1. /\ graph' \in PG!RemoveNode(graph, seen[t][1]) /\ UNCHANGED caches
      /\ Return(t, Reply("true")) /\ pc[t] # "idle"
  BY DEF RemoveNode, At
<1>2. seen[t][1] \in Nat /\ graph \in Graph /\ PG!WellFormed(graph)
  BY <1>1, CallArgs, GraphTypes DEF Typed, TypeOK
<1>3. graph' \in Graph /\ PG!WellFormed(graph')
  BY <1>1, <1>2, RemoveNodeShrinks
<1>4. StoredOK'
  BY <1>1, <1>3, GraphType DEF Typed, TypeOK
<1> QED
  BY <1>1, <1>4, ReturnType, ReplyTypes DEF Outcome

LEMMA UpdateNodeType ==
  ASSUME NEW T \in SUBSET Task, Typed(T), NEW t \in T, UpdateNode(t)
  PROVE  Typed(T)'
<1>0. pc[t] # "idle" /\ UNCHANGED caches
  BY DEF UpdateNode, At
<1>1. CASE Return(t, Reply("false")) /\ UNCHANGED graph
  <2>1. StoredOK'
    BY <1>0, <1>1, StoredSame DEF shared, caches, Typed, TypeOK
  <2> QED
    BY <1>1, <2>1, ReturnType, ReplyTypes DEF Outcome
<1>2. CASE /\ PG!HasNode(graph, seen[t][1]) /\ Return(t, Reply("true"))
           /\ graph' = [graph EXCEPT !.nodes[seen[t][1]].data = arg[t].data]
  <2> DEFINE i == seen[t][1]
             new == [graph.nodes EXCEPT ![i] = [graph.nodes[i] EXCEPT !.data = arg[t].data]]
  <2>1. graph.nodes \in Seq(NodeM) /\ i \in DOMAIN graph.nodes /\ arg[t].data \in DataMap
    BY <1>0, <1>2, CallArgs, GraphTypes DEF PG!HasNode, Typed, TypeOK
  <2>2. graph.nodes[i] \in NodeM
    BY <2>1
  <2>3. [graph.nodes[i] EXCEPT !.data = arg[t].data] \in NodeM
    BY <2>1, <2>2 DEF NodeM
  <2>4. new \in Seq(NodeM) /\ DOMAIN new = DOMAIN graph.nodes
    BY <2>1, <2>3
  <2>5. graph' = [graph EXCEPT !.nodes = new]
    BY <1>2
  <2>6. graph' \in Graph /\ graph'.nodes = new /\ graph'.edges = graph.edges
    BY <2>4, <2>5, GraphTypes DEF Typed, Graph
  <2>7. PG!WellFormed(graph')
    BY <2>4, <2>6, GraphTypes DEF Typed, PG!WellFormed, PG!HasNode
  <2>8. StoredOK'
    BY <1>0, <2>6, <2>7, GraphType DEF Typed, TypeOK
  <2> QED
    BY <1>2, <2>8, ReturnType, ReplyTypes DEF Outcome
<1> QED
  BY <1>1, <1>2 DEF UpdateNode

LEMMA AddEdgeCheckType ==
  ASSUME NEW T \in SUBSET Task, Typed(T), NEW t \in T, AddEdgeCheck(t)
  PROVE  Typed(T)'
<1>1. StoredOK' /\ pc[t] # "idle"
  BY StoredSame DEF AddEdgeCheck, At, Typed, TypeOK
<1> DEFINE ends == <<Lookup(node_cache, arg[t].vid), Lookup(node_cache, arg[t].to)>>
<1>2. CASE \E outcome \in {"EdgeExists", "NodeNotFound"} : Return(t, Reply(outcome))
  BY <1>1, <1>2, ReturnType, ReplyTypes DEF Outcome
<1>3. CASE Continue(t, "addEdgeLock", ends)
  <2>1. ends \in Nat \X Nat
    BY DEF Lookup, Typed, TypeOK, StoredOK
  <2> QED
    BY <1>1, <1>3, <2>1, ContinueType, FreeSteps DEF Free
<1> QED
  BY <1>2, <1>3 DEF AddEdgeCheck

LEMMA AddEdgeInsertType ==
  ASSUME NEW T \in SUBSET Task, Typed(T), NEW t \in T, AddEdgeInsert(t)
  PROVE  Typed(T)'
<1>1. At(t, "addEdgeInsert") /\ pc[t] # "idle" /\ UNCHANGED caches
  BY DEF AddEdgeInsert, At
<1>2. CASE /\ \E outcome \in {"EdgeExists", "panic"} : Return(t, Reply(outcome))
           /\ UNCHANGED graph
  <2>1. StoredOK'
    BY <1>1, <1>2, StoredSame DEF shared, caches, Typed, TypeOK
  <2> QED
    BY <1>2, <2>1, ReturnType, ReplyTypes DEF Outcome
<1>3. CASE EndsExist(t) /\ StoreEdge(t, Len(graph.edges) + 1)
  <2> DEFINE new == [src |-> seen[t][1], dst |-> seen[t][2], weight |-> NewEdge(t)]
  <2>1. Continue(t, "addEdgePublish", <<Len(graph.edges) + 1, 0>>)
    BY <1>3 DEF StoreEdge
  <2>2. Advances(t, "addEdgePublish")
    BY <1>1, <2>1, AdvanceHolding DEF Continue, Typed, TypeOK
  <2>3. TasksOK' /\ LinesOK(T)'
    <3>1. <<Len(graph.edges) + 1, 0>> \in Nat \X Nat
      BY GraphTypes DEF Typed
    <3> QED
      BY <1>1, <2>1, <2>2, <3>1, ContinueTasks DEF Typed, TypeOK
  <2>4. new \in Edge
    BY <1>1, CallArgs DEF Edge, Typed, TypeOK
  <2> HIDE DEF new
  <2>5. graph' = [graph EXCEPT !.edges = Append(graph.edges, new)]
    BY <1>3 DEF StoreEdge, PG!AddEdge, new
  <2>6. /\ graph' \in Graph /\ graph'.nodes = graph.nodes
        /\ graph'.edges = Append(graph.edges, new)
    <3>1. Append(graph.edges, new) \in Seq(Edge)
      BY <2>4, GraphTypes DEF Typed
    <3> QED
      BY <2>5, <3>1, GraphTypes DEF Typed, Graph
  <2>7. /\ DOMAIN graph'.edges = DOMAIN graph.edges \cup {Len(graph.edges) + 1}
        /\ \A e \in DOMAIN graph.edges : graph'.edges[e] = graph.edges[e]
        /\ graph'.edges[Len(graph.edges) + 1] = new
    BY <2>4, <2>6, GraphTypes DEF Typed
  <2>8. PG!HasNode(graph, new.src) /\ PG!HasNode(graph, new.dst)
    BY <1>3 DEF EndsExist, new
  <2>9. PG!WellFormed(graph')
    BY <2>6, <2>7, <2>8, GraphTypes DEF Typed, PG!WellFormed, PG!HasNode
  <2>10. StoredOK'
    BY <1>1, <2>6, <2>9, GraphType DEF Typed, TypeOK
  <2> QED
    BY <2>3, <2>10 DEF Typed, TypeOK
<1> QED
  BY <1>2, <1>3 DEF AddEdgeInsert

LEMMA AddEdgePublishType ==
  ASSUME NEW T \in SUBSET Task, Typed(T), NEW t \in T, AddEdgePublish(t)
  PROVE  Typed(T)'
<1>1. pc[t] # "idle"
  BY DEF AddEdgePublish, At
<1>2. edge_cache' = Insert(edge_cache, Key(t), seen[t][1]) /\ UNCHANGED <<graph, node_cache>>
  BY DEF AddEdgePublish
<1>3. seen[t][1] \in Nat /\ edge_cache \in [DOMAIN edge_cache -> Nat]
  BY <1>1, CallArgs DEF Typed, TypeOK, StoredOK
<1>4. edge_cache' \in [DOMAIN edge_cache' -> Nat]
  BY <1>2, <1>3, InsertType
<1>5. StoredOK'
  BY <1>2, <1>4 DEF Typed, TypeOK, StoredOK, PG!WellFormed, PG!HasNode
<1> QED
  BY <1>5, ReturnType, ReplyTypes DEF AddEdgePublish, Outcome

LEMMA EdgeLookupType ==
  ASSUME NEW T \in SUBSET Task, Typed(T), NEW t \in T, EdgeLookup(t)
  PROVE  Typed(T)'
<1>1. StoredOK' /\ pc[t] # "idle"
  BY StoredSame DEF EdgeLookup, At, Typed, TypeOK
<1>2. CASE \E outcome \in {"EdgeNotFound", "false"} : Return(t, Reply(outcome))
  BY <1>1, <1>2, ReturnType, ReplyTypes DEF Outcome
<1>3. CASE /\ Key(t) \in DOMAIN edge_cache
           /\ \E next \in {"updateEdge", "removeEdge"} :
                Continue(t, next, <<edge_cache[Key(t)], 0>>)
  <2>1. <<edge_cache[Key(t)], 0>> \in Nat \X Nat
    BY <1>3 DEF Typed, TypeOK, StoredOK
  <2> QED
    BY <1>1, <1>3, <2>1, ContinueType, FreeSteps DEF Free
<1> QED
  BY <1>2, <1>3 DEF EdgeLookup

\* HashMap::extend.
LEMMA ExtendType ==
  ASSUME NEW old \in DataMap, NEW new \in DataMap
  PROVE  Extend(old, new) \in DataMap
<1>1. PICK A \in SUBSET Attr : old \in [A -> Val]
  BY DEF DataMap
<1>2. PICK B \in SUBSET Attr : new \in [B -> Val]
  BY DEF DataMap
<1>3. Extend(old, new) \in [A \cup B -> Val]
  BY <1>1, <1>2 DEF Extend
<1> QED
  BY <1>3 DEF DataMap

LEMMA UpdateEdgeType ==
  ASSUME NEW T \in SUBSET Task, Typed(T), NEW t \in T, UpdateEdge(t)
  PROVE  Typed(T)'
<1>0. pc[t] # "idle" /\ UNCHANGED caches
  BY DEF UpdateEdge, At
<1>1. CASE Return(t, Reply("EdgeNotFound")) /\ UNCHANGED graph
  <2>1. StoredOK'
    BY <1>0, <1>1, StoredSame DEF shared, caches, Typed, TypeOK
  <2> QED
    BY <1>1, <2>1, ReturnType, ReplyTypes DEF Outcome
<1>2. CASE /\ PG!HasEdge(graph, seen[t][1]) /\ Return(t, Reply("Ok"))
           /\ graph' = [graph EXCEPT !.edges[seen[t][1]].weight.data =
                          Extend(@, arg[t].data)]
  <2> DEFINE i == seen[t][1]
             w == graph.edges[i].weight
             edge == [graph.edges[i] EXCEPT !.weight =
                        [w EXCEPT !.data = Extend(w.data, arg[t].data)]]
             new == [graph.edges EXCEPT ![i] = edge]
  <2>1. graph.edges \in Seq(Edge) /\ i \in DOMAIN graph.edges /\ arg[t].data \in DataMap
    BY <1>0, <1>2, CallArgs, GraphTypes DEF PG!HasEdge, Typed, TypeOK
  <2>2. graph.edges[i] \in Edge
    BY <2>1
  <2>3. w \in EdgeM /\ w.data \in DataMap
    BY <2>2 DEF Edge, EdgeM
  <2>4. Extend(w.data, arg[t].data) \in DataMap
    BY <2>1, <2>3, ExtendType
  <2>5. [w EXCEPT !.data = Extend(w.data, arg[t].data)] \in EdgeM
    BY <2>3, <2>4 DEF EdgeM
  <2>6. edge \in Edge /\ edge.src = graph.edges[i].src /\ edge.dst = graph.edges[i].dst
    BY <2>2, <2>5 DEF Edge
  <2>7. graph' = [graph EXCEPT !.edges = new]
    BY <1>2
  <2> HIDE DEF edge
  <2>8. /\ new \in Seq(Edge) /\ DOMAIN new = DOMAIN graph.edges
        /\ \A e \in DOMAIN new : new[e] = IF e = i THEN edge ELSE graph.edges[e]
    BY <2>1, <2>6
  <2> HIDE DEF new
  <2>9. graph' \in Graph /\ graph'.nodes = graph.nodes /\ graph'.edges = new
    BY <2>7, <2>8, GraphTypes DEF Typed, Graph
  <2>10. PG!WellFormed(graph')
    BY <2>6, <2>8, <2>9, GraphTypes DEF Typed, PG!WellFormed, PG!HasNode
  <2>11. StoredOK'
    BY <1>0, <2>9, <2>10, GraphType DEF Typed, TypeOK
  <2> QED
    BY <1>2, <2>11, ReturnType, ReplyTypes DEF Outcome
<1> QED
  BY <1>1, <1>2 DEF UpdateEdge

LEMMA RemoveEdgeType ==
  ASSUME NEW T \in SUBSET Task, Typed(T), NEW t \in T, RemoveEdge(t)
  PROVE  Typed(T)'
<1>1. /\ graph' = PG!RemoveEdge(graph, seen[t][1]) /\ UNCHANGED caches
      /\ Return(t, Reply("true")) /\ pc[t] # "idle"
  BY DEF RemoveEdge, At
<1>2. seen[t][1] \in Nat /\ graph \in Graph /\ PG!WellFormed(graph)
  BY <1>1, CallArgs, GraphTypes DEF Typed, TypeOK
<1>3. graph' \in Graph /\ PG!WellFormed(graph')
  BY <1>1, <1>2, RemoveEdgeShrinks
<1>4. StoredOK'
  BY <1>1, <1>3, GraphType DEF Typed, TypeOK
<1> QED
  BY <1>1, <1>4, ReturnType, ReplyTypes DEF Outcome

LEMMA CancelType ==
  ASSUME NEW T \in SUBSET Task, Typed(T), NEW t \in T, Cancel(t)
  PROVE  Typed(T)'
<1>1. StoredOK' /\ Return(t, Reply("cancelled"))
  BY StoredSame DEF Cancel, Typed, TypeOK
<1> QED
  BY <1>1, ReturnType, ReplyTypes DEF Outcome

LEMMA TypeInvInit ==
  ASSUME Init
  PROVE  TypeInv
<1>1. StoredOK
  BY DEF Init, StoredOK, PG!EmptyGraph, PG!WellFormed, PG!HasNode
<1>2. TasksOK
  BY Steps DEF Init, TasksOK, Reply, Outcome
<1>3. LinesOK(Task)
  <2>1. \A t \in Task, l \in Lock : RW!Places(queue[l], t) = {} /\ pc[t] = "idle"
    BY DEF Init, RW!Places
  <2> QED
    BY <2>1, HoldsOfSteps DEF LinesOK, LinesOf, Single
<1> QED
  BY <1>1, <1>2, <1>3 DEF TypeInv, TypeOK

LEMMA StepType ==
  ASSUME NEW T \in SUBSET Task, Typed(T), NEW t \in T, Call(t) \/ Step(t) \/ Cancel(t)
  PROVE  Typed(T)'
<1>1. CASE Call(t)
  <2>1. StoredOK'
    BY <1>1, StoredSame DEF Call, shared, Typed, TypeOK
  <2> QED
    BY <1>1, <2>1, CallTasks DEF Typed, TypeOK
<1>2. CASE Enqueue(t)
  <2>1. StoredOK'
    BY <1>2, StoredSame DEF Enqueue, shared, Typed, TypeOK
  <2> QED
    BY <1>2, <2>1, EnqueueTasks DEF Typed, TypeOK
<1>3. CASE Step(t)
  BY <1>2, <1>3, FirstGuardType, AddNodeCheckType, AddNodeInsertType, AddNodePublishType,
     NodeLookupType, FindNodeType, RemoveNodeType, UpdateNodeType, AddEdgeCheckType,
     AddEdgeInsertType, AddEdgePublishType, EdgeLookupType, UpdateEdgeType, RemoveEdgeType
     DEF Step
<1>4. CASE Cancel(t)
  BY <1>4, CancelType
<1> QED
  BY <1>1, <1>3, <1>4

LEMMA TypeInvStep ==
  ASSUME TypeInv, [Next]_vars
  PROVE  TypeInv'
<1>1. CASE UNCHANGED vars
  <2>1. StoredOK'
    BY <1>1, StoredSame DEF vars, shared, TypeInv, TypeOK
  <2>2. TasksOK'
    BY <1>1 DEF vars, TypeInv, TypeOK, TasksOK
  <2>3. LinesOK(Task)'
    BY <1>1 DEF vars, TypeInv, LinesOK, LinesOf, Single
  <2> QED
    BY <2>1, <2>2, <2>3 DEF TypeInv, TypeOK
<1>2. ASSUME NEW t \in Task, Call(t) \/ Step(t) \/ Cancel(t)
      PROVE  TypeInv'
  <2>1. Typed(Task)
    BY DEF TypeInv, Typed
  <2>2. Task \in SUBSET Task
    OBVIOUS
  <2>3. Typed(Task)'
    BY <1>2, <2>1, <2>2, StepType
  <2> QED
    BY <2>3 DEF TypeInv, Typed
<1> QED
  BY <1>1, <1>2 DEF Next

\* In every reachable state every variable has its type and every edge joins
\* two nodes that exist, whatever stale indices the callers used.
THEOREM TypeCorrect == Spec => []TypeOK
<1>1. Init => TypeInv
  BY TypeInvInit
<1>2. TypeInv /\ [Next]_vars => TypeInv'
  BY TypeInvStep
<1>3. TypeInv => TypeOK
  BY DEF TypeInv
<1> QED
  BY <1>1, <1>2, <1>3, PTL DEF Spec
-----------------------------------------------------------------------------
(***************************************************************************)
(* No deadlock.  Guards are taken in the order inner, edge_cache,          *)
(* node_cache; whoever is at the head of a line was granted its lock, and  *)
(* waits at most for a lock later in that order.                           *)
(***************************************************************************)
SomeReady == \E t \in Task : Ready(t)

\* The head of the line of l waits for l no longer: it holds l, or is ready.
LEMMA HeadHolds ==
  ASSUME TypeInv, NEW l \in Lock, NEW t \in Task, RW!Places(queue[l], t) # {}
  PROVE  SomeReady \/ \E u \in Task : l \in Holds(pc[u])
<1>1. PICK u \in Task : RW!Granted(queue[l], u)
  BY QueueType, HeadGranted DEF TypeInv, TypeOK
<1>2. RW!Places(queue[l], u) # {}
  BY <1>1 DEF RW!Granted
<1>3. l \in Holds(pc[u]) \/ (pc[u] \in Awaiting /\ Wants[pc[u]].lock = l)
  BY <1>2 DEF TypeInv, LinesOK, LinesOf
<1>4. CASE pc[u] \in Awaiting /\ Wants[pc[u]].lock = l
  <2>1. Ready(u)
    BY <1>1, <1>4, Steps DEF Ready
  <2> QED
    BY <2>1 DEF SomeReady
<1> QED
  BY <1>3, <1>4

LEMMA NodeCacheMoves ==
  ASSUME TypeInv, NEW t \in Task, RW!Places(queue["node_cache"], t) # {}
  PROVE  SomeReady
<1>1. SUFFICES ASSUME NEW u \in Task, "node_cache" \in Holds(pc[u])
               PROVE  SomeReady
  BY HeadHolds DEF Lock
<1>2. pc[u] = "addNodePublish"
  BY <1>1, HoldsOfSteps
<1>3. Ready(u)
  BY <1>2, Steps DEF Ready
<1> QED
  BY <1>3 DEF SomeReady

LEMMA EdgeCacheMoves ==
  ASSUME TypeInv, NEW t \in Task, RW!Places(queue["edge_cache"], t) # {}
  PROVE  SomeReady
<1>1. SUFFICES ASSUME NEW u \in Task, "edge_cache" \in Holds(pc[u])
               PROVE  SomeReady
  BY HeadHolds DEF Lock
<1>2. pc[u] \in {"addEdgePublish", "addEdgeCheck"}
  BY <1>1, HoldsOfSteps
<1>3. CASE pc[u] = "addEdgePublish" \/ RW!Places(queue["node_cache"], u) = {}
  <2>1. Ready(u)
    BY <1>2, <1>3, Steps, WantsOfSteps DEF Ready
  <2> QED
    BY <2>1 DEF SomeReady
<1>4. CASE RW!Places(queue["node_cache"], u) # {}
  BY <1>4, NodeCacheMoves
<1> QED
  BY <1>3, <1>4

LEMMA InnerMoves ==
  ASSUME TypeInv, NEW t \in Task, RW!Places(queue["inner"], t) # {}
  PROVE  SomeReady
<1>1. SUFFICES ASSUME NEW u \in Task, "inner" \in Holds(pc[u])
               PROVE  SomeReady
  BY HeadHolds DEF Lock
<1>2. pc[u] \in {"addNodePublish", "addEdgePublish", "addNodeInsert", "addEdgeInsert"}
  BY <1>1, HoldsOfSteps
<1>3. CASE \/ pc[u] \in {"addNodePublish", "addEdgePublish"}
           \/ RW!Places(queue[Wants[pc[u]].lock], u) = {}
  <2>1. Ready(u)
    BY <1>2, <1>3, Steps DEF Ready
  <2> QED
    BY <2>1 DEF SomeReady
<1>4. CASE /\ pc[u] \in {"addNodeInsert", "addEdgeInsert"}
           /\ RW!Places(queue[Wants[pc[u]].lock], u) # {}
  BY <1>4, WantsOfSteps, NodeCacheMoves, EdgeCacheMoves
<1> QED
  BY <1>2, <1>3, <1>4

LEMMA TypeInvNoDeadlock ==
  ASSUME TypeInv
  PROVE  NoDeadlock
<1>1. SUFFICES ASSUME NEW t \in Task, pc[t] # "idle"
               PROVE  SomeReady
  BY DEF NoDeadlock, SomeReady
<1>2. CASE pc[t] \notin Awaiting \/ RW!Places(queue[Wants[pc[t]].lock], t) = {}
  <2>1. Ready(t)
    BY <1>1, <1>2 DEF Ready
  <2> QED
    BY <2>1 DEF SomeReady
<1>3. CASE pc[t] \in Awaiting /\ RW!Places(queue[Wants[pc[t]].lock], t) # {}
  <2>1. Wants[pc[t]].lock \in {"inner", "node_cache", "edge_cache"}
    BY <1>3, Steps DEF Lock
  <2> QED
    BY <1>3, <2>1, NodeCacheMoves, EdgeCacheMoves, InnerMoves
<1> QED
  BY <1>2, <1>3

\* While calls are under way, some call can take its next step.
THEOREM DeadlockFree == Spec => []NoDeadlock
<1>1. Init => TypeInv
  BY TypeInvInit
<1>2. TypeInv /\ [Next]_vars => TypeInv'
  BY TypeInvStep
<1>3. TypeInv => NoDeadlock
  BY TypeInvNoDeadlock
<1> QED
  BY <1>1, <1>2, <1>3, PTL DEF Spec
-----------------------------------------------------------------------------
(***************************************************************************)
(* One node for a vid, one edge for a pair of vids.  Every node and edge   *)
(* is known to its cache, but for the one that a task just stored and is   *)
(* about to publish; that task holds the cache's lock for writing.         *)
(***************************************************************************)
VidsKnown ==
  \A i \in DOMAIN graph.nodes :
    \/ graph.nodes[i].vid \in DOMAIN node_cache
    \/ \E t \in Task : pc[t] = "addNodePublish" /\ arg[t].vid = graph.nodes[i].vid

LinksKnown ==
  \A e \in DOMAIN graph.edges :
    \/ EdgeKey(Ends(e)[1], Ends(e)[2]) \in DOMAIN edge_cache
    \/ \E t \in Task : pc[t] = "addEdgePublish" /\ <<arg[t].vid, arg[t].to>> = Ends(e)

NamesInv == VidsKnown /\ UniqueVids /\ LinksKnown /\ UniqueEdges

\* A step of t that only removes nodes and edges, or changes their data.
NoNewNames ==
  /\ \E q \in [DOMAIN graph'.nodes -> DOMAIN graph.nodes] :
       Injective(q) /\ \A k \in DOMAIN graph'.nodes : graph'.nodes[k].vid = graph.nodes[q[k]].vid
  /\ \E q \in [DOMAIN graph'.edges -> DOMAIN graph.edges] :
       Injective(q) /\ \A k \in DOMAIN graph'.edges : Ends(k)' = Ends(q[k])

OthersSame(t) == \A u \in Task \ {t} : pc'[u] = pc[u] /\ arg'[u] = arg[u]

LEMMA NamesSame ==
  ASSUME UNCHANGED graph
  PROVE  NoNewNames
<1> DEFINE qn == [k \in DOMAIN graph.nodes |-> k]
           qe == [k \in DOMAIN graph.edges |-> k]
<1>1. qn \in [DOMAIN graph.nodes -> DOMAIN graph.nodes] /\ Injective(qn)
  BY DEF Injective
<1>2. qe \in [DOMAIN graph.edges -> DOMAIN graph.edges] /\ Injective(qe)
  BY DEF Injective
<1>3. \A k : Ends(k)' = Ends(k)
  BY DEF Ends
<1> QED
  BY <1>1, <1>2, <1>3 DEF NoNewNames

LEMMA NamesShrunk ==
  ASSUME Shrunk(graph', graph)
  PROVE  NoNewNames
BY DEF NoNewNames, Shrunk, Drawn, Ends

LEMMA NamesKept ==
  ASSUME NamesInv, NEW t \in Task, NoNewNames, OthersSame(t),
         pc[t] \notin {"addNodePublish", "addEdgePublish"},
         DOMAIN node_cache \subseteq DOMAIN node_cache',
         DOMAIN edge_cache \subseteq DOMAIN edge_cache'
  PROVE  NamesInv'
<1>1. PICK q \in [DOMAIN graph'.nodes -> DOMAIN graph.nodes] :
        Injective(q) /\ \A k \in DOMAIN graph'.nodes : graph'.nodes[k].vid = graph.nodes[q[k]].vid
  BY DEF NoNewNames
<1>2. PICK r \in [DOMAIN graph'.edges -> DOMAIN graph.edges] :
        Injective(r) /\ \A k \in DOMAIN graph'.edges : Ends(k)' = Ends(r[k])
  BY DEF NoNewNames
<1>3. UniqueVids'
  BY <1>1 DEF NamesInv, UniqueVids, Injective
<1>4. UniqueEdges'
  BY <1>2 DEF NamesInv, UniqueEdges, Injective
<1>5. VidsKnown'
  <2>1. \A u \in Task : pc[u] = "addNodePublish" => pc'[u] = "addNodePublish" /\ arg'[u] = arg[u]
    BY DEF OthersSame
  <2> QED
    BY <1>1, <2>1 DEF NamesInv, VidsKnown
<1>6. LinksKnown'
  <2>1. \A u \in Task : pc[u] = "addEdgePublish" => pc'[u] = "addEdgePublish" /\ arg'[u] = arg[u]
    BY DEF OthersSame
  <2> QED
    BY <1>2, <2>1 DEF NamesInv, LinksKnown
<1> QED
  BY <1>3, <1>4, <1>5, <1>6 DEF NamesInv

LEMMA OthersStay ==
  ASSUME TypeInv, NEW t \in Task, Call(t) \/ Step(t) \/ Cancel(t)
  PROVE  OthersSame(t)
<1>1. pc \in [Task -> PC] /\ arg \in [Task -> Request \cup {NoCall}]
  BY DEF TypeInv, TypeOK, TasksOK
<1>2. ASSUME NEW value, Return(t, value)
      PROVE  OthersSame(t)
  BY <1>1, <1>2 DEF Return, Proceed, OthersSame
<1>3. ASSUME NEW next, NEW indices, Continue(t, next, indices)
      PROVE  OthersSame(t)
  BY <1>1, <1>3 DEF Continue, Proceed, OthersSame
<1>4. CASE Call(t)
  BY <1>1, <1>4 DEF Call, Proceed, OthersSame
<1>5. CASE Enqueue(t)
  BY <1>5 DEF Enqueue, OthersSame
<1>6. CASE FirstGuard(t)
  BY <1>3, <1>6 DEF FirstGuard
<1>7. CASE AddNodeCheck(t) \/ AddNodeInsert(t) \/ AddNodePublish(t)
  BY <1>2, <1>3, <1>7 DEF AddNodeCheck, AddNodeInsert, AddNodePublish, StoreNode
<1>8. CASE NodeLookup(t) \/ FindNode(t) \/ RemoveNode(t) \/ UpdateNode(t)
  BY <1>2, <1>3, <1>8 DEF NodeLookup, FindNode, RemoveNode, UpdateNode
<1>9. CASE AddEdgeCheck(t) \/ AddEdgeInsert(t) \/ AddEdgePublish(t)
  BY <1>2, <1>3, <1>9 DEF AddEdgeCheck, AddEdgeInsert, AddEdgePublish, StoreEdge
<1>10. CASE EdgeLookup(t) \/ UpdateEdge(t) \/ RemoveEdge(t)
  BY <1>2, <1>3, <1>10 DEF EdgeLookup, UpdateEdge, RemoveEdge
<1>11. CASE Cancel(t)
  BY <1>2, <1>11 DEF Cancel
<1> QED
  BY <1>4, <1>5, <1>6, <1>7, <1>8, <1>9, <1>10, <1>11 DEF Step

LEMMA UpdateNodeNames ==
  ASSUME TypeInv, NEW t \in Task, UpdateNode(t)
  PROVE  NoNewNames
<1>1. CASE UNCHANGED graph
  BY <1>1, NamesSame
<1>2. CASE graph' = [graph EXCEPT !.nodes[seen[t][1]].data = arg[t].data]
  <2>1. graph.nodes \in Seq(NodeM)
    BY GraphFacts
  <2>2. /\ graph'.edges = graph.edges /\ DOMAIN graph'.nodes = DOMAIN graph.nodes
        /\ \A k \in DOMAIN graph.nodes : graph'.nodes[k].vid = graph.nodes[k].vid
    <3>1. graph'.edges = graph.edges
      BY <1>2, GraphFacts DEF Graph
    <3>2. graph'.nodes = [graph.nodes EXCEPT ![seen[t][1]] =
                            [graph.nodes[seen[t][1]] EXCEPT !.data = arg[t].data]]
      BY <1>2, GraphFacts DEF Graph
    <3>3. \A k \in DOMAIN graph.nodes : graph.nodes[k] \in NodeM
      BY <2>1
    <3>4. \A n \in NodeM : [n EXCEPT !.data = arg[t].data].vid = n.vid
      BY DEF NodeM
    <3> QED
      BY <3>1, <3>2, <3>3, <3>4
  <2> DEFINE qn == [k \in DOMAIN graph.nodes |-> k]
             qe == [k \in DOMAIN graph.edges |-> k]
  <2>3. qn \in [DOMAIN graph'.nodes -> DOMAIN graph.nodes] /\ Injective(qn)
    BY <2>2 DEF Injective
  <2>4. qe \in [DOMAIN graph'.edges -> DOMAIN graph.edges] /\ Injective(qe)
    BY <2>2 DEF Injective
  <2> QED
    BY <2>2, <2>3, <2>4 DEF NoNewNames, Ends
<1> QED
  BY <1>1, <1>2 DEF UpdateNode

LEMMA UpdateEdgeNames ==
  ASSUME TypeInv, NEW t \in Task, UpdateEdge(t)
  PROVE  NoNewNames
<1>1. CASE UNCHANGED graph
  BY <1>1, NamesSame
<1>2. CASE graph' = [graph EXCEPT !.edges[seen[t][1]].weight.data = Extend(@, arg[t].data)]
  <2> DEFINE i == seen[t][1]
             w == graph.edges[i].weight
             d == Extend(w.data, arg[t].data)
             edge == [graph.edges[i] EXCEPT !.weight = [w EXCEPT !.data = d]]
  <2>1. graph.edges \in Seq(Edge)
    BY GraphFacts
  <2>2. graph'.nodes = graph.nodes /\ graph'.edges = [graph.edges EXCEPT ![i] = edge]
    BY <1>2, GraphFacts DEF Graph
  <2>3. i \in DOMAIN graph.edges => Ends(i) = <<edge.weight.src_vid, edge.weight.dst_vid>>
    <3>1. \A v \in EdgeM : \A x : /\ [v EXCEPT !.data = x].src_vid = v.src_vid
                                  /\ [v EXCEPT !.data = x].dst_vid = v.dst_vid
      BY DEF EdgeM
    <3>2. ASSUME i \in DOMAIN graph.edges
          PROVE  Ends(i) = <<edge.weight.src_vid, edge.weight.dst_vid>>
      <4>1. graph.edges[i] \in Edge
        BY <2>1, <3>2
      <4>2. w \in EdgeM /\ edge.weight = [w EXCEPT !.data = d]
        BY <4>1 DEF Edge
      <4>3. Ends(i) = <<w.src_vid, w.dst_vid>>
        BY DEF Ends
      <4> HIDE DEF edge, w, d
      <4> QED
        BY <3>1, <4>2, <4>3
    <3> QED
      BY <3>2
  <2> HIDE DEF edge
  <2>4. /\ DOMAIN graph'.edges = DOMAIN graph.edges
        /\ \A k \in DOMAIN graph.edges : graph'.edges[k] = IF k = i THEN edge ELSE graph.edges[k]
    BY <2>2
  <2>5. \A k \in DOMAIN graph.edges : Ends(k)' = Ends(k)
    BY <2>3, <2>4 DEF Ends
  <2> DEFINE qn == [k \in DOMAIN graph.nodes |-> k]
             qe == [k \in DOMAIN graph.edges |-> k]
  <2>6. qn \in [DOMAIN graph'.nodes -> DOMAIN graph.nodes] /\ Injective(qn)
    BY <2>2 DEF Injective
  <2>7. qe \in [DOMAIN graph'.edges -> DOMAIN graph.edges] /\ Injective(qe)
    BY <2>4 DEF Injective
  <2> QED
    BY <2>2, <2>4, <2>5, <2>6, <2>7 DEF NoNewNames
<1> QED
  BY <1>1, <1>2 DEF UpdateEdge

\* The steps that neither store a node or an edge nor publish one.
LEMMA QuietSteps ==
  ASSUME TypeInv, NEW t \in Task,
         \/ Call(t) \/ Enqueue(t) \/ FirstGuard(t) \/ AddNodeCheck(t) \/ NodeLookup(t)
         \/ FindNode(t) \/ RemoveNode(t) \/ UpdateNode(t) \/ AddEdgeCheck(t) \/ EdgeLookup(t)
         \/ UpdateEdge(t) \/ RemoveEdge(t) \/ Cancel(t)
  PROVE  NoNewNames /\ UNCHANGED caches /\ pc[t] \notin {"addNodePublish", "addEdgePublish"}
<1>1. CASE \/ Call(t) \/ Enqueue(t) \/ FirstGuard(t) \/ AddNodeCheck(t) \/ NodeLookup(t)
           \/ FindNode(t) \/ AddEdgeCheck(t) \/ EdgeLookup(t) \/ Cancel(t)
  <2>1. UNCHANGED shared
    BY <1>1 DEF Call, Enqueue, FirstGuard, AddNodeCheck, NodeLookup, FindNode,
                AddEdgeCheck, EdgeLookup, Cancel, shared
  <2>2. pc[t] \notin {"addNodePublish", "addEdgePublish"}
    BY <1>1, Steps DEF Call, Enqueue, FirstGuard, Nested, AddNodeCheck, NodeLookup,
                FindNode, AddEdgeCheck, EdgeLookup, Cancel, At
  <2> QED
    BY <2>1, <2>2, NamesSame DEF shared, caches
<1>2. CASE RemoveNode(t) \/ RemoveEdge(t)
  <2>1. pc[t] \in {"removeNode", "removeEdge"} /\ UNCHANGED caches
    BY <1>2 DEF RemoveNode, RemoveEdge, At
  <2>2. graph \in Graph /\ PG!WellFormed(graph) /\ seen[t][1] \in Nat
    BY <2>1, GraphFacts, CallArgs DEF TypeInv, TypeOK
  <2>3. Shrunk(graph', graph)
    BY <1>2, <2>2, RemoveNodeShrinks, RemoveEdgeShrinks DEF RemoveNode, RemoveEdge
  <2> QED
    BY <2>1, <2>3, NamesShrunk
<1>3. CASE UpdateNode(t) \/ UpdateEdge(t)
  BY <1>3, UpdateNodeNames, UpdateEdgeNames DEF UpdateNode, UpdateEdge, At
<1> QED
  BY <1>1, <1>2, <1>3

\* Whoever is granted a cache for writing, at step step, is the only one that
\* holds it: nobody is about to publish there.
LEMMA WriterAlone ==
  ASSUME TypeInv, NEW t \in Task, NEW u \in Task, NEW step, NEW publish,
         At(t, step), pc[u] = publish,
         \/ step = "addNodeInsert" /\ publish = "addNodePublish"
         \/ step = "addEdgeInsert" /\ publish = "addEdgePublish"
  PROVE  FALSE
<1> DEFINE l == IF step = "addNodeInsert" THEN "node_cache" ELSE "edge_cache"
<1>1. l \in Lock /\ queue[l] \in Line
  BY QueueType DEF Lock, TypeInv, TypeOK
<1>2. RW!Granted(queue[l], t)
  BY Steps, WantsOfSteps DEF At
<1>3. RW!Granted(queue[l], u)
  BY <1>1, HoldsOfSteps DEF TypeInv, LinesOK, LinesOf
<1>4. \A i \in RW!Places(queue[l], t) : queue[l][i].mode = "write"
  <2>1. ModeOf(pc[t], l) = "write"
    BY Steps, WantsOfSteps DEF At, ModeOf
  <2> QED
    BY <1>1, <2>1 DEF TypeInv, LinesOK, LinesOf
<1>5. t = u
  <2> HIDE DEF l
  <2> QED
    BY <1>1, <1>2, <1>3, <1>4, Exclusion
<1> QED
  BY <1>5 DEF At

\* What the graph is after a node, or an edge, was stored.
LEMMA NodeStored ==
  ASSUME TypeInv, NEW t \in Task, At(t, "addNodeInsert"), StoreNode(t)
  PROVE  \E n :
           /\ DOMAIN graph'.nodes = DOMAIN graph.nodes \cup {n} /\ n \notin DOMAIN graph.nodes
           /\ \A i \in DOMAIN graph.nodes : graph'.nodes[i] = graph.nodes[i]
           /\ graph'.nodes[n].vid = arg[t].vid
           /\ graph'.edges = graph.edges
<1>1. PICK n : n = Len(graph.nodes) + 1
  OBVIOUS
<1>2. graph.nodes \in Seq(NodeM) /\ NewNode(t) \in NodeM /\ NewNode(t).vid = arg[t].vid
  BY GraphFacts, CallArgs DEF At, TypeInv, TypeOK, NewNode
<1>3. graph'.edges = graph.edges /\ graph'.nodes = Append(graph.nodes, NewNode(t))
  BY GraphFacts DEF StoreNode, PG!AddNode, Graph
<1>4. /\ DOMAIN graph'.nodes = DOMAIN graph.nodes \cup {n} /\ n \notin DOMAIN graph.nodes
      /\ \A i \in DOMAIN graph.nodes : graph'.nodes[i] = graph.nodes[i]
      /\ graph'.nodes[n] = NewNode(t)
  BY <1>1, <1>2, <1>3
<1> QED
  BY <1>2, <1>3, <1>4

LEMMA EdgeStored ==
  ASSUME TypeInv, NEW t \in Task, At(t, "addEdgeInsert"), NEW index, StoreEdge(t, index)
  PROVE  \E n :
           /\ DOMAIN graph'.edges = DOMAIN graph.edges \cup {n} /\ n \notin DOMAIN graph.edges
           /\ \A e \in DOMAIN graph.edges : Ends(e)' = Ends(e)
           /\ Ends(n)' = <<arg[t].vid, arg[t].to>>
           /\ graph'.nodes = graph.nodes
<1>1. PICK n : n = Len(graph.edges) + 1
  OBVIOUS
<1> DEFINE new == [src |-> seen[t][1], dst |-> seen[t][2], weight |-> NewEdge(t)]
<1>2. /\ graph.edges \in Seq(Edge) /\ new \in Edge
      /\ <<new.weight.src_vid, new.weight.dst_vid>> = <<arg[t].vid, arg[t].to>>
  BY GraphFacts, CallArgs DEF At, TypeInv, TypeOK, NewEdge, Edge
<1>3. graph'.nodes = graph.nodes /\ graph'.edges = Append(graph.edges, new)
  BY GraphFacts DEF StoreEdge, PG!AddEdge, Graph
<1> HIDE DEF new
<1>4. /\ DOMAIN graph'.edges = DOMAIN graph.edges \cup {n} /\ n \notin DOMAIN graph.edges
      /\ \A e \in DOMAIN graph.edges : graph'.edges[e] = graph.edges[e]
      /\ graph'.edges[n] = new
  BY <1>1, <1>2, <1>3
<1>5. /\ \A e \in DOMAIN graph.edges : Ends(e)' = Ends(e)
      /\ Ends(n)' = <<arg[t].vid, arg[t].to>>
  BY <1>2, <1>4 DEF Ends
<1> QED
  BY <1>3, <1>4, <1>5

LEMMA AddNodeInsertNames ==
  ASSUME TypeInv, NamesInv, NEW t \in Task, AddNodeInsert(t), OthersSame(t)
  PROVE  NamesInv'
<1>1. At(t, "addNodeInsert") /\ pc[t] = "addNodeInsert" /\ UNCHANGED caches
  BY DEF AddNodeInsert, At
<1>2. CASE UNCHANGED graph
  BY <1>1, <1>2, NamesSame, NamesKept DEF caches
<1>3. CASE StoreNode(t) /\ arg[t].vid \notin DOMAIN node_cache
  <2>1. pc \in [Task -> PC]
    BY DEF TypeInv, TypeOK, TasksOK
  <2>2. PICK n :
          /\ DOMAIN graph'.nodes = DOMAIN graph.nodes \cup {n} /\ n \notin DOMAIN graph.nodes
          /\ \A i \in DOMAIN graph.nodes : graph'.nodes[i] = graph.nodes[i]
          /\ graph'.nodes[n].vid = arg[t].vid
          /\ graph'.edges = graph.edges
    BY <1>1, <1>3, NodeStored
  <2>3. pc'[t] = "addNodePublish" /\ arg' = arg
    BY <1>3, <2>1 DEF StoreNode, Continue, Proceed
  <2>4. \A i \in DOMAIN graph.nodes : graph.nodes[i].vid \in DOMAIN node_cache
    BY <1>1, WriterAlone DEF NamesInv, VidsKnown
  <2>5. UniqueVids'
    BY <1>3, <2>2, <2>4 DEF NamesInv, UniqueVids
  <2>6. VidsKnown'
    BY <1>1, <2>2, <2>3, <2>4 DEF VidsKnown, caches
  <2>7. UniqueEdges'
    BY <2>2 DEF NamesInv, UniqueEdges, Ends
  <2>8. LinksKnown'
    <3>1. \A u \in Task : pc[u] = "addEdgePublish" => pc'[u] = "addEdgePublish" /\ arg'[u] = arg[u]
      BY <1>1 DEF OthersSame
    <3> QED
      BY <1>1, <2>2, <3>1 DEF NamesInv, LinksKnown, Ends, caches
  <2> QED
    BY <2>5, <2>6, <2>7, <2>8 DEF NamesInv
<1> QED
  BY <1>2, <1>3 DEF AddNodeInsert

LEMMA AddEdgeInsertNames ==
  ASSUME TypeInv, NamesInv, NEW t \in Task, AddEdgeInsert(t), OthersSame(t)
  PROVE  NamesInv'
<1>1. At(t, "addEdgeInsert") /\ pc[t] = "addEdgeInsert" /\ UNCHANGED caches
  BY DEF AddEdgeInsert, At
<1>2. CASE UNCHANGED graph
  BY <1>1, <1>2, NamesSame, NamesKept DEF caches
<1>3. CASE StoreEdge(t, Len(graph.edges) + 1) /\ Key(t) \notin DOMAIN edge_cache
  <2>1. pc \in [Task -> PC]
    BY DEF TypeInv, TypeOK, TasksOK
  <2>2. PICK n :
          /\ DOMAIN graph'.edges = DOMAIN graph.edges \cup {n} /\ n \notin DOMAIN graph.edges
          /\ \A e \in DOMAIN graph.edges : Ends(e)' = Ends(e)
          /\ Ends(n)' = <<arg[t].vid, arg[t].to>>
          /\ graph'.nodes = graph.nodes
    BY <1>1, <1>3, EdgeStored
  <2>3. pc'[t] = "addEdgePublish" /\ arg' = arg
    BY <1>3, <2>1 DEF StoreEdge, Continue, Proceed
  <2>4. \A e \in DOMAIN graph.edges : EdgeKey(Ends(e)[1], Ends(e)[2]) \in DOMAIN edge_cache
    BY <1>1, WriterAlone DEF NamesInv, LinksKnown
  <2>5. UniqueEdges'
    <3>1. \A e \in DOMAIN graph.edges : Ends(e) # <<arg[t].vid, arg[t].to>>
      BY <1>3, <2>4 DEF Key
    <3> QED
      BY <2>2, <3>1 DEF NamesInv, UniqueEdges
  <2>6. LinksKnown'
    BY <1>1, <2>2, <2>3, <2>4 DEF LinksKnown, caches
  <2>7. UniqueVids'
    BY <2>2 DEF NamesInv, UniqueVids
  <2>8. VidsKnown'
    <3>1. \A u \in Task : pc[u] = "addNodePublish" => pc'[u] = "addNodePublish" /\ arg'[u] = arg[u]
      BY <1>1 DEF OthersSame
    <3> QED
      BY <1>1, <2>2, <3>1 DEF NamesInv, VidsKnown, caches
  <2> QED
    BY <2>5, <2>6, <2>7, <2>8 DEF NamesInv
<1> QED
  BY <1>2, <1>3 DEF AddEdgeInsert

LEMMA PublishNames ==
  ASSUME TypeInv, NamesInv, NEW t \in Task, AddNodePublish(t) \/ AddEdgePublish(t),
         OthersSame(t)
  PROVE  NamesInv'
<1>1. UNCHANGED graph /\ pc[t] \in {"addNodePublish", "addEdgePublish"} /\ seen[t][1] \in Nat
  BY CallArgs DEF AddNodePublish, AddEdgePublish, At, TypeInv, TypeOK
<1>2. /\ DOMAIN node_cache \subseteq DOMAIN node_cache'
      /\ pc[t] = "addNodePublish" => arg[t].vid \in DOMAIN node_cache'
      /\ DOMAIN edge_cache \subseteq DOMAIN edge_cache'
      /\ pc[t] = "addEdgePublish" => Key(t) \in DOMAIN edge_cache'
  <2>1. node_cache \in [DOMAIN node_cache -> Nat] /\ edge_cache \in [DOMAIN edge_cache -> Nat]
    BY DEF TypeInv, TypeOK, StoredOK
  <2>2. CASE AddNodePublish(t)
    <3>1. /\ node_cache' = Insert(node_cache, arg[t].vid, seen[t][1]) /\ edge_cache' = edge_cache
          /\ pc[t] = "addNodePublish"
      BY <2>2 DEF AddNodePublish, At
    <3>2. DOMAIN node_cache' = DOMAIN node_cache \cup {arg[t].vid}
      BY <1>1, <2>1, <3>1, InsertType, Zenon
    <3> QED
      BY <3>1, <3>2
  <2>3. CASE AddEdgePublish(t)
    <3>1. /\ edge_cache' = Insert(edge_cache, Key(t), seen[t][1]) /\ node_cache' = node_cache
          /\ pc[t] = "addEdgePublish"
      BY <2>3 DEF AddEdgePublish, At
    <3>2. DOMAIN edge_cache' = DOMAIN edge_cache \cup {Key(t)}
      BY <1>1, <2>1, <3>1, InsertType, Zenon
    <3> QED
      BY <3>1, <3>2
  <2> QED
    BY <2>2, <2>3
<1>3. UniqueVids' /\ UniqueEdges'
  BY <1>1 DEF NamesInv, UniqueVids, UniqueEdges, Ends
<1>4. VidsKnown'
  BY <1>1, <1>2 DEF NamesInv, VidsKnown, OthersSame
<1>5. LinksKnown'
  BY <1>1, <1>2 DEF NamesInv, LinksKnown, OthersSame, Ends, Key
<1> QED
  BY <1>3, <1>4, <1>5 DEF NamesInv

LEMMA NamesInvInit ==
  ASSUME Init
  PROVE  NamesInv
BY DEF Init, PG!EmptyGraph, NamesInv, VidsKnown, UniqueVids, LinksKnown, UniqueEdges

LEMMA NamesInvStep ==
  ASSUME TypeInv, NamesInv, [Next]_vars
  PROVE  NamesInv'
<1>1. CASE UNCHANGED vars
  BY <1>1 DEF vars, NamesInv, VidsKnown, UniqueVids, LinksKnown, UniqueEdges, Ends
<1>2. ASSUME NEW t \in Task, Call(t) \/ Step(t) \/ Cancel(t)
      PROVE  NamesInv'
  <2>1. OthersSame(t)
    BY <1>2, OthersStay
  <2>2. CASE AddNodeInsert(t)
    BY <2>1, <2>2, AddNodeInsertNames
  <2>3. CASE AddEdgeInsert(t)
    BY <2>1, <2>3, AddEdgeInsertNames
  <2>4. CASE AddNodePublish(t) \/ AddEdgePublish(t)
    BY <2>1, <2>4, PublishNames
  <2>5. CASE /\ ~AddNodeInsert(t) /\ ~AddEdgeInsert(t)
             /\ ~AddNodePublish(t) /\ ~AddEdgePublish(t)
    BY <1>2, <2>1, <2>5, QuietSteps, NamesKept DEF Step, caches
  <2> QED
    BY <2>2, <2>3, <2>4, <2>5
<1> QED
  BY <1>1, <1>2 DEF Next

\* No two nodes of the graph have the same vid, for any callers, whatever they
\* remove and whichever of their calls are cancelled.
THEOREM OneNodePerVid == Spec => []UniqueVids
<1>1. Init => TypeInv /\ NamesInv
  BY TypeInvInit, NamesInvInit
<1>2. TypeInv /\ NamesInv /\ [Next]_vars => (TypeInv /\ NamesInv)'
  BY TypeInvStep, NamesInvStep
<1>3. NamesInv => UniqueVids
  BY DEF NamesInv
<1> QED
  BY <1>1, <1>2, <1>3, PTL DEF Spec

\* No two edges of the graph were added for the same pair of vids.
THEOREM OneEdgePerPair == Spec => []UniqueEdges
<1>1. Init => TypeInv /\ NamesInv
  BY TypeInvInit, NamesInvInit
<1>2. TypeInv /\ NamesInv /\ [Next]_vars => (TypeInv /\ NamesInv)'
  BY TypeInvStep, NamesInvStep
<1>3. NamesInv => UniqueEdges
  BY DEF NamesInv
<1> QED
  BY <1>1, <1>2, <1>3, PTL DEF Spec
-----------------------------------------------------------------------------
(***************************************************************************)
(* A removal is for ever.  A step stores at most one vid or one pair of    *)
(* vids that was not in the graph, and only one its cache does not list.   *)
(***************************************************************************)
Kept ==
  /\ \A v \in DOMAIN node_cache : v \notin LiveVids => v \notin LiveVids'
  /\ \A link \in Link :
       EdgeKey(link[1], link[2]) \in DOMAIN edge_cache /\ link \notin LiveLinks
         => link \notin LiveLinks'

LEMMA NoNewNamesKept ==
  ASSUME NoNewNames
  PROVE  Kept
<1>1. LiveVids' \subseteq LiveVids
  BY DEF NoNewNames, LiveVids
<1>2. LiveLinks' \subseteq LiveLinks
  BY DEF NoNewNames, LiveLinks
<1> QED
  BY <1>1, <1>2 DEF Kept

LEMMA RemovalStep ==
  ASSUME TypeInv, [Next]_vars
  PROVE  Kept
<1>1. CASE UNCHANGED vars
  BY <1>1, NamesSame, NoNewNamesKept DEF vars
<1>2. ASSUME NEW t \in Task, Call(t) \/ Step(t) \/ Cancel(t)
      PROVE  Kept
  <2>1. CASE UNCHANGED graph
    BY <2>1, NamesSame, NoNewNamesKept
  <2>2. CASE AddNodeInsert(t) /\ StoreNode(t) /\ arg[t].vid \notin DOMAIN node_cache
    <3>1. PICK n :
            /\ DOMAIN graph'.nodes = DOMAIN graph.nodes \cup {n}
            /\ \A i \in DOMAIN graph.nodes : graph'.nodes[i] = graph.nodes[i]
            /\ graph'.nodes[n].vid = arg[t].vid
            /\ graph'.edges = graph.edges
      BY <2>2, NodeStored DEF AddNodeInsert
    <3>2. LiveVids' \subseteq LiveVids \cup {arg[t].vid}
      BY <3>1 DEF LiveVids
    <3>3. LiveLinks' = LiveLinks
      BY <3>1 DEF LiveLinks, Ends
    <3> QED
      BY <2>2, <3>2, <3>3 DEF Kept
  <2>3. CASE /\ AddEdgeInsert(t) /\ StoreEdge(t, Len(graph.edges) + 1)
             /\ Key(t) \notin DOMAIN edge_cache
    <3>1. PICK n :
            /\ DOMAIN graph'.edges = DOMAIN graph.edges \cup {n}
            /\ \A e \in DOMAIN graph.edges : Ends(e)' = Ends(e)
            /\ Ends(n)' = <<arg[t].vid, arg[t].to>>
            /\ graph'.nodes = graph.nodes
      BY <2>3, EdgeStored DEF AddEdgeInsert
    <3>2. LiveLinks' \subseteq LiveLinks \cup {<<arg[t].vid, arg[t].to>>}
      BY <3>1 DEF LiveLinks
    <3>3. LiveVids' = LiveVids
      BY <3>1 DEF LiveVids
    <3>4. \A link \in Link : link = <<arg[t].vid, arg[t].to>> =>
            EdgeKey(link[1], link[2]) \notin DOMAIN edge_cache
      BY <2>3 DEF Key
    <3> QED
      BY <3>2, <3>3, <3>4 DEF Kept
  <2>4. CASE /\ ~AddNodeInsert(t) /\ ~AddEdgeInsert(t)
             /\ ~AddNodePublish(t) /\ ~AddEdgePublish(t)
    BY <1>2, <2>4, QuietSteps, NoNewNamesKept DEF Step
  <2> QED
    BY <1>2, <2>1, <2>2, <2>3, <2>4
       DEF AddNodeInsert, AddEdgeInsert, AddNodePublish, AddEdgePublish
<1> QED
  BY <1>1, <1>2 DEF Next

\* What was added once and is not in the graph any more never comes back.
THEOREM NothingReturns == Spec => RemovalIsForever
<1>1. Init => TypeInv
  BY TypeInvInit
<1>2. TypeInv /\ [Next]_vars => TypeInv' /\ [Kept]_vars
  BY TypeInvStep, RemovalStep
<1> QED
  BY <1>1, <1>2, PTL DEF Spec, RemovalIsForever, Kept
=============================================================================
