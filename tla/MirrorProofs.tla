---------------------------- MODULE MirrorProofs ----------------------------
(***************************************************************************)
(* Proofs about the application of examples/graph.rs, while it loads its   *)
(* tables and while it serves: for every number of tasks, all vids and     *)
(* pairs of vids, and any number of statements.                            *)
(***************************************************************************)
EXTENDS MirrorRequirements, GraphStoreProofs

-----------------------------------------------------------------------------
(***************************************************************************)
(* The graph in the application is the GraphInstance of the other proofs,  *)
(* and nobody cancels a call.                                              *)
(***************************************************************************)
LEMMA CallsOnly ==
  ASSUME [MirrorNext]_<<vars, app>>
  PROVE  [Next]_vars
<1>1. CASE UNCHANGED <<vars, app>>
  BY <1>1
<1>2. CASE Statement \/ Watching
  BY <1>2 DEF Statement, Commit, Watching
<1>3. CASE MainStep
  <2>1. CASE Load
    BY <2>1, MirrorAssumption DEF Load, Next
  <2> QED
    BY <1>3, <2>1 DEF MainStep, Select, MainPanics, Loaded, StartWatch
<1>4. CASE HandOver
  BY <1>4 DEF HandOver, Spawn, Workers, Next
<1>5. CASE \E t \in Task : Work(t)
  BY <1>5 DEF Work, Next
<1> QED
  BY <1>1, <1>2, <1>3, <1>4, <1>5 DEF MirrorNext

LEMMA GraphStarts == MirrorInit => Init
BY DEF MirrorInit

\* What holds of the GraphInstance by itself holds in the application.
GraphInv == TypeInv /\ NamesInv /\ CallsInv /\ IndexInv

LEMMA GraphInvInit ==
  ASSUME MirrorInit
  PROVE  GraphInv
BY GraphStarts, TypeInvInit, NamesInvInit, CallsInvInit, IndexInvInit DEF GraphInv

LEMMA GraphInvStep ==
  ASSUME GraphInv, [MirrorNext]_<<vars, app>>
  PROVE  GraphInv'
BY CallsOnly, TypeInvStep, NamesInvStep, CallsInvStep, IndexInvStep DEF GraphInv

\* Whatever is proved of GraphInstance for any callers is true in the
\* application: it is one of them.
THEOREM MirrorUsesGraph == MirrorSpec => Spec
<1>1. MirrorInit => Init
  BY GraphStarts
<1>2. [MirrorNext]_<<vars, app>> => [Next]_vars
  BY CallsOnly
<1> QED
  BY <1>1, <1>2, PTL DEF MirrorSpec, Spec
-----------------------------------------------------------------------------
(***************************************************************************)
(* Types.                                                                  *)
(***************************************************************************)
Row    == [table : {"node"}, name : Vid] \cup [table : {"edge"}, name : Link]
Change == [item : Table, tag : Tag, data : Seq(Vid \cup Link)]

AppTypes ==
  /\ db \in [Table -> SUBSET (Vid \cup Link)]
  /\ db["node"] \subseteq Vid /\ db["edge"] \subseteq Link
  /\ statements \in 0 .. MaxStatement
  /\ phase \in Phase /\ past \subseteq Past /\ todo \subseteq Row
  /\ mode \in {"off", "asking", "open"}
  /\ pending \in Seq(Change)

\* The names that a statement may find in a table or bring to it.
Known(table) == Names(table) \cup db[table]

\* What a statement does to the table, by the names of its rows.
LEMMA StatementIs ==
  ASSUME Statement, AppTypes
  PROVE  \E table \in Table, tag \in Tag :
           \E rows \in Seq(Known(table)), names \in SUBSET Known(table) :
             Commit(table, tag, rows, names)
<1>1. PICK table \in Table :
        \/ \E rows \in Batches(Names(table) \ db[table]) :
             Commit(table, "write", rows, db[table] \cup {rows[i] : i \in DOMAIN rows})
        \/ \E rows \in Batches(db[table]) :
             Commit(table, "delete", rows, db[table] \ {rows[i] : i \in DOMAIN rows})
        \/ \E before \in db[table] : \E after \in {before} \cup (Names(table) \ db[table]) :
             Commit(table, "update", <<before, after>>, (db[table] \ {before}) \cup {after})
  BY DEF Statement
<1>2. ASSUME NEW S, NEW rows \in Batches(S)
      PROVE  rows \in Seq(S)
  <2>1. CASE \E n \in S : rows = <<n>>
    BY <2>1
  <2>2. CASE rows \in S \X S
    <3>1. PICK m \in S, n \in S : rows = <<m, n>>
      BY <2>2
    <3> QED
      BY <3>1
  <2> QED
    BY <1>2, <2>1, <2>2 DEF Batches
<1>3. CASE \E rows \in Batches(Names(table) \ db[table]) :
             Commit(table, "write", rows, db[table] \cup {rows[i] : i \in DOMAIN rows})
  <2>1. PICK rows \in Batches(Names(table) \ db[table]) :
          Commit(table, "write", rows, db[table] \cup {rows[i] : i \in DOMAIN rows})
    BY <1>3
  <2>2. rows \in Seq(Names(table) \ db[table])
    BY <1>2
  <2>3. rows \in Seq(Known(table)) /\ \A i \in DOMAIN rows : rows[i] \in Names(table)
    BY <2>2 DEF Known
  <2> QED
    BY <1>1, <2>1, <2>3 DEF Tag, Known
<1>4. CASE \E rows \in Batches(db[table]) :
             Commit(table, "delete", rows, db[table] \ {rows[i] : i \in DOMAIN rows})
  <2>1. PICK rows \in Batches(db[table]) :
          Commit(table, "delete", rows, db[table] \ {rows[i] : i \in DOMAIN rows})
    BY <1>4
  <2>2. rows \in Seq(db[table])
    BY <1>2
  <2>3. rows \in Seq(Known(table))
    BY <2>2 DEF Known
  <2> QED
    BY <1>1, <2>1, <2>3 DEF Tag, Known
<1>5. CASE \E before \in db[table] : \E after \in {before} \cup (Names(table) \ db[table]) :
             Commit(table, "update", <<before, after>>, (db[table] \ {before}) \cup {after})
  <2>1. PICK before \in db[table], after \in db[table] \cup Names(table) :
          Commit(table, "update", <<before, after>>, (db[table] \ {before}) \cup {after})
    BY <1>5
  <2>2. <<before, after>> \in Seq(Known(table))
    BY DEF Known
  <2> QED
    BY <1>1, <2>1, <2>2 DEF Tag, Known
<1> QED
  BY <1>1, <1>3, <1>4, <1>5

LEMMA NamesType ==
  ASSUME AppTypes, NEW table \in Table
  PROVE  /\ db[table] \subseteq (IF table = "node" THEN Vid ELSE Link)
         /\ Names(table) \subseteq (IF table = "node" THEN Vid ELSE Link)
BY DEF AppTypes, Table, Names

LEMMA CommitTypes ==
  ASSUME AppTypes, Statement
  PROVE  AppTypes'
<1>0. PICK table \in Table, tag \in Tag :
        \E rows \in Seq(Known(table)), names \in SUBSET Known(table) :
          Commit(table, tag, rows, names)
  BY StatementIs
<1>1. PICK rows \in Seq(Known(table)), names \in SUBSET Known(table) :
        Commit(table, tag, rows, names)
  BY <1>0
<1>2. names \subseteq (IF table = "node" THEN Vid ELSE Link)
  BY <1>1, NamesType DEF Known
<1>3. /\ db' \in [Table -> SUBSET (Vid \cup Link)]
      /\ db'["node"] \subseteq Vid /\ db'["edge"] \subseteq Link
  BY <1>1, <1>2 DEF Commit, AppTypes, Table
<1>4. statements' \in 0 .. MaxStatement
  BY <1>1, MirrorAssumption DEF Commit, AppTypes
<1>5. past' \subseteq Past
  BY <1>1 DEF Commit, AppTypes, Past
<1>6. pending' \in Seq(Change)
  <2>1. rows \in Seq(Vid \cup Link)
    BY <1>1, NamesType DEF Known
  <2>2. [item |-> table, tag |-> tag, data |-> rows] \in Change
    BY <2>1 DEF Change
  <2>3. <<[item |-> table, tag |-> tag, data |-> rows]>> \in Seq(Change)
    BY <2>2
  <2> QED
    BY <1>1, <2>3 DEF Commit, Feed!Change, AppTypes
<1> QED
  BY <1>1, <1>3, <1>4, <1>5, <1>6 DEF Commit, Feed!Change, AppTypes

LEMMA MainTypes ==
  ASSUME AppTypes, MainStep
  PROVE  AppTypes'
<1>1. CASE Select
  <2>1. PICK read \in {db[Rows[phase]], {}} :
          /\ todo' = {[table |-> Rows[phase], name |-> n] : n \in read}
          /\ past' = past \cup IF read = db[Rows[phase]] THEN {} ELSE {"unread"}
    BY <1>1 DEF Select
  <2>2. <<phase, Rows[phase], phase'>> \in {<<"selectNodes", "node", "addNodes">>,
                                            <<"selectEdges", "edge", "addEdges">>}
    BY <1>1 DEF Select, Rows, NextPhase
  <2>3. todo' \subseteq Row
    BY <2>1, <2>2 DEF AppTypes, Row
  <2> QED
    BY <1>1, <2>1, <2>2, <2>3 DEF Select, feed, AppTypes, Phase, Past
<1>2. CASE MainPanics
  BY <1>2 DEF MainPanics, feed, AppTypes, Phase
<1>3. CASE Load
  BY <1>3 DEF Load, feed, AppTypes
<1>4. CASE Loaded
  BY <1>4 DEF Loaded, NextPhase, feed, AppTypes, Phase
<1>5. CASE StartWatch
  BY <1>5 DEF StartWatch, NextPhase, Feed!Run, AppTypes, Phase
<1> QED
  BY <1>1, <1>2, <1>3, <1>4, <1>5 DEF MainStep

LEMMA FromType ==
  ASSUME NEW S, NEW s \in Seq(S), NEW n \in 1 .. Len(s) + 1
  PROVE  Feed!From(s, n) \in Seq(S)
BY DEF Feed!From

LEMMA FeedTypes ==
  ASSUME AppTypes, Watching \/ HandOver
  PROVE  AppTypes'
<1>1. CASE Watching
  <2>1. mode' \in {"off", "asking", "open"} /\ pending' \in Seq(Change)
    <3>1. CASE Feed!Open
      <4>1. mode' = "open" /\ \E n \in 1 .. Len(pending) + 1 : pending' = Feed!From(pending, n)
        BY <3>1 DEF Feed!Open
      <4> QED
        BY <4>1, FromType DEF AppTypes
    <3>2. CASE Feed!Stop
      BY <3>2 DEF Feed!Stop
    <3> QED
      BY <1>1, <3>1, <3>2 DEF Watching
  <2> QED
    BY <1>1, <2>1 DEF Watching, AppTypes, Past
<1>2. CASE HandOver
  <2>1. pending' = Feed!From(pending, 2) /\ 1 \in DOMAIN pending /\ mode' = mode
    BY <1>2 DEF HandOver, Feed!HandOver
  <2>2. pending' \in Seq(Change)
    BY <2>1, FromType DEF AppTypes
  <2>3. past' \subseteq Past
    BY <1>2 DEF HandOver, Spawn, AppTypes, Past
  <2> QED
    BY <1>2, <2>1, <2>2, <2>3 DEF HandOver, AppTypes
<1> QED
  BY <1>1, <1>2

LEMMA AppTypesStep ==
  ASSUME AppTypes, [MirrorNext]_<<vars, app>>
  PROVE  AppTypes'
<1>1. CASE UNCHANGED app
  BY <1>1 DEF app, feed, AppTypes
<1>2. CASE UNCHANGED <<vars, app>> \/ \E t \in Task : Work(t)
  BY <1>1, <1>2 DEF Work
<1> QED
  BY <1>2, CommitTypes, MainTypes, FeedTypes DEF MirrorNext

LEMMA AppTypesInit ==
  ASSUME MirrorInit
  PROVE  AppTypes
BY MirrorAssumption DEF MirrorInit, Feed!FeedInit, AppTypes, Table, Phase

\* Every variable of the application and of its graph has its type, whatever
\* the database commits meanwhile.
THEOREM MirrorTypeCorrect == MirrorSpec => []MirrorTypeOK
<1>1. MirrorInit => GraphInv /\ AppTypes
  BY GraphInvInit, AppTypesInit
<1>2. GraphInv /\ AppTypes /\ [MirrorNext]_<<vars, app>> => (GraphInv /\ AppTypes)'
  BY GraphInvStep, AppTypesStep
<1>3. GraphInv /\ AppTypes => MirrorTypeOK
  <2>1. SUFFICES ASSUME AppTypes PROVE \A i \in DOMAIN pending :
                   pending[i].item \in Table /\ pending[i].tag \in Tag
    BY DEF GraphInv, TypeInv, AppTypes, Row, MirrorTypeOK
  <2>2. \A i \in DOMAIN pending : pending[i] \in Change
    BY <2>1 DEF AppTypes
  <2> QED
    BY <2>2 DEF Change
<1> QED
  BY <1>1, <1>2, <1>3, PTL DEF MirrorSpec
-----------------------------------------------------------------------------
(***************************************************************************)
(* Loading.  Until the watcher is started main is the only one that calls  *)
(* the graph, and it only adds: nothing is removed, so the indices are     *)
(* right.  If both tables were read and nothing in them contradicts the    *)
(* rest, each row is added once, an edge after its end points.             *)
(***************************************************************************)
Loading == phase \in {"selectNodes", "addNodes", "selectEdges", "addEdges", "watch"}

Consistent == past \cap {"unread", "gap", "dangling"} = {}

EndsOf(link) == {link[1], link[2]}

\* The application while it loads, whatever the tables are.
AloneInv ==
  /\ Loading => mode = "off" /\ Whole /\ \A t \in Workers : pc[t] = "idle"
  /\ pc[Main] # "idle" => \/ phase = "addNodes" /\ arg[Main].op = "add_node"
                          \/ phase = "addEdges" /\ arg[Main].op = "add_edge"
  /\ phase = "addNodes" => \A row \in todo : row.table = "node"
  /\ phase = "addEdges" => \A row \in todo : row.table = "edge"
  /\ phase \notin {"addNodes", "addEdges", "dead"} => reply[Main].outcome \notin Refused

EndsInv == "dangling" \notin past => \A l \in db["edge"] : EndsOf(l) \subseteq db["node"]

\* The nodes: each row of the table is in the cache, or to be added, once.
NodesLoading ==
  /\ \A row \in todo : row.name \notin DOMAIN node_cache
  /\ pc[Main] # "idle" =>
       arg[Main].vid \notin DOMAIN node_cache /\ \A row \in todo : row.name # arg[Main].vid
  /\ \A v \in db["node"] : \/ v \in DOMAIN node_cache
                           \/ \E row \in todo : row.name = v
                           \/ pc[Main] # "idle" /\ arg[Main].vid = v

\* The edges: the end points are in the cache, and the key is new.
NewEdgeCall(from, to) ==
  {from, to} \subseteq DOMAIN node_cache /\ EdgeKey(from, to) \notin DOMAIN edge_cache

EdgesLoading ==
  /\ \A row \in todo : NewEdgeCall(row.name[1], row.name[2])
  /\ pc[Main] # "idle" =>
       /\ NewEdgeCall(arg[Main].vid, arg[Main].to)
       /\ \A row \in todo : row.name # <<arg[Main].vid, arg[Main].to>>

LoadingInv ==
  Consistent =>
    /\ phase # "dead" /\ reply[Main].outcome \notin Refused
    /\ phase = "selectNodes" => DOMAIN node_cache = {}
    /\ phase \in {"selectNodes", "addNodes", "selectEdges"} => DOMAIN edge_cache = {}
    /\ phase = "addNodes" => NodesLoading
    /\ phase = "selectEdges" => db["node"] \subseteq DOMAIN node_cache
    /\ phase = "addEdges" => EdgesLoading

LoadInv == AloneInv /\ EndsInv /\ LoadingInv
-----------------------------------------------------------------------------
(***************************************************************************)
(* The steps of a call that adds: it goes on, or ends with what it added,  *)
(* or is refused, for a reason.                                            *)
(***************************************************************************)
\* A step of t that ends its call, or does not.
GoesOn(t) ==
  pc'[t] # "idle" /\ arg'[t] = arg[t] /\ reply'[t] = reply[t] /\ UNCHANGED caches

Finishes(t, outcome) == pc'[t] = "idle" /\ reply'[t].outcome = outcome

LEMMA ReturnEnds ==
  ASSUME TypeInv, NEW t \in Task, NEW outcome, Return(t, Reply(outcome))
  PROVE  Finishes(t, outcome)
BY DEF TypeInv, TypeOK, TasksOK, Return, Proceed, Reply, Finishes

LEMMA ContinueGoesOn ==
  ASSUME TypeInv, NEW t \in Task, NEW next, next # "idle", NEW indices,
         Continue(t, next, indices), UNCHANGED caches
  PROVE  GoesOn(t)
BY DEF TypeInv, TypeOK, TasksOK, Continue, Proceed, GoesOn

LEMMA AddSteps ==
  ASSUME CallsInv, TypeInv, NEW t \in Task, pc[t] # "idle", NEW op \in {"add_node", "add_edge"},
         arg[t].op = op
  PROVE  pc[t] \in IF op = "add_node"
                   THEN {"addNodeCheck", "addNodeLock", "addNodeInsert", "addNodePublish"}
                   ELSE {"addEdgeRead", "addEdgeCheck", "addEdgeLock", "addEdgeInsert",
                         "addEdgePublish"}
<1>1. pc[t] \in PC /\ op \in MethodsAt(pc[t])
  BY DEF TypeInv, TypeOK, TasksOK, CallsInv
<1> QED
  BY <1>1, Steps, MethodsOfSteps

LEMMA FirstGuardGoesOn ==
  ASSUME TypeInv, NEW t \in Task, FirstGuard(t)
  PROVE  GoesOn(t)
<1>1. PICK step \in DOMAIN Nested : At(t, step) /\ Continue(t, Nested[step], seen[t])
  BY DEF FirstGuard
<1>2. Nested[step] # "idle" /\ UNCHANGED caches
  BY DEF Nested, FirstGuard, shared, caches
<1> QED
  BY <1>1, <1>2, ContinueGoesOn

LEMMA AddNodeStep ==
  ASSUME CallsInv, TypeInv, NEW t \in Task, Step(t), pc[t] # "idle", arg[t].op = "add_node"
  PROVE  \/ GoesOn(t)
         \/ /\ Finishes(t, "Ok") /\ UNCHANGED edge_cache
            /\ pc[t] = "addNodePublish"
            /\ node_cache' = Insert(node_cache, arg[t].vid, seen[t][1])
         \/ Finishes(t, "NodeExists") /\ arg[t].vid \in DOMAIN node_cache /\ UNCHANGED caches
<1>1. pc[t] \in {"addNodeCheck", "addNodeLock", "addNodeInsert", "addNodePublish"}
  BY AddSteps
<1>2. \/ Enqueue(t) \/ FirstGuard(t) \/ AddNodeCheck(t) \/ AddNodeInsert(t)
      \/ AddNodePublish(t)
  BY <1>1 DEF Step, At, NodeLookup, FindNode, RemoveNode, UpdateNode, AddEdgeCheck,
              AddEdgeInsert, AddEdgePublish, EdgeLookup, UpdateEdge, RemoveEdge
<1>3. CASE Enqueue(t)
  BY <1>3 DEF Enqueue, GoesOn, caches
<1>4. CASE FirstGuard(t)
  BY <1>4, FirstGuardGoesOn
<1>5. CASE AddNodeCheck(t)
  <2>1. UNCHANGED caches
    BY <1>5 DEF AddNodeCheck, shared, caches
  <2> QED
    BY <1>5, <2>1, ReturnEnds, ContinueGoesOn DEF AddNodeCheck
<1>6. CASE AddNodeInsert(t)
  BY <1>6, ReturnEnds, ContinueGoesOn DEF AddNodeInsert, StoreNode
<1>7. CASE AddNodePublish(t)
  BY <1>7, ReturnEnds DEF AddNodePublish, At
<1> QED
  BY <1>2, <1>3, <1>4, <1>5, <1>6, <1>7

\* The outcomes of an add_edge whose end points are not there.
NoEnds == {"NodeNotFound", "panic"}

LEMMA AddEdgeCalls ==
  ASSUME CallsInv, TypeInv, NEW t \in Task, Step(t), pc[t] # "idle", arg[t].op = "add_edge"
  PROVE  \/ GoesOn(t)
         \/ /\ Finishes(t, "Ok") /\ UNCHANGED node_cache
            /\ pc[t] = "addEdgePublish"
            /\ edge_cache' = Insert(edge_cache, Key(t), seen[t][1])
         \/ Finishes(t, "EdgeExists") /\ Key(t) \in DOMAIN edge_cache /\ UNCHANGED caches
         \/ /\ \E outcome \in NoEnds : Finishes(t, outcome)
            /\ UNCHANGED caches
            /\ RightIndices => ~({arg[t].vid, arg[t].to} \subseteq DOMAIN node_cache)
<1>1. pc[t] \in {"addEdgeRead", "addEdgeCheck", "addEdgeLock", "addEdgeInsert",
                 "addEdgePublish"}
  BY AddSteps
<1>2. \/ Enqueue(t) \/ FirstGuard(t) \/ AddEdgeCheck(t) \/ AddEdgeInsert(t)
      \/ AddEdgePublish(t)
  BY <1>1 DEF Step, At, NodeLookup, FindNode, RemoveNode, UpdateNode, AddNodeCheck,
              AddNodeInsert, AddNodePublish, EdgeLookup, UpdateEdge, RemoveEdge
<1>3. CASE Enqueue(t)
  BY <1>3 DEF Enqueue, GoesOn, caches
<1>4. CASE FirstGuard(t)
  BY <1>4, FirstGuardGoesOn
<1>5. CASE AddEdgeCheck(t)
  <2> DEFINE ends == <<Lookup(node_cache, arg[t].vid), Lookup(node_cache, arg[t].to)>>
  <2>1. UNCHANGED caches
    BY <1>5 DEF AddEdgeCheck, shared, caches
  <2>2. RightIndices => \A v \in DOMAIN node_cache : node_cache[v] # 0
    <3>1. RightIndices => \A v \in DOMAIN node_cache : node_cache[v] \in DOMAIN graph.nodes
      BY DEF RightIndices, CachedNodes, NodeAt, PG!HasNode
    <3>2. 0 \notin DOMAIN graph.nodes
      BY GraphFacts
    <3> QED
      BY <3>1, <3>2
  <2>3. RightIndices /\ {arg[t].vid, arg[t].to} \subseteq DOMAIN node_cache
          => 0 \notin {ends[1], ends[2]}
    BY <2>2 DEF Lookup
  <2>4. \/ Key(t) \in DOMAIN edge_cache /\ Return(t, Reply("EdgeExists"))
        \/ 0 \in {ends[1], ends[2]} /\ Return(t, Reply("NodeNotFound"))
        \/ Continue(t, "addEdgeLock", ends)
    BY <1>5 DEF AddEdgeCheck
  <2> HIDE DEF ends
  <2> QED
    BY <2>1, <2>3, <2>4, ReturnEnds, ContinueGoesOn DEF NoEnds
<1>6. CASE AddEdgeInsert(t)
  <2>1. RightIndices => EndsExist(t)
    BY <1>6 DEF RightIndices, FoundNodes, NodeAt, EndsExist, AddEdgeInsert, At
  <2> QED
    BY <1>6, <2>1, ReturnEnds, ContinueGoesOn DEF AddEdgeInsert, StoreEdge, NoEnds
<1>7. CASE AddEdgePublish(t)
  BY <1>7, ReturnEnds DEF AddEdgePublish, At
<1> QED
  BY <1>2, <1>3, <1>4, <1>5, <1>6, <1>7

\* Nothing that the application does while it loads takes a node away.
LEMMA AddingKeepsWhole ==
  ASSUME GraphInv, Whole, NEW t \in Task, Step(t), pc[t] # "idle",
         arg[t].op \in {"add_node", "add_edge"}
  PROVE  Whole'
<1>1. pc[t] # "removeNode"
  BY AddSteps DEF GraphInv
<1>2. NodesStay
  BY <1>1, NodesStayIn DEF GraphInv, RemoveNode, At
<1>3. LiveVids \subseteq LiveVids'
  <2>1. ASSUME NEW i \in DOMAIN graph.nodes
        PROVE  i \in DOMAIN graph'.nodes /\ graph'.nodes[i].vid = graph.nodes[i].vid
    <3>1. NodeAt(i, graph.nodes[i].vid)
      BY DEF NodeAt, PG!HasNode
    <3> QED
      BY <1>2, <3>1 DEF NodesStay, NodeAt, PG!HasNode
  <2> QED
    BY <2>1 DEF LiveVids
<1>4. CASE UNCHANGED node_cache
  BY <1>3, <1>4 DEF Whole
<1>5. CASE /\ pc[t] = "addNodePublish"
           /\ node_cache' = Insert(node_cache, arg[t].vid, seen[t][1])
  <2>1. NodeAt(seen[t][1], arg[t].vid)
    BY <1>5 DEF GraphInv, IndexInv, RightIndices, FoundNodes
  <2>2. arg[t].vid \in LiveVids
    BY <2>1 DEF NodeAt, PG!HasNode, LiveVids
  <2>3. DOMAIN node_cache' = DOMAIN node_cache \cup {arg[t].vid}
    BY <1>5 DEF Insert, Extend
  <2> QED
    BY <1>3, <2>2, <2>3 DEF Whole
<1> QED
  BY <1>4, <1>5, CacheSteps DEF AddNodePublish, At
-----------------------------------------------------------------------------
(***************************************************************************)
(* The invariants of loading, step by step.                                *)
(***************************************************************************)
LEMMA StepFrame ==
  ASSUME TypeInv, NEW t \in Task, Step(t)
  PROVE  /\ pc[t] # "idle"
         /\ pc'[t] = "idle" \/ arg'[t] = arg[t]
         /\ \A u \in Task \ {t} : reply'[u] = reply[u]
<1>1. pc[t] # "idle"
  BY Steps DEF Step, At, Enqueue, FirstGuard, Nested, AddNodeCheck, AddNodeInsert,
     AddNodePublish, NodeLookup, FindNode, RemoveNode, UpdateNode, AddEdgeCheck, AddEdgeInsert,
     AddEdgePublish, EdgeLookup, UpdateEdge, RemoveEdge
<1>2. CASE \E value : Return(t, value)
  <2>1. PICK value : Return(t, value)
    BY <1>2
  <2>2. pc'[t] = "idle" /\ reply' = [reply EXCEPT ![t] = value]
    BY <2>1 DEF Return, Proceed, TypeInv, TypeOK, TasksOK
  <2>3. reply \in [Task -> Replies]
    BY DEF TypeInv, TypeOK, TasksOK, Replies
  <2> QED
    BY <1>1, <2>2, <2>3
<1>3. CASE UNCHANGED <<arg, reply>>
  BY <1>1, <1>3
<1>4. CASE Enqueue(t) \/ FirstGuard(t)
  BY <1>3, <1>4 DEF Enqueue, FirstGuard, Continue
<1>5. CASE \/ AddNodeCheck(t) \/ AddNodeInsert(t) \/ AddNodePublish(t) \/ NodeLookup(t)
           \/ FindNode(t) \/ RemoveNode(t) \/ UpdateNode(t)
  BY <1>2, <1>3, <1>5 DEF AddNodeCheck, AddNodeInsert, AddNodePublish, StoreNode, NodeLookup,
                          FindNode, RemoveNode, UpdateNode, Continue
<1>6. CASE \/ AddEdgeCheck(t) \/ AddEdgeInsert(t) \/ AddEdgePublish(t) \/ EdgeLookup(t)
           \/ UpdateEdge(t) \/ RemoveEdge(t)
  BY <1>2, <1>3, <1>6 DEF AddEdgeCheck, AddEdgeInsert, AddEdgePublish, StoreEdge, EdgeLookup,
                          UpdateEdge, RemoveEdge, Continue
<1> QED
  BY <1>1, <1>4, <1>5, <1>6 DEF Step

\* The request of a new call is the one of the row, for main and for a worker.
LEMMA CallFrame ==
  ASSUME TypeInv, NEW t \in Task, Call(t)
  PROVE  /\ pc[t] = "idle" /\ pc'[t] # "idle" /\ reply'[t].outcome = "pending"
         /\ UNCHANGED shared
         /\ \A u \in Task \ {t} : reply'[u] = reply[u]
<1>1. PICK r \in Requests : Proceed(t, FirstStep(r.op))
  BY DEF Call
<1>2. FirstStep(r.op) # "idle"
  <2>1. r.op \in NodeOps \cup EdgeOps
    BY DEF Requests, Request
  <2> QED
    BY <2>1 DEF FirstStep, NodeOps, EdgeOps
<1> QED
  BY <1>1, <1>2 DEF Call, Proceed, Reply, shared, TypeInv, TypeOK, TasksOK

LEMMA LoadCall ==
  ASSUME TypeInv, AppTypes, AloneInv, Load
  PROVE  \E row \in todo :
           /\ Call(Main) /\ todo' = todo \ {row} /\ pc'[Main] # "idle"
           /\ \/ /\ phase = "addNodes" /\ row.name \in Vid
                 /\ arg'[Main].op = "add_node" /\ arg'[Main].vid = row.name
              \/ /\ phase = "addEdges" /\ row.name \in Link
                 /\ arg'[Main].op = "add_edge"
                 /\ arg'[Main].vid = row.name[1] /\ arg'[Main].to = row.name[2]
<1>1. PICK row \in todo :
        /\ Call(Main) /\ arg'[Main] = RequestFor(row.table, "write", row.name)
        /\ todo' = todo \ {row}
  BY DEF Load
<1>2. pc'[Main] # "idle"
  BY <1>1, CallFrame, MirrorAssumption
<1>3. CASE phase = "addNodes"
  <2>1. row.table = "node" /\ row.name \in Vid
    BY <1>3 DEF AloneInv, AppTypes, Row
  <2> QED
    BY <1>1, <1>2, <1>3, <2>1 DEF RequestFor, Method
<1>4. CASE phase = "addEdges"
  <2>1. row.table = "edge" /\ row.name \in Link
    BY <1>4 DEF AloneInv, AppTypes, Row
  <2> QED
    BY <1>1, <1>2, <1>4, <2>1 DEF RequestFor, Method
<1> QED
  BY <1>3, <1>4 DEF Load

LEMMA AloneInvStep ==
  ASSUME GraphInv, AppTypes, AloneInv, [MirrorNext]_<<vars, app>>
  PROVE  AloneInv'
<1> USE MirrorAssumption
<1>0. TypeInv
  BY DEF GraphInv
<1>1. ASSUME UNCHANGED vars
      PROVE  /\ pc'[Main] = pc[Main] /\ arg'[Main] = arg[Main] /\ reply'[Main] = reply[Main]
             /\ Whole' = Whole /\ \A t \in Workers : pc'[t] = pc[t]
  BY <1>1 DEF vars, Whole, LiveVids
<1>2. CASE UNCHANGED <<vars, app>>
  BY <1>1, <1>2 DEF AloneInv, Loading, app, feed
<1>3. CASE Statement
  <2>1. UNCHANGED <<vars, phase, todo, mode>>
    BY <1>3 DEF Statement, Commit, Feed!Change
  <2> QED
    BY <1>1, <2>1 DEF AloneInv, Loading
<1>4. CASE Select
  <2>1. /\ UNCHANGED <<vars, mode>> /\ pc[Main] = "idle" /\ Loading
        /\ \/ phase' = "addNodes" /\ \A row \in todo' : row.table = "node"
           \/ phase' = "addEdges" /\ \A row \in todo' : row.table = "edge"
    BY <1>4 DEF Select, Rows, NextPhase, feed, AloneInv, Loading
  <2> QED
    BY <1>1, <2>1 DEF AloneInv, Loading
<1>5. CASE MainPanics
  BY <1>1, <1>5 DEF MainPanics, AloneInv, Loading
<1>6. CASE Load
  <2>1. PICK row \in todo : Call(Main) /\ todo' = todo \ {row}
    BY <1>6 DEF Load
  <2>2. /\ phase \in {"addNodes", "addEdges"}
        /\ phase = "addNodes" => arg'[Main].op = "add_node"
        /\ phase = "addEdges" => arg'[Main].op = "add_edge"
    BY <1>0, <1>6, LoadCall
  <2>3. UNCHANGED <<graph, node_cache, phase, mode>>
    BY <1>6, <2>1 DEF Load, Call, feed
  <2>4. \A t \in Workers : pc'[t] = pc[t]
    BY <1>0, <2>1, OthersSee DEF Workers
  <2> QED
    BY <2>1, <2>2, <2>3, <2>4 DEF AloneInv, Loading, Whole, LiveVids
<1>7. CASE Loaded
  <2>1. /\ UNCHANGED <<vars, mode, todo>> /\ pc[Main] = "idle" /\ Loading
        /\ phase' \in {"selectEdges", "watch"} /\ reply[Main].outcome \notin Refused
    BY <1>7 DEF Loaded, NextPhase, feed, Loading
  <2> QED
    BY <1>1, <2>1 DEF AloneInv, Loading
<1>8. CASE StartWatch
  BY <1>1, <1>8 DEF StartWatch, NextPhase, AloneInv, Loading
<1>9. CASE Watching
  BY <1>1, <1>9 DEF Watching, AloneInv, Loading
<1>10. CASE HandOver
  <2>1. PICK t \in Workers : Call(t)
    BY <1>10 DEF HandOver, Spawn
  <2>2. mode = "open" /\ UNCHANGED <<phase, todo>>
    BY <1>10 DEF HandOver, Feed!HandOver
  <2>3. pc'[Main] = pc[Main] /\ arg'[Main] = arg[Main] /\ reply'[Main] = reply[Main]
    BY <1>0, <2>1, OthersSee, CallFrame DEF Workers
  <2> QED
    BY <2>2, <2>3 DEF AloneInv, Loading
<1>11. ASSUME NEW t \in Task, Work(t)
       PROVE  AloneInv'
  <2>1. Step(t) /\ UNCHANGED <<phase, todo, mode>>
    BY <1>11 DEF Work, app, feed
  <2>2. pc[t] # "idle"
    BY <1>0, <2>1, StepFrame
  <2>3. CASE t = Main
    <3>1. \/ phase = "addNodes" /\ arg[Main].op = "add_node"
          \/ phase = "addEdges" /\ arg[Main].op = "add_edge"
      BY <2>2, <2>3 DEF AloneInv
    <3>2. Whole'
      BY <2>1, <2>2, <2>3, <3>1, AddingKeepsWhole DEF AloneInv, Loading
    <3>3. pc'[Main] = "idle" \/ arg'[Main] = arg[Main]
      BY <1>0, <2>1, <2>3, StepFrame
    <3>4. \A u \in Workers : pc'[u] = pc[u]
      BY <1>0, <2>1, <2>3, OthersSee DEF Workers
    <3> QED
      BY <2>1, <3>1, <3>2, <3>3, <3>4 DEF AloneInv, Loading
  <2>4. CASE t # Main
    <3>1. pc'[Main] = pc[Main] /\ arg'[Main] = arg[Main] /\ reply'[Main] = reply[Main]
      BY <1>0, <2>1, <2>4, OthersSee, StepFrame
    <3>2. ~Loading
      BY <2>2, <2>4 DEF AloneInv, Workers
    <3> QED
      BY <2>1, <3>1, <3>2 DEF AloneInv, Loading
  <2> QED
    BY <2>3, <2>4
<1> QED
  BY <1>2, <1>3, <1>4, <1>5, <1>6, <1>7, <1>8, <1>9, <1>10, <1>11 DEF MirrorNext, MainStep

\* The tables only contradict each other once a node's name left.
LEMMA EndsInvStep ==
  ASSUME AppTypes, EndsInv, [MirrorNext]_<<vars, app>>
  PROVE  EndsInv'
<1>1. CASE db' = db /\ past \subseteq past'
  BY <1>1 DEF EndsInv
<1>2. CASE Statement
  <2>0. PICK table \in Table, tag \in Tag :
          \E rows \in Seq(Known(table)), names \in SUBSET Known(table) :
            Commit(table, tag, rows, names)
    BY <1>2, StatementIs
  <2>1. PICK rows \in Seq(Known(table)), names \in SUBSET Known(table) :
          Commit(table, tag, rows, names)
    BY <2>0
  <2>2. db' = [db EXCEPT ![table] = names] /\ past \subseteq past'
    BY <2>1 DEF Commit
  <2>3. CASE table = "node"
    <3>1. db'["node"] = names /\ db'["edge"] = db["edge"]
      BY <2>2, <2>3 DEF AppTypes, Table
    <3>2. "dangling" \notin past' => \A l \in db["edge"] : EndsOf(l) \subseteq names
      BY <2>1, <2>3 DEF Commit, EndsOf
    <3> QED
      BY <3>1, <3>2 DEF EndsInv
  <2>4. CASE table = "edge"
    <3>1. db'["edge"] = names /\ db'["node"] = db["node"]
      BY <2>2, <2>4 DEF AppTypes, Table
    <3>2. \A l \in names : l \in db["edge"] \/ EndsOf(l) \subseteq db["node"]
      BY <2>4 DEF Known, Names, EndsOf
    <3> QED
      BY <2>2, <3>1, <3>2 DEF EndsInv
  <2> QED
    BY <2>3, <2>4 DEF Table
<1>3. CASE UNCHANGED <<vars, app>> \/ MainStep \/ Watching \/ HandOver
           \/ \E t \in Task : Work(t)
  <2>1. CASE MainStep
    BY <1>1, <2>1 DEF MainStep, Select, MainPanics, Load, Loaded, StartWatch
  <2> QED
    BY <1>1, <1>3, <2>1 DEF Watching, HandOver, Spawn, Work, app
<1> QED
  BY <1>2, <1>3 DEF MirrorNext

LEMMA KeysInsert ==
  ASSUME NEW cache, NEW k, NEW value
  PROVE  DOMAIN Insert(cache, k, value) = DOMAIN cache \cup {k}
BY DEF Insert, Extend

\* The rows of a table, once selected, are what main adds.
LEMMA SelectLoads ==
  ASSUME AppTypes, AloneInv, EndsInv, LoadingInv, Select, Consistent'
  PROVE  LoadingInv'
<1>1. PICK read \in {db[Rows[phase]], {}} :
        /\ todo' = {[table |-> Rows[phase], name |-> n] : n \in read}
        /\ past' = past \cup IF read = db[Rows[phase]] THEN {} ELSE {"unread"}
  BY DEF Select
<1>2. Consistent /\ "dangling" \notin past /\ read = db[Rows[phase]]
  BY <1>1 DEF Consistent
<1>3. /\ phase \in {"selectNodes", "selectEdges"}
      /\ UNCHANGED <<graph, node_cache, edge_cache, pc, arg, reply, db>>
  BY DEF Select, Rows, vars
<1>4. pc[Main] = "idle" /\ reply[Main].outcome \notin Refused
  BY <1>2, <1>3 DEF AloneInv, LoadingInv
<1>5. CASE phase = "selectNodes"
  <2>1. /\ phase' = "addNodes" /\ DOMAIN node_cache = {} /\ DOMAIN edge_cache = {}
        /\ todo' = {[table |-> "node", name |-> n] : n \in db["node"]}
    BY <1>1, <1>2, <1>5 DEF Select, Rows, NextPhase, LoadingInv
  <2>2. NodesLoading'
    <3>1. \A v \in db["node"] : \E row \in todo' : row.name = v
      <4>1. ASSUME NEW v \in db["node"]
            PROVE  \E row \in todo' : row.name = v
        <5>1. [table |-> "node", name |-> v] \in todo'
          BY <2>1
        <5> QED
          BY <5>1
      <4> QED
        BY <4>1
    <3> QED
      BY <1>3, <1>4, <2>1, <3>1 DEF NodesLoading
  <2> QED
    BY <1>3, <1>4, <2>1, <2>2 DEF LoadingInv
<1>6. CASE phase = "selectEdges"
  <2>1. /\ phase' = "addEdges" /\ DOMAIN edge_cache = {} /\ db["node"] \subseteq DOMAIN node_cache
        /\ todo' = {[table |-> "edge", name |-> n] : n \in db["edge"]}
    BY <1>1, <1>2, <1>6 DEF Select, Rows, NextPhase, LoadingInv
  <2>2. \A l \in db["edge"] : NewEdgeCall(l[1], l[2])
    BY <1>2, <2>1 DEF EndsInv, EndsOf, NewEdgeCall
  <2>3. EdgesLoading'
    BY <1>3, <1>4, <2>1, <2>2 DEF EdgesLoading, NewEdgeCall
  <2> QED
    BY <1>3, <1>4, <2>1, <2>3 DEF LoadingInv
<1> QED
  BY <1>3, <1>5, <1>6

\* main calls for the next row, which is no row any longer.
LEMMA LoadKeeps ==
  ASSUME TypeInv, AppTypes, AloneInv, LoadingInv, Load, Consistent'
  PROVE  LoadingInv'
<1> USE MirrorAssumption
<1>1. PICK row \in todo :
        /\ Call(Main) /\ todo' = todo \ {row} /\ pc'[Main] # "idle"
        /\ \/ /\ phase = "addNodes" /\ row.name \in Vid
              /\ arg'[Main].op = "add_node" /\ arg'[Main].vid = row.name
           \/ /\ phase = "addEdges" /\ row.name \in Link
              /\ arg'[Main].op = "add_edge"
              /\ arg'[Main].vid = row.name[1] /\ arg'[Main].to = row.name[2]
  BY LoadCall
<1>2. /\ pc[Main] = "idle" /\ UNCHANGED <<node_cache, edge_cache, db, phase>>
      /\ reply'[Main].outcome \notin Refused
  BY <1>1, CallFrame DEF Load, shared, Refused
<1>3. Consistent
  BY DEF Load, Consistent
<1>4. row \in Row /\ todo \subseteq Row
  BY <1>1 DEF AppTypes
<1>5. CASE phase = "addNodes"
  <2>1. NodesLoading /\ DOMAIN edge_cache = {} /\ \A r \in todo : r.table = "node"
    BY <1>3, <1>5 DEF LoadingInv, AloneInv
  <2>2. \A r \in todo' : r \in todo /\ r.name # row.name
    BY <1>1, <1>4, <2>1 DEF Row
  <2>3. \A r \in todo : r \in todo' \/ r = row
    BY <1>1
  <2>4. arg'[Main].vid = row.name
    BY <1>1, <1>5
  <2>5. NodesLoading'
    BY <1>1, <1>2, <2>1, <2>2, <2>3, <2>4 DEF NodesLoading
  <2> QED
    BY <1>2, <1>5, <2>1, <2>5 DEF LoadingInv
<1>6. CASE phase = "addEdges"
  <2>1. EdgesLoading /\ \A r \in todo : r.table = "edge"
    BY <1>3, <1>6 DEF LoadingInv, AloneInv
  <2>2. \A r \in todo' : r \in todo /\ r.name # row.name
    BY <1>1, <1>4, <2>1 DEF Row
  <2>3. /\ row.name = <<arg'[Main].vid, arg'[Main].to>>
        /\ arg'[Main].vid = row.name[1] /\ arg'[Main].to = row.name[2]
    BY <1>1, <1>6, ConstantsAssumption
  <2>4. EdgesLoading'
    BY <1>1, <1>2, <2>1, <2>2, <2>3 DEF EdgesLoading, NewEdgeCall
  <2> QED
    BY <1>2, <1>6, <2>4 DEF LoadingInv
<1> QED
  BY <1>5, <1>6 DEF Load

\* A step of the call that adds a row: it is not refused.
LEMMA WorkLoads ==
  ASSUME DistinctKeys, GraphInv, AppTypes, AloneInv, LoadingInv, Work(Main), Consistent'
  PROVE  LoadingInv'
<1> USE MirrorAssumption
<1>0. TypeInv /\ CallsInv
  BY DEF GraphInv
<1>1. Step(Main) /\ UNCHANGED <<phase, todo, db>> /\ Consistent
  BY DEF Work, app, feed, Consistent
<1>2. /\ pc[Main] # "idle"
      /\ \/ phase = "addNodes" /\ arg[Main].op = "add_node"
         \/ phase = "addEdges" /\ arg[Main].op = "add_edge"
  BY <1>0, <1>1, StepFrame DEF AloneInv
<1>3. CASE phase = "addNodes"
  <2>1. NodesLoading /\ DOMAIN edge_cache = {} /\ reply[Main].outcome \notin Refused
    BY <1>1, <1>3 DEF LoadingInv
  <2>2. CASE GoesOn(Main)
    <3>1. NodesLoading'
      BY <1>1, <1>2, <2>1, <2>2 DEF NodesLoading, GoesOn, caches
    <3> QED
      BY <1>1, <1>3, <2>1, <2>2, <3>1 DEF LoadingInv, GoesOn, caches
  <2>3. CASE /\ Finishes(Main, "Ok") /\ UNCHANGED edge_cache
             /\ node_cache' = Insert(node_cache, arg[Main].vid, seen[Main][1])
    <3>1. DOMAIN node_cache' = DOMAIN node_cache \cup {arg[Main].vid}
      BY <2>3, KeysInsert
    <3>2. NodesLoading'
      BY <1>1, <1>2, <2>1, <2>3, <3>1 DEF NodesLoading, Finishes
    <3> QED
      BY <1>1, <1>3, <2>1, <2>3, <3>2 DEF LoadingInv, Finishes, Refused
  <2> QED
    BY <1>0, <1>1, <1>2, <1>3, <2>1, <2>2, <2>3, AddNodeStep DEF NodesLoading
<1>4. CASE phase = "addEdges"
  <2>1. EdgesLoading /\ reply[Main].outcome \notin Refused
    BY <1>1, <1>4 DEF LoadingInv
  <2>2. NewEdgeCall(arg[Main].vid, arg[Main].to)
    BY <1>2, <2>1 DEF EdgesLoading
  <2>3. RightIndices
    BY <1>4 DEF AloneInv, Loading, GraphInv, IndexInv
  <2>4. CASE GoesOn(Main)
    <3>1. EdgesLoading'
      BY <1>1, <1>2, <2>1, <2>4 DEF EdgesLoading, NewEdgeCall, GoesOn, caches
    <3> QED
      BY <1>1, <1>4, <2>1, <2>4, <3>1 DEF LoadingInv, GoesOn
  <2>5. CASE /\ Finishes(Main, "Ok") /\ UNCHANGED node_cache
             /\ edge_cache' = Insert(edge_cache, Key(Main), seen[Main][1])
    <3>1. DOMAIN edge_cache' = DOMAIN edge_cache \cup {EdgeKey(arg[Main].vid, arg[Main].to)}
      BY <2>5, KeysInsert DEF Key
    <3>2. <<arg[Main].vid, arg[Main].to>> \in Link
      BY <1>0, <1>2, <1>4 DEF CallsInv, Requests, EdgeOps
    <3>3. ASSUME NEW row \in todo
          PROVE  NewEdgeCall(row.name[1], row.name[2])'
      <4>1. row.name \in Link /\ row.name # <<arg[Main].vid, arg[Main].to>>
        BY <1>2, <1>4, <2>1 DEF EdgesLoading, AloneInv, AppTypes, Row
      <4>2. EdgeKey(row.name[1], row.name[2]) # EdgeKey(arg[Main].vid, arg[Main].to)
        BY <3>2, <4>1 DEF DistinctKeys
      <4>3. NewEdgeCall(row.name[1], row.name[2])
        BY <2>1 DEF EdgesLoading
      <4> QED
        BY <2>5, <3>1, <4>2, <4>3 DEF NewEdgeCall
    <3>4. EdgesLoading'
      BY <1>1, <2>5, <3>3 DEF EdgesLoading, Finishes
    <3> QED
      BY <1>1, <1>4, <2>5, <3>4 DEF LoadingInv, Finishes, Refused
  <2> QED
    BY <1>0, <1>1, <1>2, <1>4, <2>2, <2>3, <2>4, <2>5, AddEdgeCalls DEF NewEdgeCall, Key
<1> QED
  BY <1>2, <1>3, <1>4

LEMMA LoadingInvStep ==
  ASSUME DistinctKeys, GraphInv, AppTypes, LoadInv, [MirrorNext]_<<vars, app>>
  PROVE  LoadingInv'
<1> USE MirrorAssumption
<1>0. TypeInv /\ AloneInv /\ EndsInv /\ LoadingInv
  BY DEF GraphInv, LoadInv
<1>1. CASE ~Consistent'
  BY <1>1 DEF LoadingInv
<1> SUFFICES ASSUME Consistent'
             PROVE  LoadingInv'
  BY <1>1
<1>2. CASE UNCHANGED <<vars, app>>
  BY <1>0, <1>2 DEF vars, app, Consistent, LoadingInv, NodesLoading, EdgesLoading, NewEdgeCall
<1>3. CASE Statement
  <2>0. PICK table \in Table, tag \in Tag :
          \E rows \in Seq(Known(table)), names \in SUBSET Known(table) :
            Commit(table, tag, rows, names)
    BY <1>3, StatementIs
  <2>1. PICK rows \in Seq(Known(table)), names \in SUBSET Known(table) :
          Commit(table, tag, rows, names)
    BY <2>0
  <2>2. /\ UNCHANGED <<node_cache, edge_cache, pc, arg, reply, phase, todo>>
        /\ db' = [db EXCEPT ![table] = names] /\ past \subseteq past'
        /\ mode = "off" /\ Selected(table) => "gap" \in past'
    BY <2>1 DEF Commit, vars
  <2>3. Consistent
    BY <2>2 DEF Consistent
  <2>4. phase \in {"addNodes", "selectEdges"} => db'["node"] = db["node"]
    <3>1. phase \in {"addNodes", "selectEdges"} => ~Selected(table)
      BY <1>0, <2>2 DEF AloneInv, Loading, Consistent
    <3> QED
      BY <2>2, <3>1 DEF Selected, AppTypes, Table
  <2>5. phase = "addNodes" /\ NodesLoading => NodesLoading'
    BY <2>2, <2>4 DEF NodesLoading
  <2>6. EdgesLoading => EdgesLoading'
    BY <2>2 DEF EdgesLoading, NewEdgeCall
  <2> QED
    BY <1>0, <2>2, <2>3, <2>4, <2>5, <2>6 DEF LoadingInv
<1>4. CASE Select
  BY <1>0, <1>4, SelectLoads
<1>5. CASE MainPanics
  BY <1>0, <1>5 DEF MainPanics, Consistent, LoadingInv
<1>6. CASE Load
  BY <1>0, <1>6, LoadKeeps
<1>7. CASE Loaded
  <2>1. /\ UNCHANGED <<node_cache, edge_cache, db, reply>> /\ Consistent
        /\ todo = {} /\ pc[Main] = "idle" /\ reply[Main].outcome \notin Refused
        /\ \/ phase = "addNodes" /\ phase' = "selectEdges"
           \/ phase = "addEdges" /\ phase' = "watch"
    BY <1>7 DEF Loaded, NextPhase, vars, Consistent
  <2>2. phase = "addNodes" =>
          db["node"] \subseteq DOMAIN node_cache /\ DOMAIN edge_cache = {}
    BY <1>0, <2>1 DEF LoadingInv, NodesLoading
  <2> QED
    BY <2>1, <2>2 DEF LoadingInv
<1>8. CASE StartWatch
  BY <1>0, <1>8 DEF StartWatch, NextPhase, vars, Consistent, LoadingInv
<1>9. CASE Watching
  <2>1. UNCHANGED <<phase, reply>> /\ mode # "off" /\ past \subseteq past'
    BY <1>9 DEF Watching, vars
  <2> QED
    BY <1>0, <2>1 DEF AloneInv, Loading, Consistent, LoadingInv
<1>10. CASE HandOver
  <2>1. PICK t \in Workers : Spawn(t, Head(pending))
    BY <1>10 DEF HandOver
  <2>2. mode = "open" /\ phase' = phase /\ past \subseteq past' /\ Call(t)
    BY <1>10, <2>1 DEF HandOver, Feed!HandOver, Spawn
  <2>3. reply'[Main] = reply[Main]
    BY <1>0, <2>2, CallFrame DEF Workers
  <2> QED
    BY <1>0, <2>2, <2>3 DEF AloneInv, Loading, Consistent, LoadingInv
<1>11. ASSUME NEW t \in Task, Work(t)
       PROVE  LoadingInv'
  <2>1. CASE t = Main
    BY <1>0, <1>11, <2>1, WorkLoads
  <2>2. CASE t # Main
    <3>1. Step(t) /\ UNCHANGED <<phase, past>>
      BY <1>11 DEF Work, app
    <3>2. pc[t] # "idle" /\ reply'[Main] = reply[Main]
      BY <1>0, <2>2, <3>1, StepFrame
    <3>3. ~Loading
      BY <1>0, <2>2, <3>2 DEF AloneInv, Workers
    <3> QED
      BY <1>0, <3>1, <3>2, <3>3 DEF Loading, Consistent, LoadingInv
  <2> QED
    BY <2>1, <2>2
<1> QED
  BY <1>2, <1>3, <1>4, <1>5, <1>6, <1>7, <1>8, <1>9, <1>10, <1>11 DEF MirrorNext, MainStep

LEMMA LoadInvInit ==
  ASSUME MirrorInit
  PROVE  LoadInv
<1>1. /\ DOMAIN node_cache = {} /\ DOMAIN edge_cache = {} /\ reply[Main].outcome = "None"
      /\ \A t \in Task : pc[t] = "idle"
  BY MirrorAssumption DEF MirrorInit, Init, Reply
<1>2. phase = "selectNodes" /\ todo = {} /\ mode = "off" /\ db["edge"] = {}
  BY DEF MirrorInit, Feed!FeedInit, Table
<1> QED
  BY <1>1, <1>2, MirrorAssumption DEF LoadInv, AloneInv, EndsInv, LoadingInv, Loading, Whole,
                                     Workers, Refused

\* If loading fails, a table was not read, or changed while it was read, or an
\* edge row has an end point that is no row: main adds the nodes before the
\* edges, so no row is refused for another reason, and nothing panics in
\* petgraph (examples/graph.rs:311-341).  No two pairs of vids have one key.
THEOREM TablesLoad == ASSUME DistinctKeys PROVE MirrorSpec => []LoadsConsistentTables
<1>1. MirrorInit => GraphInv /\ AppTypes /\ LoadInv
  BY GraphInvInit, AppTypesInit, LoadInvInit
<1>2. GraphInv /\ AppTypes /\ LoadInv /\ [MirrorNext]_<<vars, app>>
        => (GraphInv /\ AppTypes /\ LoadInv)'
  BY GraphInvStep, AppTypesStep, AloneInvStep, EndsInvStep, LoadingInvStep DEF LoadInv
<1>3. LoadInv => LoadsConsistentTables
  BY DEF LoadInv, LoadingInv, Consistent, LoadsConsistentTables
<1> QED
  BY <1>1, <1>2, <1>3, PTL DEF MirrorSpec
-----------------------------------------------------------------------------
(***************************************************************************)
(* What the calls of the application do to the vids and the links of the   *)
(* graph.  As long as nothing was removed, an edge joins the nodes of the  *)
(* link it was added for.                                                  *)
(***************************************************************************)
LinkOf(t) == <<arg[t].vid, arg[t].to>>

Removing(t) == pc[t] \in {"removeNode", "removeEdge"}

\* A step that is no removal takes nothing, and adds what its call is for.
LEMMA NamesEffect ==
  ASSUME GraphInv, NEW t \in Task, Call(t) \/ Step(t), ~Removing(t)
  PROVE  /\ LiveVids \subseteq LiveVids'
         /\ \A v \in LiveVids' : v \in LiveVids \/ (arg[t].op = "add_node" /\ arg[t].vid = v)
         /\ LiveLinks \subseteq LiveLinks'
         /\ \A l \in LiveLinks' : l \in LiveLinks \/ (arg[t].op = "add_edge" /\ LinkOf(t) = l)
<1>0. TypeInv /\ CallsInv /\ ~RemoveNode(t) /\ ~RemoveEdge(t)
  BY DEF GraphInv, Removing, RemoveNode, RemoveEdge, At
<1>1. NodesStay /\ EdgesStay
  BY <1>0, NodesStayIn, EdgesStayIn
<1>2. LiveVids \subseteq LiveVids'
  <2>1. ASSUME NEW i \in DOMAIN graph.nodes
        PROVE  i \in DOMAIN graph'.nodes /\ graph'.nodes[i].vid = graph.nodes[i].vid
    <3>1. NodeAt(i, graph.nodes[i].vid)
      BY DEF NodeAt, PG!HasNode
    <3> QED
      BY <1>1, <3>1 DEF NodesStay, NodeAt, PG!HasNode
  <2> QED
    BY <2>1 DEF LiveVids
<1>3. LiveLinks \subseteq LiveLinks'
  BY <1>1 DEF EdgesStay, LiveLinks
<1>4. CASE UNCHANGED graph
  BY <1>4 DEF LiveVids, LiveLinks, Ends
<1>5. CASE /\ pc[t] = "updateNode" /\ PG!HasNode(graph, seen[t][1])
           /\ graph' = [graph EXCEPT !.nodes[seen[t][1]].data = arg[t].data]
  <2>1. /\ graph'.edges = graph.edges /\ DOMAIN graph'.nodes = DOMAIN graph.nodes
        /\ \A k \in DOMAIN graph.nodes : graph'.nodes[k].vid = graph.nodes[k].vid
    BY <1>0, <1>5, UpdatedNode
  <2> QED
    BY <2>1 DEF LiveVids, LiveLinks, Ends
<1>6. CASE /\ pc[t] = "updateEdge" /\ PG!HasEdge(graph, seen[t][1])
           /\ graph' = [graph EXCEPT !.edges[seen[t][1]].weight.data = Extend(@, arg[t].data)]
  <2>1. /\ graph'.nodes = graph.nodes /\ DOMAIN graph'.edges = DOMAIN graph.edges
        /\ \A k \in DOMAIN graph.edges : Ends(k)' = Ends(k)
    BY <1>0, <1>6, UpdatedEdge
  <2> QED
    BY <2>1 DEF LiveVids, LiveLinks
<1>7. CASE pc[t] = "addNodeInsert" /\ StoreNode(t)
  <2>1. arg[t].op = "add_node"
    BY <1>0, <1>7, MethodsOfSteps DEF CallsInv
  <2>2. /\ DOMAIN graph'.nodes = DOMAIN graph.nodes \cup {Len(graph.nodes) + 1}
        /\ \A k \in DOMAIN graph.nodes : graph'.nodes[k] = graph.nodes[k]
        /\ graph'.nodes[Len(graph.nodes) + 1] = NewNode(t) /\ graph'.edges = graph.edges
    BY <1>0, <1>7, StoredANode
  <2>3. NewNode(t).vid = arg[t].vid
    BY DEF NewNode
  <2>4. \A v \in LiveVids' : v \in LiveVids \/ arg[t].vid = v
    BY <2>2, <2>3 DEF LiveVids
  <2>5. LiveLinks' = LiveLinks
    BY <2>2 DEF LiveLinks, Ends
  <2> QED
    BY <1>2, <2>1, <2>4, <2>5
<1>8. CASE pc[t] = "addEdgeInsert" /\ StoreEdge(t, Len(graph.edges) + 1)
  <2> DEFINE n == Len(graph.edges) + 1
  <2>1. arg[t].op = "add_edge"
    BY <1>0, <1>8, MethodsOfSteps DEF CallsInv
  <2>2. /\ DOMAIN graph'.edges = DOMAIN graph.edges \cup {n}
        /\ \A k \in DOMAIN graph.edges : graph'.edges[k] = graph.edges[k]
        /\ graph'.edges[n] =
             [src |-> seen[t][1], dst |-> seen[t][2], weight |-> NewEdge(t)]
        /\ graph'.nodes = graph.nodes
    BY <1>0, <1>8, StoredAnEdge
  <2> HIDE DEF n
  <2>3. <<graph'.edges[n].weight.src_vid, graph'.edges[n].weight.dst_vid>> = LinkOf(t)
    BY <2>2 DEF NewEdge, LinkOf
  <2>5. ASSUME NEW k \in DOMAIN graph'.edges
        PROVE  Ends(k)' \in LiveLinks \/ LinkOf(t) = Ends(k)'
    <3>1. CASE k = n
      BY <2>3, <3>1 DEF Ends
    <3>2. CASE k \in DOMAIN graph.edges
      BY <2>2, <3>2 DEF Ends, LiveLinks
    <3> QED
      BY <2>2, <3>1, <3>2
  <2>7. \A l \in LiveLinks' : l \in LiveLinks \/ LinkOf(t) = l
    BY <2>5 DEF LiveLinks
  <2>6. LiveVids' = LiveVids
    BY <2>2 DEF LiveVids
  <2> QED
    BY <1>3, <2>1, <2>6, <2>7
<1> QED
  BY <1>0, <1>2, <1>3, <1>4, <1>5, <1>6, <1>7, <1>8, GraphSteps

\* An add_node that ends has its node in the graph: its own, or the one for
\* which it is refused.
LEMMA NodeThere ==
  ASSUME GraphInv, Whole, NEW t \in Task, Step(t), pc[t] # "idle", arg[t].op = "add_node",
         pc'[t] = "idle"
  PROVE  arg[t].vid \in LiveVids' /\ arg[t].vid \in DOMAIN node_cache'
<1>0. TypeInv /\ CallsInv /\ RightIndices
  BY DEF GraphInv, IndexInv
<1>1. \/ /\ pc[t] = "addNodePublish"
         /\ node_cache' = Insert(node_cache, arg[t].vid, seen[t][1])
      \/ arg[t].vid \in DOMAIN node_cache /\ UNCHANGED caches
  BY <1>0, AddNodeStep DEF GoesOn
<1>2. arg[t].vid \in LiveVids
  <2>1. CASE pc[t] = "addNodePublish"
    BY <1>0, <2>1 DEF RightIndices, FoundNodes, NodeAt, PG!HasNode, LiveVids
  <2> QED
    BY <1>1, <2>1 DEF Whole
<1>3. arg[t].vid \in DOMAIN node_cache'
  <2>1. CASE node_cache' = Insert(node_cache, arg[t].vid, seen[t][1])
    <3>1. DOMAIN node_cache' = DOMAIN node_cache \cup {arg[t].vid}
      BY <2>1, KeysInsert
    <3> QED
      BY <3>1
  <2> QED
    BY <1>1, <2>1 DEF caches
<1>4. ~Removing(t)
  BY <1>0, AddSteps DEF Removing
<1> QED
  BY <1>2, <1>3, <1>4, NamesEffect

\* The same of an add_edge whose nodes were published.
LEMMA EdgeThere ==
  ASSUME DistinctKeys, GraphInv, StoreInv, NEW t \in Task, Step(t), pc[t] # "idle",
         arg[t].op = "add_edge", pc'[t] = "idle", reply'[t].outcome \notin NoEnds
  PROVE  LinkOf(t) \in LiveLinks'
<1>0. TypeInv /\ CallsInv /\ RightIndices
  BY DEF GraphInv, StoreInv, IndexInv
<1>1. \/ pc[t] = "addEdgePublish"
      \/ Key(t) \in DOMAIN edge_cache
  BY <1>0, AddEdgeCalls DEF GoesOn, Finishes
<1>2. LinkOf(t) \in Link
  BY <1>0 DEF CallsInv, Requests, EdgeOps, LinkOf
<1>3. LinkOf(t) \in LiveLinks
  <2>1. CASE pc[t] = "addEdgePublish"
    <3>1. /\ seen[t][1] \in DOMAIN graph.edges
          /\ graph.edges[seen[t][1]].weight = NewEdge(t)
      BY <2>1 DEF StoreInv, StoredEdge, PG!HasEdge
    <3>2. Ends(seen[t][1]) = LinkOf(t)
      BY <3>1 DEF Ends, NewEdge, LinkOf
    <3> QED
      BY <3>1, <3>2 DEF LiveLinks
  <2>2. CASE Key(t) \in DOMAIN edge_cache
    <3>1. PICK e \in DOMAIN graph.edges : EdgeKey(Ends(e)[1], Ends(e)[2]) = Key(t)
      BY <2>2 DEF StoreInv, CachedEdges, EdgeAt, PG!HasEdge
    <3>2. Ends(e) \in Link /\ EdgeKey(LinkOf(t)[1], LinkOf(t)[2]) = Key(t)
      BY <1>0, <3>1 DEF CallsInv, Key, LinkOf
    <3>3. Ends(e) = LinkOf(t)
      BY <1>2, <3>1, <3>2 DEF DistinctKeys
    <3> QED
      BY <3>1, <3>3 DEF LiveLinks
  <2> QED
    BY <1>1, <2>1, <2>2
<1>4. ~Removing(t)
  BY <1>0, AddSteps DEF Removing
<1> QED
  BY <1>3, <1>4, NamesEffect
-----------------------------------------------------------------------------
(***************************************************************************)
(* The mirror.  Until a removal has been done, each table is what the      *)
(* graph has with what main, the watcher and the tasks have yet to do; a   *)
(* removal is the last change of all, and nothing else runs meanwhile.     *)
(***************************************************************************)
Faithful == past \subseteq {"dangling", "removal"}

\* Loading did not fail, and the watcher started.
Alive ==
  /\ phase # "dead"
  /\ phase = "serving" => mode # "off"
  /\ pc[Main] = "idle" => reply[Main].outcome \notin Refused

NameOf(table) == IF table = "node" THEN Vid ELSE Link
Live(table)   == IF table = "node" THEN LiveVids ELSE LiveLinks
NamedBy(t, table) == IF table = "node" THEN arg[t].vid ELSE LinkOf(t)

\* A change of the name has yet to be handed over, is done by t, or has yet to
\* be loaded.
QueuedAt(i, table, tag, name) ==
  pending[i].item = table /\ pending[i].tag = tag /\ Decoded(pending[i]) = name

Calls(t, table, tag, name) == arg[t].op = Method(table, tag) /\ NamedBy(t, table) = name

Due(table, tag, name) ==
  \/ \E i \in DOMAIN pending : QueuedAt(i, table, tag, name)
  \/ \E t \in Task : Calls(t, table, tag, name)
  \/ tag = "write" /\ [table |-> table, name |-> name] \in todo

TableMirrored(table) ==
  \A name \in NameOf(table) :
    (name \in Live(table) \/ Due(table, "write", name)) /\ ~Due(table, "delete", name)
      <=> name \in db[table]

\* The end points of an edge to be added were published, or will be.
EndsReady ==
  /\ \A i \in DOMAIN pending :
       pending[i].item = "edge" /\ pending[i].tag = "write" =>
         \A v \in EndsOf(Decoded(pending[i])) :
           \/ v \in LiveVids
           \/ \E t \in Task : Calls(t, "node", "write", v)
           \/ \E j \in 1 .. i - 1 : QueuedAt(j, "node", "write", v)
  /\ \A t \in Workers : arg[t].op = "add_edge" => EndsOf(LinkOf(t)) \subseteq DOMAIN node_cache

RemovalLast ==
  /\ \A i \in DOMAIN pending :
       pending[i].tag = "delete" => "removal" \in past /\ i = Len(pending)
  /\ \A t \in Task : Removal(arg[t].op) =>
       "removal" \in past /\ pending = <<>> /\ \A u \in Task \ {t} : pc[u] = "idle"
  /\ "removal" \in past =>
       \/ pending # <<>> /\ pending[Len(pending)].tag = "delete"
       \/ pending = <<>> /\ \E t \in Workers : Removal(arg[t].op)
       \/ pending = <<>> /\ \A t \in Workers : pc[t] = "idle"

Done == "removal" \in past /\ pending = <<>> /\ \A t \in Workers : pc[t] = "idle"

JoinedLinks == {Joined(e) : e \in DOMAIN graph.edges}

Removed == LiveVids = db["node"] /\ Between(JoinedLinks) = Between(db["edge"])

BeforeLoading ==
  /\ Loading => pending = <<>> /\ "removal" \notin past
  /\ phase \notin {"addNodes", "addEdges"} => todo = {}
  /\ phase = "selectNodes" => LiveVids = {}
  /\ phase \in {"selectNodes", "addNodes", "selectEdges"} => LiveLinks = {}

Mirroring ==
  StoreInv /\ EndsReady /\ \A table \in Table : Selected(table) => TableMirrored(table)

QueueNames == \A i \in DOMAIN pending : Decoded(pending[i]) \in NameOf(pending[i].item)

MirrorHolds ==
  BeforeLoading /\ QueueNames /\ RemovalLast /\ IF Done THEN Removed ELSE Mirroring

MirrorInv == Faithful /\ Alive => MirrorHolds
-----------------------------------------------------------------------------
(***************************************************************************)
(* What is due, and what the graph has, from one state to the next.        *)
(***************************************************************************)
LEMMA Methods ==
  ASSUME NEW table \in Table, NEW tag \in Tag
  PROVE  /\ Method(table, tag) # "none"
         /\ Removal(Method(table, tag)) <=> tag = "delete"
         /\ \A other \in Table, o \in Tag :
              Method(table, tag) = Method(other, o) <=> table = other /\ tag = o
BY DEF Table, Tag, Method, Removal

LEMMA IdleCalls ==
  ASSUME TypeInv, NEW t \in Task, pc[t] = "idle", NEW table \in Table, NEW tag \in Tag, NEW name
  PROVE  arg[t].op = "none" /\ ~Removal(arg[t].op) /\ ~Calls(t, table, tag, name)
<1>1. arg[t].op = "none"
  BY DEF TypeInv, TypeOK, TasksOK, NoCall
<1> QED
  BY <1>1, Methods DEF Calls, Removal

LEMMA VarsSame ==
  ASSUME UNCHANGED vars
  PROVE  /\ LiveVids' = LiveVids /\ LiveLinks' = LiveLinks /\ JoinedLinks' = JoinedLinks
         /\ StoreInv => StoreInv'
         /\ node_cache' = node_cache
         /\ \A t : arg'[t] = arg[t] /\ pc'[t] = pc[t] /\ reply'[t] = reply[t]
<1>1. UNCHANGED <<graph, node_cache, edge_cache, pc, arg, seen, reply>>
  BY DEF vars
<1>2. LiveVids' = LiveVids /\ LiveLinks' = LiveLinks
  BY <1>1 DEF LiveVids, LiveLinks, Ends
<1>3. JoinedLinks' = JoinedLinks
  BY <1>1 DEF JoinedLinks, Joined
<1>4. StoreInv => StoreInv'
  BY <1>1, <1>2 DEF StoreInv, Whole, CachedEdges, FoundEdge, StoredNode, StoredEdge,
              EdgeAt, Ends, Key, NewNode, NewEdge, PG!HasNode, PG!HasEdge
<1> QED
  BY <1>1, <1>2, <1>3, <1>4

\* A task goes on with its call, or ends it.
LEMMA DueWork ==
  ASSUME TypeInv, NEW t \in Task, Work(t), NEW table \in Table, NEW tag \in Tag, NEW name
  PROVE  /\ Due(table, tag, name)' => Due(table, tag, name)
         /\ Due(table, tag, name) =>
              Due(table, tag, name)' \/ (pc'[t] = "idle" /\ Calls(t, table, tag, name))
<1>1. Step(t) /\ pending' = pending /\ todo' = todo
  BY DEF Work, app, feed
<1>2. \A u \in Task \ {t} : arg'[u] = arg[u]
  BY <1>1, OthersSee
<1>3. pc'[t] = "idle" => arg'[t].op = "none"
  <2>1. TypeInv'
    BY <1>1, TypeInvStep DEF Next
  <2> QED
    BY <2>1 DEF TypeInv, TypeOK, TasksOK, NoCall
<1>4. pc'[t] = "idle" \/ arg'[t] = arg[t]
  BY <1>1, StepFrame
<1>5. \A u \in Task : Calls(u, table, tag, name)' => Calls(u, table, tag, name)
  BY <1>2, <1>3, <1>4, Methods DEF Calls, NamedBy, LinkOf
<1>6. \A u \in Task : Calls(u, table, tag, name) =>
        Calls(u, table, tag, name)' \/ (pc'[t] = "idle" /\ u = t)
  BY <1>2, <1>4 DEF Calls, NamedBy, LinkOf
<1>7. \A i : QueuedAt(i, table, tag, name)' <=> QueuedAt(i, table, tag, name)
  BY <1>1 DEF QueuedAt, Decoded
<1> QED
  BY <1>1, <1>5, <1>6, <1>7 DEF Due

\* A call that adds or updates, or goes on.
LEMMA WorkMirrors ==
  ASSUME TypeInv, NEW t \in Task, Work(t), NEW table \in Table, TableMirrored(table),
         Live(table) \subseteq Live(table)',
         \A name \in Live(table)' : name \in Live(table) \/ Calls(t, table, "write", name),
         pc'[t] = "idle" => /\ ~Removal(arg[t].op)
                            /\ \A name : Calls(t, table, "write", name) => name \in Live(table)'
  PROVE  TableMirrored(table)'
<1>1. db'[table] = db[table]
  BY DEF Work, app
<1>2. ASSUME NEW name \in NameOf(table)
      PROVE  /\ (name \in Live(table)' \/ Due(table, "write", name)')
                  <=> (name \in Live(table) \/ Due(table, "write", name))
             /\ Due(table, "delete", name)' <=> Due(table, "delete", name)
  <2>1. Calls(t, table, "write", name) => Due(table, "write", name)
    BY DEF Due
  <2>2. Calls(t, table, "delete", name) => Removal(arg[t].op)
    BY Methods DEF Calls, Tag
  <2>3. "write" \in Tag /\ "delete" \in Tag
    BY DEF Tag
  <2> QED
    BY <2>1, <2>2, <2>3, DueWork
<1> QED
  BY <1>1, <1>2 DEF TableMirrored

LEMMA WorkReady ==
  ASSUME TypeInv, NEW t \in Task, Work(t), EndsReady, LiveVids \subseteq LiveVids',
         pc'[t] = "idle" => \A v : Calls(t, "node", "write", v) => v \in LiveVids'
  PROVE  EndsReady'
<1>0. Step(t) /\ pending' = pending
  BY DEF Work, app, feed
<1>1. \A i, tag, table, name : QueuedAt(i, table, tag, name)' <=> QueuedAt(i, table, tag, name)
  BY <1>0 DEF QueuedAt, Decoded
<1>2. ASSUME NEW v, NEW u \in Task, Calls(u, "node", "write", v)
      PROVE  v \in LiveVids' \/ Calls(u, "node", "write", v)'
  <2>1. CASE u = t
    BY <1>0, <1>2, <2>1, StepFrame DEF Calls, NamedBy, LinkOf
  <2>2. CASE u # t
    BY <1>0, <1>2, <2>2, OthersSee DEF Calls, NamedBy, LinkOf
  <2> QED
    BY <2>1, <2>2
<1>3. \A i \in DOMAIN pending' :
        pending'[i].item = "edge" /\ pending'[i].tag = "write" =>
          \A v \in EndsOf(Decoded(pending'[i])) :
            \/ v \in LiveVids'
            \/ \E u \in Task : Calls(u, "node", "write", v)'
            \/ \E j \in 1 .. i - 1 : QueuedAt(j, "node", "write", v)'
  BY <1>0, <1>1, <1>2 DEF EndsReady
<1>4. ASSUME NEW u \in Workers, arg'[u].op = "add_edge"
      PROVE  (EndsOf(LinkOf(u)) \subseteq DOMAIN node_cache)'
  <2>1. arg'[u] = arg[u]
    <3>1. CASE u = t
      <4>1. TypeInv'
        BY <1>0, TypeInvStep DEF Next
      <4>2. pc'[u] # "idle"
        BY <1>4, <4>1 DEF TypeInv, TypeOK, TasksOK, NoCall, Workers
      <4> QED
        BY <1>0, <3>1, <4>2, StepFrame
    <3>2. CASE u # t
      BY <1>0, <3>2, OthersSee DEF Workers
    <3> QED
      BY <3>1, <3>2
  <2>2. DOMAIN node_cache \subseteq DOMAIN node_cache'
    BY <1>0, CacheSteps
  <2>3. EndsOf(LinkOf(u)) \subseteq DOMAIN node_cache
    BY <1>4, <2>1 DEF EndsReady
  <2> QED
    BY <2>1, <2>2, <2>3 DEF LinkOf
<1> QED
  BY <1>3, <1>4 DEF EndsReady

\* Nobody else runs while a task removes.
LEMMA WorkLast ==
  ASSUME TypeInv, NEW t \in Task, Work(t), RemovalLast
  PROVE  RemovalLast'
<1>0. Step(t) /\ pending' = pending /\ past' = past /\ pc[t] # "idle"
  BY StepFrame DEF Work, app, feed
<1>1. \A u \in Task \ {t} : arg'[u] = arg[u] /\ pc'[u] = pc[u]
  BY <1>0, OthersSee
<1>2. TypeInv'
  BY <1>0, TypeInvStep DEF Next
<1>3. Removal(arg'[t].op) => Removal(arg[t].op)
  <2>1. pc'[t] = "idle" => arg'[t].op = "none"
    BY <1>2 DEF TypeInv, TypeOK, TasksOK, NoCall
  <2> QED
    BY <1>0, <2>1, StepFrame DEF Removal
<1>4. ASSUME NEW u \in Task, Removal(arg'[u].op)
      PROVE  /\ "removal" \in past' /\ pending' = <<>>
             /\ \A w \in Task \ {u} : pc'[w] = "idle"
  <2>1. Removal(arg[u].op)
    BY <1>1, <1>3, <1>4
  <2>2. "removal" \in past /\ pending = <<>> /\ \A w \in Task \ {u} : pc[w] = "idle"
    BY <2>1 DEF RemovalLast
  <2> QED
    BY <1>0, <1>1, <2>2
<1>5. ASSUME "removal" \in past, pending = <<>>
      PROVE  \/ \E u \in Workers : Removal(arg'[u].op)
             \/ \A u \in Workers : pc'[u] = "idle"
  <2>1. CASE \E u \in Workers : Removal(arg[u].op)
    <3>1. PICK u \in Workers : Removal(arg[u].op)
      BY <2>1
    <3>2. \A w \in Task \ {u} : pc[w] = "idle"
      BY <3>1 DEF RemovalLast, Workers
    <3>3. u = t
      BY <1>0, <3>2
    <3>4. CASE pc'[t] = "idle"
      BY <1>1, <3>2, <3>3, <3>4 DEF Workers
    <3>5. CASE pc'[t] # "idle"
      BY <1>0, <3>1, <3>3, <3>5, StepFrame
    <3> QED
      BY <3>4, <3>5
  <2>2. CASE \A u \in Workers : pc[u] = "idle"
    BY <1>0, <1>1, <2>2 DEF Workers
  <2> QED
    BY <1>5, <2>1, <2>2 DEF RemovalLast
<1>6. "removal" \in past =>
        \/ pending # <<>> /\ pending[Len(pending)].tag = "delete"
        \/ pending = <<>> /\ \E u \in Workers : Removal(arg'[u].op)
        \/ pending = <<>> /\ \A u \in Workers : pc'[u] = "idle"
  BY <1>5 DEF RemovalLast
<1>7. \A i \in DOMAIN pending : pending[i].tag = "delete" => "removal" \in past /\ i = Len(pending)
  BY DEF RemovalLast
<1> QED
  BY <1>0, <1>4, <1>6, <1>7 DEF RemovalLast

\* What a removal does, from the lookup on.
LEMMA RemovalSteps ==
  ASSUME TypeInv, CallsInv, NEW t \in Task, Step(t), Removal(arg[t].op)
  PROVE  \/ pc'[t] # "idle" /\ UNCHANGED graph
         \/ /\ pc'[t] = "idle" /\ UNCHANGED shared
            /\ arg[t].op = "remove_node" => arg[t].vid \notin DOMAIN node_cache
            /\ arg[t].op = "remove_edge" => Key(t) \notin DOMAIN edge_cache
         \/ RemoveNode(t) /\ arg[t].op = "remove_node"
         \/ RemoveEdge(t) /\ arg[t].op = "remove_edge"
<1>1. pc[t] # "idle" /\ arg[t].op \in MethodsAt(pc[t]) /\ pc[t] \in PC
  BY StepFrame DEF CallsInv, TypeInv, TypeOK, TasksOK
<1>2. \/ arg[t].op = "remove_node" /\ pc[t] \in {"nodeLookup", "removeNode"}
      \/ arg[t].op = "remove_edge" /\ pc[t] \in {"edgeLookup", "removeEdge"}
  BY <1>1, Steps, MethodsOfSteps DEF Removal
<1>3. \/ Enqueue(t) \/ NodeLookup(t) \/ EdgeLookup(t) \/ RemoveNode(t) \/ RemoveEdge(t)
  BY <1>2 DEF Step, At, FirstGuard, Nested, AddNodeCheck, AddNodeInsert, AddNodePublish, FindNode,
              UpdateNode, AddEdgeCheck, AddEdgeInsert, AddEdgePublish, UpdateEdge
<1>4. CASE Enqueue(t)
  BY <1>1, <1>4 DEF Enqueue
<1>5. CASE NodeLookup(t)
  <2>1. arg[t].op = "remove_node" /\ UNCHANGED shared
    BY <1>2, <1>5 DEF NodeLookup, At
  <2>2. \/ Continue(t, "removeNode", <<node_cache[arg[t].vid], 0>>)
        \/ arg[t].vid \notin DOMAIN node_cache /\ Return(t, Reply("false"))
    BY <1>5, <2>1 DEF NodeLookup
  <2> QED
    BY <2>1, <2>2 DEF Continue, Return, Proceed, shared, TypeInv, TypeOK, TasksOK
<1>6. CASE EdgeLookup(t)
  <2>1. arg[t].op = "remove_edge" /\ UNCHANGED shared
    BY <1>2, <1>6 DEF EdgeLookup, At
  <2>2. \/ Continue(t, "removeEdge", <<edge_cache[Key(t)], 0>>)
        \/ Key(t) \notin DOMAIN edge_cache /\ Return(t, Reply("false"))
    BY <1>6, <2>1 DEF EdgeLookup
  <2> QED
    BY <2>1, <2>2 DEF Continue, Return, Proceed, shared, TypeInv, TypeOK, TasksOK
<1>7. CASE RemoveNode(t) \/ RemoveEdge(t)
  BY <1>2, <1>7 DEF RemoveNode, RemoveEdge, At
<1> QED
  BY <1>3, <1>4, <1>5, <1>6, <1>7
-----------------------------------------------------------------------------
(***************************************************************************)
(* The removal: what it leaves is what the database has.                   *)
(***************************************************************************)
LEMMA LiveNames ==
  ASSUME TypeInv, CallsInv
  PROVE  LiveVids \subseteq Vid /\ LiveLinks \subseteq Link
<1>1. \A i \in DOMAIN graph.nodes : graph.nodes[i] \in NodeM
  BY GraphFacts
<1> QED
  BY <1>1 DEF LiveVids, LiveLinks, NodeM, CallsInv

\* While the application serves, whether it lives.
LEMMA Serving ==
  ASSUME AppTypes, Alive, ~Loading
  PROVE  phase = "serving" /\ \A table \in Table : Selected(table)
<1>1. phase = "serving"
  BY DEF AppTypes, Alive, Loading, Phase
<1> QED
  BY <1>1 DEF Selected

LEMMA OnlyRemoval ==
  ASSUME TypeInv, CallsInv, AppTypes, AloneInv, Alive, BeforeLoading, RemovalLast, Mirroring,
         NEW t \in Task, Removal(arg[t].op)
  PROVE  /\ t \in Workers /\ pc[t] # "idle"
         /\ "removal" \in past /\ pending = <<>> /\ \A u \in Task \ {t} : pc[u] = "idle"
         /\ db["node"] = {v \in LiveVids : ~Calls(t, "node", "delete", v)}
         /\ db["edge"] = {l \in LiveLinks : ~Calls(t, "edge", "delete", l)}
<1>1. pc[t] # "idle"
  BY DEF Removal, TypeInv, TypeOK, TasksOK, NoCall
<1>2. t \in Workers
  BY <1>1 DEF AloneInv, Removal, Workers
<1>3. "removal" \in past /\ pending = <<>> /\ \A u \in Task \ {t} : pc[u] = "idle"
  BY DEF RemovalLast
<1>4. ~Loading
  BY <1>3 DEF BeforeLoading
<1>5. phase = "serving" /\ \A table \in Table : Selected(table)
  BY <1>4, Serving
<1>6. todo = {}
  BY <1>5 DEF BeforeLoading
<1>7. ASSUME NEW table \in Table, NEW name
      PROVE  /\ ~Due(table, "write", name)
             /\ Due(table, "delete", name) <=> Calls(t, table, "delete", name)
  <2>1. "write" \in Tag /\ "delete" \in Tag
    BY DEF Tag
  <2>2. ~Calls(t, table, "write", name)
    BY <2>1, Methods DEF Calls
  <2>3. \A u \in Task \ {t}, tag \in Tag : ~Calls(u, table, tag, name)
    BY <1>3, IdleCalls
  <2>4. DOMAIN pending = {}
    BY <1>3
  <2> QED
    BY <1>6, <2>1, <2>2, <2>3, <2>4 DEF Due
<1>8. "node" \in Table /\ "edge" \in Table
  BY DEF Table
<1>9. db["node"] = {v \in LiveVids : ~Calls(t, "node", "delete", v)}
  <2>1. \A v \in Vid : v \in LiveVids /\ ~Calls(t, "node", "delete", v) <=> v \in db["node"]
    BY <1>5, <1>7, <1>8 DEF Mirroring, TableMirrored, NameOf, Live
  <2> QED
    BY <2>1, LiveNames DEF AppTypes
<1>10. db["edge"] = {l \in LiveLinks : ~Calls(t, "edge", "delete", l)}
  <2>1. \A l \in Link : l \in LiveLinks /\ ~Calls(t, "edge", "delete", l) <=> l \in db["edge"]
    BY <1>5, <1>7, <1>8 DEF Mirroring, TableMirrored, NameOf, Live
  <2> QED
    BY <2>1, LiveNames DEF AppTypes
<1> QED
  BY <1>1, <1>2, <1>3, <1>9, <1>10

\* An edge joins the nodes of its link.
LEMMA JoinedEnds ==
  ASSUME RightIndices
  PROVE  /\ \A e \in DOMAIN graph.edges : Joined(e) = Ends(e)
         /\ JoinedLinks = LiveLinks
<1>1. \A e \in DOMAIN graph.edges : Joined(e) = Ends(e)
  BY DEF RightIndices, Joins, NodeAt, Joined, Ends
<1> QED
  BY <1>1 DEF JoinedLinks, LiveLinks

LEMMA RemovalFails ==
  ASSUME TypeInv, NamesInv, CallsInv, RightIndices, AppTypes, AloneInv, Alive, BeforeLoading,
         RemovalLast, Mirroring,
         NEW t \in Task, Removal(arg[t].op), UNCHANGED shared, db' = db,
         arg[t].op = "remove_node" => arg[t].vid \notin DOMAIN node_cache,
         arg[t].op = "remove_edge" => Key(t) \notin DOMAIN edge_cache
  PROVE  Removed'
<1>1. /\ \A u \in Task \ {t} : pc[u] = "idle"
      /\ db["node"] = {v \in LiveVids : ~Calls(t, "node", "delete", v)}
      /\ db["edge"] = {l \in LiveLinks : ~Calls(t, "edge", "delete", l)}
  BY OnlyRemoval
<1>2. \A u \in Task : pc[u] \notin {"addNodePublish", "addEdgePublish"}
  <2>1. pc[t] \notin {"addNodePublish", "addEdgePublish"}
    BY MethodsOfSteps, IdleCalls DEF CallsInv, Removal, Table, Tag
  <2> QED
    BY <1>1, <2>1
<1>3. \A v \in LiveVids : ~Calls(t, "node", "delete", v)
  BY <1>2 DEF NamesInv, VidsKnown, LiveVids, Calls, NamedBy, Method
<1>4. \A l \in LiveLinks : ~Calls(t, "edge", "delete", l)
  <2>1. \A e \in DOMAIN graph.edges : EdgeKey(Ends(e)[1], Ends(e)[2]) \in DOMAIN edge_cache
    BY <1>2 DEF NamesInv, LinksKnown
  <2>2. \A e \in DOMAIN graph.edges : Calls(t, "edge", "delete", Ends(e)) =>
          arg[t].op = "remove_edge" /\ EdgeKey(Ends(e)[1], Ends(e)[2]) = Key(t)
    BY DEF Calls, NamedBy, Method, LinkOf, Key
  <2> QED
    BY <2>1, <2>2 DEF LiveLinks
<1>5. db["node"] = LiveVids /\ db["edge"] = JoinedLinks
  BY <1>1, <1>3, <1>4, JoinedEnds
<1>6. LiveVids' = LiveVids /\ JoinedLinks' = JoinedLinks
  BY DEF shared, LiveVids, JoinedLinks, Joined
<1> QED
  BY <1>5, <1>6 DEF Removed

LEMMA NodeRemovalDone ==
  ASSUME TypeInv, NamesInv, CallsInv, RightIndices, AppTypes, AloneInv, Alive, BeforeLoading,
         RemovalLast, Mirroring,
         NEW t \in Task, arg[t].op = "remove_node", RemoveNode(t), db' = db
  PROVE  Removed'
<1> DEFINE i == seen[t][1]
           v == arg[t].vid
           g == graph
<1>1. Removal(arg[t].op)
  BY DEF Removal
<1>2. /\ db["node"] = {w \in LiveVids : ~Calls(t, "node", "delete", w)}
      /\ db["edge"] = {l \in LiveLinks : ~Calls(t, "edge", "delete", l)}
  BY <1>1, OnlyRemoval
<1>3. db["node"] = LiveVids \ {v} /\ db["edge"] = LiveLinks
  BY <1>2 DEF Calls, NamedBy, Method
<1>4. i \in DOMAIN g.nodes /\ g.nodes[i].vid = v
  BY DEF RightIndices, FoundNodes, RemoveNode, At, NodeAt, PG!HasNode
<1>5. g \in Graph /\ PG!WellFormed(g) /\ graph' \in PG!RemoveNode(g, i)
  BY GraphFacts DEF RemoveNode
<1> HIDE DEF i, v
<1>6. /\ Exactly(graph'.nodes, g.nodes, DOMAIN g.nodes \ {i})
      /\ \A k \in DOMAIN graph'.edges :
           \E q \in DOMAIN g.edges \ PG!Incident(g, i) : SameEnds(graph', k, g, q)
      /\ \A q \in DOMAIN g.edges \ PG!Incident(g, i) :
           \E k \in DOMAIN graph'.edges : SameEnds(graph', k, g, q)
  BY <1>4, <1>5, RemoveNodeExactly
<1>7. \A j \in DOMAIN g.nodes : g.nodes[j].vid = v <=> j = i
  BY <1>4 DEF NamesInv, UniqueVids
<1>8. LiveVids' = LiveVids \ {v}
  <2>1. \A k \in DOMAIN graph'.nodes :
          \E j \in DOMAIN g.nodes : j # i /\ graph'.nodes[k].vid = g.nodes[j].vid
    BY <1>6 DEF Exactly
  <2>2. \A j \in DOMAIN g.nodes \ {i} :
          \E k \in DOMAIN graph'.nodes : graph'.nodes[k].vid = g.nodes[j].vid
    BY <1>6 DEF Exactly
  <2>3. LiveVids' \subseteq LiveVids \ {v}
    BY <1>7, <2>1 DEF LiveVids
  <2>4. LiveVids \ {v} \subseteq LiveVids'
    BY <1>4, <2>2 DEF LiveVids
  <2> QED
    BY <2>3, <2>4
<1>9. \A e \in DOMAIN g.edges :
        /\ Joined(e) = Ends(e) /\ Ends(e) \in LiveLinks
        /\ e \in PG!Incident(g, i) <=> v \in EndsOf(Joined(e))
  <2>1. \A e \in DOMAIN g.edges : Joined(e) = Ends(e) /\ Ends(e) \in LiveLinks
    BY JoinedEnds DEF LiveLinks
  <2>2. \A e \in DOMAIN g.edges : g.edges[e].src \in DOMAIN g.nodes
                                  /\ g.edges[e].dst \in DOMAIN g.nodes
    BY <1>5 DEF PG!WellFormed, PG!HasNode
  <2>3. \A e \in DOMAIN g.edges :
          EndsOf(Joined(e)) = {g.nodes[g.edges[e].src].vid, g.nodes[g.edges[e].dst].vid}
    BY DEF EndsOf, Joined
  <2> QED
    BY <1>7, <2>1, <2>2, <2>3 DEF PG!Incident
<1>10. \A k, q : SameEnds(graph', k, g, q) => Joined(k)' = Joined(q)
  BY DEF SameEnds, Joined
<1>11. JoinedLinks' = {Joined(q) : q \in DOMAIN g.edges \ PG!Incident(g, i)}
  BY <1>6, <1>10 DEF JoinedLinks
<1>12. JoinedLinks' = {l \in LiveLinks : v \notin EndsOf(l)}
  BY <1>9, <1>11 DEF LiveLinks
<1>13. \A l \in LiveLinks : EndsOf(l) \subseteq db["node"] => v \notin EndsOf(l)
  BY <1>3
<1>14. (Between(JoinedLinks) = Between(db["edge"]))'
  BY <1>3, <1>12, <1>13 DEF Between, EndsOf
<1> QED
  BY <1>3, <1>8, <1>14 DEF Removed

LEMMA EdgeRemovalDone ==
  ASSUME DistinctKeys, TypeInv, NamesInv, CallsInv, RightIndices, AppTypes, AloneInv, Alive,
         BeforeLoading, RemovalLast, Mirroring,
         NEW t \in Task, arg[t].op = "remove_edge", RemoveEdge(t), db' = db
  PROVE  Removed'
<1> DEFINE e == seen[t][1]
           l == LinkOf(t)
           g == graph
<1>1. Removal(arg[t].op)
  BY DEF Removal
<1>2. /\ db["node"] = {w \in LiveVids : ~Calls(t, "node", "delete", w)}
      /\ db["edge"] = {k \in LiveLinks : ~Calls(t, "edge", "delete", k)}
      /\ pc[t] # "idle"
  BY <1>1, OnlyRemoval
<1>3. db["node"] = LiveVids /\ db["edge"] = LiveLinks \ {l}
  BY <1>2 DEF Calls, NamedBy, Method
<1>4. e \in DOMAIN g.edges /\ Ends(e) = l
  <2>1. e \in DOMAIN g.edges /\ EdgeKey(Ends(e)[1], Ends(e)[2]) = Key(t)
    BY DEF Mirroring, StoreInv, FoundEdge, RemoveEdge, At, EdgeAt, PG!HasEdge
  <2>2. l \in Link /\ Ends(e) \in Link
    BY <1>2, <2>1 DEF CallsInv, Requests, EdgeOps, LinkOf
  <2>3. EdgeKey(l[1], l[2]) = Key(t)
    BY DEF Key, LinkOf
  <2> QED
    BY <2>1, <2>2, <2>3 DEF DistinctKeys
<1>5. g \in Graph /\ graph' = PG!RemoveEdge(g, e)
  BY GraphFacts DEF RemoveEdge
<1> HIDE DEF e, l
<1>6. graph'.nodes = g.nodes /\ Exactly(graph'.edges, g.edges, DOMAIN g.edges \ {e})
  BY <1>4, <1>5, RemoveEdgeExactly, Zenon
<1>7. LiveVids' = LiveVids
  BY <1>6 DEF LiveVids
<1>8. \A k \in DOMAIN g.edges : Ends(k) = l <=> k = e
  BY <1>4 DEF NamesInv, UniqueEdges
<1>9. \A k, q : graph'.edges[k] = g.edges[q] => Joined(k)' = Joined(q)
  BY <1>6 DEF Joined
<1>10. JoinedLinks' = {Joined(q) : q \in DOMAIN g.edges \ {e}}
  BY <1>6, <1>9 DEF Exactly, JoinedLinks
<1>11. JoinedLinks' = LiveLinks \ {l}
  BY <1>8, <1>10, JoinedEnds DEF LiveLinks
<1> QED
  BY <1>3, <1>7, <1>11 DEF Removed
-----------------------------------------------------------------------------
(***************************************************************************)
(* The mirror, step by step.                                               *)
(***************************************************************************)
LEMMA ServingMainIdle ==
  ASSUME AppTypes, AloneInv, Alive, ~Loading
  PROVE  pc[Main] = "idle"
BY Serving DEF AloneInv

\* A call that is no removal ends with what it was for.
LEMMA WorkAdds ==
  ASSUME DistinctKeys, GraphInv, StoreInv, EndsReady, NEW t \in Task, Work(t),
         ~Removal(arg[t].op), Alive'
  PROVE  /\ \A table \in Table :
              /\ Live(table) \subseteq Live(table)'
              /\ \A name \in Live(table)' : name \in Live(table) \/ Calls(t, table, "write", name)
              /\ pc'[t] = "idle" =>
                   \A name : Calls(t, table, "write", name) => name \in Live(table)'
         /\ StoreInv'
<1>0. TypeInv /\ CallsInv /\ IndexInv /\ Step(t) /\ pc[t] # "idle"
  BY StepFrame DEF GraphInv, Work
<1>1. ~Removing(t)
  BY <1>0, MethodsOfSteps DEF CallsInv, Removing, Removal
<1>2. StoreInv'
  <2>1. ~RemoveNode(t) /\ ~RemoveEdge(t)
    BY <1>1 DEF Removing, RemoveNode, RemoveEdge, At
  <2> QED
    BY <1>0, <2>1, StoreInvKept
<1>3. /\ LiveVids \subseteq LiveVids' /\ LiveLinks \subseteq LiveLinks'
      /\ \A v \in LiveVids' : v \in LiveVids \/ Calls(t, "node", "write", v)
      /\ \A l \in LiveLinks' : l \in LiveLinks \/ Calls(t, "edge", "write", l)
  BY <1>0, <1>1, NamesEffect DEF Calls, NamedBy, Method
<1>4. ASSUME pc'[t] = "idle", NEW v, Calls(t, "node", "write", v)
      PROVE  v \in LiveVids'
  <2>1. arg[t].op = "add_node" /\ arg[t].vid = v
    BY <1>4 DEF Calls, NamedBy, Method
  <2>2. Whole
    BY DEF StoreInv
  <2> QED
    BY <1>0, <1>4, <2>1, <2>2, NodeThere
<1>5. ASSUME pc'[t] = "idle", NEW l, Calls(t, "edge", "write", l)
      PROVE  l \in LiveLinks'
  <2>1. arg[t].op = "add_edge" /\ LinkOf(t) = l
    BY <1>5 DEF Calls, NamedBy, Method
  <2>2. reply'[t].outcome \notin NoEnds
    <3>1. CASE t = Main
      BY <1>5, <3>1 DEF Alive, Refused, NoEnds
    <3>2. CASE t # Main
      <4>1. RightIndices
        BY <1>0 DEF StoreInv, IndexInv
      <4>2. {arg[t].vid, arg[t].to} \subseteq DOMAIN node_cache
        BY <2>1, <3>2 DEF EndsReady, Workers, EndsOf, LinkOf
      <4> QED
        BY <1>0, <1>5, <2>1, <4>1, <4>2, AddEdgeCalls DEF GoesOn, Finishes, NoEnds
    <3> QED
      BY <3>1, <3>2
  <2> QED
    BY <1>0, <1>5, <2>1, <2>2, EdgeThere
<1> QED
  BY <1>2, <1>3, <1>4, <1>5 DEF Table, Live

LEMMA WorkKeeps ==
  ASSUME DistinctKeys, GraphInv, AppTypes, AloneInv, Faithful, Alive, MirrorHolds,
         NEW t \in Task, Work(t), Alive'
  PROVE  MirrorHolds'
<1>0. /\ TypeInv /\ NamesInv /\ CallsInv /\ IndexInv
      /\ BeforeLoading /\ QueueNames /\ RemovalLast
  BY DEF GraphInv, MirrorHolds
<1>1. Step(t) /\ pc[t] # "idle" /\ UNCHANGED <<past, db, pending, todo, phase, mode>>
  BY <1>0, StepFrame DEF Work, app, feed
<1>2. \A u \in Task \ {t} : pc'[u] = pc[u] /\ arg'[u] = arg[u]
  BY <1>0, <1>1, OthersSee
<1>3. t \in Workers \/ Loading
  BY <1>1, ServingMainIdle DEF Workers
<1>4. ~Done /\ Mirroring
  <2>1. ~Done
    BY <1>0, <1>1, <1>3 DEF Done, BeforeLoading
  <2> QED
    BY <2>1 DEF MirrorHolds
<1>5. RemovalLast' /\ QueueNames'
  BY <1>0, <1>1, WorkLast DEF QueueNames, Decoded
<1>6. RightIndices
  BY <1>0, <1>4 DEF Mirroring, StoreInv, IndexInv
<1>7. CASE ~Removal(arg[t].op)
  <2>1. /\ \A table \in Table :
             /\ Live(table) \subseteq Live(table)'
             /\ \A name \in Live(table)' : name \in Live(table) \/ Calls(t, table, "write", name)
             /\ pc'[t] = "idle" =>
                  \A name : Calls(t, table, "write", name) => name \in Live(table)'
        /\ StoreInv'
    BY <1>4, <1>7, WorkAdds DEF Mirroring
  <2>2. ASSUME NEW table \in Table, Selected(table)'
        PROVE  TableMirrored(table)'
    <3>1. TableMirrored(table)
      BY <1>1, <1>4, <2>2 DEF Selected, Mirroring
    <3> QED
      BY <1>0, <1>7, <2>1, <3>1, WorkMirrors
  <2>3. EndsReady'
    <3>1. "node" \in Table /\ Live("node") = LiveVids /\ Live("node")' = LiveVids'
      BY DEF Table, Live
    <3> QED
      BY <1>0, <1>4, <2>1, <3>1, WorkReady DEF Mirroring
  <2>4. ~Done'
    <3>1. SUFFICES ASSUME Done'
                   PROVE  FALSE
      OBVIOUS
    <3>2. "removal" \in past /\ pending = <<>>
      BY <1>1, <3>1 DEF Done
    <3>3. ~(\A u \in Workers : pc[u] = "idle")
      BY <1>4, <3>2 DEF Done
    <3>4. PICK u \in Workers : Removal(arg[u].op)
      BY <1>0, <3>2, <3>3 DEF RemovalLast
    <3>5. u # t /\ pc[t] = "idle"
      BY <1>0, <1>7, <3>4 DEF RemovalLast, Workers
    <3> QED
      BY <1>1, <3>5
  <2>5. BeforeLoading'
    <3>1. phase \notin {"selectNodes", "selectEdges"}
      BY <1>1 DEF AloneInv, Loading, Workers
    <3>2. phase = "addNodes" => \A l : ~Calls(t, "edge", "write", l)
      <4>1. phase = "addNodes" => t = Main /\ arg[t].op = "add_node"
        BY <1>1 DEF AloneInv, Loading, Workers
      <4> QED
        BY <4>1 DEF Calls, Method
    <3>3. phase = "addNodes" => LiveLinks' \subseteq LiveLinks
      <4>1. "edge" \in Table /\ Live("edge") = LiveLinks /\ Live("edge")' = LiveLinks'
        BY DEF Table, Live
      <4> QED
        BY <2>1, <3>2, <4>1
    <3> QED
      BY <1>0, <1>1, <3>1, <3>3 DEF BeforeLoading, Loading
  <2> QED
    BY <1>5, <2>1, <2>2, <2>3, <2>4, <2>5 DEF MirrorHolds, Mirroring
<1>8. CASE Removal(arg[t].op)
  <2>1. /\ t \in Workers /\ "removal" \in past /\ pending = <<>>
        /\ \A u \in Task \ {t} : pc[u] = "idle"
    BY <1>0, <1>4, <1>8, OnlyRemoval
  <2>2. BeforeLoading'
    <3>1. ~Loading
      BY <1>0, <2>1 DEF BeforeLoading
    <3> QED
      BY <1>0, <1>1, <3>1 DEF BeforeLoading, Loading
  <2>3. pc'[t] = "idle" => Done'
    BY <1>1, <1>2, <2>1 DEF Done, Workers
  <2>4. CASE pc'[t] # "idle" /\ UNCHANGED graph
    <3>1. ~RemoveNode(t) /\ ~RemoveEdge(t)
      BY <1>0, <2>4 DEF RemoveNode, RemoveEdge, Return, Proceed, TypeInv, TypeOK, TasksOK
    <3>2. StoreInv'
      BY <1>0, <1>1, <1>4, <3>1, StoreInvKept DEF Mirroring
    <3>3. LiveVids' = LiveVids /\ LiveLinks' = LiveLinks
      BY <2>4 DEF LiveVids, LiveLinks, Ends
    <3>4. ASSUME NEW table \in Table, Selected(table)'
          PROVE  TableMirrored(table)'
      <4>1. TableMirrored(table) /\ Live(table)' = Live(table)
        BY <1>1, <1>4, <3>3, <3>4 DEF Selected, Mirroring, Live
      <4> QED
        BY <1>0, <2>4, <4>1, WorkMirrors
    <3>5. EndsReady'
      BY <1>0, <1>4, <2>4, <3>3, WorkReady DEF Mirroring
    <3>6. ~Done'
      BY <2>1, <2>4 DEF Done
    <3> QED
      BY <1>5, <2>2, <3>2, <3>4, <3>5, <3>6 DEF MirrorHolds, Mirroring
  <2>5. CASE pc'[t] = "idle" /\ Removed'
    BY <1>5, <2>2, <2>3, <2>5 DEF MirrorHolds
  <2>6. CASE /\ pc'[t] = "idle" /\ UNCHANGED shared
             /\ arg[t].op = "remove_node" => arg[t].vid \notin DOMAIN node_cache
             /\ arg[t].op = "remove_edge" => Key(t) \notin DOMAIN edge_cache
    BY <1>0, <1>1, <1>4, <1>6, <1>8, <2>5, <2>6, RemovalFails
  <2>7. CASE \/ RemoveNode(t) /\ arg[t].op = "remove_node"
             \/ RemoveEdge(t) /\ arg[t].op = "remove_edge"
    <3>1. pc'[t] = "idle"
      BY <1>0, <2>7 DEF RemoveNode, RemoveEdge, Return, Proceed, TypeInv, TypeOK, TasksOK
    <3>2. Removed'
      BY <1>0, <1>1, <1>4, <1>6, <2>7, NodeRemovalDone, EdgeRemovalDone
    <3> QED
      BY <2>5, <3>1, <3>2
  <2> QED
    BY <1>0, <1>1, <1>8, <2>4, <2>6, <2>7, RemovalSteps
<1> QED
  BY <1>7, <1>8

\* A step that changes neither the graph nor the tasks, nor what is due.
LEMMA QuietMirrors ==
  ASSUME UNCHANGED vars, NEW table \in Table, TableMirrored(table), db'[table] = db[table],
         pending' = pending, todo' = todo
  PROVE  TableMirrored(table)'
<1>1. \A t, tag, name : Calls(t, table, tag, name)' <=> Calls(t, table, tag, name)
  BY VarsSame DEF Calls, NamedBy, LinkOf
<1>2. \A i, tag, name : QueuedAt(i, table, tag, name)' <=> QueuedAt(i, table, tag, name)
  BY DEF QueuedAt, Decoded
<1>3. \A tag, name : Due(table, tag, name)' <=> Due(table, tag, name)
  BY <1>1, <1>2 DEF Due
<1>4. Live(table)' = Live(table)
  BY VarsSame DEF Live
<1> QED
  BY <1>3, <1>4 DEF TableMirrored

LEMMA QuietReady ==
  ASSUME UNCHANGED vars, EndsReady, pending' = pending
  PROVE  EndsReady'
<1>1. \A t, table, tag, name : Calls(t, table, tag, name)' <=> Calls(t, table, tag, name)
  BY VarsSame DEF Calls, NamedBy, LinkOf
<1>2. \A i, table, tag, name : QueuedAt(i, table, tag, name)' <=> QueuedAt(i, table, tag, name)
  BY DEF QueuedAt, Decoded
<1>3. /\ LiveVids' = LiveVids /\ node_cache' = node_cache
      /\ \A t : arg'[t] = arg[t] /\ LinkOf(t)' = LinkOf(t)
  BY VarsSame DEF LinkOf
<1>4. \A i \in DOMAIN pending' :
        pending'[i].item = "edge" /\ pending'[i].tag = "write" =>
          \A v \in EndsOf(Decoded(pending'[i])) :
            \/ v \in LiveVids'
            \/ \E t \in Task : Calls(t, "node", "write", v)'
            \/ \E j \in 1 .. i - 1 : QueuedAt(j, "node", "write", v)'
  BY <1>1, <1>2, <1>3 DEF EndsReady
<1>5. \A t \in Workers :
        arg'[t].op = "add_edge" => EndsOf(LinkOf(t)') \subseteq DOMAIN node_cache'
  BY <1>3 DEF EndsReady
<1> QED
  BY <1>4, <1>5 DEF EndsReady

LEMMA QuietLast ==
  ASSUME UNCHANGED vars, RemovalLast, pending' = pending,
         "removal" \in past' <=> "removal" \in past
  PROVE  RemovalLast' /\ (Done' <=> Done)
<1>1. \A t : arg'[t] = arg[t] /\ pc'[t] = pc[t]
  BY VarsSame
<1> QED
  BY <1>1 DEF RemovalLast, Done

\* What a statement does, if it is one that the mirror follows.
LEMMA FollowedStatement ==
  ASSUME AppTypes, Statement, Faithful', mode # "off"
  PROVE  \E table \in Table, tag \in Tag : \E name \in NameOf(table) : \E change :
           /\ change.item = table /\ change.tag = tag /\ Decoded(change) = name
           /\ pending' = Append(pending, change) /\ "removal" \notin past
           /\ "removal" \in past' <=> tag = "delete"
           /\ \A other \in Table \ {table} : db'[other] = db[other]
           /\ \/ tag = "write" /\ name \in Names(table) /\ db'[table] = db[table] \cup {name}
              \/ tag = "delete" /\ db'[table] = db[table] \ {name}
              \/ tag = "update" /\ db'[table] = db[table]
<1>1. ASSUME NEW table \in Table, NEW tag \in Tag, NEW rows, NEW names,
             Commit(table, tag, rows, names)
      PROVE  /\ pending' = Append(pending, [item |-> table, tag |-> tag, data |-> rows])
             /\ "removal" \notin past
             /\ "removal" \in past' <=> tag = "delete"
             /\ \A other \in Table \ {table} : db'[other] = db[other]
             /\ db'[table] = names
             /\ tag # "update" => Len(rows) # 2
             /\ tag = "update" => rows[1] = rows[2]
  <2>1. pending' = Append(pending, [item |-> table, tag |-> tag, data |-> rows])
    BY <1>1 DEF Commit, Feed!Change, AppTypes
  <2>2. "removal" \notin past
    BY <1>1 DEF Commit, Faithful
  <2>3. "removal" \in past' <=> tag = "delete"
    BY <1>1, <2>2 DEF Commit
  <2>4. db' = [db EXCEPT ![table] = names] /\ db \in [Table -> SUBSET (Vid \cup Link)]
    BY <1>1 DEF Commit, AppTypes
  <2>5. (tag # "update" => Len(rows) # 2) /\ (tag = "update" => rows[1] = rows[2])
    BY <1>1 DEF Commit, Faithful
  <2> QED
    BY <2>1, <2>2, <2>3, <2>4, <2>5
<1>2. PICK table \in Table :
        \/ \E rows \in Batches(Names(table) \ db[table]) :
             Commit(table, "write", rows, db[table] \cup {rows[i] : i \in DOMAIN rows})
        \/ \E rows \in Batches(db[table]) :
             Commit(table, "delete", rows, db[table] \ {rows[i] : i \in DOMAIN rows})
        \/ \E before \in db[table] : \E after \in {before} \cup (Names(table) \ db[table]) :
             Commit(table, "update", <<before, after>>, (db[table] \ {before}) \cup {after})
  BY DEF Statement
<1>3. Names(table) \subseteq NameOf(table) /\ db[table] \subseteq NameOf(table)
  BY NamesType DEF NameOf
<1>4. ASSUME NEW S, NEW rows \in Batches(S), Len(rows) # 2
      PROVE  rows[1] \in S /\ {rows[i] : i \in DOMAIN rows} = {rows[1]}
  <2>1. PICK n \in S : rows = <<n>>
    BY <1>4 DEF Batches
  <2> QED
    BY <2>1
<1>5. ASSUME NEW rows, NEW tag \in {"write", "delete"}
      PROVE  Decoded([item |-> table, tag |-> tag, data |-> rows]) = rows[1]
  BY DEF Decoded
<1>6. CASE \E rows \in Batches(Names(table) \ db[table]) :
             Commit(table, "write", rows, db[table] \cup {rows[i] : i \in DOMAIN rows})
  <2>1. PICK rows \in Batches(Names(table) \ db[table]) :
          Commit(table, "write", rows, db[table] \cup {rows[i] : i \in DOMAIN rows})
    BY <1>6
  <2>2. "write" \in Tag
    BY DEF Tag
  <2> DEFINE names == db[table] \cup {rows[i] : i \in DOMAIN rows}
             change == [item |-> table, tag |-> "write", data |-> rows]
  <2>3. Commit(table, "write", rows, names)
    BY <2>1
  <2> HIDE DEF names
  <2>4. /\ pending' = Append(pending, change) /\ "removal" \notin past
        /\ "removal" \notin past'
        /\ \A other \in Table \ {table} : db'[other] = db[other]
        /\ db'[table] = names /\ Len(rows) # 2
    BY <1>1, <2>2, <2>3
  <2>5. rows[1] \in Names(table) /\ names = db[table] \cup {rows[1]}
    BY <1>4, <2>1, <2>4 DEF names
  <2>6. change.item = table /\ change.tag = "write" /\ Decoded(change) = rows[1]
    BY <1>5
  <2> HIDE DEF change
  <2> QED
    BY <1>3, <2>2, <2>4, <2>5, <2>6
<1>7. CASE \E rows \in Batches(db[table]) :
             Commit(table, "delete", rows, db[table] \ {rows[i] : i \in DOMAIN rows})
  <2>1. PICK rows \in Batches(db[table]) :
          Commit(table, "delete", rows, db[table] \ {rows[i] : i \in DOMAIN rows})
    BY <1>7
  <2>2. "delete" \in Tag
    BY DEF Tag
  <2> DEFINE names == db[table] \ {rows[i] : i \in DOMAIN rows}
             change == [item |-> table, tag |-> "delete", data |-> rows]
  <2>3. Commit(table, "delete", rows, names)
    BY <2>1
  <2> HIDE DEF names
  <2>4. /\ pending' = Append(pending, change) /\ "removal" \notin past
        /\ "removal" \in past'
        /\ \A other \in Table \ {table} : db'[other] = db[other]
        /\ db'[table] = names /\ Len(rows) # 2
    BY <1>1, <2>2, <2>3
  <2>5. rows[1] \in db[table] /\ names = db[table] \ {rows[1]}
    BY <1>4, <2>1, <2>4 DEF names
  <2>6. change.item = table /\ change.tag = "delete" /\ Decoded(change) = rows[1]
    BY <1>5
  <2> HIDE DEF change
  <2> QED
    BY <1>3, <2>2, <2>4, <2>5, <2>6
<1>8. CASE \E before \in db[table] : \E after \in {before} \cup (Names(table) \ db[table]) :
             Commit(table, "update", <<before, after>>, (db[table] \ {before}) \cup {after})
  <2>1. PICK before \in db[table], after \in db[table] \cup Names(table) :
          Commit(table, "update", <<before, after>>, (db[table] \ {before}) \cup {after})
    BY <1>8
  <2>2. "update" \in Tag
    BY DEF Tag
  <2> DEFINE names == (db[table] \ {before}) \cup {after}
             rows == <<before, after>>
             change == [item |-> table, tag |-> "update", data |-> rows]
  <2>3. Commit(table, "update", rows, names) /\ rows[1] = before /\ rows[2] = after
    BY <2>1
  <2> HIDE DEF names, rows
  <2>4. /\ pending' = Append(pending, change) /\ "removal" \notin past
        /\ "removal" \notin past'
        /\ \A other \in Table \ {table} : db'[other] = db[other]
        /\ db'[table] = names /\ rows[1] = rows[2]
    BY <1>1, <2>2, <2>3
  <2>5. names = db[table]
    BY <2>3, <2>4 DEF names
  <2>6. change.item = table /\ change.tag = "update" /\ Decoded(change) = before
    BY <2>3, <2>4 DEF Decoded
  <2> HIDE DEF change
  <2> QED
    BY <1>3, <2>1, <2>2, <2>4, <2>5, <2>6
<1> QED
  BY <1>2, <1>6, <1>7, <1>8

LEMMA Appended ==
  ASSUME NEW S, NEW s \in Seq(S), NEW e
  PROVE  /\ DOMAIN Append(s, e) = DOMAIN s \cup {Len(s) + 1} /\ Len(s) + 1 \notin DOMAIN s
         /\ Len(Append(s, e)) = Len(s) + 1 /\ Len(s) \in Nat /\ DOMAIN s = 1 .. Len(s)
         /\ \A i \in DOMAIN s : Append(s, e)[i] = s[i]
         /\ Append(s, e)[Len(s) + 1] = e
         /\ Append(s, e) # <<>>
<1>1. s \in Seq(S \cup {e}) /\ e \in S \cup {e}
  OBVIOUS
<1> QED
  BY <1>1

\* A statement that is not watched yet: the table was not selected.
LEMMA EarlyStatementKeeps ==
  ASSUME TypeInv, AppTypes, AloneInv, Alive, MirrorHolds, Statement, Faithful', mode = "off"
  PROVE  MirrorHolds'
<1>0. BeforeLoading /\ QueueNames /\ RemovalLast
  BY DEF MirrorHolds
<1>1. Loading
  BY DEF Alive, AppTypes, Phase, Loading
<1>2. PICK table \in Table, tag \in Tag :
        \E rows \in Seq(Known(table)), names \in SUBSET Known(table) :
          Commit(table, tag, rows, names)
  BY StatementIs
<1>3. PICK rows, names : Commit(table, tag, rows, names)
  BY <1>2
<1>4. UNCHANGED <<vars, phase, todo, mode, pending>> /\ ("removal" \in past' <=> "removal" \in past)
  BY <1>3 DEF Commit, Feed!Change
<1>5. ~Selected(table)
  BY <1>3 DEF Commit, Faithful
<1>6. \A other \in Table \ {table} : db'[other] = db[other]
  BY <1>3 DEF Commit, AppTypes
<1>7. ~Done /\ Mirroring
  BY <1>0, <1>1 DEF MirrorHolds, BeforeLoading, Done
<1>8. RemovalLast' /\ ~Done'
  BY <1>0, <1>4, <1>7, QuietLast
<1>9. QueueNames' /\ BeforeLoading'
  BY <1>0, <1>4, VarsSame DEF QueueNames, Decoded, BeforeLoading, Loading
<1>10. ASSUME NEW other \in Table, Selected(other)'
       PROVE  TableMirrored(other)'
  <2>1. Selected(other)
    BY <1>4, <1>10 DEF Selected
  <2>2. db'[other] = db[other] /\ TableMirrored(other)
    BY <1>5, <1>6, <1>7, <2>1 DEF Mirroring
  <2> QED
    BY <1>4, <2>2, QuietMirrors
<1>11. StoreInv' /\ EndsReady'
  BY <1>4, <1>7, VarsSame, QuietReady DEF Mirroring
<1> QED
  BY <1>8, <1>9, <1>10, <1>11 DEF MirrorHolds, Mirroring

LEMMA StatementKeeps ==
  ASSUME TypeInv, AppTypes, AloneInv, Alive, MirrorHolds, Statement, Faithful', mode # "off"
  PROVE  MirrorHolds'
<1>0. BeforeLoading /\ QueueNames /\ RemovalLast
  BY DEF MirrorHolds
<1>1. UNCHANGED <<vars, phase, todo, mode>>
  BY DEF Statement, Commit, Feed!Change
<1>2. ~Loading /\ phase = "serving" /\ (\A other \in Table : Selected(other)) /\ todo = {}
  <2>1. ~Loading
    BY DEF AloneInv
  <2> QED
    BY <1>0, <2>1, Serving DEF BeforeLoading
<1>3. PICK table \in Table, tag \in Tag : \E name \in NameOf(table) : \E change :
           /\ change.item = table /\ change.tag = tag /\ Decoded(change) = name
           /\ pending' = Append(pending, change) /\ "removal" \notin past
           /\ "removal" \in past' <=> tag = "delete"
           /\ \A other \in Table \ {table} : db'[other] = db[other]
           /\ \/ tag = "write" /\ name \in Names(table) /\ db'[table] = db[table] \cup {name}
              \/ tag = "delete" /\ db'[table] = db[table] \ {name}
              \/ tag = "update" /\ db'[table] = db[table]
  BY FollowedStatement
<1>4. PICK name \in NameOf(table) : \E change :
           /\ change.item = table /\ change.tag = tag /\ Decoded(change) = name
           /\ pending' = Append(pending, change) /\ "removal" \notin past
           /\ "removal" \in past' <=> tag = "delete"
           /\ \A other \in Table \ {table} : db'[other] = db[other]
           /\ \/ tag = "write" /\ name \in Names(table) /\ db'[table] = db[table] \cup {name}
              \/ tag = "delete" /\ db'[table] = db[table] \ {name}
              \/ tag = "update" /\ db'[table] = db[table]
  BY <1>3
<1>5. PICK change :
           /\ change.item = table /\ change.tag = tag /\ Decoded(change) = name
           /\ pending' = Append(pending, change) /\ "removal" \notin past
           /\ "removal" \in past' <=> tag = "delete"
           /\ \A other \in Table \ {table} : db'[other] = db[other]
           /\ \/ tag = "write" /\ name \in Names(table) /\ db'[table] = db[table] \cup {name}
              \/ tag = "delete" /\ db'[table] = db[table] \ {name}
              \/ tag = "update" /\ db'[table] = db[table]
  BY <1>4
<1>6. ~Done /\ Mirroring
  BY <1>5 DEF Done, MirrorHolds
<1>6a. PICK n : n = Len(pending) + 1
  OBVIOUS
<1>7. /\ DOMAIN pending' = DOMAIN pending \cup {n} /\ Len(pending') = n
      /\ DOMAIN pending = 1 .. n - 1 /\ n \in Nat /\ n \notin DOMAIN pending
      /\ \A i \in DOMAIN pending : pending'[i] = pending[i]
      /\ pending'[n] = change /\ pending' # <<>>
  <2>1. pending \in Seq(Change)
    BY DEF AppTypes
  <2> QED
    BY <1>5, <1>6a, <2>1, Appended
<1>8. /\ \A i \in DOMAIN pending : pending[i].tag # "delete"
      /\ \A t \in Task : ~Removal(arg[t].op)
  BY <1>0, <1>5 DEF RemovalLast
<1>9. /\ \A t : arg'[t] = arg[t] /\ pc'[t] = pc[t] /\ LinkOf(t)' = LinkOf(t)
      /\ \A other : Live(other)' = Live(other)
      /\ LiveVids' = LiveVids /\ LiveLinks' = LiveLinks /\ node_cache' = node_cache
  BY <1>1, VarsSame DEF LinkOf, Live
<1>10. ASSUME NEW other, NEW o, NEW m
       PROVE  /\ \A t : Calls(t, other, o, m)' <=> Calls(t, other, o, m)
              /\ \A i \in DOMAIN pending : QueuedAt(i, other, o, m)' <=> QueuedAt(i, other, o, m)
              /\ QueuedAt(n, other, o, m)' <=> table = other /\ tag = o /\ name = m
  <2>1. \A t : Calls(t, other, o, m)' <=> Calls(t, other, o, m)
    BY <1>9 DEF Calls, NamedBy
  <2>2. \A i \in DOMAIN pending : QueuedAt(i, other, o, m)' <=> QueuedAt(i, other, o, m)
    BY <1>7 DEF QueuedAt, Decoded
  <2>3. QueuedAt(n, other, o, m)' <=> table = other /\ tag = o /\ name = m
    <3>1. QueuedAt(n, other, o, m)' <=>
            pending'[n].item = other /\ pending'[n].tag = o /\ Decoded(pending'[n]) = m
      BY DEF QueuedAt, Decoded
    <3> QED
      BY <1>5, <1>7, <3>1
  <2> QED
    BY <2>1, <2>2, <2>3
<1>11. ASSUME NEW other, NEW o, NEW m
       PROVE  Due(other, o, m)' <=>
                Due(other, o, m) \/ (table = other /\ tag = o /\ name = m)
  <2>1. (\E i \in DOMAIN pending' : QueuedAt(i, other, o, m)') <=>
          (\E i \in DOMAIN pending : QueuedAt(i, other, o, m))
            \/ (table = other /\ tag = o /\ name = m)
    BY <1>7, <1>10
  <2> QED
    BY <1>1, <1>10, <2>1 DEF Due
<1>12. ASSUME NEW other \in Table, NEW m
       PROVE  ~Due(other, "delete", m)
  <2>1. \A t \in Task : ~Calls(t, other, "delete", m)
    <3>1. "delete" \in Tag
      BY DEF Tag
    <3> QED
      BY <1>8, <3>1, Methods DEF Calls
  <2> QED
    BY <1>8, <2>1 DEF Due, QueuedAt
<1>13. ASSUME NEW other \in Table
       PROVE  TableMirrored(other)'
  <2>1. TableMirrored(other)
    BY <1>2, <1>6 DEF Mirroring
  <2>2. CASE other # table
    <3>1. db'[other] = db[other]
      BY <1>5, <2>2
    <3> QED
      BY <1>9, <1>11, <2>1, <2>2, <3>1 DEF TableMirrored
  <2>3. CASE other = table
    <3>1. ASSUME NEW m \in NameOf(table)
          PROVE  (m \in Live(table) \/ Due(table, "write", m)') /\ ~Due(table, "delete", m)'
                   <=> m \in db'[table]
      <4>1. m \in Live(table) \/ Due(table, "write", m) <=> m \in db[table]
        BY <1>12, <2>1, <2>3 DEF TableMirrored
      <4>2. Due(table, "write", m)' <=> Due(table, "write", m) \/ (tag = "write" /\ name = m)
        BY <1>11
      <4>3. Due(table, "delete", m)' <=> tag = "delete" /\ name = m
        BY <1>11, <1>12
      <4> QED
        BY <1>5, <4>1, <4>2, <4>3
    <3> QED
      BY <1>9, <2>3, <3>1 DEF TableMirrored
  <2> QED
    BY <2>2, <2>3
<1>14. RemovalLast' /\ ~Done'
  <2>1. \A i \in DOMAIN pending' :
          pending'[i].tag = "delete" => "removal" \in past' /\ i = Len(pending')
    BY <1>5, <1>7, <1>8
  <2>2. \A t \in Task : ~Removal(arg'[t].op)
    BY <1>8, <1>9
  <2>3. "removal" \in past' => pending' # <<>> /\ pending'[Len(pending')].tag = "delete"
    BY <1>5, <1>7
  <2> QED
    BY <1>7, <2>1, <2>2, <2>3 DEF RemovalLast, Done
<1>15. QueueNames'
  <2>1. \A i \in DOMAIN pending' : Decoded(pending'[i]) \in NameOf(pending'[i].item)
    BY <1>0, <1>5, <1>7 DEF QueueNames
  <2> QED
    BY <2>1 DEF QueueNames, Decoded
<1>16. EndsReady'
  <2>1. ASSUME NEW i \in DOMAIN pending',
               pending'[i].item = "edge", pending'[i].tag = "write",
               NEW v \in EndsOf(Decoded(pending'[i]))
        PROVE  \/ v \in LiveVids
               \/ \E t \in Task : Calls(t, "node", "write", v)
               \/ \E j \in 1 .. i - 1 : j \in DOMAIN pending /\ QueuedAt(j, "node", "write", v)
    <3>1. CASE i \in DOMAIN pending
      <4>1. pending'[i] = pending[i] /\ \A j \in 1 .. i - 1 : j \in DOMAIN pending
        BY <1>7, <3>1
      <4>2. \/ v \in LiveVids
            \/ \E t \in Task : Calls(t, "node", "write", v)
            \/ \E j \in 1 .. i - 1 : QueuedAt(j, "node", "write", v)
        BY <1>6, <2>1, <3>1, <4>1 DEF Mirroring, EndsReady
      <4> QED
        BY <4>1, <4>2
    <3>2. CASE i = n
      <4>1. table = "edge" /\ tag = "write" /\ v \in EndsOf(name)
        BY <1>5, <1>7, <2>1, <3>2
      <4>2. v \in db["node"] /\ v \in Vid
        BY <1>5, <4>1 DEF Names, EndsOf, AppTypes
      <4>3. TableMirrored("node")
        BY <1>2, <1>6 DEF Mirroring, Table
      <4>4. v \in LiveVids \/ Due("node", "write", v)
        BY <4>2, <4>3 DEF TableMirrored, NameOf, Live
      <4> QED
        BY <1>2, <1>7, <3>2, <4>4 DEF Due
    <3> QED
      BY <1>7, <3>1, <3>2
  <2>2. \A i \in DOMAIN pending' :
          pending'[i].item = "edge" /\ pending'[i].tag = "write" =>
            \A v \in EndsOf(Decoded(pending'[i])) :
              \/ v \in LiveVids'
              \/ \E t \in Task : Calls(t, "node", "write", v)'
              \/ \E j \in 1 .. i - 1 : QueuedAt(j, "node", "write", v)'
    BY <1>9, <1>10, <2>1
  <2>3. \A t \in Workers :
          arg'[t].op = "add_edge" => EndsOf(LinkOf(t)') \subseteq DOMAIN node_cache'
    BY <1>6, <1>9 DEF Mirroring, EndsReady
  <2> QED
    BY <2>2, <2>3 DEF EndsReady, Decoded
<1>17. StoreInv' /\ BeforeLoading'
  BY <1>0, <1>1, <1>2, <1>6, VarsSame DEF Mirroring, BeforeLoading, Loading
<1> QED
  BY <1>13, <1>14, <1>15, <1>16, <1>17 DEF MirrorHolds, Mirroring

\* A task starts a call.
LEMMA CallEffect ==
  ASSUME TypeInv, IndexInv, NEW t \in Task, Call(t)
  PROVE  /\ pc[t] = "idle" /\ pc'[t] # "idle"
         /\ node_cache' = node_cache
         /\ \A table : Live(table)' = Live(table)
         /\ LiveVids' = LiveVids /\ LiveLinks' = LiveLinks
         /\ StoreInv => StoreInv'
         /\ \A u \in Task \ {t} : pc'[u] = pc[u] /\ arg'[u] = arg[u]
         /\ \A table \in Table, tag \in Tag : \A name : ~Calls(t, table, tag, name)
         /\ \A u \in Task \ {t} : \A table, tag, name :
              Calls(u, table, tag, name)' <=> Calls(u, table, tag, name)
<1>1. pc[t] = "idle" /\ pc'[t] # "idle" /\ UNCHANGED shared
  BY CallFrame
<1>2. LiveVids' = LiveVids /\ LiveLinks' = LiveLinks /\ node_cache' = node_cache
  BY <1>1 DEF shared, LiveVids, LiveLinks, Ends
<1>3. StoreInv => StoreInv'
  <2>1. ~RemoveNode(t) /\ ~RemoveEdge(t)
    BY <1>1 DEF RemoveNode, RemoveEdge, At
  <2> QED
    BY <2>1, StoreInvKept
<1>4. \A u \in Task \ {t} : pc'[u] = pc[u] /\ arg'[u] = arg[u]
  BY OthersSee
<1>5. \A u \in Task \ {t} : \A table, tag, name :
        Calls(u, table, tag, name)' <=> Calls(u, table, tag, name)
  BY <1>4 DEF Calls, NamedBy, LinkOf
<1>6. \A table \in Table, tag \in Tag : \A name : ~Calls(t, table, tag, name)
  BY <1>1, IdleCalls
<1>7. \A table : Live(table)' = Live(table)
  BY <1>2 DEF Live
<1> QED
  BY <1>1, <1>2, <1>3, <1>4, <1>5, <1>6, <1>7

\* The call for a change of a row is about that row.
LEMMA RequestCalls ==
  ASSUME NEW t \in Task, NEW item \in Table, NEW itag \in Tag, NEW row \in NameOf(item),
         arg'[t] = RequestFor(item, itag, row),
         NEW table \in Table, NEW tag \in Tag, NEW name
  PROVE  Calls(t, table, tag, name)' <=> item = table /\ itag = tag /\ row = name
<1>1. arg'[t].op = Method(item, itag)
  BY DEF RequestFor
<1>2. item = table => NamedBy(t, table)' = row
  <2>1. CASE item = "node"
    BY <2>1 DEF RequestFor, NamedBy
  <2>2. CASE item = "edge"
    <3>1. row = <<row[1], row[2]>>
      BY <2>2, ConstantsAssumption DEF NameOf
    <3>2. arg'[t].vid = row[1] /\ arg'[t].to = row[2]
      BY <2>2 DEF RequestFor
    <3> QED
      BY <2>2, <3>1, <3>2 DEF NamedBy, LinkOf
  <2> QED
    BY <2>1, <2>2 DEF Table
<1>3. arg'[t].op = Method(table, tag) <=> item = table /\ itag = tag
  BY <1>1, Methods
<1> QED
  BY <1>2, <1>3 DEF Calls

LEMMA Rest ==
  ASSUME NEW S, NEW s \in Seq(S), 1 \in DOMAIN s
  PROVE  LET r == Feed!From(s, 2)
         IN  /\ Len(s) \in Nat /\ DOMAIN s = 1 .. Len(s) /\ Len(s) >= 1
             /\ DOMAIN r = 1 .. Len(s) - 1 /\ Len(r) = Len(s) - 1
             /\ \A i \in 1 .. Len(s) - 1 : r[i] = s[i + 1]
             /\ Len(s) = 1 => r = <<>>
             /\ Len(s) # 1 => r # <<>>
             /\ Head(s) = s[1] /\ s # <<>>
<1>1. /\ Len(s) \in Nat /\ DOMAIN s = 1 .. Len(s) /\ Len(s) >= 1
      /\ Head(s) = s[1] /\ s # <<>>
  OBVIOUS
<1>2. Feed!From(s, 2) = SubSeq(s, 2, Len(s))
  BY DEF Feed!From
<1>3. /\ Len(SubSeq(s, 2, Len(s))) = Len(s) - 1
      /\ DOMAIN SubSeq(s, 2, Len(s)) = 1 .. Len(s) - 1
      /\ \A i \in 1 .. Len(s) - 1 : SubSeq(s, 2, Len(s))[i] = s[i + 1]
  BY <1>1
<1>4. Len(s) = 1 => SubSeq(s, 2, Len(s)) = <<>>
  BY <1>1
<1>5. Len(s) # 1 => SubSeq(s, 2, Len(s)) # <<>>
  <2>1. \A r : Len(r) # 0 => r # <<>>
    OBVIOUS
  <2>2. Len(s) # 1 => Len(SubSeq(s, 2, Len(s))) # 0
    BY <1>1, <1>3
  <2> QED
    BY <2>1, <2>2
<1> QED
  BY <1>1, <1>2, <1>3, <1>4, <1>5

LEMMA HandOverKeeps ==
  ASSUME GraphInv, AppTypes, AloneInv, Alive, MirrorHolds, HandOver, Faithful'
  PROVE  MirrorHolds'
<1> USE MirrorAssumption
<1>0. /\ TypeInv /\ NamesInv /\ CallsInv /\ IndexInv
      /\ BeforeLoading /\ QueueNames /\ RemovalLast
  BY DEF GraphInv, MirrorHolds
<1>1. PICK t \in Workers : Spawn(t, Head(pending))
  BY DEF HandOver
<1>2. /\ mode = "open" /\ 1 \in DOMAIN pending /\ pending' = Feed!From(pending, 2)
      /\ UNCHANGED <<db, phase, todo, mode>>
  BY DEF HandOver, Feed!HandOver
<1>3. PICK n : n = Len(pending)
  OBVIOUS
<1>4. /\ n \in Nat /\ DOMAIN pending = 1 .. n /\ n >= 1
      /\ DOMAIN pending' = 1 .. n - 1 /\ Len(pending') = n - 1
      /\ \A i \in 1 .. n - 1 : pending'[i] = pending[i + 1]
      /\ n = 1 => pending' = <<>>
      /\ n # 1 => pending' # <<>>
      /\ Head(pending) = pending[1] /\ pending # <<>>
  <2>1. pending \in Seq(Change)
    BY DEF AppTypes
  <2> QED
    BY <1>2, <1>3, <2>1, Rest
<1>5. PICK item, itag, row :
        /\ item = pending[1].item /\ itag = pending[1].tag /\ row = Decoded(pending[1])
  OBVIOUS
<1>6. item \in Table /\ itag \in Tag /\ row \in NameOf(item)
  <2>1. pending[1] \in Change
    BY <1>4 DEF AppTypes
  <2> QED
    BY <1>0, <1>2, <1>5, <2>1 DEF Change, QueueNames
<1>7. /\ Call(t) /\ t \in Task /\ arg'[t] = RequestFor(item, itag, row)
      /\ past \subseteq past' /\ past' \subseteq past \cup {"race"}
  BY <1>1, <1>4, <1>5 DEF Spawn, Workers
<1>8. \A u \in Workers : pc[u] # "idle" => ~DependsOn(arg'[t], arg[u])
  BY <1>1, <1>4, <1>5, <1>7 DEF Spawn, Faithful
<1>9. /\ pc[t] = "idle" /\ pc'[t] # "idle"
      /\ node_cache' = node_cache
      /\ \A table : Live(table)' = Live(table)
      /\ LiveVids' = LiveVids /\ LiveLinks' = LiveLinks
      /\ StoreInv => StoreInv'
      /\ \A u \in Task \ {t} : pc'[u] = pc[u] /\ arg'[u] = arg[u]
      /\ \A table \in Table, tag \in Tag : \A name : ~Calls(t, table, tag, name)
      /\ \A u \in Task \ {t} : \A table, tag, name :
           Calls(u, table, tag, name)' <=> Calls(u, table, tag, name)
  BY <1>0, <1>7, CallEffect
<1>10. ~Done /\ Mirroring
  BY <1>4 DEF Done, MirrorHolds
<1>11. ~Loading /\ (\A other \in Table : Selected(other)) /\ pc[Main] = "idle"
  <2>1. ~Loading
    BY <1>2 DEF AloneInv
  <2> QED
    BY <2>1, Serving, ServingMainIdle
<1>12. \A u \in Task : pc[u] # "idle" => u \in Workers
  BY <1>11 DEF Workers
<1>13. ASSUME NEW table \in Table, NEW tag \in Tag, NEW name
       PROVE  /\ Calls(t, table, tag, name)' <=> QueuedAt(1, table, tag, name)
              /\ \A i \in 1 .. n - 1 :
                   QueuedAt(i, table, tag, name)' <=> QueuedAt(i + 1, table, tag, name)
  <2>1. Calls(t, table, tag, name)' <=> item = table /\ itag = tag /\ row = name
    BY <1>6, <1>7, RequestCalls
  <2>2. QueuedAt(1, table, tag, name) <=> item = table /\ itag = tag /\ row = name
    BY <1>5 DEF QueuedAt
  <2>3. \A i \in 1 .. n - 1 :
          QueuedAt(i, table, tag, name)' <=> QueuedAt(i + 1, table, tag, name)
    BY <1>4 DEF QueuedAt, Decoded
  <2> QED
    BY <2>1, <2>2, <2>3
<1>14. ASSUME NEW table \in Table, NEW tag \in Tag, NEW name
       PROVE  Due(table, tag, name)' <=> Due(table, tag, name)
  <2>1. (\E u \in Task : Calls(u, table, tag, name)') <=>
          QueuedAt(1, table, tag, name) \/ \E u \in Task : Calls(u, table, tag, name)
    BY <1>7, <1>9, <1>13
  <2>2. (\E i \in 1 .. n : QueuedAt(i, table, tag, name)) <=>
          \/ QueuedAt(1, table, tag, name)
          \/ \E i \in 1 .. n - 1 : QueuedAt(i, table, tag, name)'
    <3>1. ASSUME NEW i \in 1 .. n, QueuedAt(i, table, tag, name), i # 1
          PROVE  \E j \in 1 .. n - 1 : QueuedAt(j, table, tag, name)'
      <4>1. i - 1 \in 1 .. n - 1 /\ (i - 1) + 1 = i
        BY <1>4, <3>1
      <4> QED
        BY <1>13, <3>1, <4>1
    <3>2. \A i \in 1 .. n - 1 : i + 1 \in 1 .. n
      BY <1>4
    <3>3. 1 \in 1 .. n
      BY <1>4
    <3> QED
      BY <1>13, <3>1, <3>2, <3>3
  <2>3. Due(table, tag, name) <=>
          \/ \E i \in 1 .. n : QueuedAt(i, table, tag, name)
          \/ \E u \in Task : Calls(u, table, tag, name)
          \/ tag = "write" /\ [table |-> table, name |-> name] \in todo
    BY <1>4 DEF Due
  <2>4. Due(table, tag, name)' <=>
          \/ \E i \in 1 .. n - 1 : QueuedAt(i, table, tag, name)'
          \/ \E u \in Task : Calls(u, table, tag, name)'
          \/ tag = "write" /\ [table |-> table, name |-> name] \in todo
    BY <1>2, <1>4 DEF Due
  <2> QED
    BY <2>1, <2>2, <2>3, <2>4
<1>15. ASSUME NEW table \in Table
       PROVE  TableMirrored(table)'
  <2>1. TableMirrored(table) /\ "write" \in Tag /\ "delete" \in Tag
    BY <1>10, <1>11 DEF Mirroring, Tag
  <2> QED
    BY <1>2, <1>9, <1>14, <2>1 DEF TableMirrored
<1>16. QueueNames'
  <2>1. \A i \in DOMAIN pending' : Decoded(pending'[i]) \in NameOf(pending'[i].item)
    BY <1>0, <1>4 DEF QueueNames
  <2> QED
    BY <2>1 DEF QueueNames, Decoded
<1>17. BeforeLoading'
  BY <1>0, <1>2, <1>9, <1>11 DEF BeforeLoading, Loading
<1>18. ~Done'
  BY <1>9, <1>1 DEF Done
<1>19. RemovalLast'
  <2>1. \A i \in 1 .. n - 1 : pending'[i].tag = "delete" => "removal" \in past' /\ i = n - 1
    <3>1. ASSUME NEW i \in 1 .. n - 1, pending'[i].tag = "delete"
          PROVE  "removal" \in past /\ i = n - 1
      <4>1. i + 1 \in DOMAIN pending /\ pending[i + 1].tag = "delete"
        BY <1>4, <3>1
      <4>2. "removal" \in past /\ i + 1 = n
        BY <1>0, <1>3, <4>1 DEF RemovalLast
      <4> QED
        BY <1>4, <4>2
    <3> QED
      BY <1>7, <3>1
  <2>2. Removal(arg'[t].op) <=> itag = "delete"
    BY <1>6, <1>7, Methods DEF RequestFor
  <2>3. itag = "delete" => n = 1 /\ pending' = <<>> /\ "removal" \in past'
    <3>1. ASSUME itag = "delete"
          PROVE  "removal" \in past /\ 1 = n
      <4>1. 1 \in DOMAIN pending /\ pending[1].tag = "delete"
        BY <1>4, <1>5, <3>1
      <4> QED
        BY <1>0, <1>3, <4>1 DEF RemovalLast
    <3> QED
      BY <1>4, <1>7, <3>1
  <2>4. ASSUME NEW u \in Task, Removal(arg'[u].op)
        PROVE  /\ "removal" \in past' /\ pending' = <<>>
               /\ \A w \in Task \ {u} : pc'[w] = "idle"
    <3>1. u = t
      BY <1>0, <1>4, <1>9, <2>4 DEF RemovalLast
    <3>2. \A w \in Task \ {t} : pc[w] = "idle"
      BY <1>8, <1>12, <2>4, <3>1 DEF DependsOn
    <3> QED
      BY <1>9, <2>2, <2>3, <2>4, <3>1, <3>2
  <2>5. ASSUME "removal" \in past'
        PROVE  \/ pending' # <<>> /\ pending'[Len(pending')].tag = "delete"
               \/ pending' = <<>> /\ Removal(arg'[t].op)
    <3>1. pending[n].tag = "delete"
      BY <1>0, <1>3, <1>4, <1>7, <2>5 DEF RemovalLast
    <3>2. CASE n = 1
      BY <1>4, <1>5, <2>2, <3>1, <3>2
    <3>3. CASE n # 1
      <4>1. n - 1 \in 1 .. n - 1 /\ (n - 1) + 1 = n
        BY <1>4, <3>3
      <4> QED
        BY <1>4, <3>1, <3>3, <4>1
    <3> QED
      BY <3>2, <3>3
  <2> QED
    BY <1>4, <2>1, <2>4, <2>5 DEF RemovalLast
<1>20. EndsReady'
  <2>0. "node" \in Table /\ "edge" \in Table /\ "write" \in Tag
    BY DEF Table, Tag
  <2>1. ASSUME NEW i \in DOMAIN pending,
               pending[i].item = "edge", pending[i].tag = "write",
               NEW v \in EndsOf(Decoded(pending[i]))
        PROVE  \/ v \in LiveVids
               \/ \E u \in Task \ {t} : Calls(u, "node", "write", v)
               \/ \E j \in 1 .. i - 1 : QueuedAt(j, "node", "write", v)
    BY <1>9, <1>10, <2>0, <2>1 DEF Mirroring, EndsReady
  <2>2. ASSUME NEW i \in DOMAIN pending',
               pending'[i].item = "edge", pending'[i].tag = "write",
               NEW v \in EndsOf(Decoded(pending'[i]))
        PROVE  \/ v \in LiveVids'
               \/ \E u \in Task : Calls(u, "node", "write", v)'
               \/ \E j \in 1 .. i - 1 : QueuedAt(j, "node", "write", v)'
    <3>1. i + 1 \in DOMAIN pending /\ pending'[i] = pending[i + 1] /\ i \in 1 .. n - 1
      BY <1>4
    <3>2. \/ v \in LiveVids
          \/ \E u \in Task \ {t} : Calls(u, "node", "write", v)
          \/ \E j \in 1 .. (i + 1) - 1 : QueuedAt(j, "node", "write", v)
      BY <2>1, <2>2, <3>1
    <3>3. ASSUME NEW j \in 1 .. (i + 1) - 1, QueuedAt(j, "node", "write", v)
          PROVE  \/ Calls(t, "node", "write", v)'
                 \/ \E k \in 1 .. i - 1 : QueuedAt(k, "node", "write", v)'
      <4>1. CASE j = 1
        BY <1>13, <2>0, <3>3, <4>1
      <4>2. CASE j # 1
        <5>1. j - 1 \in 1 .. i - 1 /\ j - 1 \in 1 .. n - 1 /\ (j - 1) + 1 = j
          BY <1>4, <3>1, <4>2
        <5> QED
          BY <1>13, <2>0, <3>3, <5>1
      <4> QED
        BY <4>1, <4>2
    <3> QED
      BY <1>7, <1>9, <3>2, <3>3
  <2>3. ASSUME NEW u \in Workers, arg'[u].op = "add_edge"
        PROVE  (EndsOf(LinkOf(u)) \subseteq DOMAIN node_cache)'
    <3>1. CASE u # t
      <4>1. arg'[u] = arg[u] /\ LinkOf(u)' = LinkOf(u)
        BY <1>9, <3>1 DEF Workers, LinkOf
      <4> QED
        BY <1>9, <1>10, <2>3, <4>1 DEF Mirroring, EndsReady
    <3>2. CASE u = t
      <4>1. Method("edge", "write") = "add_edge"
        BY DEF Method
      <4>2. item = "edge" /\ itag = "write"
        BY <1>6, <1>7, <2>0, <2>3, <3>2, <4>1, Methods DEF RequestFor
      <4>3. LinkOf(t)' = row /\ EndsOf(row) = {arg'[t].vid, arg'[t].to}
        <5>1. arg'[t].vid = row[1] /\ arg'[t].to = row[2]
          BY <1>7, <4>2 DEF RequestFor
        <5>2. row = <<row[1], row[2]>>
          BY <1>6, <4>2, ConstantsAssumption DEF NameOf
        <5> QED
          BY <5>1, <5>2 DEF LinkOf, EndsOf
      <4>4. ASSUME NEW v \in EndsOf(row)
            PROVE  v \in DOMAIN node_cache
        <5>1. \A w \in Task : pc[w] # "idle" => arg[w].vid # v
          BY <1>8, <1>12, <4>3 DEF DependsOn
        <5>2. \A w \in Task : ~Calls(w, "node", "write", v)
          BY <1>0, <2>0, <5>1, IdleCalls DEF Calls, NamedBy
        <5>3. v \in LiveVids
          <6>1. /\ 1 \in DOMAIN pending /\ pending[1].item = "edge" /\ pending[1].tag = "write"
                /\ v \in EndsOf(Decoded(pending[1])) /\ 1 .. 1 - 1 = {}
            BY <1>4, <1>5, <4>2, <4>4
          <6> QED
            BY <2>1, <5>2, <6>1
        <5> QED
          BY <1>0, <5>1, <5>3 DEF NamesInv, VidsKnown, LiveVids
      <4> QED
        BY <1>9, <3>2, <4>3, <4>4
    <3> QED
      BY <3>1, <3>2
  <2>4. \A i \in DOMAIN pending' :
          pending'[i].item = "edge" /\ pending'[i].tag = "write" =>
            \A v \in EndsOf(Decoded(pending'[i])) :
              \/ v \in LiveVids'
              \/ \E u \in Task : Calls(u, "node", "write", v)'
              \/ \E j \in 1 .. i - 1 : QueuedAt(j, "node", "write", v)'
    BY <2>2
  <2> QED
    BY <2>3, <2>4 DEF EndsReady, Decoded
<1> QED
  BY <1>9, <1>10, <1>15, <1>16, <1>17, <1>18, <1>19, <1>20 DEF MirrorHolds, Mirroring

\* main adds a row that it has selected.
LEMMA LoadMirrors ==
  ASSUME GraphInv, AppTypes, AloneInv, Alive, MirrorHolds, Load
  PROVE  MirrorHolds'
<1>0. /\ TypeInv /\ IndexInv /\ Main \in Task
      /\ BeforeLoading /\ QueueNames /\ RemovalLast
  BY MirrorAssumption DEF GraphInv, MirrorHolds
<1>1. PICK row \in todo :
        /\ Call(Main) /\ arg'[Main] = RequestFor(row.table, "write", row.name)
        /\ todo' = todo \ {row}
  BY DEF Load
<1>2. /\ phase \in {"addNodes", "addEdges"}
      /\ UNCHANGED <<db, phase, past, pending>>
  BY DEF Load, feed
<1>3. pending = <<>> /\ "removal" \notin past /\ \A t \in Workers : pc[t] = "idle"
  BY <1>0, <1>2 DEF Loading, AloneInv, BeforeLoading
<1>4. /\ row.table \in Table /\ "write" \in Tag /\ row.name \in NameOf(row.table)
      /\ row = [table |-> row.table, name |-> row.name]
  BY <1>1 DEF AppTypes, Row, Table, Tag, NameOf
<1>5. /\ pc[Main] = "idle" /\ pc'[Main] # "idle"
      /\ node_cache' = node_cache
      /\ \A table : Live(table)' = Live(table)
      /\ LiveVids' = LiveVids /\ LiveLinks' = LiveLinks
      /\ StoreInv => StoreInv'
      /\ \A u \in Task \ {Main} : pc'[u] = pc[u] /\ arg'[u] = arg[u]
      /\ \A table \in Table, tag \in Tag : \A name : ~Calls(Main, table, tag, name)
      /\ \A u \in Task \ {Main} : \A table, tag, name :
           Calls(u, table, tag, name)' <=> Calls(u, table, tag, name)
  BY <1>0, <1>1, CallEffect
<1>6. ~Done /\ ~Done' /\ Mirroring
  BY <1>2, <1>3 DEF Done, MirrorHolds
<1>7. ASSUME NEW table \in Table, NEW tag \in Tag, NEW name
      PROVE  Due(table, tag, name)' <=> Due(table, tag, name)
  <2>1. Calls(Main, table, tag, name)' <=>
          row.table = table /\ tag = "write" /\ row.name = name
    BY <1>0, <1>1, <1>4, RequestCalls
  <2>2. [table |-> table, name |-> name] = row <=> row.table = table /\ row.name = name
    BY <1>4
  <2>3. Due(table, tag, name) <=>
          \/ \E u \in Task \ {Main} : Calls(u, table, tag, name)
          \/ tag = "write" /\ [table |-> table, name |-> name] \in todo
    BY <1>3, <1>5 DEF Due
  <2>4. Due(table, tag, name)' <=>
          \/ Calls(Main, table, tag, name)'
          \/ \E u \in Task \ {Main} : Calls(u, table, tag, name)'
          \/ tag = "write" /\ [table |-> table, name |-> name] \in todo \ {row}
    BY <1>0, <1>1, <1>2, <1>3 DEF Due
  <2> QED
    BY <1>1, <1>5, <2>1, <2>2, <2>3, <2>4
<1>8. ASSUME NEW table \in Table, Selected(table)'
      PROVE  TableMirrored(table)'
  <2>1. TableMirrored(table) /\ "write" \in Tag /\ "delete" \in Tag
    BY <1>2, <1>6, <1>8 DEF Mirroring, Selected, Tag
  <2> QED
    BY <1>2, <1>5, <1>7, <2>1 DEF TableMirrored
<1>9. BeforeLoading'
  BY <1>0, <1>2, <1>5 DEF BeforeLoading, Loading
<1>10. QueueNames'
  BY <1>2, <1>3 DEF QueueNames
<1>11. RemovalLast'
  <2>1. ~Removal(arg'[Main].op)
    BY <1>1, <1>4, Methods DEF RequestFor
  <2>2. \A t \in Task : ~Removal(arg'[t].op)
    BY <1>0, <1>3, <1>5, <2>1 DEF RemovalLast
  <2> QED
    BY <1>2, <1>3, <2>2 DEF RemovalLast
<1>12. EndsReady'
  <2>1. \A t \in Workers : arg'[t] = arg[t] /\ LinkOf(t)' = LinkOf(t)
    BY <1>5 DEF Workers, LinkOf
  <2> QED
    BY <1>2, <1>3, <1>5, <1>6, <2>1 DEF Mirroring, EndsReady
<1> QED
  BY <1>5, <1>6, <1>8, <1>9, <1>10, <1>11, <1>12 DEF MirrorHolds, Mirroring

\* A step after which nothing more is due, nor less.
LEMMA QuietKeeps ==
  ASSUME UNCHANGED vars, MirrorHolds, db' = db, pending' = pending, todo' = todo,
         "removal" \in past' <=> "removal" \in past, BeforeLoading',
         \A table \in Table : Selected(table)' => Selected(table)
  PROVE  MirrorHolds'
<1>1. RemovalLast' /\ (Done' <=> Done)
  BY QuietLast DEF MirrorHolds
<1>2. QueueNames'
  BY DEF MirrorHolds, QueueNames, Decoded
<1>3. Removed => Removed'
  BY VarsSame DEF Removed, Between
<1>4. Mirroring => Mirroring'
  <2>1. ASSUME Mirroring, NEW table \in Table, Selected(table)'
        PROVE  TableMirrored(table)'
    BY <2>1, QuietMirrors DEF Mirroring
  <2>2. Mirroring => StoreInv' /\ EndsReady'
    BY VarsSame, QuietReady DEF Mirroring
  <2> QED
    BY <2>1, <2>2 DEF Mirroring
<1> QED
  BY <1>1, <1>2, <1>3, <1>4 DEF MirrorHolds

\* main has added what it selected, or starts the watcher.
LEMMA MainGoesOn ==
  ASSUME Alive, MirrorHolds, Loaded \/ StartWatch
  PROVE  MirrorHolds'
<1>1. /\ <<phase, phase'>> \in {<<"addNodes", "selectEdges">>, <<"addEdges", "watch">>,
                                <<"watch", "serving">>}
      /\ UNCHANGED <<vars, db, todo, past>>
  BY DEF Loaded, StartWatch, NextPhase
<1>2. BeforeLoading /\ Loading
  BY <1>1 DEF MirrorHolds, Loading
<1>3. todo = {} /\ pending = <<>> /\ "removal" \notin past
  BY <1>1, <1>2 DEF Loaded, StartWatch, BeforeLoading
<1>4. pending' = pending
  BY <1>3 DEF Loaded, StartWatch, Feed!Run, feed
<1>5. BeforeLoading'
  BY <1>1, <1>2, <1>3, <1>4, VarsSame DEF BeforeLoading
<1>6. \A table \in Table : Selected(table)' => Selected(table)
  BY <1>1 DEF Selected, Table
<1> QED
  BY <1>1, <1>4, <1>5, <1>6, QuietKeeps

\* The watcher is opened, or fails, and has lost nothing.
LEMMA WatchingKeeps ==
  ASSUME MirrorHolds, Watching, Faithful'
  PROVE  MirrorHolds'
<1>1. pending' = pending
  BY DEF Watching, Faithful
<1>2. UNCHANGED <<vars, db, phase, todo>> /\ past' = past
  BY <1>1 DEF Watching
<1>3. BeforeLoading'
  BY <1>1, <1>2, VarsSame DEF MirrorHolds, BeforeLoading, Loading
<1>4. \A table \in Table : Selected(table)' => Selected(table)
  BY <1>2 DEF Selected
<1> QED
  BY <1>1, <1>2, <1>3, <1>4, QuietKeeps

\* main reads a table whose rows the graph has not.
LEMMA SelectKeeps ==
  ASSUME TypeInv, AppTypes, AloneInv, Alive, MirrorHolds, Select, Faithful'
  PROVE  MirrorHolds'
<1>0. BeforeLoading /\ QueueNames /\ RemovalLast
  BY DEF MirrorHolds
<1>1. /\ <<phase, Rows[phase], phase'>> \in {<<"selectNodes", "node", "addNodes">>,
                                             <<"selectEdges", "edge", "addEdges">>}
      /\ UNCHANGED <<vars, db, pending>>
  BY DEF Select, Rows, NextPhase, feed
<1>2. PICK read \in {db[Rows[phase]], {}} :
        /\ todo' = {[table |-> Rows[phase], name |-> n] : n \in read}
        /\ past' = past \cup IF read = db[Rows[phase]] THEN {} ELSE {"unread"}
  BY DEF Select
<1>3. read = db[Rows[phase]] /\ past' = past
  BY <1>2 DEF Faithful
<1>4. todo = {} /\ pending = <<>> /\ "removal" \notin past
  BY <1>0, <1>1 DEF BeforeLoading, Loading
<1>5. \A t \in Task : pc[t] = "idle"
  BY <1>1 DEF AloneInv, Loading, Workers
<1>6. \A table \in Table, tag \in Tag : \A name : ~Due(table, tag, name)
  BY <1>4, <1>5, IdleCalls DEF Due
<1>7. ASSUME NEW table \in Table, NEW tag \in Tag, NEW name
      PROVE  Due(table, tag, name)' <=>
               tag = "write" /\ table = Rows[phase] /\ name \in db[table]
  <2>1. \A t \in Task : ~Calls(t, table, tag, name)'
    <3>1. \A t \in Task : ~Calls(t, table, tag, name)
      BY <1>5, IdleCalls
    <3> QED
      BY <1>1, <3>1, VarsSame DEF Calls, NamedBy, LinkOf
  <2>2. Due(table, tag, name)' <=> tag = "write" /\ [table |-> table, name |-> name] \in todo'
    BY <1>1, <1>4, <2>1 DEF Due
  <2>3. [table |-> table, name |-> name] \in todo' <=> table = Rows[phase] /\ name \in db[table]
    <3>1. \A n : [table |-> table, name |-> name] = [table |-> Rows[phase], name |-> n]
                   <=> table = Rows[phase] /\ name = n
      OBVIOUS
    <3> QED
      BY <1>2, <1>3, <3>1
  <2> QED
    BY <2>2, <2>3
<1>8. ~Done /\ ~Done' /\ Mirroring
  BY <1>1, <1>3, <1>4 DEF Done, MirrorHolds
<1>9. ASSUME NEW table \in Table, Selected(table)'
      PROVE  TableMirrored(table)'
  <2>1. Live(table)' = Live(table) /\ "write" \in Tag /\ "delete" \in Tag /\ db' = db
    BY <1>1, VarsSame DEF Live, Tag
  <2>2. CASE table = Rows[phase]
    <3>1. Live(table) = {} /\ db[table] \subseteq NameOf(table)
      BY <1>0, <1>1, <2>2 DEF BeforeLoading, Live, AppTypes, NameOf
    <3> QED
      BY <1>7, <2>1, <2>2, <3>1 DEF TableMirrored
  <2>3. CASE table # Rows[phase]
    <3>1. Selected(table)
      BY <1>1, <1>9, <2>3 DEF Selected, Table
    <3>2. TableMirrored(table)
      BY <1>8, <3>1 DEF Mirroring
    <3> QED
      BY <1>6, <1>7, <2>1, <2>3, <3>2 DEF TableMirrored
  <2> QED
    BY <2>2, <2>3
<1>10. RemovalLast' /\ QueueNames' /\ EndsReady' /\ StoreInv'
  BY <1>0, <1>1, <1>3, <1>4, <1>8, QuietLast, QuietReady, VarsSame DEF QueueNames, Mirroring
<1>11. BeforeLoading'
  BY <1>0, <1>1, <1>3, <1>4, VarsSame DEF BeforeLoading
<1> QED
  BY <1>8, <1>9, <1>10, <1>11 DEF MirrorHolds, Mirroring

LEMMA StatementFrame ==
  ASSUME AppTypes, Statement
  PROVE  UNCHANGED <<vars, phase, todo, mode>> /\ past \subseteq past'
<1>1. PICK table \in Table, tag \in Tag :
        \E rows \in Seq(Known(table)), names \in SUBSET Known(table) :
          Commit(table, tag, rows, names)
  BY StatementIs
<1>2. PICK rows, names : Commit(table, tag, rows, names)
  BY <1>1
<1> QED
  BY <1>2 DEF Commit, Feed!Change

\* The watcher runs only while main serves.
WatchesServing == mode = "off" \/ phase = "serving"

LEMMA WatchesServingStep ==
  ASSUME AppTypes, AloneInv, WatchesServing, [MirrorNext]_<<vars, app>>
  PROVE  WatchesServing'
<1>1. CASE Statement \/ HandOver
  BY <1>1, StatementFrame DEF HandOver, Feed!HandOver, WatchesServing
<1>2. CASE Watching
  BY <1>2 DEF Watching, WatchesServing
<1>3. CASE UNCHANGED <<mode, phase>>
  BY <1>3 DEF WatchesServing
<1>4. CASE MainStep
  <2>1. CASE MainPanics
    BY <1>4, <2>1 DEF MainPanics, feed, AloneInv, WatchesServing
  <2>2. CASE StartWatch
    BY <2>2 DEF StartWatch, NextPhase, WatchesServing
  <2>3. CASE Select \/ Load \/ Loaded
    <3>1. phase \in {"selectNodes", "addNodes", "selectEdges", "addEdges"} /\ mode' = mode
      BY <2>3 DEF Select, Rows, Load, Loaded, feed
    <3> QED
      BY <3>1 DEF WatchesServing
  <2> QED
    BY <1>4, <2>1, <2>2, <2>3 DEF MainStep
<1>5. CASE UNCHANGED <<vars, app>> \/ \E t \in Task : Work(t)
  BY <1>3, <1>5 DEF Work, app, feed
<1> QED
  BY <1>1, <1>2, <1>4, <1>5 DEF MirrorNext

\* What is past stays so.
LEMMA PastGrows ==
  ASSUME AppTypes, [MirrorNext]_<<vars, app>>
  PROVE  past \subseteq past'
<1>1. CASE Statement
  BY <1>1, StatementFrame
<1>2. CASE MainStep \/ Watching
  BY <1>2 DEF MainStep, Select, MainPanics, Load, Loaded, StartWatch, Watching
<1>3. CASE HandOver
  BY <1>3 DEF HandOver, Spawn
<1>4. CASE UNCHANGED <<vars, app>> \/ \E t \in Task : Work(t)
  BY <1>4 DEF Work, app
<1> QED
  BY <1>1, <1>2, <1>3, <1>4 DEF MirrorNext

\* Nothing brings the application back.
LEMMA AliveBefore ==
  ASSUME TypeInv, AppTypes, [MirrorNext]_<<vars, app>>, Alive'
  PROVE  Alive
<1>0. Main \in Task
  BY MirrorAssumption
<1>1. ASSUME pc[Main] = "idle" => pc'[Main] = "idle" /\ reply'[Main] = reply[Main],
             phase' = phase, mode' = mode \/ mode # "off"
      PROVE  Alive
  BY <1>1 DEF Alive
<1>2. CASE Statement \/ Watching
  <2>1. UNCHANGED <<vars, phase>> /\ (mode' = mode \/ mode # "off")
    BY <1>2, StatementFrame DEF Watching
  <2> QED
    BY <1>1, <2>1, VarsSame
<1>3. CASE UNCHANGED <<vars, app>>
  BY <1>1, <1>3, VarsSame DEF app, feed
<1>4. CASE MainStep
  <2>1. CASE Load
    BY <2>1 DEF Load, Alive
  <2>2. CASE Select \/ Loaded \/ StartWatch
    <3>1. phase \notin {"dead", "serving"} /\ UNCHANGED vars
      BY <2>2 DEF Select, Rows, Loaded, StartWatch
    <3> QED
      BY <3>1, VarsSame DEF Alive
  <2>3. CASE MainPanics
    BY <2>3 DEF MainPanics, Alive
  <2> QED
    BY <1>4, <2>1, <2>2, <2>3 DEF MainStep
<1>5. CASE HandOver
  <2>1. PICK t \in Workers : Call(t)
    BY <1>5 DEF HandOver, Spawn
  <2>2. t \in Task /\ Main \in Task \ {t}
    BY <1>0, <2>1 DEF Workers
  <2>3. pc'[Main] = pc[Main] /\ reply'[Main] = reply[Main]
    BY <2>1, <2>2, CallFrame, OthersSee
  <2>4. phase' = phase /\ mode' = mode
    BY <1>5 DEF HandOver, Feed!HandOver
  <2> QED
    BY <1>1, <2>3, <2>4
<1>6. CASE \E t \in Task : Work(t)
  <2>1. PICK t \in Task : Step(t) /\ UNCHANGED app
    BY <1>6 DEF Work
  <2>2. pc[Main] = "idle" => t # Main
    BY <2>1, StepFrame
  <2>3. t # Main => pc'[Main] = pc[Main] /\ reply'[Main] = reply[Main]
    BY <1>0, <2>1, StepFrame, OthersSee
  <2> QED
    BY <1>1, <2>1, <2>2, <2>3 DEF app, feed
<1> QED
  BY <1>2, <1>3, <1>4, <1>5, <1>6 DEF MirrorNext

LEMMA MirrorInvStep ==
  ASSUME DistinctKeys, GraphInv, AppTypes, AloneInv, MirrorInv, [MirrorNext]_<<vars, app>>
  PROVE  MirrorInv'
<1>1. SUFFICES ASSUME Faithful', Alive' PROVE MirrorHolds'
  BY DEF MirrorInv
<1>2. TypeInv /\ Faithful /\ Alive /\ MirrorHolds
  BY <1>1, PastGrows, AliveBefore DEF GraphInv, Faithful, MirrorInv
<1>3. CASE Statement
  BY <1>1, <1>2, <1>3, EarlyStatementKeeps, StatementKeeps
<1>4. CASE MainStep
  <2>1. CASE MainPanics
    BY <1>1, <2>1 DEF MainPanics, Alive
  <2> QED
    BY <1>1, <1>2, <1>4, <2>1, SelectKeeps, LoadMirrors, MainGoesOn DEF MainStep
<1>5. CASE Watching \/ HandOver
  BY <1>1, <1>2, <1>5, WatchingKeeps, HandOverKeeps
<1>6. CASE \E t \in Task : Work(t)
  BY <1>1, <1>2, <1>6, WorkKeeps
<1>7. CASE UNCHANGED <<vars, app>>
  <2>1. /\ UNCHANGED vars /\ UNCHANGED <<db, pending, todo, past, phase>>
    BY <1>7 DEF app, feed
  <2>2. BeforeLoading' /\ \A table \in Table : Selected(table)' => Selected(table)
    BY <1>2, <2>1, VarsSame DEF MirrorHolds, BeforeLoading, Loading, Selected
  <2> QED
    BY <1>2, <2>1, <2>2, QuietKeeps
<1> QED
  BY <1>3, <1>4, <1>5, <1>6, <1>7 DEF MirrorNext

LEMMA MirrorInvInit ==
  ASSUME MirrorInit
  PROVE  MirrorInv /\ WatchesServing
<1>1. /\ graph = PG!EmptyGraph /\ \A t \in Task : arg[t].op = "none"
      /\ phase = "selectNodes" /\ todo = {} /\ pending = <<>> /\ past = {} /\ mode = "off"
  BY DEF MirrorInit, Init, Feed!FeedInit, NoCall
<1>2. StoreInv
  BY GraphStarts, StoreInvInit
<1>3. LiveVids = {} /\ LiveLinks = {}
  BY <1>1 DEF PG!EmptyGraph, LiveVids, LiveLinks
<1>4. BeforeLoading /\ QueueNames /\ ~Done
  BY <1>1, <1>3 DEF BeforeLoading, QueueNames, Done
<1>5. RemovalLast /\ EndsReady
  BY <1>1 DEF RemovalLast, EndsReady, Removal, Workers
<1>6. \A table \in Table : ~Selected(table)
  BY <1>1 DEF Selected, Table
<1> QED
  BY <1>1, <1>2, <1>4, <1>5, <1>6 DEF MirrorInv, MirrorHolds, Mirroring, WatchesServing

\* What is owed, as the invariant says it.
LEMMA OwedIsDue ==
  ASSUME TypeInv, CallsInv, AppTypes, AloneInv, Alive, BeforeLoading, QueueNames, ~Loading,
         NEW table \in Table, NEW tag \in Tag
  PROVE  /\ Owed(table, tag) \subseteq NameOf(table)
         /\ \A name : name \in Owed(table, tag) <=> Due(table, tag, name)
<1>1. todo = {} /\ pc[Main] = "idle" /\ Main \in Task
  BY Serving, ServingMainIdle, MirrorAssumption DEF BeforeLoading
<1>2. ASSUME NEW name
      PROVE  name \in Owed(table, tag) <=> Due(table, tag, name)
  <2>1. name \in Owed(table, tag) <=>
          \/ \E i \in DOMAIN pending : QueuedAt(i, table, tag, name)
          \/ \E t \in Workers : Calls(t, table, tag, name)
    BY DEF Owed, QueuedAt, Calls, NamedBy, LinkOf
  <2>2. ~Calls(Main, table, tag, name)
    BY <1>1, IdleCalls
  <2> QED
    BY <1>1, <2>1, <2>2 DEF Due, Workers
<1>3. ASSUME NEW name, Due(table, tag, name)
      PROVE  name \in NameOf(table)
  <2>1. CASE \E i \in DOMAIN pending : QueuedAt(i, table, tag, name)
    BY <2>1 DEF QueuedAt, QueueNames
  <2>2. CASE \E t \in Task : Calls(t, table, tag, name)
    <3>1. PICK t \in Task : Calls(t, table, tag, name)
      BY <2>2
    <3>2. pc[t] # "idle"
      BY <3>1, IdleCalls
    <3>3. arg[t] \in Requests
      BY <3>2 DEF CallsInv
    <3>4. arg[t].op = Method(table, tag) /\ name = NamedBy(t, table)
      BY <3>1 DEF Calls
    <3>5. CASE table = "node"
      BY <3>3, <3>4, <3>5 DEF Request, Requests, NamedBy, NameOf
    <3>6. CASE table = "edge"
      BY <3>3, <3>4, <3>6 DEF Requests, NamedBy, NameOf, LinkOf, Method, Tag, NodeOps, EdgeOps
    <3> QED
      BY <3>5, <3>6 DEF Table
  <2> QED
    BY <1>1, <1>3, <2>1, <2>2 DEF Due
<1> QED
  BY <1>2, <1>3

LEMMA MirrorInvMirrors ==
  ASSUME GraphInv, AppTypes, AloneInv, MirrorInv, WatchesServing
  PROVE  Mirrored
<1>1. SUFFICES ASSUME mode = "open", Faithful
               PROVE  /\ (LiveVids \cup Owed("node", "write")) \ Owed("node", "delete")
                           = db["node"]
                      /\ Between((JoinedLinks \cup Owed("edge", "write"))
                                   \ Owed("edge", "delete"))
                           = Between(db["edge"])
  BY DEF Mirrored, Faithful, JoinedLinks
<1>2. phase = "serving" /\ ~Loading
  BY <1>1 DEF WatchesServing, Loading
<1>3. Alive
  BY <1>1, <1>2 DEF AloneInv, Alive
<1>4. /\ TypeInv /\ CallsInv
      /\ BeforeLoading /\ QueueNames
      /\ IF Done THEN Removed ELSE Mirroring
  BY <1>1, <1>3 DEF GraphInv, MirrorInv, MirrorHolds
<1>5. \A table \in Table, tag \in Tag :
        /\ Owed(table, tag) \subseteq NameOf(table)
        /\ \A name : name \in Owed(table, tag) <=> Due(table, tag, name)
  BY <1>2, <1>3, <1>4, OwedIsDue
<1>6. "node" \in Table /\ "edge" \in Table /\ "write" \in Tag /\ "delete" \in Tag
  BY DEF Table, Tag
<1>7. CASE Done
  <2>1. \A table \in Table, tag \in Tag : Owed(table, tag) = {}
    <3>1. pending = <<>> /\ \A t \in Workers : pc[t] = "idle"
      BY <1>7 DEF Done
    <3>2. \A table \in Table, tag \in Tag : \A t \in Workers : arg[t].op # Method(table, tag)
      BY <1>4, <3>1, IdleCalls, Methods DEF Workers
    <3> QED
      BY <3>1, <3>2 DEF Owed
  <2> QED
    BY <1>4, <1>6, <1>7, <2>1 DEF Removed
<1>8. CASE ~Done
  <2>1. TableMirrored("node") /\ TableMirrored("edge") /\ RightIndices
    BY <1>2, <1>3, <1>4, <1>6, <1>8, Serving DEF Mirroring, GraphInv, IndexInv, StoreInv
  <2>2. LiveVids \subseteq Vid /\ JoinedLinks \subseteq Link /\ JoinedLinks = LiveLinks
    BY <1>4, <2>1, LiveNames, JoinedEnds
  <2>3. db["node"] \subseteq Vid /\ db["edge"] \subseteq Link
    BY DEF AppTypes
  <2>4. (LiveVids \cup Owed("node", "write")) \ Owed("node", "delete") = db["node"]
    BY <1>5, <1>6, <2>1, <2>2, <2>3 DEF TableMirrored, NameOf, Live
  <2>5. (JoinedLinks \cup Owed("edge", "write")) \ Owed("edge", "delete") = db["edge"]
    BY <1>5, <1>6, <2>1, <2>2, <2>3 DEF TableMirrored, NameOf, Live
  <2> QED
    BY <2>4, <2>5
<1> QED
  BY <1>7, <1>8

\* While the application serves, the graph and what the watcher and the tasks
\* have yet to do to it make up the rows of the database, however calls that do
\* not depend on each other overlap; Mirrored says of which statements
\* (examples/graph.rs:28-31, 75, 103, 174).
THEOREM TablesMirrored == ASSUME DistinctKeys PROVE MirrorSpec => []Mirrored
<1> DEFINE Inv == GraphInv /\ AppTypes /\ AloneInv /\ MirrorInv /\ WatchesServing
<1>1. MirrorInit => Inv
  BY GraphInvInit, AppTypesInit, LoadInvInit, MirrorInvInit DEF LoadInv
<1>2. Inv /\ [MirrorNext]_<<vars, app>> => Inv'
  BY GraphInvStep, AppTypesStep, AloneInvStep, MirrorInvStep, WatchesServingStep
<1>3. Inv => Mirrored
  BY MirrorInvMirrors
<1> QED
  BY <1>1, <1>2, <1>3, PTL DEF MirrorSpec
=============================================================================
