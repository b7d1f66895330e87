----------------------------- MODULE PathSearch -----------------------------
(***************************************************************************)
(* examples/graph.rs: find, the handler of GET /find.  Under one read      *)
(* guard of GRAPH.inner it looks with astar for a path between two nodes,  *)
(* which it knows by their indices, and prints what it found.  Meanwhile   *)
(* other tasks call the methods of GRAPH, a GraphInstance<Undirected> that *)
(* read_data has filled.                                                   *)
(*                                                                         *)
(* Every edge costs 0 and so does every estimate: the heap of astar may    *)
(* pop any node it holds, and the first score of a node is never improved. *)
(***************************************************************************)
EXTENDS GraphRequirements

CONSTANTS
  Searcher,      \* the tasks that run find; they call no method
  Start, Target, \* the indices of the two nodes
  Rows           \* the vids of the node table, in the order they were loaded

VARIABLES
  at,         \* where find is: "idle", "lock", "search", "print"
  came_from,  \* for every node with a score, the one it was reached from
  visit_next, \* the heap of astar
  path,       \* what astar returned, <<>> for None
  printed     \* how many steps of the path were printed

search == <<at, came_from, visit_next, path, printed>>

ASSUME SearchAssumption ==
  /\ Searcher \subseteq Task
  /\ Start \in Nat \ {0} /\ Target \in Nat \ {0} /\ Start # Target
  /\ Rows \in Seq(Vid) /\ \A i, j \in DOMAIN Rows : Rows[i] = Rows[j] => i = j
  /\ Link \subseteq {Rows[i] : i \in DOMAIN Rows} \X {Rows[i] : i \in DOMAIN Rows}

Callers == Task \ Searcher

\* read_data has loaded all nodes, and an edge table with some of the links.
Position(v) == CHOOSE i \in DOMAIN Rows : Rows[i] = v

Index(links) == CHOOSE f \in [links -> 1 .. Cardinality(links)] :
                  \A k, l \in links : f[k] = f[l] => k = l

SearchInit ==
  /\ \E links \in SUBSET Link :
       LET index == Index(links)
           nth(e) == CHOOSE l \in links : index[l] = e
       IN  /\ graph = [nodes |-> [i \in DOMAIN Rows |-> [vid |-> Rows[i], data |-> NoData]],
                       edges |-> [e \in 1 .. Cardinality(links) |->
                         [src |-> Position(nth(e)[1]), dst |-> Position(nth(e)[2]),
                          weight |-> [src_vid |-> nth(e)[1], dst_vid |-> nth(e)[2],
                                      data |-> NoData]]]]
           /\ edge_cache = [k \in {EdgeKey(l[1], l[2]) : l \in links} |->
                              index[CHOOSE l \in links : EdgeKey(l[1], l[2]) = k]]
  /\ node_cache = [v \in {Rows[i] : i \in DOMAIN Rows} |-> Position(v)]
  /\ queue = [l \in Lock |-> <<>>]
  /\ pc = [t \in Task |-> "idle"]
  /\ arg = [t \in Task |-> NoCall]
  /\ seen = [t \in Task |-> <<0, 0>>]
  /\ reply = [t \in Task |-> Reply("None")]
  /\ at = [s \in Searcher |-> "idle"]
  /\ came_from = [s \in Searcher |-> <<>>]
  /\ visit_next = [s \in Searcher |-> {}]
  /\ path = [s \in Searcher |-> <<>>]
  /\ printed = [s \in Searcher |-> 0]
-----------------------------------------------------------------------------
\* Mutant of Neighbors: a graph whose edges lead one way.
NeighborsDirected(g, n) == {g.edges[e].dst : e \in {d \in DOMAIN g.edges : g.edges[d].src = n}}

\* Graph::edges, and the other end of each edge.  None for a missing node.
Neighbors(g, n) ==
  {IF g.edges[e].src = n THEN g.edges[e].dst ELSE g.edges[e].src : e \in PG!Incident(g, n)}

Goto(s, step) == at' = [at EXCEPT ![s] = step]

InnerLine(line) == queue' = [queue EXCEPT !["inner"] = line]

\* A request arrives and the handler asks for the guard.
Find(s) ==
  /\ at[s] = "idle"
  /\ Goto(s, "lock")
  /\ InnerLine(RW!Enter(queue["inner"], s, "read"))
  /\ UNCHANGED <<came_from, visit_next, path, printed>>

\* The connection is closed while the handler waits: its future is dropped.
Disconnect(s) ==
  /\ at[s] = "lock"
  /\ Goto(s, "idle")
  /\ InnerLine(RW!Leave(queue["inner"], s))
  /\ UNCHANGED <<came_from, visit_next, path, printed>>

Begin(s) ==
  /\ Goto(s, "search")
  /\ came_from' = [came_from EXCEPT ![s] = [n \in {Start} |-> 0]]
  /\ visit_next' = [visit_next EXCEPT ![s] = {Start}]
  /\ UNCHANGED <<path, printed>>

\* Mutant of Locked: the indices are kept and the guard is not.
LockedNoMore(s) ==
  /\ at[s] = "lock" /\ RW!Granted(queue["inner"], s)
  /\ Begin(s)
  /\ InnerLine(RW!Leave(queue["inner"], s))

Locked(s) ==
  /\ at[s] = "lock" /\ RW!Granted(queue["inner"], s)
  /\ Begin(s)
  /\ UNCHANGED queue

\* PathTracker::reconstruct_path_to
PathTo(from, node) ==
  LET To[n \in DOMAIN from] == IF n = Start THEN <<n>> ELSE Append(To[from[n]], n)
  IN  To[node]

\* astar returns p.
Answer(s, p) ==
  /\ Goto(s, "print")
  /\ path' = [path EXCEPT ![s] = p]
  /\ came_from' = [came_from EXCEPT ![s] = <<>>]
  /\ visit_next' = [visit_next EXCEPT ![s] = {}]
  /\ UNCHANGED printed

\* Mutant of Pushed: a node with a score is pushed again.
PushedAgain(s, node) == Neighbors(graph, node)

Pushed(s, node) == Neighbors(graph, node) \ DOMAIN came_from[s]

Pop(s) ==
  /\ at[s] = "search"
  /\ \E node \in visit_next[s] :
       IF node = Target THEN Answer(s, PathTo(came_from[s], node))
       ELSE /\ visit_next' = [visit_next EXCEPT ![s] = (@ \ {node}) \cup Pushed(s, node)]
            /\ came_from' = [came_from EXCEPT ![s] = Extend([n \in Pushed(s, node) |-> node], @)]
            /\ UNCHANGED <<at, path, printed>>
  /\ UNCHANGED queue

NotFound(s) ==
  /\ at[s] = "search" /\ visit_next[s] = {}
  /\ Answer(s, <<>>)
  /\ UNCHANGED queue

\* One step of the path: graph[src], graph[dst] and an edge between them.  The
\* first two would panic if the nodes were gone (see AnswerHolds).
Hop(s) ==
  /\ at[s] = "print" /\ printed[s] + 1 < Len(path[s])
  /\ printed' = [printed EXCEPT ![s] = @ + 1]
  /\ UNCHANGED <<at, came_from, visit_next, path, queue>>

\* The end of find, where its guard is dropped.
Finish(s) ==
  /\ at[s] = "print" /\ printed[s] + 1 >= Len(path[s])
  /\ Goto(s, "idle")
  /\ path' = [path EXCEPT ![s] = <<>>]
  /\ printed' = [printed EXCEPT ![s] = 0]
  /\ InnerLine(RW!Leave(queue["inner"], s))
  /\ UNCHANGED <<came_from, visit_next>>

FindStep(s) ==
  /\ Locked(s) \/ Pop(s) \/ NotFound(s) \/ Hop(s) \/ Finish(s)
  /\ UNCHANGED <<shared, pc, arg, seen, reply>>

SearchNext ==
  \/ \E t \in Callers : (Call(t) \/ Step(t) \/ Cancel(t)) /\ UNCHANGED search
  \/ \E s \in Searcher : FindStep(s)
  \/ \E s \in Searcher : (Find(s) \/ Disconnect(s)) /\ UNCHANGED <<shared, pc, arg, seen, reply>>

SearchSpec == SearchInit /\ [][SearchNext]_<<vars, search>>

(***************************************************************************)
(* tokio polls a handler whose guard was granted; whether there are        *)
(* requests and calls is up to others.                                     *)
(***************************************************************************)
FairSearchSpec ==
  /\ SearchSpec
  /\ \A s \in Searcher : WF_<<vars, search>>(FindStep(s))
  /\ \A t \in Callers : WF_<<vars, search>>(Step(t) /\ UNCHANGED search)
=============================================================================
