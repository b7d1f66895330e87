---------------------------- MODULE SearchProofs ----------------------------
(***************************************************************************)
(* Proofs about PathSearch for any number of tasks that call methods or    *)
(* run find, any tables and any two indices.                               *)
(***************************************************************************)
EXTENDS SearchRequirements, GraphInstanceProofs, SequenceLemmas

-----------------------------------------------------------------------------
(***************************************************************************)
(* reconstruct_path_to.  What came_from says is a tree with the root       *)
(* Start: whoever follows it never walks in a circle.                      *)
(***************************************************************************)
Tree(from) ==
  /\ Start \in DOMAIN from /\ from[Start] = 0 /\ 0 \notin DOMAIN from
  /\ \A n \in DOMAIN from \ {Start} : from[n] \in DOMAIN from
  /\ \A S \in SUBSET DOMAIN from : S # {} => \E n \in S : from[n] \notin S

Follows(f, from) ==
  f = [n \in DOMAIN f |-> IF n = Start THEN <<n>> ELSE Append(f[from[n]], n)]

\* A solution of the equation of PathTo for some of the nodes.
Partial(f, from) ==
  /\ DOMAIN f \subseteq DOMAIN from
  /\ \A n \in DOMAIN f \ {Start} : from[n] \in DOMAIN f
  /\ Follows(f, from)

LEMMA PartialsAgree ==
  ASSUME NEW from, Tree(from), NEW f, NEW g, Partial(f, from), Partial(g, from),
         NEW n \in DOMAIN f \cap DOMAIN g
  PROVE  f[n] = g[n]
<1> DEFINE S == {m \in DOMAIN f \cap DOMAIN g : f[m] # g[m]}
<1>1. S \in SUBSET DOMAIN from
  BY DEF Partial
<1>2. ASSUME S # {}
      PROVE  FALSE
  <2>1. PICK m \in S : from[m] \notin S
    BY <1>1, <1>2 DEF Tree
  <2>2. /\ f[m] = IF m = Start THEN <<m>> ELSE Append(f[from[m]], m)
        /\ g[m] = IF m = Start THEN <<m>> ELSE Append(g[from[m]], m)
    BY DEF Partial, Follows
  <2> QED
    BY <2>1, <2>2 DEF Partial
<1> QED
  BY <1>2

LEMMA PartialFor ==
  ASSUME NEW from, Tree(from), NEW n \in DOMAIN from
  PROVE  \E f : Partial(f, from) /\ n \in DOMAIN f
<1> DEFINE S == {m \in DOMAIN from : ~ \E f : Partial(f, from) /\ m \in DOMAIN f}
<1>1. ASSUME S # {}
      PROVE  FALSE
  <2>1. PICK m \in S : from[m] \notin S
    BY <1>1 DEF Tree
  <2>2. CASE m = Start
    <3> DEFINE f == [k \in {Start} |-> <<k>>]
    <3>1. Partial(f, from) /\ m \in DOMAIN f
      BY <2>2 DEF Partial, Follows, Tree
    <3> QED
      BY <3>1
  <2>3. CASE m # Start
    <3>1. PICK f : Partial(f, from) /\ from[m] \in DOMAIN f
      BY <2>1, <2>3 DEF Tree
    <3>2. m \notin DOMAIN f
      BY <3>1
    <3> DEFINE g == [k \in DOMAIN f \cup {m} |->
                       IF k = m THEN Append(f[from[m]], m) ELSE f[k]]
    <3>3. DOMAIN g = DOMAIN f \cup {m} /\ g[m] = Append(f[from[m]], m)
          /\ \A k \in DOMAIN f : g[k] = f[k]
      BY <3>2
    <3>4. \A k \in DOMAIN f : f[k] = IF k = Start THEN <<k>> ELSE Append(f[from[k]], k)
      BY <3>1 DEF Partial, Follows
    <3>5. \A k \in DOMAIN g : g[k] = IF k = Start THEN <<k>> ELSE Append(g[from[k]], k)
      BY <2>3, <3>1, <3>2, <3>3, <3>4 DEF Partial
    <3>6. g = [k \in DOMAIN g |-> g[k]]
      OBVIOUS
    <3> HIDE DEF g
    <3>7. Follows(g, from)
      BY <3>5, <3>6 DEF Follows
    <3>8. Partial(g, from)
      BY <3>1, <3>3, <3>7 DEF Partial
    <3> QED
      BY <3>3, <3>8
  <2> QED
    BY <2>2, <2>3
<1> QED
  BY <1>1

LEMMA PathToExists ==
  ASSUME NEW from, Tree(from)
  PROVE  \E f : f = [n \in DOMAIN from |-> IF n = Start THEN <<n>> ELSE Append(f[from[n]], n)]
<1> DEFINE Some(n) == CHOOSE f : Partial(f, from) /\ n \in DOMAIN f
           F == [n \in DOMAIN from |-> Some(n)[n]]
<1>1. \A n \in DOMAIN from : Partial(Some(n), from) /\ n \in DOMAIN Some(n)
  BY PartialFor
<1> HIDE DEF Some
<1>2. ASSUME NEW n \in DOMAIN from
      PROVE  F[n] = IF n = Start THEN <<n>> ELSE Append(F[from[n]], n)
  <2>1. Some(n)[n] = IF n = Start THEN <<n>> ELSE Append(Some(n)[from[n]], n)
    BY <1>1 DEF Partial, Follows
  <2>2. CASE n # Start
    <3>1. from[n] \in DOMAIN from /\ from[n] \in DOMAIN Some(n)
      BY <1>1, <2>2 DEF Partial, Tree
    <3>2. Some(n)[from[n]] = Some(from[n])[from[n]]
      BY <1>1, <3>1, PartialsAgree
    <3> QED
      BY <2>1, <2>2, <3>1, <3>2
  <2> QED
    BY <2>1, <2>2
<1>3. F = [n \in DOMAIN from |-> IF n = Start THEN <<n>> ELSE Append(F[from[n]], n)]
  BY <1>2
<1> QED
  BY <1>3

LEMMA PathToIs ==
  ASSUME NEW from, Tree(from), NEW n \in DOMAIN from
  PROVE  PathTo(from, n) = IF n = Start THEN <<n>> ELSE Append(PathTo(from, from[n]), n)
<1> DEFINE F == CHOOSE f : f = [m \in DOMAIN from |->
                                  IF m = Start THEN <<m>> ELSE Append(f[from[m]], m)]
<1>1. F = [m \in DOMAIN from |-> IF m = Start THEN <<m>> ELSE Append(F[from[m]], m)]
  BY PathToExists
<1>2. \A m : PathTo(from, m) = F[m]
  BY DEF PathTo
<1> HIDE DEF F
<1> QED
  BY <1>1, <1>2

\* A path follows the tree from its root, and hence passes no node twice.
LEMMA PathLeads ==
  ASSUME NEW from, DOMAIN from \subseteq Nat, Tree(from), NEW node \in DOMAIN from
  PROVE  LET p == PathTo(from, node)
         IN  /\ p \in Seq(DOMAIN from) /\ Len(p) > 0 /\ p[1] = Start /\ p[Len(p)] = node
             /\ \A i \in 1 .. Len(p) - 1 : p[i + 1] # Start /\ p[i] = from[p[i + 1]]
<1> DEFINE Leads(n) ==
             LET p == PathTo(from, n)
             IN  /\ p \in Seq(DOMAIN from) /\ Len(p) > 0 /\ p[1] = Start /\ p[Len(p)] = n
                 /\ \A i \in 1 .. Len(p) - 1 : p[i + 1] # Start /\ p[i] = from[p[i + 1]]
           S == {n \in DOMAIN from : ~Leads(n)}
<1>1. ASSUME S # {}
      PROVE  FALSE
  <2>1. PICK n \in S : from[n] \notin S
    BY <1>1 DEF Tree
  <2>2. CASE n = Start
    <3> DEFINE q == PathTo(from, n)
    <3>1. q = <<n>>
      BY <2>2, PathToIs
    <3> HIDE DEF q
    <3>2. /\ q \in Seq(DOMAIN from) /\ Len(q) > 0 /\ q[1] = Start /\ q[Len(q)] = n
          /\ \A i \in 1 .. Len(q) - 1 : q[i + 1] # Start /\ q[i] = from[q[i + 1]]
      BY <2>1, <2>2, <3>1
    <3>3. Leads(n)
      BY <3>2, Zenon DEF q
    <3> QED
      BY <2>1, <3>3
  <2>3. CASE n # Start
    <3> DEFINE p == PathTo(from, from[n])
               q == PathTo(from, n)
    <3>1. /\ p \in Seq(DOMAIN from) /\ Len(p) > 0 /\ p[1] = Start /\ p[Len(p)] = from[n]
          /\ \A i \in 1 .. Len(p) - 1 : p[i + 1] # Start /\ p[i] = from[p[i + 1]]
      BY <2>1, <2>3 DEF Tree
    <3>2. q = Append(p, n)
      BY <2>3, PathToIs
    <3> HIDE DEF p, q
    <3>3. /\ q \in Seq(DOMAIN from) /\ Len(q) = Len(p) + 1 /\ q[Len(q)] = n
          /\ \A i \in 1 .. Len(p) : q[i] = p[i]
      BY <3>1, <3>2
    <3>4. ASSUME NEW i \in 1 .. Len(q) - 1
          PROVE  q[i + 1] # Start /\ q[i] = from[q[i + 1]]
      <4>0. Len(p) \in Nat /\ i \in 1 .. Len(p) /\ q[i] = p[i]
        BY <3>1, <3>3
      <4>1. CASE i = Len(p)
        BY <2>3, <3>1, <3>3, <4>0, <4>1
      <4>2. CASE i # Len(p)
        <5>1. i \in 1 .. Len(p) - 1 /\ q[i + 1] = p[i + 1]
          BY <3>3, <4>0, <4>2
        <5> QED
          BY <3>1, <4>0, <5>1
      <4> QED
        BY <4>1, <4>2
    <3>5. q[1] = Start /\ Len(q) > 0
      <4>1. Len(p) \in Nat /\ 1 \in 1 .. Len(p)
        BY <3>1
      <4> QED
        BY <3>1, <3>3, <4>1
    <3>6. Leads(n)
      BY <3>3, <3>4, <3>5, Zenon DEF q
    <3> QED
      BY <2>1, <3>6
  <2> QED
    BY <2>2, <2>3
<1> QED
  BY <1>1

LEMMA PathSimple ==
  ASSUME NEW from, Tree(from), NEW p \in Seq(DOMAIN from), Len(p) > 0, p[1] = Start,
         \A i \in 1 .. Len(p) - 1 : p[i + 1] # Start /\ p[i] = from[p[i + 1]]
  PROVE  \A i, j \in DOMAIN p : p[i] = p[j] => i = j
<1> DEFINE Twice(i) == \E j \in 1 .. Len(p) : i < j /\ p[i] = p[j]
           S == {i \in 1 .. Len(p) : Twice(i)}
<1>1. ASSUME S # {}
      PROVE  FALSE
  <2>0. S \in SUBSET Nat
    OBVIOUS
  <2>1. PICK i \in S : \A k \in S : i <= k
    <3> HIDE DEF S
    <3> QED
      BY <1>1, <2>0, LeastNumber
  <2>2. PICK j \in 1 .. Len(p) : i < j /\ p[i] = p[j]
    BY <2>1
  <2>3. j - 1 \in 1 .. Len(p) - 1 /\ (j - 1) + 1 = j
    BY <2>1, <2>2
  <2>4. p[j] # Start /\ p[j - 1] = from[p[j]]
    BY <2>3
  <2>5. i # 1
    BY <2>2, <2>4
  <2>6. i - 1 \in 1 .. Len(p) - 1 /\ (i - 1) + 1 = i
    BY <2>1, <2>2, <2>5
  <2>7. p[i - 1] = from[p[i]]
    BY <2>6
  <2>8. i - 1 \in S
    BY <2>2, <2>3, <2>4, <2>6, <2>7
  <2> QED
    BY <2>1, <2>6, <2>8
<1>2. DOMAIN p = 1 .. Len(p) /\ Len(p) \in Nat
  OBVIOUS
<1> QED
  BY <1>1, <1>2
-----------------------------------------------------------------------------
(***************************************************************************)
(* The inductive invariant.  Searchers stand only in the line of inner, as *)
(* readers, and hold their guard while they search and print.  Typed is    *)
(* the invariant of the tasks that call methods (see GraphInstanceProofs). *)
(***************************************************************************)
SearchLines ==
  \A s \in Searcher :
    /\ Single(queue["inner"], s)
    /\ at[s] = "idle" => RW!Places(queue["inner"], s) = {}
    /\ at[s] \in {"search", "print"} => RW!Granted(queue["inner"], s)

Scores == UNION {[D -> Nat] : D \in SUBSET Nat}

SearchTypes ==
  /\ at \in [Searcher -> {"idle", "lock", "search", "print"}]
  /\ came_from \in [Searcher -> Scores]
  /\ visit_next \in [Searcher -> SUBSET Nat]
  /\ path \in [Searcher -> Seq(Nat)]
  /\ printed \in [Searcher -> Nat]

\* The nodes with a score are a tree of ways from Start along edges of the
\* graph; whatever was popped was not Target, and its neighbors have a score.
Explored(s) ==
  /\ Tree(came_from[s])
  /\ visit_next[s] \subseteq DOMAIN came_from[s]
  /\ DOMAIN came_from[s] \subseteq DOMAIN graph.nodes \cup {Start}
  /\ \A n \in DOMAIN came_from[s] \ {Start} : Adjacent(came_from[s][n], n)
  /\ \A n \in DOMAIN came_from[s] \ visit_next[s] :
       n # Target /\ Neighbors(graph, n) \subseteq DOMAIN came_from[s]

Searches ==
  \A s \in Searcher : IF at[s] = "search" THEN Explored(s)
                      ELSE came_from[s] = <<>> /\ visit_next[s] = {}

SearchInv ==
  Typed(Callers) /\ SearchLines /\ SearchTypes /\ Searches /\ AnswerHolds

LEMMA Apart ==
  /\ Searcher \subseteq Task /\ Callers \in SUBSET Task
  /\ \A s \in Searcher, t \in Callers : s # t
BY SearchAssumption DEF Callers

LEMMA InnerIsLine ==
  ASSUME Typed(Callers)
  PROVE  /\ queue \in [Lock -> Line] /\ "inner" \in Lock /\ queue["inner"] \in Line
BY QueueType DEF Typed, TypeOK, Lock
-----------------------------------------------------------------------------
(***************************************************************************)
(* The steps of a task that calls methods.                                 *)
(***************************************************************************)
\* Such a step takes the task out of a line, puts it there or does neither.
LEMMA CallerQueues ==
  ASSUME Typed(Callers), NEW t \in Callers, Call(t) \/ Step(t) \/ Cancel(t)
  PROVE  LET line == queue["inner"]
         IN  \/ queue'["inner"] \in {line, RW!Leave(line, t)}
             \/ /\ RW!Places(line, t) = {}
                /\ \E mode \in RW!Mode : queue'["inner"] = RW!Enter(line, t, mode)
<1> DEFINE line == queue["inner"]
<1>0. "inner" \in Lock /\ queue \in [Lock -> Line]
  BY InnerIsLine
<1>1. ASSUME NEW next, Proceed(t, next)
      PROVE  queue'["inner"] \in {line, RW!Leave(line, t)}
  BY <1>0, <1>1 DEF Proceed
<1>2. CASE Enqueue(t)
  <2>1. /\ pc[t] \in Awaiting /\ RW!Places(queue[Wants[pc[t]].lock], t) = {}
        /\ queue' = [queue EXCEPT ![Wants[pc[t]].lock] =
                       RW!Enter(queue[Wants[pc[t]].lock], t, Wants[pc[t]].mode)]
    BY <1>2 DEF Enqueue
  <2>2. Wants[pc[t]].mode \in RW!Mode
    BY <2>1, Steps
  <2>3. CASE Wants[pc[t]].lock = "inner"
    BY <1>0, <2>1, <2>2, <2>3
  <2>4. CASE Wants[pc[t]].lock # "inner"
    BY <1>0, <2>1, <2>4
  <2> QED
    BY <2>3, <2>4
<1>3. CASE Call(t) \/ FirstGuard(t) \/ AddNodeCheck(t) \/ AddNodeInsert(t) \/ AddNodePublish(t)
  <2>1. \E next : Proceed(t, next)
    BY <1>3 DEF Call, FirstGuard, AddNodeCheck, AddNodeInsert, StoreNode, AddNodePublish,
                Continue, Return
  <2> QED
    BY <1>1, <2>1
<1>4. CASE NodeLookup(t) \/ FindNode(t) \/ RemoveNode(t) \/ UpdateNode(t)
  <2>1. \E next : Proceed(t, next)
    BY <1>4 DEF NodeLookup, FindNode, RemoveNode, UpdateNode, Continue, Return
  <2> QED
    BY <1>1, <2>1
<1>5. CASE \/ AddEdgeCheck(t) \/ AddEdgeInsert(t) \/ AddEdgePublish(t)
           \/ EdgeLookup(t) \/ UpdateEdge(t) \/ RemoveEdge(t) \/ Cancel(t)
  <2>1. \E next : Proceed(t, next)
    BY <1>5 DEF AddEdgeCheck, AddEdgeInsert, StoreEdge, AddEdgePublish, EdgeLookup, UpdateEdge,
                RemoveEdge, Cancel, Continue, Return
  <2> QED
    BY <1>1, <2>1
<1> QED
  BY <1>2, <1>3, <1>4, <1>5 DEF Step

LEMMA CallerAlone ==
  ASSUME Typed(Callers), NEW t \in Callers
  PROVE  Single(queue["inner"], t)
BY DEF Typed, LinesOK, LinesOf, Lock

LEMMA CallerKeepsLines ==
  ASSUME Typed(Callers), SearchLines, NEW t \in Callers, Call(t) \/ Step(t) \/ Cancel(t),
         at' = at
  PROVE  SearchLines'
<1> DEFINE line == queue["inner"]
<1>1. line \in Line /\ Single(line, t) /\ t \in Task
  BY InnerIsLine, CallerAlone, Apart
<1>2. ASSUME NEW s \in Searcher
      PROVE  /\ Single(queue'["inner"], s)
             /\ at[s] = "idle" => RW!Places(queue'["inner"], s) = {}
             /\ at[s] \in {"search", "print"} => RW!Granted(queue'["inner"], s)
  <2>1. /\ Single(line, s) /\ s \in Task \ {t}
        /\ at[s] = "idle" => RW!Places(line, s) = {}
        /\ at[s] \in {"search", "print"} => RW!Granted(line, s)
    BY Apart DEF SearchLines
  <2>2. CASE queue'["inner"] = line
    BY <2>1, <2>2
  <2>3. CASE queue'["inner"] = RW!Leave(line, t)
    BY <1>1, <2>1, <2>3, LeaveLine
  <2>4. CASE /\ RW!Places(line, t) = {}
             /\ \E mode \in RW!Mode : queue'["inner"] = RW!Enter(line, t, mode)
    BY <1>1, <2>1, <2>4, EnterLine DEF Single
  <2> QED
    BY <2>2, <2>3, <2>4, CallerQueues
<1> QED
  BY <1>2 DEF SearchLines

\* The guard of find keeps the graph as it is: all that change it hold a guard
\* of inner for writing.
LEMMA GuardKeepsGraph ==
  ASSUME Typed(Callers), SearchLines, NEW t \in Callers, Call(t) \/ Step(t) \/ Cancel(t),
         NEW s \in Searcher, at[s] \in {"search", "print"}
  PROVE  graph' = graph
<1> DEFINE line == queue["inner"]
<1>1. line \in Line /\ t \in Task /\ s \in Task /\ s # t /\ RW!Granted(line, s)
  BY InnerIsLine, Apart DEF SearchLines
<1>2. ASSUME RW!Granted(line, t), ModeOf(pc[t], "inner") = "write"
      PROVE  FALSE
  <2>1. \A i \in RW!Places(line, t) : line[i].mode = "write"
    BY <1>2 DEF Typed, LinesOK, LinesOf, Lock
  <2> QED
    BY <1>1, <1>2, <2>1, Exclusion
<1>3. ~AddNodeInsert(t) /\ ~AddEdgeInsert(t)
  <2>1. ASSUME pc[t] \in {"addNodeInsert", "addEdgeInsert"}
        PROVE  FALSE
    <3>1. "inner" \in Holds(pc[t])
      BY <2>1, HoldsOfSteps
    <3>2. RW!Granted(line, t)
      BY <3>1 DEF Typed, LinesOK, LinesOf, Lock
    <3>3. ModeOf(pc[t], "inner") = "write"
      BY <2>1, WantsOfSteps DEF ModeOf
    <3> QED
      BY <1>2, <3>2, <3>3
  <2> QED
    BY <2>1 DEF AddNodeInsert, AddEdgeInsert, At
<1>4. ~RemoveNode(t) /\ ~UpdateNode(t) /\ ~UpdateEdge(t) /\ ~RemoveEdge(t)
  <2>1. ASSUME NEW step \in {"removeNode", "updateNode", "updateEdge", "removeEdge"},
               At(t, step)
        PROVE  FALSE
    <3>1. step \in Awaiting /\ Wants[step] = [lock |-> "inner", mode |-> "write"]
      BY Steps DEF Wants, WriteOf
    <3>2. pc[t] = step /\ RW!Granted(line, t)
      BY <2>1, <3>1 DEF At
    <3>3. ModeOf(pc[t], "inner") = "write"
      BY <3>1, <3>2 DEF ModeOf
    <3> QED
      BY <1>2, <3>2, <3>3
  <2> QED
    BY <2>1 DEF RemoveNode, UpdateNode, UpdateEdge, RemoveEdge
<1> QED
  BY <1>3, <1>4 DEF Step, Call, Cancel, Enqueue, FirstGuard, AddNodeCheck, AddNodePublish,
     NodeLookup, FindNode, AddEdgeCheck, AddEdgePublish, EdgeLookup, shared

\* AnswerHolds, for one searcher.
Truthful(s) ==
  at[s] = "print" =>
    IF path[s] = <<>>
    THEN \A n \in 1 .. Len(graph.nodes) : \A p \in [1 .. n -> DOMAIN graph.nodes] : ~IsPath(p)
    ELSE IsPath(path[s]) /\ \A i, j \in DOMAIN path[s] : path[s][i] = path[s][j] => i = j

LEMMA AnswersAre == AnswerHolds <=> \A s \in Searcher : Truthful(s)
BY DEF AnswerHolds, Truthful

LEMMA AnswerStays ==
  ASSUME NEW s \in Searcher, Truthful(s),
         at'[s] = "print" => at[s] = "print" /\ path'[s] = path[s] /\ graph' = graph
  PROVE  Truthful(s)'
<1>1. SUFFICES ASSUME at'[s] = "print"
               PROVE  Truthful(s)'
  BY DEF Truthful
<1>2. at[s] = "print" /\ path'[s] = path[s] /\ graph' = graph
  BY <1>1
<1>3. \A p : IsPath(p)' <=> IsPath(p)
  BY <1>2 DEF IsPath, Adjacent
<1>4. IsPath(path[s])' <=> IsPath(path[s])
  BY <1>2 DEF IsPath, Adjacent
<1> QED
  BY <1>2, <1>3, <1>4 DEF Truthful

LEMMA CallerHolds ==
  ASSUME SearchInv, NEW t \in Callers, Call(t) \/ Step(t) \/ Cancel(t), UNCHANGED search
  PROVE  SearchInv'
<1>1. Typed(Callers)'
  BY StepType, Apart DEF SearchInv
<1>2. SearchLines'
  BY CallerKeepsLines DEF SearchInv, search
<1>3. SearchTypes'
  BY DEF SearchInv, SearchTypes, search
<1>4. ASSUME NEW s \in Searcher, at[s] \in {"search", "print"}
      PROVE  graph' = graph
  BY <1>4, GuardKeepsGraph DEF SearchInv
<1>5. Searches'
  <2>1. ASSUME NEW s \in Searcher, at[s] = "search"
        PROVE  Explored(s)'
    <3>1. Explored(s) /\ graph' = graph
      BY <1>4, <2>1 DEF SearchInv, Searches
    <3> QED
      BY <3>1 DEF Explored, search, Adjacent, Neighbors, PG!Incident
  <2> QED
    BY <2>1 DEF SearchInv, Searches, search
<1>6. AnswerHolds'
  <2>1. \A s \in Searcher : Truthful(s)
    BY AnswersAre DEF SearchInv
  <2>2. \A s \in Searcher : Truthful(s)'
    BY <1>4, <2>1, AnswerStays DEF search
  <2> QED
    BY <2>2 DEF AnswerHolds, Truthful
<1> QED
  BY <1>1, <1>2, <1>3, <1>5, <1>6 DEF SearchInv
-----------------------------------------------------------------------------
(***************************************************************************)
(* The steps of find: the locks.                                           *)
(***************************************************************************)
Others == <<shared, pc, arg, seen, reply>>

\* s enters the line of inner, leaves it or stays where it is.
Moves(s, new) ==
  \/ new = queue["inner"]
  \/ new = RW!Leave(queue["inner"], s)
  \/ RW!Places(queue["inner"], s) = {} /\ new = RW!Enter(queue["inner"], s, "read")

LEMMA MovesLine ==
  ASSUME Typed(Callers), SearchLines, NEW s \in Searcher, NEW new, Moves(s, new)
  PROVE  /\ new \in Line /\ Single(new, s)
         /\ \A u \in Task \ {s} :
              LET line == queue["inner"]
              IN  /\ Single(line, u) => Single(new, u)
                  /\ RW!Places(new, u) # {} => RW!Places(line, u) # {}
                  /\ RW!Granted(line, u) => RW!Granted(new, u)
                  /\ \A i \in RW!Places(new, u) :
                       \E j \in RW!Places(line, u) : new[i] = line[j]
<1> DEFINE line == queue["inner"]
<1>1. line \in Line /\ s \in Task /\ Single(line, s)
  BY InnerIsLine, Apart DEF SearchLines
<1>2. CASE new = line
  BY <1>1, <1>2
<1>3. CASE new = RW!Leave(line, s)
  BY <1>1, <1>3, LeaveLine DEF Single
<1>4. CASE RW!Places(line, s) = {} /\ new = RW!Enter(line, s, "read")
  <2>1. "read" \in RW!Mode
    BY DEF RW!Mode
  <2>2. /\ new \in Line /\ RW!Places(new, s) = {Len(line) + 1}
        /\ \A u \in Task \ {s} :
             /\ RW!Places(new, u) = RW!Places(line, u)
             /\ \A i \in RW!Places(line, u) : new[i] = line[i]
             /\ RW!Granted(line, u) => RW!Granted(new, u)
    BY <1>1, <1>4, <2>1, EnterLine
  <2>3. Single(new, s)
    BY <2>2 DEF Single
  <2>4. ASSUME NEW u \in Task \ {s}
        PROVE  /\ Single(line, u) => Single(new, u)
               /\ RW!Places(new, u) # {} => RW!Places(line, u) # {}
               /\ RW!Granted(line, u) => RW!Granted(new, u)
               /\ \A i \in RW!Places(new, u) :
                    \E j \in RW!Places(line, u) : new[i] = line[j]
    BY <2>2, Zenon DEF Single
  <2> QED
    BY <2>2, <2>3, <2>4
<1> QED
  BY <1>2, <1>3, <1>4 DEF Moves

LEMMA MovesTyped ==
  ASSUME Typed(Callers), SearchLines, NEW s \in Searcher, NEW new, Moves(s, new),
         queue' = [queue EXCEPT !["inner"] = new], UNCHANGED Others
  PROVE  Typed(Callers)'
<1> DEFINE line == queue["inner"]
<1>1. queue \in [Lock -> Line] /\ "inner" \in Lock
  BY InnerIsLine
<1>2. /\ new \in Line
      /\ \A u \in Callers :
           /\ Single(line, u) => Single(new, u)
           /\ RW!Places(new, u) # {} => RW!Places(line, u) # {}
           /\ RW!Granted(line, u) => RW!Granted(new, u)
           /\ \A i \in RW!Places(new, u) :
                \E j \in RW!Places(line, u) : new[i] = line[j]
  BY MovesLine, Apart
<1>3. queue' \in [Lock -> Line] /\ queue'["inner"] = new
      /\ \A l \in Lock \ {"inner"} : queue'[l] = queue[l]
  BY <1>1, <1>2
<1>4. StoredOK'
  BY StoredSame DEF Others, Typed, TypeOK
<1>5. TasksOK'
  BY <1>3 DEF Others, Typed, TypeOK, TasksOK, Line, Place
<1>6. ASSUME NEW u \in Callers, NEW l \in Lock
      PROVE  LinesOf(u, l)'
  <2>1. LinesOf(u, l) /\ pc' = pc
    BY DEF Typed, LinesOK, Others
  <2>2. CASE l = "inner"
    BY <1>2, <1>3, <2>1, <2>2 DEF LinesOf
  <2>3. CASE l # "inner"
    BY <1>3, <2>1, <2>3 DEF LinesOf
  <2> QED
    BY <2>2, <2>3
<1> QED
  BY <1>4, <1>5, <1>6 DEF Typed, TypeOK, LinesOK

LEMMA MovesKeepsLines ==
  ASSUME Typed(Callers), SearchLines, SearchTypes, NEW s \in Searcher, NEW new, Moves(s, new),
         queue' = [queue EXCEPT !["inner"] = new], NEW step, at' = [at EXCEPT ![s] = step],
         step = "idle" => new = RW!Leave(queue["inner"], s),
         step \in {"search", "print"} => new = queue["inner"] /\ RW!Granted(queue["inner"], s)
  PROVE  SearchLines'
<1> DEFINE line == queue["inner"]
<1>1. line \in Line /\ s \in Task /\ Single(line, s) /\ queue'["inner"] = new
  BY InnerIsLine, Apart DEF SearchLines
<1>2. at'[s] = step /\ \A u \in Searcher \ {s} : at'[u] = at[u]
  BY DEF SearchTypes
<1>3. /\ Single(new, s)
      /\ step = "idle" => RW!Places(new, s) = {}
      /\ step \in {"search", "print"} => RW!Granted(new, s)
  BY <1>1, MovesLine, LeaveLine
<1>4. ASSUME NEW u \in Searcher \ {s}
      PROVE  /\ Single(new, u)
             /\ at[u] = "idle" => RW!Places(new, u) = {}
             /\ at[u] \in {"search", "print"} => RW!Granted(new, u)
  <2>1. u \in Task \ {s}
    BY Apart
  <2> QED
    BY <2>1, MovesLine DEF SearchLines
<1> QED
  BY <1>1, <1>2, <1>3, <1>4 DEF SearchLines
-----------------------------------------------------------------------------
(***************************************************************************)
(* The steps of find: the search.                                          *)
(***************************************************************************)
LEMMA NeighborsAre ==
  ASSUME NEW m, NEW n
  PROVE  n \in Neighbors(graph, m) <=> Adjacent(m, n)
BY DEF Neighbors, PG!Incident, Adjacent

LEMMA NeighborsExist ==
  ASSUME TypeOK, NEW m
  PROVE  Neighbors(graph, m) \subseteq DOMAIN graph.nodes /\ DOMAIN graph.nodes \subseteq Nat \ {0}
<1>1. PG!WellFormed(graph) /\ graph.nodes \in Seq(NodeM)
  BY DEF TypeOK, StoredOK
<1>2. DOMAIN graph.nodes \subseteq Nat \ {0}
  BY <1>1
<1> QED
  BY <1>1, <1>2 DEF Neighbors, PG!Incident, PG!WellFormed, PG!HasNode

LEMMA ScoresAre ==
  ASSUME NEW f
  PROVE  f \in Scores <=> /\ f = [n \in DOMAIN f |-> f[n]] /\ DOMAIN f \subseteq Nat
                          /\ \A n \in DOMAIN f : f[n] \in Nat
<1>1. ASSUME f \in Scores
      PROVE  f = [n \in DOMAIN f |-> f[n]] /\ DOMAIN f \subseteq Nat
             /\ \A n \in DOMAIN f : f[n] \in Nat
  <2>1. PICK D \in SUBSET Nat : f \in [D -> Nat]
    BY <1>1 DEF Scores
  <2> QED
    BY <2>1
<1>2. ASSUME f = [n \in DOMAIN f |-> f[n]], DOMAIN f \subseteq Nat,
             \A n \in DOMAIN f : f[n] \in Nat
      PROVE  f \in Scores
  <2>1. f \in [DOMAIN f -> Nat]
    BY <1>2
  <2> QED
    BY <1>2, <2>1 DEF Scores
<1> QED
  BY <1>1, <1>2

\* The root, and the nodes reached from one that is in the tree.
LEMMA TreeStarts ==
  LET f == [n \in {Start} |-> 0]
  IN  Tree(f) /\ f \in Scores /\ DOMAIN f = {Start}
<1> DEFINE f == [n \in {Start} |-> 0]
<1>1. Start \in Nat /\ Start # 0
  BY SearchAssumption
<1>2. DOMAIN f = {Start} /\ f[Start] = 0 /\ f = [n \in DOMAIN f |-> f[n]]
  OBVIOUS
<1> HIDE DEF f
<1>3. Tree(f)
  BY <1>1, <1>2 DEF Tree
<1>4. f \in Scores
  BY <1>1, <1>2, ScoresAre
<1> QED
  BY <1>2, <1>3, <1>4 DEF f

Grown(from, node, New) == Extend([n \in New |-> node], from)

Grew(from, node, New) ==
  LET f == Grown(from, node, New)
  IN  /\ Tree(f) /\ f \in Scores /\ DOMAIN f = DOMAIN from \cup New
      /\ \A n \in DOMAIN from : f[n] = from[n]
      /\ \A n \in New : f[n] = node

LEMMA TreeGrows ==
  ASSUME NEW from \in Scores, Tree(from), NEW node \in DOMAIN from,
         NEW New \in SUBSET (Nat \ {0}), New \cap DOMAIN from = {}
  PROVE  Grew(from, node, New)
<1> DEFINE f == Grown(from, node, New)
<1>1. f = [n \in New \cup DOMAIN from |-> IF n \in DOMAIN from THEN from[n] ELSE node]
  BY DEF Grown, Extend
<1> HIDE DEF f
<1>2. /\ DOMAIN f = DOMAIN from \cup New
      /\ \A n \in DOMAIN from : f[n] = from[n]
      /\ \A n \in New : f[n] = node
  BY <1>1
<1>3. f \in Scores
  <2>1. DOMAIN from \subseteq Nat /\ \A n \in DOMAIN from : from[n] \in Nat
    BY ScoresAre
  <2>2. f = [n \in DOMAIN f |-> f[n]]
    BY <1>1
  <2> QED
    BY <1>2, <2>1, <2>2, ScoresAre
<1>4. ASSUME NEW S \in SUBSET DOMAIN f, S # {}
      PROVE  \E n \in S : f[n] \notin S
  <2>1. CASE S \cap DOMAIN from = {}
    <3>1. PICK n \in S : n \in New
      BY <1>2, <1>4, <2>1
    <3>2. f[n] = node
      BY <1>2, <3>1
    <3> QED
      BY <2>1, <3>1, <3>2
  <2>2. CASE S \cap DOMAIN from # {}
    <3>1. PICK n \in S \cap DOMAIN from : from[n] \notin S \cap DOMAIN from
      BY <2>2 DEF Tree
    <3>2. from[n] \in DOMAIN from \cup {0} /\ 0 \notin DOMAIN f
      BY <1>2 DEF Tree
    <3>3. f[n] \notin S
      BY <1>2, <1>4, <3>1, <3>2
    <3> QED
      BY <3>1, <3>3
  <2> QED
    BY <2>1, <2>2
<1>5. Tree(f)
  BY <1>2, <1>4 DEF Tree
<1> QED
  BY <1>2, <1>3, <1>5 DEF f, Grew

\* What was found in a finished search: nothing, or a path.
LEMMA NothingFound ==
  ASSUME NEW s \in Searcher, Explored(s), visit_next[s] = {},
         NEW n \in Nat, n > 0, NEW p \in [1 .. n -> DOMAIN graph.nodes]
  PROVE  ~IsPath(p)
<1> DEFINE D == DOMAIN came_from[s]
           S == {i \in 1 .. n : p[i] \notin D}
<1>1. SUFFICES ASSUME IsPath(p)
               PROVE  FALSE
  OBVIOUS
<1>2. Len(p) = n /\ n \in 1 .. n
  OBVIOUS
<1>3. Start \in D /\ Target \notin D
  BY DEF Explored, Tree
<1>4. n \in S /\ S \in SUBSET Nat
  BY <1>1, <1>2, <1>3 DEF IsPath
<1>5. PICK i \in S : \A k \in S : i <= k
  <2> HIDE DEF S
  <2> QED
    BY <1>4, LeastNumber
<1>6. i # 1
  BY <1>1, <1>3 DEF IsPath
<1>7. i - 1 \in 1 .. Len(p) - 1 /\ (i - 1) + 1 = i /\ i - 1 \notin S /\ i - 1 \in 1 .. n
  BY <1>2, <1>5, <1>6
<1>8. p[i - 1] \in D /\ Adjacent(p[i - 1], p[i])
  BY <1>1, <1>7 DEF IsPath
<1>9. p[i] \in D
  BY <1>8, NeighborsAre DEF Explored
<1> QED
  BY <1>5, <1>9

LEMMA PathFound ==
  ASSUME NEW s \in Searcher, Explored(s), came_from[s] \in Scores, Target \in visit_next[s]
  PROVE  LET p == PathTo(came_from[s], Target)
         IN  /\ p \in Seq(Nat) /\ p # <<>> /\ IsPath(p)
             /\ \A i, j \in DOMAIN p : p[i] = p[j] => i = j
<1> DEFINE from == came_from[s]
           p == PathTo(from, Target)
<1>1. Tree(from) /\ DOMAIN from \subseteq Nat /\ Target \in DOMAIN from
  BY ScoresAre DEF Explored
<1>2. /\ p \in Seq(DOMAIN from) /\ Len(p) > 0 /\ p[1] = Start /\ p[Len(p)] = Target
      /\ \A i \in 1 .. Len(p) - 1 : p[i + 1] # Start /\ p[i] = from[p[i + 1]]
  BY <1>1, PathLeads
<1> HIDE DEF p
<1>3. \A i, j \in DOMAIN p : p[i] = p[j] => i = j
  BY <1>1, <1>2, PathSimple
<1>4. ASSUME NEW i \in 1 .. Len(p) - 1
      PROVE  Adjacent(p[i], p[i + 1])
  <2>1. p[i + 1] \in DOMAIN from \ {Start} /\ p[i] = from[p[i + 1]]
    BY <1>2
  <2> QED
    BY <2>1 DEF Explored
<1>5. p \in Seq(Nat) /\ p # <<>>
  BY <1>1, <1>2
<1>6. IsPath(p)
  BY <1>2, <1>4 DEF IsPath
<1> QED
  BY <1>3, <1>5, <1>6 DEF p
-----------------------------------------------------------------------------
(***************************************************************************)
(* Every step of find keeps the invariant.                                 *)
(***************************************************************************)
\* Of a step of s only what it does to s matters.
LEMMA SearcherStep ==
  ASSUME SearchInv, NEW s \in Searcher, UNCHANGED Others, SearchTypes',
         NEW new, Moves(s, new), queue' = [queue EXCEPT !["inner"] = new],
         NEW step, at' = [at EXCEPT ![s] = step],
         step = "idle" => new = RW!Leave(queue["inner"], s),
         step \in {"search", "print"} => new = queue["inner"] /\ RW!Granted(queue["inner"], s),
         \A u \in Searcher \ {s} : /\ came_from'[u] = came_from[u]
                                   /\ visit_next'[u] = visit_next[u] /\ path'[u] = path[u],
         IF step = "search" THEN Explored(s)' ELSE came_from'[s] = <<>> /\ visit_next'[s] = {},
         Truthful(s)'
  PROVE  SearchInv'
<1>1. at'[s] = step /\ \A u \in Searcher \ {s} : at'[u] = at[u]
  BY DEF SearchInv, SearchTypes
<1>2. Typed(Callers)' /\ SearchLines'
  BY MovesTyped, MovesKeepsLines DEF SearchInv
<1>3. graph' = graph
  BY DEF Others, shared
<1>4. Searches'
  <2>1. ASSUME NEW u \in Searcher \ {s}, at[u] = "search"
        PROVE  Explored(u)'
    <3>1. Explored(u) /\ came_from'[u] = came_from[u] /\ visit_next'[u] = visit_next[u]
      BY <2>1 DEF SearchInv, Searches
    <3>2. Tree(came_from[u])'
      BY <3>1 DEF Explored, Tree
    <3>3. (\A n \in DOMAIN came_from[u] \ {Start} : Adjacent(came_from[u][n], n))'
      <4> SUFFICES ASSUME NEW n \in DOMAIN came_from'[u] \ {Start}
                   PROVE  Adjacent(came_from[u][n], n)'
        OBVIOUS
      <4>1. Adjacent(came_from[u][n], n)
        BY <3>1 DEF Explored
      <4> QED
        BY <1>3, <3>1, <4>1 DEF Adjacent
    <3>4. (\A n \in DOMAIN came_from[u] \ visit_next[u] :
             n # Target /\ Neighbors(graph, n) \subseteq DOMAIN came_from[u])'
      BY <1>3, <3>1 DEF Explored, Neighbors, PG!Incident
    <3>5. (/\ visit_next[u] \subseteq DOMAIN came_from[u]
           /\ DOMAIN came_from[u] \subseteq DOMAIN graph.nodes \cup {Start})'
      BY <1>3, <3>1 DEF Explored
    <3> QED
      BY <3>2, <3>3, <3>4, <3>5 DEF Explored
  <2>2. ASSUME NEW u \in Searcher \ {s}, at[u] # "search"
        PROVE  came_from'[u] = <<>> /\ visit_next'[u] = {}
    BY <2>2 DEF SearchInv, Searches
  <2> QED
    BY <1>1, <2>1, <2>2 DEF Searches
<1>5. AnswerHolds'
  <2>1. \A u \in Searcher : Truthful(u)
    BY AnswersAre DEF SearchInv
  <2>2. \A u \in Searcher \ {s} : Truthful(u)'
    BY <1>1, <1>3, <2>1, AnswerStays
  <2> QED
    BY <2>2 DEF AnswerHolds, Truthful
<1> QED
  BY <1>2, <1>4, <1>5 DEF SearchInv

\* A step that finds no answer and prints none changes no answer.
LEMMA NoAnswer ==
  ASSUME NEW s \in Searcher, at'[s] # "print"
  PROVE  Truthful(s)'
BY DEF Truthful

LEMMA Goes ==
  ASSUME SearchInv, NEW s \in Searcher, NEW step, Goto(s, step)
  PROVE  at' = [at EXCEPT ![s] = step] /\ at'[s] = step
BY DEF Goto, SearchInv, SearchTypes

LEMMA FindHolds ==
  ASSUME SearchInv, NEW s \in Searcher, Find(s), UNCHANGED Others
  PROVE  SearchInv'
<1> DEFINE new == RW!Enter(queue["inner"], s, "read")
<1>1. /\ at[s] = "idle" /\ Goto(s, "lock") /\ queue' = [queue EXCEPT !["inner"] = new]
      /\ UNCHANGED <<came_from, visit_next, path, printed>>
  BY DEF Find, InnerLine
<1>2. Moves(s, new)
  BY <1>1 DEF Moves, SearchInv, SearchLines
<1>3. SearchTypes'
  BY <1>1, Goes DEF SearchInv, SearchTypes
<1>4. came_from'[s] = <<>> /\ visit_next'[s] = {}
  BY <1>1 DEF SearchInv, Searches
<1>5. Truthful(s)'
  BY <1>1, Goes, NoAnswer
<1> HIDE DEF new
<1> QED
  BY <1>1, <1>2, <1>3, <1>4, <1>5, Goes, SearcherStep

LEMMA DisconnectHolds ==
  ASSUME SearchInv, NEW s \in Searcher, Disconnect(s), UNCHANGED Others
  PROVE  SearchInv'
<1> DEFINE new == RW!Leave(queue["inner"], s)
<1>1. /\ at[s] = "lock" /\ Goto(s, "idle") /\ queue' = [queue EXCEPT !["inner"] = new]
      /\ UNCHANGED <<came_from, visit_next, path, printed>>
  BY DEF Disconnect, InnerLine
<1>2. Moves(s, new)
  BY DEF Moves
<1>3. SearchTypes'
  BY <1>1, Goes DEF SearchInv, SearchTypes
<1>4. came_from'[s] = <<>> /\ visit_next'[s] = {}
  BY <1>1 DEF SearchInv, Searches
<1>5. Truthful(s)'
  BY <1>1, Goes, NoAnswer
<1> QED
  BY <1>1, <1>2, <1>3, <1>4, <1>5, Goes, SearcherStep

LEMMA FinishHolds ==
  ASSUME SearchInv, NEW s \in Searcher, Finish(s), UNCHANGED Others
  PROVE  SearchInv'
<1> DEFINE new == RW!Leave(queue["inner"], s)
<1>1. /\ at[s] = "print" /\ Goto(s, "idle") /\ queue' = [queue EXCEPT !["inner"] = new]
      /\ path' = [path EXCEPT ![s] = <<>>] /\ printed' = [printed EXCEPT ![s] = 0]
      /\ UNCHANGED <<came_from, visit_next>>
  BY DEF Finish, InnerLine
<1>2. Moves(s, new)
  BY DEF Moves
<1>3. SearchTypes'
  <2>1. path' \in [Searcher -> Seq(Nat)] /\ printed' \in [Searcher -> Nat]
    BY <1>1 DEF SearchInv, SearchTypes
  <2>2. at' \in [Searcher -> {"idle", "lock", "search", "print"}]
    BY <1>1, Goes DEF SearchInv, SearchTypes
  <2> QED
    BY <1>1, <2>1, <2>2 DEF SearchInv, SearchTypes
<1>4. came_from'[s] = <<>> /\ visit_next'[s] = {}
  BY <1>1 DEF SearchInv, Searches
<1>5. Truthful(s)'
  BY <1>1, Goes, NoAnswer
<1>6. \A u \in Searcher \ {s} : /\ came_from'[u] = came_from[u]
                                 /\ visit_next'[u] = visit_next[u] /\ path'[u] = path[u]
  BY <1>1 DEF SearchInv, SearchTypes
<1>7. at' = [at EXCEPT ![s] = "idle"]
  BY <1>1, Goes
<1> HIDE DEF new
<1>8. new = RW!Leave(queue["inner"], s)
  BY DEF new
<1> QED
  BY <1>1, <1>2, <1>3, <1>4, <1>5, <1>6, <1>7, <1>8, SearcherStep

\* The steps that leave the lines alone.
LEMMA Stays ==
  ASSUME SearchInv, NEW s \in Searcher, queue' = queue
  PROVE  /\ Moves(s, queue["inner"]) /\ queue' = [queue EXCEPT !["inner"] = queue["inner"]]
         /\ at[s] \in {"search", "print"} => RW!Granted(queue["inner"], s)
BY InnerIsLine DEF Moves, SearchInv, SearchLines

LEMMA HopHolds ==
  ASSUME SearchInv, NEW s \in Searcher, Hop(s), UNCHANGED Others
  PROVE  SearchInv'
<1>1. /\ at[s] = "print" /\ printed' = [printed EXCEPT ![s] = printed[s] + 1]
      /\ UNCHANGED <<at, came_from, visit_next, path, queue>>
  BY DEF Hop
<1>2. SearchTypes'
  BY <1>1 DEF SearchInv, SearchTypes
<1>3. at' = [at EXCEPT ![s] = "print"]
  BY <1>1 DEF SearchInv, SearchTypes
<1>4. came_from'[s] = <<>> /\ visit_next'[s] = {}
  BY <1>1 DEF SearchInv, Searches
<1>5. Truthful(s)'
  <2>1. graph' = graph
    BY DEF Others, shared
  <2> QED
    BY <1>1, <2>1, AnswersAre, AnswerStays DEF SearchInv
<1> QED
  BY <1>1, <1>2, <1>3, <1>4, <1>5, Stays, SearcherStep

LEMMA LockedHolds ==
  ASSUME SearchInv, NEW s \in Searcher, Locked(s), UNCHANGED Others
  PROVE  SearchInv'
<1> DEFINE from == [n \in {Start} |-> 0]
<1>1. /\ RW!Granted(queue["inner"], s) /\ Goto(s, "search")
      /\ came_from' = [came_from EXCEPT ![s] = from]
      /\ visit_next' = [visit_next EXCEPT ![s] = {Start}]
      /\ UNCHANGED <<path, printed>> /\ queue' = queue
  BY DEF Locked, Begin
<1>2. Tree(from) /\ from \in Scores /\ DOMAIN from = {Start}
  BY TreeStarts
<1> HIDE DEF from
<1>3. {Start} \in SUBSET Nat
  BY SearchAssumption
<1>4. SearchTypes'
  BY <1>1, <1>2, <1>3, Goes DEF SearchInv, SearchTypes
<1>5. came_from'[s] = from /\ visit_next'[s] = {Start}
  BY <1>1 DEF SearchInv, SearchTypes
<1>6. Explored(s)'
  BY <1>2, <1>5 DEF Explored
<1>7. Truthful(s)'
  BY <1>1, Goes, NoAnswer
<1>8. \A u \in Searcher \ {s} : came_from'[u] = came_from[u] /\ visit_next'[u] = visit_next[u]
  BY <1>1 DEF SearchInv, SearchTypes
<1> QED
  BY <1>1, <1>4, <1>6, <1>7, <1>8, Goes, Stays, SearcherStep

LEMMA AnswerStep ==
  ASSUME SearchInv, NEW s \in Searcher, at[s] = "search", NEW p \in Seq(Nat), Answer(s, p),
         queue' = queue, UNCHANGED Others, Truthful(s)'
  PROVE  SearchInv'
<1>1. /\ Goto(s, "print") /\ path' = [path EXCEPT ![s] = p]
      /\ came_from' = [came_from EXCEPT ![s] = <<>>]
      /\ visit_next' = [visit_next EXCEPT ![s] = {}] /\ printed' = printed
  BY DEF Answer
<1>2. <<>> \in Scores
  <2>1. <<>> \in [{} -> Nat] /\ {} \in SUBSET Nat
    OBVIOUS
  <2> QED
    BY <2>1 DEF Scores
<1>3. SearchTypes'
  BY <1>1, <1>2, Goes DEF SearchInv, SearchTypes
<1>4. came_from'[s] = <<>> /\ visit_next'[s] = {}
  BY <1>1 DEF SearchInv, SearchTypes
<1>5. \A u \in Searcher \ {s} : /\ came_from'[u] = came_from[u]
                                 /\ visit_next'[u] = visit_next[u] /\ path'[u] = path[u]
  BY <1>1 DEF SearchInv, SearchTypes
<1>6. at' = [at EXCEPT ![s] = "print"]
  BY <1>1, Goes
<1> QED
  BY <1>3, <1>4, <1>5, <1>6, Stays, SearcherStep

\* The answer is about the graph as it is, which the step does not change.
LEMMA AnswerNow ==
  ASSUME SearchInv, NEW s \in Searcher, NEW p, Answer(s, p), UNCHANGED Others,
         IF p = <<>>
         THEN \A n \in 1 .. Len(graph.nodes) : \A q \in [1 .. n -> DOMAIN graph.nodes] : ~IsPath(q)
         ELSE IsPath(p) /\ \A i, j \in DOMAIN p : p[i] = p[j] => i = j
  PROVE  Truthful(s)'
<1>1. path'[s] = p /\ graph' = graph
  BY DEF Answer, Others, shared, SearchInv, SearchTypes
<1>2. \A q : IsPath(q)' <=> IsPath(q)
  BY <1>1 DEF IsPath, Adjacent
<1>3. IsPath(path[s])' <=> IsPath(p)
  BY <1>1 DEF IsPath, Adjacent
<1> QED
  BY <1>1, <1>2, <1>3 DEF Truthful

LEMMA NotFoundHolds ==
  ASSUME SearchInv, NEW s \in Searcher, NotFound(s), UNCHANGED Others
  PROVE  SearchInv'
<1>1. at[s] = "search" /\ visit_next[s] = {} /\ Answer(s, <<>>) /\ queue' = queue
  BY DEF NotFound
<1>2. ASSUME NEW n \in 1 .. Len(graph.nodes), NEW p \in [1 .. n -> DOMAIN graph.nodes]
      PROVE  ~IsPath(p)
  <2>1. n \in Nat /\ n > 0
    BY GraphTypes DEF SearchInv, Typed
  <2>2. Explored(s)
    BY <1>1 DEF SearchInv, Searches
  <2> QED
    BY <1>1, <2>1, <2>2, NothingFound
<1>3. Truthful(s)'
  BY <1>1, <1>2, AnswerNow
<1>4. <<>> \in Seq(Nat)
  OBVIOUS
<1> QED
  BY <1>1, <1>3, <1>4, AnswerStep

LEMMA PopHolds ==
  ASSUME SearchInv, NEW s \in Searcher, Pop(s), UNCHANGED Others
  PROVE  SearchInv'
<1>1. PICK node \in visit_next[s] :
        IF node = Target THEN Answer(s, PathTo(came_from[s], node))
        ELSE /\ visit_next' = [visit_next EXCEPT ![s] = (@ \ {node}) \cup Pushed(s, node)]
             /\ came_from' = [came_from EXCEPT ![s] = Extend([n \in Pushed(s, node) |-> node], @)]
             /\ UNCHANGED <<at, path, printed>>
  BY DEF Pop
<1>2. at[s] = "search" /\ queue' = queue /\ Explored(s) /\ came_from[s] \in Scores
  BY DEF Pop, SearchInv, Searches, SearchTypes
<1>3. CASE node = Target
  <2> DEFINE p == PathTo(came_from[s], Target)
  <2>1. p \in Seq(Nat) /\ p # <<>> /\ IsPath(p) /\ \A i, j \in DOMAIN p : p[i] = p[j] => i = j
    BY <1>1, <1>2, <1>3, PathFound
  <2>2. Answer(s, p)
    BY <1>1, <1>3
  <2> HIDE DEF p
  <2>3. Truthful(s)'
    BY <2>1, <2>2, AnswerNow
  <2> QED
    BY <1>2, <2>1, <2>2, <2>3, AnswerStep
<1>4. CASE node # Target
  <2> DEFINE from == came_from[s]
             New  == Pushed(s, node)
             f    == Extend([n \in New |-> node], from)
             next == (visit_next[s] \ {node}) \cup New
  <2>1. /\ visit_next' = [visit_next EXCEPT ![s] = next]
        /\ came_from' = [came_from EXCEPT ![s] = f]
        /\ UNCHANGED <<at, path, printed>>
    BY <1>1, <1>4
  <2>2. /\ Neighbors(graph, node) \subseteq DOMAIN graph.nodes
        /\ DOMAIN graph.nodes \subseteq Nat \ {0}
    BY NeighborsExist DEF SearchInv, Typed
  <2>3. New \in SUBSET (Nat \ {0}) /\ New \cap DOMAIN from = {}
        /\ New \subseteq Neighbors(graph, node)
        /\ Neighbors(graph, node) \subseteq DOMAIN from \cup New
    BY <2>2 DEF Pushed
  <2>4. /\ Tree(from) /\ node \in DOMAIN from /\ from \in Scores
        /\ visit_next[s] \subseteq DOMAIN from
        /\ DOMAIN from \subseteq DOMAIN graph.nodes \cup {Start}
    BY <1>2 DEF Explored
  <2>5. /\ Tree(f) /\ f \in Scores /\ DOMAIN f = DOMAIN from \cup New
        /\ \A n \in DOMAIN from : f[n] = from[n]
        /\ \A n \in New : f[n] = node
    <3>1. Grew(from, node, New)
      <4> HIDE DEF New, from
      <4> QED
        BY <2>3, <2>4, TreeGrows
    <3>2. f = Grown(from, node, New)
      BY DEF Grown
    <3> HIDE DEF New, from, f
    <3> QED
      BY <3>1, <3>2 DEF Grew
  <2> HIDE DEF New, f
  <2>6. next \in SUBSET Nat
    BY <2>3 DEF SearchInv, SearchTypes
  <2>7. came_from'[s] = f /\ visit_next'[s] = next
    BY <2>1 DEF SearchInv, SearchTypes
  <2>8. SearchTypes'
    BY <2>1, <2>5, <2>6 DEF SearchInv, SearchTypes
  <2>9. graph' = graph
    BY DEF Others, shared
  <2>10. ASSUME NEW n \in DOMAIN f \ {Start}
         PROVE  Adjacent(f[n], n)
    <3>1. CASE n \in DOMAIN from
      BY <1>2, <2>5, <2>10, <3>1 DEF Explored
    <3>2. CASE n \in New
      BY <2>3, <2>5, <3>2, NeighborsAre
    <3> QED
      BY <2>5, <3>1, <3>2
  <2>11. ASSUME NEW n \in DOMAIN f \ next
         PROVE  n # Target /\ Neighbors(graph, n) \subseteq DOMAIN f
    <3>1. CASE n = node
      BY <1>4, <2>3, <2>5, <3>1
    <3>2. CASE n # node
      <4>1. n \in DOMAIN from \ visit_next[s]
        BY <2>5, <2>11, <3>2
      <4> QED
        BY <1>2, <2>5, <4>1 DEF Explored
    <3> QED
      BY <3>1, <3>2
  <2>12. Explored(s)'
    <3>1. Tree(came_from[s])'
      BY <2>5, <2>7 DEF Tree
    <3>2. (\A n \in DOMAIN came_from[s] \ {Start} : Adjacent(came_from[s][n], n))'
      BY <2>7, <2>9, <2>10 DEF Adjacent
    <3>3. (\A n \in DOMAIN came_from[s] \ visit_next[s] :
             n # Target /\ Neighbors(graph, n) \subseteq DOMAIN came_from[s])'
      BY <2>7, <2>9, <2>11 DEF Neighbors, PG!Incident
    <3>4. (/\ visit_next[s] \subseteq DOMAIN came_from[s]
           /\ DOMAIN came_from[s] \subseteq DOMAIN graph.nodes \cup {Start})'
      BY <2>2, <2>3, <2>4, <2>5, <2>7, <2>9
    <3> QED
      BY <3>1, <3>2, <3>3, <3>4 DEF Explored
  <2>13. /\ at'[s] = "search" /\ at' = [at EXCEPT ![s] = "search"]
         /\ \A u \in Searcher \ {s} : /\ came_from'[u] = came_from[u]
                                      /\ visit_next'[u] = visit_next[u] /\ path'[u] = path[u]
    BY <1>2, <2>1 DEF SearchInv, SearchTypes
  <2>14. Truthful(s)'
    BY <2>13, NoAnswer
  <2> QED
    BY <1>2, <2>8, <2>12, <2>13, <2>14, Stays, SearcherStep
<1> QED
  BY <1>3, <1>4
-----------------------------------------------------------------------------
(***************************************************************************)
(* The loaded graph.                                                       *)
(***************************************************************************)
LEMMA PositionIs ==
  ASSUME NEW i \in DOMAIN Rows
  PROVE  Position(Rows[i]) = i
BY SearchAssumption DEF Position

LEMMA LinkFinite == IsFiniteSet(Link)
<1> DEFINE Vids == {Rows[i] : i \in DOMAIN Rows}
<1>1. Rows \in Seq(Vid) /\ Link \subseteq Vids \X Vids
  BY SearchAssumption
<1>2. Len(Rows) \in Nat /\ DOMAIN Rows = 1 .. Len(Rows)
  BY <1>1
<1>3. Rows \in Surjection(1 .. Len(Rows), Vids)
  <2>1. Rows \in [1 .. Len(Rows) -> Vids]
    BY <1>1, <1>2
  <2> QED
    BY <1>2, <2>1 DEF Surjection
<1>4. IsFiniteSet(1 .. Len(Rows))
  BY <1>2, FS_Interval, 1 \in Int, Len(Rows) \in Int
<1> HIDE DEF Vids
<1>5. IsFiniteSet(Vids)
  BY <1>3, <1>4, FS_Surjection
<1>6. IsFiniteSet(Vids \X Vids)
  BY <1>5, FS_Product
<1> QED
  BY <1>1, <1>6, FS_Subset

\* The edges are counted from 1, each link once.
LEMMA IndexIs ==
  ASSUME NEW links \in SUBSET Link
  PROVE  LET index == Index(links)
             n     == Cardinality(links)
         IN  /\ n \in Nat /\ index \in [links -> 1 .. n]
             /\ \A e \in 1 .. n : \E l \in links : index[l] = e
<1> DEFINE n == Cardinality(links)
           index == Index(links)
<1>1. IsFiniteSet(links) /\ n \in Nat
  BY LinkFinite, FS_Subset, FS_CardinalityType
<1>2. IsFiniteSet(1 .. n) /\ Cardinality(1 .. n) = n
  BY <1>1, FS_Interval, 1 \in Int, n \in Int
<1>3. ExistsBijection(links, 1 .. n)
  BY <1>1, <1>2, FS_SameCardinalityBij
<1>4. \E f \in [links -> 1 .. n] : \A k, l \in links : f[k] = f[l] => k = l
  BY <1>3 DEF ExistsBijection, Bijection, Injection, IsInjective
<1>5. index \in [links -> 1 .. n] /\ \A k, l \in links : index[k] = index[l] => k = l
  BY <1>4 DEF Index
<1> HIDE DEF index
<1>6. index \in Injection(links, 1 .. n)
  BY <1>5 DEF Injection, IsInjective
<1>7. index \in Surjection(links, 1 .. n)
  BY <1>2, <1>6, FS_Injection
<1> QED
  BY <1>1, <1>5, <1>7 DEF Surjection, index

LEMMA LoadedOK ==
  ASSUME SearchInit
  PROVE  StoredOK
<1>1. PICK links \in SUBSET Link :
        LET index == Index(links)
            nth(e) == CHOOSE l \in links : index[l] = e
        IN  /\ graph = [nodes |-> [i \in DOMAIN Rows |-> [vid |-> Rows[i], data |-> NoData]],
                        edges |-> [e \in 1 .. Cardinality(links) |->
                          [src |-> Position(nth(e)[1]), dst |-> Position(nth(e)[2]),
                           weight |-> [src_vid |-> nth(e)[1], dst_vid |-> nth(e)[2],
                                       data |-> NoData]]]]
            /\ edge_cache = [k \in {EdgeKey(l[1], l[2]) : l \in links} |->
                               index[CHOOSE l \in links : EdgeKey(l[1], l[2]) = k]]
  BY DEF SearchInit
<1> DEFINE index  == Index(links)
           n      == Cardinality(links)
           nth(e) == CHOOSE l \in links : index[l] = e
           nodes  == [i \in DOMAIN Rows |-> [vid |-> Rows[i], data |-> NoData]]
           edge(e) == [src |-> Position(nth(e)[1]), dst |-> Position(nth(e)[2]),
                       weight |-> [src_vid |-> nth(e)[1], dst_vid |-> nth(e)[2],
                                   data |-> NoData]]
           edges  == [e \in 1 .. n |-> edge(e)]
           link(k) == CHOOSE l \in links : EdgeKey(l[1], l[2]) = k
<1>2. graph = [nodes |-> nodes, edges |-> edges]
      /\ edge_cache = [k \in {EdgeKey(l[1], l[2]) : l \in links} |-> index[link(k)]]
  BY <1>1
<1>3. /\ n \in Nat /\ index \in [links -> 1 .. n]
      /\ \A e \in 1 .. n : \E l \in links : index[l] = e
  BY IndexIs
<1> HIDE DEF index, n
<1>4. /\ Rows \in Seq(Vid) /\ DOMAIN Rows = 1 .. Len(Rows) /\ Len(Rows) \in Nat
      /\ \A i \in DOMAIN Rows : Rows[i] \in Vid
      /\ Link \subseteq {Rows[i] : i \in DOMAIN Rows} \X {Rows[i] : i \in DOMAIN Rows}
  BY SearchAssumption
<1>5. NoData \in DataMap
  BY ConstantsAssumption
<1>6. nodes \in Seq(NodeM) /\ DOMAIN nodes = DOMAIN Rows
  <2>1. \A i \in DOMAIN Rows : [vid |-> Rows[i], data |-> NoData] \in NodeM
    BY <1>4, <1>5 DEF NodeM
  <2>2. nodes \in [1 .. Len(Rows) -> NodeM]
    BY <1>4, <2>1
  <2> QED
    BY <1>4, <2>2
<1>7. ASSUME NEW l \in Link
      PROVE  /\ Position(l[1]) \in DOMAIN Rows /\ Position(l[2]) \in DOMAIN Rows
             /\ l[1] \in Vid /\ l[2] \in Vid
  <2>1. PICK i \in DOMAIN Rows, j \in DOMAIN Rows : l[1] = Rows[i] /\ l[2] = Rows[j]
    BY <1>4
  <2> QED
    BY <1>4, <2>1, PositionIs
<1>8. ASSUME NEW e \in 1 .. n
      PROVE  /\ edge(e) \in Edge
             /\ edge(e).src \in DOMAIN Rows /\ edge(e).dst \in DOMAIN Rows
  <2>1. nth(e) \in Link
    BY <1>3
  <2> HIDE DEF nth
  <2>2. /\ Position(nth(e)[1]) \in DOMAIN Rows /\ Position(nth(e)[2]) \in DOMAIN Rows
        /\ nth(e)[1] \in Vid /\ nth(e)[2] \in Vid
    BY <1>7, <2>1
  <2>3. Position(nth(e)[1]) \in Nat /\ Position(nth(e)[2]) \in Nat
    BY <1>4, <2>2
  <2>4. [src_vid |-> nth(e)[1], dst_vid |-> nth(e)[2], data |-> NoData] \in EdgeM
    BY <1>5, <2>2 DEF EdgeM
  <2> QED
    BY <2>2, <2>3, <2>4 DEF Edge
<1> HIDE DEF edge, nodes
<1>9. edges \in Seq(Edge) /\ DOMAIN edges = 1 .. n /\ \A e \in 1 .. n : edges[e] = edge(e)
  <2>1. edges \in [1 .. n -> Edge]
    BY <1>8
  <2> QED
    BY <1>3, <2>1
<1> HIDE DEF edges
<1>10. graph \in [nodes : Seq(NodeM), edges : Seq(Edge)]
  BY <1>2, <1>6, <1>9
<1>11. PG!WellFormed(graph)
  BY <1>2, <1>6, <1>8, <1>9 DEF PG!WellFormed, PG!HasNode
<1>12. node_cache \in [DOMAIN node_cache -> Nat] /\ DOMAIN node_cache \subseteq Vid
  <2>1. node_cache = [v \in {Rows[i] : i \in DOMAIN Rows} |-> Position(v)]
    BY DEF SearchInit
  <2>2. \A v \in {Rows[i] : i \in DOMAIN Rows} : v \in Vid /\ Position(v) \in Nat
    BY <1>4, PositionIs
  <2> QED
    BY <2>1, <2>2
<1>13. edge_cache \in [DOMAIN edge_cache -> Nat]
  <2>1. ASSUME NEW k \in {EdgeKey(l[1], l[2]) : l \in links}
        PROVE  index[link(k)] \in Nat
    <3>1. link(k) \in links
      BY <2>1
    <3> QED
      BY <1>3, <3>1
  <2> HIDE DEF link
  <2> QED
    BY <1>2, <2>1
<1> QED
  BY <1>10, <1>11, <1>12, <1>13 DEF StoredOK, Edge

LEMMA InvInit ==
  ASSUME SearchInit
  PROVE  SearchInv
<1>1. TasksOK
  BY Steps DEF SearchInit, TasksOK, Reply, Outcome
<1>2. \A t \in Task, l \in Lock : RW!Places(queue[l], t) = {} /\ pc[t] = "idle"
  BY DEF SearchInit, RW!Places
<1>3. Typed(Callers)
  <2>1. LinesOK(Callers)
    BY <1>2, HoldsOfSteps, Apart DEF LinesOK, LinesOf, Single
  <2> QED
    BY <1>1, <2>1, LoadedOK DEF Typed, TypeOK
<1>4. \A s \in Searcher : at[s] = "idle" /\ came_from[s] = <<>> /\ visit_next[s] = {}
  BY DEF SearchInit
<1>5. SearchLines
  BY <1>2, <1>4, Apart DEF SearchLines, Single, Lock
<1>6. SearchTypes
  <2>1. <<>> \in [{} -> Nat] /\ {} \in SUBSET Nat /\ <<>> \in Seq(Nat)
    OBVIOUS
  <2>2. <<>> \in Scores
    BY <2>1 DEF Scores
  <2> QED
    BY <2>1, <2>2 DEF SearchInit, SearchTypes
<1>7. Searches /\ AnswerHolds
  BY <1>4 DEF Searches, AnswerHolds
<1> QED
  BY <1>3, <1>5, <1>6, <1>7 DEF SearchInv

LEMMA InvStep ==
  ASSUME SearchInv, [SearchNext]_<<vars, search>>
  PROVE  SearchInv'
<1>1. CASE UNCHANGED <<vars, search>>
  <2>1. Typed(Callers)'
    <3>1. StoredOK'
      BY <1>1, StoredSame DEF vars, shared, SearchInv, Typed, TypeOK
    <3>2. TasksOK'
      BY <1>1 DEF vars, SearchInv, Typed, TypeOK, TasksOK
    <3>3. LinesOK(Callers)'
      BY <1>1 DEF vars, SearchInv, Typed, LinesOK, LinesOf, Single
    <3> QED
      BY <3>1, <3>2, <3>3 DEF Typed, TypeOK
  <2>2. SearchLines' /\ SearchTypes'
    BY <1>1 DEF vars, search, SearchInv, SearchLines, SearchTypes, Single
  <2>3. ASSUME NEW s \in Searcher, at[s] = "search"
        PROVE  Explored(s)'
    <3>1. Explored(s) /\ graph' = graph
      BY <1>1, <2>3 DEF SearchInv, Searches, vars
    <3> QED
      BY <1>1, <3>1 DEF Explored, search, Adjacent, Neighbors, PG!Incident
  <2>4. Searches'
    BY <1>1, <2>3 DEF SearchInv, Searches, search
  <2>5. AnswerHolds'
    <3>1. \A s \in Searcher : Truthful(s)
      BY AnswersAre DEF SearchInv
    <3>2. \A s \in Searcher : Truthful(s)'
      BY <1>1, <3>1, AnswerStays DEF search, vars
    <3> QED
      BY <3>2 DEF AnswerHolds, Truthful
  <2> QED
    BY <2>1, <2>2, <2>4, <2>5 DEF SearchInv
<1>2. ASSUME NEW t \in Callers, Call(t) \/ Step(t) \/ Cancel(t), UNCHANGED search
      PROVE  SearchInv'
  BY <1>2, CallerHolds
<1>3. ASSUME NEW s \in Searcher, FindStep(s)
      PROVE  SearchInv'
  BY <1>3, LockedHolds, PopHolds, NotFoundHolds, HopHolds, FinishHolds DEF FindStep, Others
<1>4. ASSUME NEW s \in Searcher, Find(s) \/ Disconnect(s),
             UNCHANGED <<shared, pc, arg, seen, reply>>
      PROVE  SearchInv'
  BY <1>4, FindHolds, DisconnectHolds DEF Others
<1> QED
  BY <1>1, <1>2, <1>3, <1>4 DEF SearchNext

LEMMA Invariant == SearchSpec => []SearchInv
<1>1. SearchInit => SearchInv
  BY InvInit
<1>2. SearchInv /\ [SearchNext]_<<vars, search>> => SearchInv'
  BY InvStep
<1> QED
  BY <1>1, <1>2, PTL DEF SearchSpec

\* As long as find holds its guard, the indices that astar keeps are those of
\* nodes that exist (Start may not), whatever the other tasks ask for; the
\* types of everything else are right as well (examples/graph.rs:251-264).
THEOREM SearchTypeCorrect == SearchSpec => []SearchTypeOK
<1>1. ASSUME SearchInv
      PROVE  SearchTypeOK
  <2>1. ASSUME NEW s \in Searcher
        PROVE  /\ visit_next[s] \subseteq DOMAIN came_from[s]
               /\ DOMAIN came_from[s] \subseteq DOMAIN graph.nodes \cup {Start}
               /\ \A n \in DOMAIN came_from[s] :
                    came_from[s][n] \in DOMAIN came_from[s] \cup {0}
    <3>1. CASE at[s] = "search"
      <4>1. Explored(s)
        BY <1>1, <3>1 DEF SearchInv, Searches
      <4> QED
        BY <4>1 DEF Explored, Tree
    <3>2. CASE at[s] # "search"
      <4>1. came_from[s] = <<>> /\ visit_next[s] = {}
        BY <1>1, <3>2 DEF SearchInv, Searches
      <4>2. DOMAIN came_from[s] = {}
        BY <4>1
      <4> QED
        BY <4>1, <4>2
    <3> QED
      BY <3>1, <3>2
  <2> QED
    BY <1>1, <2>1 DEF SearchTypeOK, SearchInv, SearchTypes, Typed
<1> QED
  BY <1>1, Invariant, PTL

\* What find prints is true of the graph while it prints it, on every graph,
\* whatever the other tasks do: a path follows edges that are there, from
\* Start to Target, and passes no node twice; and when find says that there
\* is no path, there is none (examples/graph.rs:251-299).
THEOREM AnswersAreTrue == SearchSpec => []AnswerHolds
<1>1. SearchInv => AnswerHolds
  BY DEF SearchInv
<1> QED
  BY <1>1, Invariant, PTL
=============================================================================
