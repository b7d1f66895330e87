---------------------------- MODULE GraphLemmas ----------------------------
(***************************************************************************)
(* What the proofs about GraphInstance use of its two libraries, petgraph  *)
(* and the RwLock.                                                         *)
(***************************************************************************)
EXTENDS GraphInstance, FiniteSetTheorems, TLAPS

Edge  == [src : Nat, dst : Nat, weight : EdgeM]
Graph == [nodes : Seq(NodeM), edges : Seq(Edge)]

Injective(q) == \A j, k \in DOMAIN q : q[j] = q[k] => j = k

\* Each element of new is that of old at a position in D of its own.
Drawn(new, old, D) ==
  \E q \in [DOMAIN new -> D] : Injective(q) /\ \A k \in DOMAIN new : new[k] = old[q[k]]

\* h has nodes and edge weights of g only, each no more often than g does.
Shrunk(h, g) ==
  /\ Drawn(h.nodes, g.nodes, DOMAIN g.nodes)
  /\ \E q \in [DOMAIN h.edges -> DOMAIN g.edges] :
       Injective(q) /\ \A k \in DOMAIN h.edges : h.edges[k].weight = g.edges[q[k]].weight
-----------------------------------------------------------------------------
\* swap_remove shortens an array by one and moves at most its last element.
LEMMA SwapRemoveArray ==
  ASSUME NEW S, NEW s \in Seq(S), NEW i \in DOMAIN s
  PROVE  /\ PG!SwapRemove(s, i) \in Seq(S)
         /\ Len(PG!SwapRemove(s, i)) = Len(s) - 1
         /\ \A k \in 1 .. Len(s) - 1 :
              PG!SwapRemove(s, i)[k] = s[IF k = i THEN Len(s) ELSE k]
<1>1. Len(s) \in Nat /\ DOMAIN s = 1 .. Len(s) /\ Len(s) > 0
  OBVIOUS
<1>2. \A k \in 1 .. Len(s) - 1 : s[k] \in S /\ s[Len(s)] \in S
  BY <1>1
<1>3. PG!SwapRemove(s, i) \in [1 .. Len(s) - 1 -> S]
  BY <1>1, <1>2 DEF PG!SwapRemove
<1>4. Len(s) - 1 \in Nat
  BY <1>1
<1> QED
  BY <1>1, <1>3, <1>4 DEF PG!SwapRemove

\* An array that loses the elements at R, in whatever order.
LEMMA CompactionsArray ==
  ASSUME NEW S, NEW s \in Seq(S), NEW R \in SUBSET DOMAIN s,
         NEW es \in PG!Compactions(s, R)
  PROVE  /\ es \in Seq(S)
         /\ Drawn(es, s, DOMAIN s \ R)
<1> DEFINE n == Len(s) - Cardinality(R)
<1>1. IsFiniteSet(DOMAIN s) /\ IsFiniteSet(R)
  <2>1. DOMAIN s = 1 .. Len(s) /\ Len(s) \in Nat
    OBVIOUS
  <2> QED
    BY <2>1, FS_Interval, FS_Subset, 1 \in Int, Len(s) \in Int
<1>2. n \in Int
  BY <1>1, FS_CardinalityType
<1>3. PICK p \in [1 .. n -> DOMAIN s \ R] :
        /\ \A j, k \in 1 .. n : p[j] = p[k] => j = k
        /\ es = [k \in 1 .. n |-> s[p[k]]]
  BY DEF PG!Compactions, PG!Cardinality, Cardinality
<1>4. DOMAIN es = 1 .. n
  BY <1>3
<1>5. es \in Seq(S)
  <2> DEFINE m == IF n >= 0 THEN n ELSE 0
  <2>1. m \in Nat /\ 1 .. n = 1 .. m
    BY <1>2
  <2>2. \A k \in 1 .. n : s[p[k]] \in S
    BY <1>3
  <2>3. es \in [1 .. m -> S]
    BY <1>3, <2>1, <2>2
  <2> QED
    BY <2>1, <2>3
<1> QED
  BY <1>3, <1>4, <1>5 DEF Injective, Drawn

LEMMA RemoveEdgeShrinks ==
  ASSUME NEW g \in Graph, PG!WellFormed(g), NEW e \in Nat
  PROVE  /\ PG!RemoveEdge(g, e) \in Graph
         /\ PG!WellFormed(PG!RemoveEdge(g, e))
         /\ Shrunk(PG!RemoveEdge(g, e), g)
<1> DEFINE h == PG!RemoveEdge(g, e)
<1>0. g.nodes \in Seq(NodeM) /\ g.edges \in Seq(Edge)
  BY DEF Graph
<1>1. CASE ~PG!HasEdge(g, e)
  <2>1. h = g
    BY <1>1 DEF PG!RemoveEdge
  <2>2. Shrunk(g, g)
    <3> DEFINE qn == [k \in DOMAIN g.nodes |-> k]
               qe == [k \in DOMAIN g.edges |-> k]
    <3>1. qn \in [DOMAIN g.nodes -> DOMAIN g.nodes] /\ Injective(qn)
      BY DEF Injective
    <3>2. qe \in [DOMAIN g.edges -> DOMAIN g.edges] /\ Injective(qe)
      BY DEF Injective
    <3> QED
      BY <3>1, <3>2 DEF Shrunk, Drawn
  <2> QED
    BY <2>1, <2>2
<1>2. CASE PG!HasEdge(g, e)
  <2>1. h = [g EXCEPT !.edges = PG!SwapRemove(g.edges, e)]
    BY <1>2 DEF PG!RemoveEdge
  <2>2. e \in DOMAIN g.edges
    BY <1>2 DEF PG!HasEdge
  <2> DEFINE last == Len(g.edges)
             qn == [k \in DOMAIN g.nodes |-> k]
             qe == [k \in 1 .. last - 1 |-> IF k = e THEN last ELSE k]
  <2>11. g.edges \in Seq(Edge)
    BY <1>0
  <2>12. /\ PG!SwapRemove(g.edges, e) \in Seq(Edge)
        /\ Len(PG!SwapRemove(g.edges, e)) = Len(g.edges) - 1
        /\ \A k \in 1 .. Len(g.edges) - 1 :
             PG!SwapRemove(g.edges, e)[k] = g.edges[IF k = e THEN Len(g.edges) ELSE k]
    BY <2>2, <2>11, SwapRemoveArray, Zenon
  <2>3. h.nodes = g.nodes /\ h.edges = PG!SwapRemove(g.edges, e) /\ h \in Graph
    BY <2>1, <2>12 DEF Graph
  <2>4. /\ last \in Nat /\ DOMAIN g.edges = 1 .. last
        /\ DOMAIN h.edges = 1 .. last - 1
        /\ \A k \in 1 .. last - 1 : h.edges[k] = g.edges[qe[k]]
    BY <2>11, <2>12, <2>3
  <2>5. qe \in [DOMAIN h.edges -> DOMAIN g.edges] /\ Injective(qe)
    BY <2>4, <2>2 DEF Injective
  <2>6. qn \in [DOMAIN h.nodes -> DOMAIN g.nodes] /\ Injective(qn)
    BY <2>3 DEF Injective
  <2>7. Shrunk(h, g)
    BY <2>3, <2>4, <2>5, <2>6 DEF Shrunk, Drawn
  <2>8. PG!WellFormed(h)
    BY <2>3, <2>4, <2>5 DEF PG!WellFormed, PG!HasNode
  <2> QED
    BY <2>3, <2>7, <2>8
<1> QED
  BY <1>1, <1>2

LEMMA RemoveNodeShrinks ==
  ASSUME NEW g \in Graph, PG!WellFormed(g), NEW i \in Nat,
         NEW h \in PG!RemoveNode(g, i)
  PROVE  h \in Graph /\ PG!WellFormed(h) /\ Shrunk(h, g)
<1>0. g.nodes \in Seq(NodeM) /\ g.edges \in Seq(Edge)
  BY DEF Graph
<1>1. CASE ~PG!HasNode(g, i)
  <2>1. h = g
    BY <1>1 DEF PG!RemoveNode
  <2> DEFINE qn == [k \in DOMAIN g.nodes |-> k]
             qe == [k \in DOMAIN g.edges |-> k]
  <2>2. /\ qn \in [DOMAIN g.nodes -> DOMAIN g.nodes] /\ Injective(qn)
        /\ qe \in [DOMAIN g.edges -> DOMAIN g.edges] /\ Injective(qe)
    BY DEF Injective
  <2> QED
    BY <2>1, <2>2 DEF Shrunk, Drawn
<1>2. CASE PG!HasNode(g, i)
  <2>1. PICK es \in PG!Compactions(g.edges, PG!Incident(g, i)) :
          h = [nodes |-> PG!SwapRemove(g.nodes, i),
               edges |-> [e \in DOMAIN es |->
                 [es[e] EXCEPT !.src = IF @ = Len(g.nodes) THEN i ELSE @,
                               !.dst = IF @ = Len(g.nodes) THEN i ELSE @]]]
    BY <1>2 DEF PG!RemoveNode
  <2>2. PG!Incident(g, i) \in SUBSET DOMAIN g.edges
    BY DEF PG!Incident
  <2>3. es \in Seq(Edge) /\ Drawn(es, g.edges, DOMAIN g.edges \ PG!Incident(g, i))
    <3>1. g.edges \in Seq(Edge)
      BY <1>0
    <3> QED
      BY <3>1, <2>2, CompactionsArray, Zenon
  <2> DEFINE last == Len(g.nodes)
             Move(k) == IF k = last THEN i ELSE k
             gone == PG!Incident(g, i)
  <2>4. PICK q \in [DOMAIN es -> DOMAIN g.edges \ gone] :
          Injective(q) /\ \A k \in DOMAIN es : es[k] = g.edges[q[k]]
    BY <2>3 DEF Drawn
  <2>5. /\ last \in Nat /\ DOMAIN g.nodes = 1 .. last /\ i \in 1 .. last
        /\ h.nodes \in Seq(NodeM) /\ DOMAIN h.nodes = 1 .. last - 1
        /\ \A k \in 1 .. last - 1 : h.nodes[k] = g.nodes[IF k = i THEN last ELSE k]
    <3>1. g.nodes \in Seq(NodeM) /\ i \in DOMAIN g.nodes
      BY <1>0, <1>2 DEF PG!HasNode
    <3>2. /\ PG!SwapRemove(g.nodes, i) \in Seq(NodeM)
          /\ Len(PG!SwapRemove(g.nodes, i)) = Len(g.nodes) - 1
          /\ \A k \in 1 .. Len(g.nodes) - 1 :
               PG!SwapRemove(g.nodes, i)[k] = g.nodes[IF k = i THEN Len(g.nodes) ELSE k]
      BY <3>1, SwapRemoveArray, Zenon
    <3>3. h.nodes = PG!SwapRemove(g.nodes, i)
      BY <2>1
    <3> QED
      BY <3>1, <3>2, <3>3
  <2>6. ASSUME NEW k \in DOMAIN es
        PROVE  /\ h.edges[k] \in Edge /\ h.edges[k].weight = g.edges[q[k]].weight
               /\ h.edges[k].src \in 1 .. last - 1
               /\ h.edges[k].dst \in 1 .. last - 1
    <3>1. es[k] = g.edges[q[k]] /\ q[k] \in DOMAIN g.edges \ gone /\ es[k] \in Edge
      BY <1>0, <2>3, <2>4
    <3>2. /\ es[k].src # i /\ es[k].src \in 1 .. last
          /\ es[k].dst # i /\ es[k].dst \in 1 .. last
      BY <3>1, <2>5 DEF PG!Incident, PG!WellFormed, PG!HasNode
    <3>3. h.edges[k] = [es[k] EXCEPT !.src = Move(@), !.dst = Move(@)]
      BY <2>1
    <3>4. /\ h.edges[k].src = Move(es[k].src) /\ h.edges[k].dst = Move(es[k].dst)
          /\ h.edges[k].weight = es[k].weight
          /\ h.edges[k] = [src |-> Move(es[k].src), dst |-> Move(es[k].dst),
                           weight |-> es[k].weight]
      BY <3>1, <3>3 DEF Edge
    <3>5. Move(es[k].src) \in 1 .. last - 1 /\ Move(es[k].dst) \in 1 .. last - 1
      BY <3>2, <2>5
    <3> QED
      BY <3>1, <3>4, <3>5 DEF Edge
  <2>7. DOMAIN h.edges = DOMAIN es /\ h.edges \in Seq(Edge)
    <3>0. DOMAIN es = 1 .. Len(es) /\ Len(es) \in Nat
      BY <2>3
    <3>1. DOMAIN h.edges = DOMAIN es /\ DOMAIN es = 1 .. Len(es) /\ Len(es) \in Nat
      BY <2>1, <3>0, Zenon
    <3>2. h.edges = [k \in 1 .. Len(es) |-> h.edges[k]]
      BY <2>1, <3>1
    <3>3. h.edges \in [1 .. Len(es) -> Edge]
      BY <3>1, <3>2, <2>6
    <3> QED
      BY <3>1, <3>3
  <2>8. h \in Graph
    BY <2>1, <2>5, <2>7 DEF Graph
  <2>9. PG!WellFormed(h)
    BY <2>5, <2>6, <2>7 DEF PG!WellFormed, PG!HasNode
  <2>10. Shrunk(h, g)
    <3> DEFINE qn == [k \in 1 .. last - 1 |-> IF k = i THEN last ELSE k]
    <3>1. qn \in [DOMAIN h.nodes -> DOMAIN g.nodes] /\ Injective(qn)
      BY <2>5 DEF Injective
    <3>2. \A k \in DOMAIN h.nodes : h.nodes[k] = g.nodes[qn[k]]
      BY <2>5
    <3>3. q \in [DOMAIN h.edges -> DOMAIN g.edges] /\ Injective(q)
      BY <2>4, <2>7
    <3>4. \A k \in DOMAIN h.edges : h.edges[k].weight = g.edges[q[k]].weight
      BY <2>6, <2>7
    <3> HIDE DEF qn
    <3> QED
      BY <3>1, <3>2, <3>3, <3>4, Zenon DEF Shrunk, Drawn
  <2> QED
    BY <2>8, <2>9, <2>10
<1> QED
  BY <1>1, <1>2
-----------------------------------------------------------------------------
(***************************************************************************)
(* The locks.  A task stands in a line at most once.                       *)
(***************************************************************************)
Place == [task : Task, mode : RW!Mode]
Line  == Seq(Place)

Single(line, t) == \A i, j \in RW!Places(line, t) : i = j

\* Whoever leaves the line is not in it any more, the others keep their
\* order, their requests and what they were granted.
LEMMA LeaveLine ==
  ASSUME NEW line \in Line, NEW t \in Task, Single(line, t)
  PROVE  /\ RW!Leave(line, t) \in Line
         /\ RW!Places(RW!Leave(line, t), t) = {}
         /\ \A u \in Task \ {t} :
              LET new == RW!Leave(line, t)
              IN  /\ Single(line, u) => Single(new, u)
                  /\ RW!Places(new, u) # {} => RW!Places(line, u) # {}
                  /\ RW!Granted(line, u) => RW!Granted(new, u)
                  /\ \A i \in RW!Places(new, u) :
                       \E j \in RW!Places(line, u) : new[i] = line[j]
<1> DEFINE new == RW!Leave(line, t)
<1>0. Len(line) \in Nat /\ DOMAIN line = 1 .. Len(line)
  BY DEF Line
<1>1. CASE RW!Places(line, t) = {}
  <2>1. new = line
    BY <1>1 DEF RW!Leave
  <2> QED
    BY <1>1, <2>1
<1>2. CASE RW!Places(line, t) # {}
  <2>1. PICK p \in RW!Places(line, t) :
          new = [i \in 1 .. Len(line) - 1 |-> IF i < p THEN line[i] ELSE line[i + 1]]
    <3>1. (CHOOSE i \in RW!Places(line, t) : TRUE) \in RW!Places(line, t)
      BY <1>2
    <3> QED
      BY <1>2, <3>1 DEF RW!Leave
  <2>2. p \in 1 .. Len(line) /\ line[p].task = t
    BY <1>0 DEF RW!Places
  <2>3. \A i \in 1 .. Len(line) : line[i].task = t => i = p
    BY <1>0, <2>2 DEF Single, RW!Places
  <2> DEFINE Old(i) == IF i < p THEN i ELSE i + 1
  <2>4. \A i \in 1 .. Len(line) - 1 :
          Old(i) \in 1 .. Len(line) /\ Old(i) # p /\ new[i] = line[Old(i)]
    BY <1>0, <2>1, <2>2
  <2>5. new \in Line /\ Len(new) = Len(line) - 1 /\ DOMAIN new = 1 .. Len(line) - 1
    <3>1. \A i \in 1 .. Len(line) : line[i] \in Place
      BY <1>0 DEF Line
    <3>2. new \in [1 .. Len(line) - 1 -> Place]
      BY <1>0, <2>1, <2>4, <3>1
    <3>3. Len(line) - 1 \in Nat
      BY <1>0, <2>2
    <3> QED
      BY <3>2, <3>3 DEF Line
  <2>6. \A u \in Task : \A i \in RW!Places(new, u) :
          i \in 1 .. Len(line) - 1 /\ Old(i) \in RW!Places(line, u)
    BY <1>0, <2>4, <2>5 DEF RW!Places
  <2>7. RW!Places(new, t) = {}
    BY <2>3, <2>4, <2>6 DEF RW!Places
  <2>8. ASSUME NEW u \in Task \ {t}
        PROVE  /\ Single(line, u) => Single(new, u)
               /\ RW!Places(new, u) # {} => RW!Places(line, u) # {}
               /\ \A i \in RW!Places(new, u) :
                    \E j \in RW!Places(line, u) : new[i] = line[j]
    <3>1. \A i \in RW!Places(new, u) :
            i \in 1 .. Len(line) - 1 /\ Old(i) \in RW!Places(line, u) /\ new[i] = line[Old(i)]
      BY <2>4, <2>6
    <3>2. \A i, j \in 1 .. Len(line) - 1 : Old(i) = Old(j) => i = j
      BY <1>0, <2>2
    <3> QED
      BY <3>1, <3>2 DEF Single
  <2>9. ASSUME NEW u \in Task \ {t}, RW!Granted(line, u)
        PROVE  RW!Granted(new, u)
    <3>1. PICK i \in RW!Places(line, u) :
            \A j \in 1 .. i - 1 : line[i].mode = "read" /\ line[j].mode = "read"
      BY <2>9 DEF RW!Granted
    <3>2. i \in 1 .. Len(line) /\ i # p /\ line[i].task = u
      BY <1>0, <2>2 DEF RW!Places
    <3> DEFINE k == IF i < p THEN i ELSE i - 1
    <3>3. k \in 1 .. Len(line) - 1 /\ Old(k) = i
      BY <1>0, <2>2, <3>2
    <3>4. k \in RW!Places(new, u) /\ new[k] = line[i]
      BY <2>4, <2>5, <3>2, <3>3 DEF RW!Places
    <3>5. \A j \in 1 .. k - 1 : j \in 1 .. Len(line) - 1 /\ Old(j) \in 1 .. i - 1
      BY <1>0, <2>2, <3>2, <3>3
    <3>6. \A j \in 1 .. k - 1 : new[k].mode = "read" /\ new[j].mode = "read"
      BY <2>4, <3>1, <3>4, <3>5
    <3> QED
      BY <3>4, <3>6 DEF RW!Granted
  <2> QED
    BY <2>5, <2>7, <2>8, <2>9
<1> QED
  BY <1>1, <1>2

\* Whoever enters the line stands behind everybody else.
LEMMA EnterLine ==
  ASSUME NEW line \in Line, NEW t \in Task, NEW mode \in RW!Mode,
         RW!Places(line, t) = {}
  PROVE  LET new == RW!Enter(line, t, mode)
         IN  /\ new \in Line
             /\ RW!Places(new, t) = {Len(line) + 1}
             /\ new[Len(line) + 1].mode = mode
             /\ \A u \in Task \ {t} :
                  /\ RW!Places(new, u) = RW!Places(line, u)
                  /\ \A i \in RW!Places(line, u) : new[i] = line[i]
                  /\ RW!Granted(line, u) => RW!Granted(new, u)
<1> DEFINE new == RW!Enter(line, t, mode)
<1>1. /\ Len(line) \in Nat /\ DOMAIN line = 1 .. Len(line)
      /\ new \in Line /\ DOMAIN new = 1 .. Len(line) + 1
      /\ new[Len(line) + 1] = [task |-> t, mode |-> mode]
      /\ \A i \in 1 .. Len(line) : new[i] = line[i]
  <2>1. [task |-> t, mode |-> mode] \in Place
    BY DEF Place
  <2> QED
    BY <2>1 DEF Line, RW!Enter
<1>2. RW!Places(new, t) = {Len(line) + 1}
  BY <1>1 DEF RW!Places
<1>3. \A u \in Task \ {t} : RW!Places(new, u) = RW!Places(line, u)
  BY <1>1 DEF RW!Places
<1>4. ASSUME NEW u \in Task \ {t}, RW!Granted(line, u)
      PROVE  RW!Granted(new, u)
  <2>1. PICK i \in RW!Places(line, u) :
          \A j \in 1 .. i - 1 : line[i].mode = "read" /\ line[j].mode = "read"
    BY <1>4 DEF RW!Granted
  <2>2. i \in 1 .. Len(line) /\ \A j \in 1 .. i - 1 : j \in 1 .. Len(line)
    BY <1>1 DEF RW!Places
  <2> QED
    BY <1>1, <1>3, <2>1, <2>2 DEF RW!Granted
<1> QED
  BY <1>1, <1>2, <1>3, <1>4 DEF RW!Places

\* A guard for writing excludes every other guard.
LEMMA Exclusion ==
  ASSUME NEW line \in Line, NEW t \in Task, NEW u \in Task,
         RW!Granted(line, t), RW!Granted(line, u),
         \A i \in RW!Places(line, t) : line[i].mode = "write"
  PROVE  t = u
<1>1. PICK i \in RW!Places(line, t) :
        \A k \in 1 .. i - 1 : line[i].mode = "read" /\ line[k].mode = "read"
  BY DEF RW!Granted
<1>2. PICK j \in RW!Places(line, u) :
        \A k \in 1 .. j - 1 : line[j].mode = "read" /\ line[k].mode = "read"
  BY DEF RW!Granted
<1>3. /\ i \in 1 .. Len(line) /\ j \in 1 .. Len(line) /\ Len(line) \in Nat
      /\ line[i].task = t /\ line[j].task = u /\ line[i].mode = "write"
  BY DEF Line, RW!Places
<1>4. ~(i < j) /\ ~(j < i)
  BY <1>1, <1>2, <1>3
<1> QED
  BY <1>3, <1>4

\* The head of a line has what it waits for.
LEMMA HeadGranted ==
  ASSUME NEW line \in Line, NEW t \in Task, RW!Places(line, t) # {}
  PROVE  \E u \in Task : RW!Granted(line, u)
<1>0. Len(line) \in Nat /\ DOMAIN line = 1 .. Len(line) /\ Len(line) # 0
  BY DEF Line, RW!Places
<1>1. 1 \in 1 .. Len(line) /\ line[1].task \in Task
  <2>1. 1 \in 1 .. Len(line) /\ line[1] \in Place
    BY <1>0 DEF Line
  <2> QED
    BY <2>1 DEF Place
<1>2. 1 \in RW!Places(line, line[1].task)
  BY <1>0, <1>1 DEF RW!Places
<1>3. \A j \in 1 .. 1 - 1 : FALSE
  OBVIOUS
<1> QED
  BY <1>1, <1>2, <1>3 DEF RW!Granted
-----------------------------------------------------------------------------
(***************************************************************************)
(* Removals take only what they are asked for.                             *)
(***************************************************************************)
\* new has an element for each position of old in D, and no other.
Exactly(new, old, D) ==
  /\ \A k \in DOMAIN new : \E q \in D : new[k] = old[q]
  /\ \A q \in D : \E k \in DOMAIN new : new[k] = old[q]

LEMMA SwapRemoveExactly ==
  ASSUME NEW S, NEW s \in Seq(S), NEW i \in DOMAIN s
  PROVE  Exactly(PG!SwapRemove(s, i), s, DOMAIN s \ {i})
<1> DEFINE new == PG!SwapRemove(s, i)
           last == Len(s)
<1>1. last \in Nat /\ DOMAIN s = 1 .. last
  OBVIOUS
<1>2. /\ DOMAIN new = 1 .. last - 1
      /\ \A k \in 1 .. last - 1 : new[k] = s[IF k = i THEN last ELSE k]
  BY DEF PG!SwapRemove
<1> HIDE DEF new, last
<1>3. ASSUME NEW k \in DOMAIN new
      PROVE  \E q \in DOMAIN s \ {i} : new[k] = s[q]
  <2>1. (IF k = i THEN last ELSE k) \in DOMAIN s \ {i}
    BY <1>1, <1>2
  <2> QED
    BY <1>2, <2>1
<1>4. ASSUME NEW q \in DOMAIN s \ {i}
      PROVE  \E k \in DOMAIN new : new[k] = s[q]
  <2>1. CASE q = last
    BY <1>1, <1>2, <2>1
  <2>2. CASE q # last
    <3>1. q \in 1 .. last - 1
      BY <1>1, <2>2
    <3> QED
      BY <1>2, <3>1
  <2> QED
    BY <2>1, <2>2
<1> QED
  BY <1>3, <1>4 DEF Exactly, new

LEMMA CompactionsExactly ==
  ASSUME NEW S, NEW s \in Seq(S), NEW R \in SUBSET DOMAIN s,
         NEW es \in PG!Compactions(s, R)
  PROVE  Exactly(es, s, DOMAIN s \ R)
<1> DEFINE n == Len(s) - Cardinality(R)
           D == DOMAIN s \ R
<1>1. /\ IsFiniteSet(DOMAIN s) /\ IsFiniteSet(R) /\ IsFiniteSet(D)
      /\ Cardinality(DOMAIN s) = Len(s) /\ Cardinality(D) = n
  <2>1. DOMAIN s = 1 .. Len(s) /\ Len(s) \in Nat
    OBVIOUS
  <2>2. IsFiniteSet(DOMAIN s) /\ Cardinality(DOMAIN s) = Len(s)
    <3>1. \A m \in Nat : IsFiniteSet(1 .. m) /\ Cardinality(1 .. m) = m
      BY FS_Interval, 1 \in Int
    <3> QED
      BY <2>1, <3>1
  <2>3. IsFiniteSet(R) /\ IsFiniteSet(D) /\ DOMAIN s \cap R = R
    BY <2>2, FS_Subset
  <2>4. Cardinality(D) = Cardinality(DOMAIN s) - Cardinality(DOMAIN s \cap R)
    BY <2>2, <2>3, FS_Difference
  <2> QED
    BY <2>2, <2>3, <2>4
<1>2. n \in Nat
  BY <1>1, FS_CardinalityType
<1>3. PICK p \in [1 .. n -> D] :
        /\ \A j, k \in 1 .. n : p[j] = p[k] => j = k
        /\ es = [k \in 1 .. n |-> s[p[k]]]
  BY DEF PG!Compactions, PG!Cardinality, Cardinality
<1>4. p \in Injection(1 .. n, D)
  BY <1>3 DEF Injection, IsInjective
<1>5. Cardinality(1 .. n) = n
  BY <1>2, FS_Interval, 1 \in Int
<1> HIDE DEF n, D
<1>6. p \in Surjection(1 .. n, D)
  BY <1>1, <1>4, <1>5, FS_Injection
<1>7. \A q \in D : \E k \in 1 .. n : p[k] = q
  BY <1>6 DEF Surjection
<1> QED
  BY <1>3, <1>7 DEF Exactly, D

LEMMA RemoveEdgeExactly ==
  ASSUME NEW g \in Graph, NEW e \in DOMAIN g.edges
  PROVE  LET h == PG!RemoveEdge(g, e)
         IN  h.nodes = g.nodes /\ Exactly(h.edges, g.edges, DOMAIN g.edges \ {e})
<1>1. g.edges \in Seq(Edge)
  BY DEF Graph
<1>2. PG!RemoveEdge(g, e) = [g EXCEPT !.edges = PG!SwapRemove(@, e)]
  BY DEF PG!RemoveEdge, PG!HasEdge
<1>3. /\ PG!RemoveEdge(g, e).nodes = g.nodes
      /\ PG!RemoveEdge(g, e).edges = PG!SwapRemove(g.edges, e)
  BY <1>2 DEF Graph
<1> QED
  BY <1>1, <1>3, SwapRemoveExactly

\* The edge k of h joins the nodes that the edge q of g does.
SameEnds(h, k, g, q) ==
  /\ h.nodes[h.edges[k].src] = g.nodes[g.edges[q].src]
  /\ h.nodes[h.edges[k].dst] = g.nodes[g.edges[q].dst]

LEMMA RemoveNodeExactly ==
  ASSUME NEW g \in Graph, PG!WellFormed(g), NEW i \in DOMAIN g.nodes,
         NEW h \in PG!RemoveNode(g, i)
  PROVE  /\ Exactly(h.nodes, g.nodes, DOMAIN g.nodes \ {i})
         /\ \A k \in DOMAIN h.edges :
              \E q \in DOMAIN g.edges \ PG!Incident(g, i) : SameEnds(h, k, g, q)
         /\ \A q \in DOMAIN g.edges \ PG!Incident(g, i) :
              \E k \in DOMAIN h.edges : SameEnds(h, k, g, q)
<1> DEFINE last == Len(g.nodes)
           D == DOMAIN g.edges \ PG!Incident(g, i)
<1>0. g.nodes \in Seq(NodeM) /\ g.edges \in Seq(Edge)
  BY DEF Graph
<1>1. PICK es \in PG!Compactions(g.edges, PG!Incident(g, i)) :
        h = [nodes |-> PG!SwapRemove(g.nodes, i),
             edges |-> [e \in DOMAIN es |->
               [es[e] EXCEPT !.src = IF @ = Len(g.nodes) THEN i ELSE @,
                             !.dst = IF @ = Len(g.nodes) THEN i ELSE @]]]
  BY DEF PG!RemoveNode, PG!HasNode
<1>2. /\ DOMAIN g.nodes = 1 .. last /\ last \in Nat
      /\ h.nodes = PG!SwapRemove(g.nodes, i) /\ DOMAIN h.edges = DOMAIN es
  <2>1. DOMAIN g.nodes = 1 .. last /\ last \in Nat
    BY <1>0
  <2>2. h.nodes = PG!SwapRemove(g.nodes, i) /\ DOMAIN h.edges = DOMAIN es
    BY <1>1, Zenon
  <2> QED
    BY <2>1, <2>2
<1>3. Exactly(h.nodes, g.nodes, DOMAIN g.nodes \ {i})
  BY <1>0, <1>2, SwapRemoveExactly
<1>4. es \in Seq(Edge) /\ Exactly(es, g.edges, D)
  <2>1. PG!Incident(g, i) \in SUBSET DOMAIN g.edges
    BY DEF PG!Incident
  <2> QED
    BY <1>0, <2>1, CompactionsArray, CompactionsExactly, Zenon
<1>5. ASSUME NEW k \in DOMAIN es, NEW q \in D, es[k] = g.edges[q]
      PROVE  SameEnds(h, k, g, q)
  <2> DEFINE Move(n) == IF n = last THEN i ELSE n
  <2>0. es[k] \in Edge
    BY <1>4
  <2>1. es[k] \in Edge /\ h.edges[k] = [es[k] EXCEPT !.src = Move(@), !.dst = Move(@)]
    BY <1>1, <2>0
  <2>2. h.edges[k].src = Move(es[k].src) /\ h.edges[k].dst = Move(es[k].dst)
    BY <2>1 DEF Edge
  <2>3. /\ es[k].src # i /\ es[k].src \in 1 .. last
        /\ es[k].dst # i /\ es[k].dst \in 1 .. last
    BY <1>2, <1>5 DEF PG!Incident, PG!WellFormed, PG!HasNode
  <2>4. \A n \in 1 .. last : n # i => h.nodes[Move(n)] = g.nodes[n]
    <3>1. \A m \in 1 .. last - 1 :
            PG!SwapRemove(g.nodes, i)[m] = IF m = i THEN g.nodes[last] ELSE g.nodes[m]
      BY DEF PG!SwapRemove
    <3>2. \A n \in 1 .. last : n # i => Move(n) \in 1 .. last - 1 /\ (Move(n) = i <=> n = last)
      BY <1>2
    <3> QED
      BY <1>2, <3>1, <3>2
  <2> HIDE DEF Move
  <2> QED
    BY <1>5, <2>2, <2>3, <2>4 DEF SameEnds
<1> HIDE DEF D
<1>6. \A k \in DOMAIN h.edges : \E q \in D : SameEnds(h, k, g, q)
  BY <1>2, <1>4, <1>5 DEF Exactly
<1>7. \A q \in D : \E k \in DOMAIN h.edges : SameEnds(h, k, g, q)
  BY <1>2, <1>4, <1>5 DEF Exactly
<1> QED
  BY <1>3, <1>6, <1>7 DEF D
=============================================================================
