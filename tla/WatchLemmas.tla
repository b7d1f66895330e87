----------------------------- MODULE WatchLemmas -----------------------------
(***************************************************************************)
(* What the proofs about WatchMysqlBinlog need to know of the log of the   *)
(* server, of places in it and of the calls its events should lead to.     *)
(***************************************************************************)
EXTENDS WatchRequirements, SequenceLemmas

-----------------------------------------------------------------------------
(***************************************************************************)
(* The log: what its events are, that files come in their order, and that  *)
(* a row event has the TableMap event that announces it in its own         *)
(* transaction.                                                            *)
(***************************************************************************)
Event ==
  [file : 1 .. MaxFile, kind : {"begin"}]
    \cup [file : 1 .. MaxFile, kind : {"map"}, id : 1 .. MaxId, table : Table]
    \cup [file : 1 .. MaxFile, kind : {"write", "delete"}, id : 1 .. MaxId, rows : Seq(Row)]
    \cup [file : 1 .. MaxFile, kind : {"update"}, id : 1 .. MaxId, rows : Seq(Row \X Row)]

\* The rows of event are rows of table t.
RowsOf(event, t) ==
  IF event.kind = "update" THEN \A k \in DOMAIN event.rows : event.rows[k][1].table = t
  ELSE event.rows[1].table = t

Announces(j, i) ==
  /\ log[j].kind = "map" /\ log[j].id = log[i].id
  /\ RowsOf(log[i], log[j].table)
  /\ \A k \in j + 1 .. i : log[k].kind # "begin"

ServerInv ==
  /\ log \in Seq(Event)
  /\ file \in 1 .. MaxFile
  /\ \A i \in DOMAIN log : log[i].file <= file
  /\ \A i \in DOMAIN log : log[i].kind \in Tag => \E j \in 1 .. i - 1 : Announces(j, i)
  /\ ids \in [Table -> 0 .. MaxId]
  /\ gtid_mode \in GtidMode
-----------------------------------------------------------------------------
(***************************************************************************)
(* The server.                                                             *)
(***************************************************************************)
LEMMA GreatestNumber ==
  ASSUME NEW n \in Nat, NEW S \in SUBSET (0 .. n), S # {}
  PROVE  Max(S) \in S
<1> DEFINE T == {n - x : x \in S}
<1>1. T \in SUBSET Nat /\ T # {}
  <2>1. \A x \in S : n - x \in Nat
    OBVIOUS
  <2> QED
    BY <2>1, Zenon
<1>2. PICK k \in T : \A m \in T : k <= m
  BY <1>1, LeastNumber
<1>3. PICK x \in S : k = n - x
  OBVIOUS
<1>4. \A y \in S : x >= y
  BY <1>2, <1>3
<1> QED
  BY <1>4 DEF Max

LEMMA HighestType ==
  ASSUME ServerInv
  PROVE  Highest \in 0 .. MaxId
<1>1. {ids[t] : t \in Table} \in SUBSET (0 .. MaxId) /\ {ids[t] : t \in Table} # {} /\ MaxId \in Nat
  BY WatchAssumption DEF ServerInv
<1> QED
  BY <1>1, GreatestNumber DEF Highest

LEMMA StatementShape ==
  ASSUME NEW s \in Statements
  PROVE  s[1] \in Seq(Table) /\ Len(s[1]) \in Nat \ {0} /\ s[2] \in Tag
<1>1. CASE \E t \in Table, tag \in Tag : s = <<<<t>>, tag>>
  BY <1>1
<1>2. CASE \E t, u \in Joinable : s = <<<<t, u>>, "delete">>
  BY <1>2, WatchAssumption DEF Tag
<1> QED
  BY <1>1, <1>2 DEF Statements

LEMMA OpenedIds ==
  ASSUME ServerInv, NEW ts \in Seq(Table)
  PROVE  /\ DOMAIN Opened(ts) = DOMAIN ts
         /\ \A i \in DOMAIN ts : Opened(ts)[i] \in Nat \ {0}
<1>1. Highest \in Nat
  BY HighestType
<1>2. ASSUME NEW i \in DOMAIN ts
      PROVE  Opened(ts)[i] \in Nat \ {0}
  <2> DEFINE fresh == {j \in 1 .. i : ids[ts[j]] = 0}
  <2>1. Opened(ts)[i] = IF ids[ts[i]] = 0 THEN Highest + Cardinality(fresh) ELSE ids[ts[i]]
    BY DEF Opened
  <2>2. i \in Nat /\ i \in 1 .. i /\ ids[ts[i]] \in Nat
    BY DEF ServerInv
  <2>3. ASSUME ids[ts[i]] = 0
        PROVE  Cardinality(fresh) \in Nat \ {0}
    <3>1. IsFiniteSet(fresh) /\ fresh # {}
      <4>1. IsFiniteSet(1 .. i)
        BY <2>2, FS_Interval
      <4> QED
        BY <2>2, <2>3, <4>1, FS_Subset
    <3> QED
      BY <3>1, FS_CardinalityType, FS_EmptySet
  <2> QED
    BY <1>1, <2>1, <2>2, <2>3
<1> QED
  BY <1>2 DEF Opened

\* What a transaction adds to the log.
Transaction(more) ==
  /\ more \in Seq(Event) /\ Len(more) \in Nat \ {0}
  /\ \A i \in DOMAIN more : more[i].file = file /\ (more[i].kind = "begin" <=> i = 1)
  /\ \A i \in DOMAIN more : more[i].kind \in Tag =>
       \E j \in 2 .. i - 1 :
         more[j].kind = "map" /\ more[j].id = more[i].id /\ RowsOf(more[i], more[j].table)

LEMMA ChangesType ==
  ASSUME NEW t \in Table, NEW tag \in Tag, NEW id \in 1 .. MaxId, NEW f \in 1 .. MaxFile
  PROVE  LET event == [file |-> f, kind |-> tag, id |-> id, rows |-> Changes(t, tag)]
         IN  event \in Event /\ RowsOf(event, t)
<1> DEFINE one == [table |-> t, n |-> 1]
           two == [table |-> t, n |-> 2]
<1>1. one \in Row /\ two \in Row /\ one.table = t /\ two.table = t
  BY DEF Row
<1> HIDE DEF one, two
<1>2. CASE tag = "write"
  <2>1. Changes(t, tag) = <<one, two>>
    BY <1>2 DEF Changes, one, two
  <2>2. Changes(t, tag) \in Seq(Row) /\ Changes(t, tag)[1] = one
    BY <1>1, <2>1
  <2> QED
    BY <1>1, <1>2, <2>2 DEF Event, RowsOf
<1>3. CASE tag = "update"
  <2>1. Changes(t, tag) = <<<<one, two>>, <<two, one>>>>
    BY <1>3 DEF Changes, one, two
  <2>2. Changes(t, tag) \in Seq(Row \X Row)
    BY <1>1, <2>1
  <2> QED
    BY <1>1, <1>3, <2>1, <2>2 DEF Event, RowsOf
<1>4. CASE tag = "delete"
  <2>1. Changes(t, tag) = <<one>>
    BY <1>4 DEF Changes, one, two
  <2>2. Changes(t, tag) \in Seq(Row) /\ Changes(t, tag)[1] = one
    BY <1>1, <2>1
  <2> QED
    BY <1>1, <1>4, <2>2 DEF Event, RowsOf
<1> QED
  BY <1>2, <1>3, <1>4 DEF Tag

LEMMA CommitAppends ==
  ASSUME ServerInv, Commit
  PROVE  /\ \E more : Transaction(more) /\ log' = log \o more
         /\ ids' \in [Table -> 0 .. MaxId]
<1>1. PICK s \in Statements :
        LET ts == s[1]
            id == Opened(ts)
        IN  /\ \A i \in DOMAIN ts : id[i] <= MaxId
            /\ ids' = [t \in Table |-> IF \E i \in DOMAIN ts : ts[i] = t
                                       THEN id[CHOOSE i \in DOMAIN ts : ts[i] = t] ELSE ids[t]]
            /\ log' = log \o <<[file |-> file, kind |-> "begin"]>>
                 \o [i \in DOMAIN ts |-> [file |-> file, kind |-> "map", id |-> id[i], table |-> ts[i]]]
                 \o [i \in DOMAIN ts |-> [file |-> file, kind |-> s[2], id |-> id[i],
                                          rows |-> Changes(ts[i], s[2])]]
  BY Zenon DEF Commit
<1> DEFINE ts == s[1]
           id == Opened(ts)
           n == Len(ts)
           begin == [file |-> file, kind |-> "begin"]
           map(i) == [file |-> file, kind |-> "map", id |-> id[i], table |-> ts[i]]
           row(i) == [file |-> file, kind |-> s[2], id |-> id[i], rows |-> Changes(ts[i], s[2])]
           maps == [i \in DOMAIN ts |-> map(i)]
           rows == [i \in DOMAIN ts |-> row(i)]
           more == (<<begin>> \o maps) \o rows
<1>2. /\ ts \in Seq(Table) /\ n \in Nat \ {0} /\ DOMAIN ts = 1 .. n /\ s[2] \in Tag
      /\ file \in 1 .. MaxFile /\ MaxId \in Nat /\ MaxFile \in Nat
  BY StatementShape, WatchAssumption DEF ServerInv
<1>3. \A i \in 1 .. n : ts[i] \in Table /\ id[i] \in 1 .. MaxId
  <2>1. \A i \in 1 .. n : ts[i] \in Table /\ id[i] \in Nat \ {0}
    BY <1>2, OpenedIds
  <2> QED
    BY <1>1, <1>2, <2>1
<1>4. ids' \in [Table -> 0 .. MaxId]
  <2>1. \A t \in Table : (\E i \in DOMAIN ts : ts[i] = t) =>
          (CHOOSE i \in DOMAIN ts : ts[i] = t) \in DOMAIN ts
    OBVIOUS
  <2>2. \A t \in Table : ids[t] \in 0 .. MaxId
    BY DEF ServerInv
  <2> HIDE DEF ts, id
  <2>3. \A i \in DOMAIN ts : id[i] \in 0 .. MaxId
    BY <1>2, <1>3
  <2> QED
    BY <1>1, <2>1, <2>2, <2>3 DEF ts, id
<1>5. /\ begin \in Event /\ begin.kind = "begin" /\ begin.file = file
      /\ \A i \in 1 .. n :
           /\ map(i) \in Event /\ row(i) \in Event
           /\ map(i).kind = "map" /\ row(i).kind \in Tag /\ map(i).file = file /\ row(i).file = file
           /\ map(i).id = row(i).id /\ RowsOf(row(i), map(i).table)
  <2>1. begin \in Event
    BY <1>2 DEF Event
  <2>2. ASSUME NEW i \in 1 .. n
        PROVE  map(i) \in Event /\ row(i) \in Event /\ RowsOf(row(i), ts[i])
    <3>1. ts[i] \in Table /\ id[i] \in 1 .. MaxId
      BY <1>3
    <3>2. map(i) \in Event
      BY <1>2, <3>1 DEF Event
    <3> HIDE DEF ts, id
    <3> QED
      BY <1>2, <3>1, <3>2, ChangesType
  <2> QED
    BY <1>2, <2>1, <2>2
<1> HIDE DEF begin, map, row
<1>6. /\ maps \in Seq(Event) /\ rows \in Seq(Event) /\ <<begin>> \in Seq(Event)
      /\ Len(maps) = n /\ Len(rows) = n
  BY <1>2, <1>5
<1>7. /\ more \in Seq(Event) /\ Len(more) = 1 + n + n
      /\ more[1] = begin
      /\ \A i \in 1 .. n : more[1 + i] = map(i) /\ more[1 + n + i] = row(i)
  <2>1. \A i \in 1 .. n : maps[i] = map(i) /\ rows[i] = row(i)
    BY <1>2
  <2> HIDE DEF maps, rows, n
  <2> QED
    BY <1>2, <1>6, <2>1
<1>8. log' = log \o more
  <2>1. log' = ((log \o <<begin>>) \o maps) \o rows
    BY <1>1 DEF begin, map, row
  <2>2. log \in Seq(Event)
    BY DEF ServerInv
  <2> HIDE DEF maps, rows
  <2> QED
    BY <1>6, <2>1, <2>2, ConcatAssociative, ConcatProperties
<1>9. Transaction(more)
  <2> HIDE DEF more, n
  <2>1. ASSUME NEW i \in DOMAIN more
        PROVE  \/ i = 1
               \/ \E k \in 1 .. n : i = 1 + k
               \/ \E k \in 1 .. n : i = 1 + n + k
    <3>1. i \in 1 .. 1 + n + n
      BY <1>7
    <3>2. CASE i > 1 + n
      <4>1. i - (1 + n) \in 1 .. n /\ i = 1 + n + (i - (1 + n))
        BY <1>2, <3>1, <3>2
      <4> QED
        BY <4>1
    <3>3. CASE i \in 2 .. 1 + n
      <4>1. i - 1 \in 1 .. n /\ i = 1 + (i - 1)
        BY <1>2, <3>1, <3>3
      <4> QED
        BY <4>1
    <3> QED
      BY <1>2, <3>1, <3>2, <3>3
  <2>2. ASSUME NEW k \in 1 .. n
        PROVE  /\ more[1 + k].kind = "map" /\ more[1 + k].file = file
               /\ more[1 + n + k].kind \in Tag /\ more[1 + n + k].file = file
               /\ more[1 + k].id = more[1 + n + k].id
               /\ RowsOf(more[1 + n + k], more[1 + k].table)
               /\ 1 + k \in 2 .. (1 + n + k) - 1
    <3>1. more[1 + k] = map(k) /\ more[1 + n + k] = row(k)
      BY <1>7
    <3>2. 1 + k \in 2 .. (1 + n + k) - 1
      BY <1>2
    <3> QED
      BY <1>5, <3>1, <3>2
  <2>3. ASSUME NEW i \in DOMAIN more
        PROVE  more[i].file = file /\ (more[i].kind = "begin" <=> i = 1)
    <3>1. CASE i = 1
      BY <1>5, <1>7, <3>1
    <3>2. ASSUME NEW k \in 1 .. n, i = 1 + k \/ i = 1 + n + k
          PROVE  more[i].file = file /\ more[i].kind # "begin" /\ i # 1
      <4>1. i # 1
        BY <1>2, <3>2
      <4> QED
        BY <2>2, <3>2, <4>1 DEF Tag
    <3> QED
      BY <2>1, <3>1, <3>2
  <2>4. ASSUME NEW i \in DOMAIN more, more[i].kind \in Tag
        PROVE  \E j \in 2 .. i - 1 :
                 more[j].kind = "map" /\ more[j].id = more[i].id /\ RowsOf(more[i], more[j].table)
    <3>1. PICK k \in 1 .. n : i = 1 + n + k
      BY <2>1, <2>2, <2>4, <1>5, <1>7 DEF Tag
    <3> QED
      BY <2>2, <3>1
  <2> QED
    BY <1>2, <1>7, <2>3, <2>4 DEF Transaction
<1> QED
  BY <1>4, <1>8, <1>9

\* The log grew by a transaction in the last file.
Grown ==
  /\ log' \in Seq(Event) /\ Len(log) \in Nat /\ Len(log') \in Nat /\ Len(log) < Len(log')
  /\ \A i \in 1 .. Len(log) : log'[i] = log[i]
  /\ \A i \in Len(log) + 1 .. Len(log') :
       log'[i].file = file /\ (log'[i].kind = "begin" <=> i = Len(log) + 1)

LEMMA CommitServer ==
  ASSUME ServerInv, Commit
  PROVE  ServerInv' /\ Grown
<1>1. PICK more : Transaction(more) /\ log' = log \o more
  BY CommitAppends
<1>2. /\ log \in Seq(Event) /\ more \in Seq(Event) /\ Len(log) \in Nat /\ Len(more) \in Nat \ {0}
      /\ DOMAIN log = 1 .. Len(log) /\ DOMAIN more = 1 .. Len(more)
  BY <1>1 DEF ServerInv, Transaction
<1>3. /\ log' \in Seq(Event) /\ Len(log') = Len(log) + Len(more)
      /\ \A i \in 1 .. Len(log) : log'[i] = log[i]
      /\ \A i \in 1 .. Len(more) : log'[Len(log) + i] = more[i]
  BY <1>1, <1>2
<1>4. \A i \in Len(log) + 1 .. Len(log') : i - Len(log) \in 1 .. Len(more) /\ log'[i] = more[i - Len(log)]
  BY <1>2, <1>3
<1>5. Grown
  <2>1. ASSUME NEW i \in Len(log) + 1 .. Len(log')
        PROVE  log'[i].file = file /\ (log'[i].kind = "begin" <=> i = Len(log) + 1)
    <3> DEFINE m == i - Len(log)
    <3>1. m \in DOMAIN more /\ log'[i] = more[m] /\ (m = 1 <=> i = Len(log) + 1)
      BY <1>2, <1>3, <1>4
    <3> HIDE DEF m
    <3>2. more[m].file = file /\ (more[m].kind = "begin" <=> m = 1)
      BY <1>1, <3>1 DEF Transaction
    <3> QED
      BY <3>1, <3>2
  <2> QED
    BY <1>2, <1>3, <2>1 DEF Grown
<1>6. file' = file /\ gtid_mode' = gtid_mode /\ ids' \in [Table -> 0 .. MaxId]
  BY CommitAppends DEF Commit
<1>7. \A i \in 1 .. Len(log') : log'[i].file <= file
  <2>1. file \in Nat /\ \A i \in 1 .. Len(log) : log[i].file <= file
    BY <1>2, WatchAssumption DEF ServerInv
  <2>2. \A i \in 1 .. Len(log') : i \in 1 .. Len(log) \/ i \in Len(log) + 1 .. Len(log')
    BY <1>2, <1>3
  <2> QED
    BY <1>3, <1>5, <2>1, <2>2 DEF Grown
<1>8. ASSUME NEW i \in 1 .. Len(log'), log'[i].kind \in Tag
      PROVE  \E j \in 1 .. i - 1 : Announces(j, i)'
  <2>1. CASE i <= Len(log)
    <3>1. i \in 1 .. Len(log) /\ log'[i] = log[i]
      BY <1>2, <1>3, <2>1
    <3>2. PICK j \in 1 .. i - 1 : Announces(j, i)
      BY <1>2, <1>8, <3>1 DEF ServerInv
    <3>3. j \in 1 .. Len(log) /\ \A k \in j + 1 .. i : k \in 1 .. Len(log)
      BY <1>2, <3>1
    <3>4. Announces(j, i)'
      BY <1>3, <3>1, <3>2, <3>3 DEF Announces
    <3> QED
      BY <3>4
  <2>2. CASE i > Len(log)
    <3> DEFINE m == i - Len(log)
    <3>1. m \in 1 .. Len(more) /\ log'[i] = more[m]
      BY <1>2, <1>4, <2>2
    <3>2. PICK j \in 2 .. m - 1 :
            more[j].kind = "map" /\ more[j].id = more[m].id /\ RowsOf(more[m], more[j].table)
      BY <1>1, <1>2, <1>8, <3>1 DEF Transaction
    <3>3. PICK p \in 1 .. i - 1 : p = Len(log) + j
      BY <1>2, <3>1
    <3>4. /\ j \in 1 .. Len(more) /\ log'[p] = more[j]
          /\ \A k \in p + 1 .. i : k \in Len(log) + 1 .. Len(log') /\ k # Len(log) + 1
      BY <1>2, <1>3, <3>1, <3>3
    <3>5. \A k \in p + 1 .. i : log'[k].kind # "begin"
      BY <1>5, <3>4 DEF Grown
    <3>6. Announces(p, i)'
      BY <3>1, <3>2, <3>4, <3>5 DEF Announces
    <3> QED
      BY <3>6
  <2> QED
    BY <1>2, <2>1, <2>2
<1>9. ServerInv'
  BY <1>3, <1>6, <1>7, <1>8 DEF ServerInv
<1> QED
  BY <1>5, <1>9

LEMMA OtherServer ==
  ASSUME ServerInv, Rotate \/ Reopen \/ Restart \/ UNCHANGED server
  PROVE  ServerInv' /\ log' = log /\ file <= file'
<1>0. file \in 1 .. MaxFile /\ MaxFile \in Nat /\ MaxId \in Nat
  BY WatchAssumption DEF ServerInv
<1>1. log' = log /\ gtid_mode' = gtid_mode
  BY DEF Rotate, Reopen, Restart, server
<1>2. file' \in 1 .. MaxFile /\ file <= file'
  BY <1>0 DEF Rotate, Reopen, Restart, server
<1>3. ids' \in [Table -> 0 .. MaxId]
  <2>1. CASE Reopen
    <3>1. PICK t \in Table : Highest < MaxId /\ ids' = [ids EXCEPT ![t] = Highest + 1]
      BY <2>1 DEF Reopen
    <3>2. Highest + 1 \in 0 .. MaxId
      BY <1>0, <3>1, HighestType
    <3> QED
      BY <3>1, <3>2 DEF ServerInv
  <2>2. CASE Restart
    BY <1>0, <2>2 DEF Restart
  <2>3. CASE Rotate \/ UNCHANGED server
    BY <2>3 DEF Rotate, server, ServerInv
  <2> QED
    BY <2>1, <2>2, <2>3
<1>4. \A i \in DOMAIN log' : log'[i].file <= file'
  <2>1. ASSUME NEW i \in DOMAIN log
        PROVE  log[i].file <= file'
    <3>1. log[i] \in Event /\ log[i].file <= file
      BY DEF ServerInv
    <3>2. log[i].file \in Nat
      BY <1>0, <3>1 DEF Event
    <3> QED
      BY <1>0, <1>2, <3>1, <3>2
  <2> QED
    BY <1>1, <2>1
<1>5. \A i, j : Announces(j, i) => Announces(j, i)'
  BY <1>1 DEF Announces
<1> QED
  BY <1>1, <1>2, <1>3, <1>4, <1>5 DEF ServerInv
-----------------------------------------------------------------------------
(***************************************************************************)
(* Places in the log.                                                      *)
(***************************************************************************)
LEMMA Counting ==
  ASSUME NEW n \in Nat, NEW S \in SUBSET (1 .. n)
  PROVE  /\ IsFiniteSet(S) /\ Cardinality(S) \in 0 .. n
         /\ S = 1 .. n => Cardinality(S) = n
<1>1. IsFiniteSet(1 .. n) /\ Cardinality(1 .. n) = n
  BY FS_Interval
<1>2. IsFiniteSet(S) /\ Cardinality(S) <= n
  BY <1>1, FS_Subset
<1> QED
  BY <1>1, <1>2, FS_CardinalityType

LEMMA PlaceTypes ==
  ASSUME log \in Seq(Event)
  PROVE  /\ Len(log) \in Nat /\ DOMAIN log = 1 .. Len(log)
         /\ Cardinality(Begins) \in Nat
         /\ \A n \in Nat : AfterGtids(n) \in 1 .. Len(log) + 1
         /\ \A f \in Nat : /\ Sized(f) \in Nat
                           /\ \A n \in Nat : n <= Sized(f) => After(f, n) \in 1 .. Len(log) + 1
<1>1. Len(log) \in Nat /\ DOMAIN log = 1 .. Len(log)
  OBVIOUS
<1>2. Cardinality(Begins) \in Nat
  <2>1. Begins \in SUBSET (1 .. Len(log))
    BY <1>1 DEF Begins
  <2> QED
    BY <1>1, <2>1, Counting
<1>3. ASSUME NEW n \in Nat
      PROVE  AfterGtids(n) \in 1 .. Len(log) + 1
  <2> DEFINE S == {i \in DOMAIN log : Cardinality({j \in Begins : j <= i}) <= n}
  <2>1. S \in SUBSET (1 .. Len(log))
    BY <1>1
  <2>2. Cardinality(S) \in 0 .. Len(log)
    BY <1>1, <2>1, Counting
  <2> HIDE DEF S
  <2>3. Cardinality(S) + 1 \in 1 .. Len(log) + 1
    BY <1>1, <2>2
  <2> QED
    BY <2>3 DEF AfterGtids, S
<1>4. ASSUME NEW f \in Nat
      PROVE  /\ Sized(f) \in Nat
             /\ \A n \in Nat : n <= Sized(f) => After(f, n) \in 1 .. Len(log) + 1
  <2> DEFINE S == {i \in DOMAIN log : log[i].file < f}
             T == {i \in DOMAIN log : log[i].file = f}
  <2>1. S \in SUBSET (1 .. Len(log)) /\ T \in SUBSET (1 .. Len(log)) /\ S \cap T = {}
    <3>1. \A i \in DOMAIN log : log[i].file \in Nat
      BY <1>1, WatchAssumption DEF Event
    <3> QED
      BY <1>1, <3>1
  <2>2. S \cup T \in SUBSET (1 .. Len(log))
    BY <2>1
  <2>3. /\ IsFiniteSet(S) /\ IsFiniteSet(T)
        /\ Cardinality(S) \in Nat /\ Cardinality(T) \in Nat
        /\ Cardinality(S \cup T) <= Len(log)
    <3> HIDE DEF S, T
    <3> QED
      BY <1>1, <2>1, <2>2, Counting
  <2>4. Cardinality(S \cup T) = Cardinality(S) + Cardinality(T)
    <3> HIDE DEF S, T
    <3>1. Cardinality(S \cap T) = 0
      BY <2>1, FS_EmptySet
    <3>2. Cardinality(S \cup T) = Cardinality(S) + Cardinality(T) - Cardinality(S \cap T)
      BY <2>3, FS_Union
    <3> QED
      BY <2>3, <3>1, <3>2
  <2>5. Sized(f) = Cardinality(T) /\ \A n : After(f, n) = Cardinality(S) + n + 1
    BY DEF Sized, After
  <2> HIDE DEF S, T
  <2> QED
    BY <1>1, <2>3, <2>4, <2>5
<1> QED
  BY <1>1, <1>2, <1>3, <1>4

\* The end of the log, as the two ways of asking for it find it.
LEMMA EndOfLog ==
  ASSUME ServerInv
  PROVE  /\ After(file, Sized(file)) = Len(log) + 1
         /\ AfterGtids(Cardinality(Begins)) = Len(log) + 1
<1>1. Len(log) \in Nat /\ DOMAIN log = 1 .. Len(log) /\ file \in Nat /\ Cardinality(Begins) \in Nat
  BY PlaceTypes, WatchAssumption DEF ServerInv
<1>2. After(file, Sized(file)) = Len(log) + 1
  <2> DEFINE S == {i \in DOMAIN log : log[i].file < file}
             T == {i \in DOMAIN log : log[i].file = file}
  <2>1. S \in SUBSET (1 .. Len(log)) /\ T \in SUBSET (1 .. Len(log)) /\ S \cap T = {}
        /\ S \cup T = 1 .. Len(log)
    <3>1. \A i \in DOMAIN log : log[i].file \in Nat /\ log[i].file <= file
      BY <1>1, WatchAssumption DEF Event, ServerInv
    <3> QED
      BY <1>1, <3>1
  <2>2. After(file, Sized(file)) = Cardinality(S) + Cardinality(T) + 1
    BY DEF After, Sized
  <2> HIDE DEF S, T
  <2>3. /\ IsFiniteSet(S) /\ IsFiniteSet(T)
        /\ Cardinality(S) \in Nat /\ Cardinality(T) \in Nat
        /\ Cardinality(S \cup T) = Len(log)
    <3>1. Cardinality(1 .. Len(log)) = Len(log)
      BY <1>1, Counting
    <3>2. IsFiniteSet(S) /\ IsFiniteSet(T) /\ Cardinality(S) \in Nat /\ Cardinality(T) \in Nat
      BY <1>1, <2>1, Counting
    <3> QED
      BY <2>1, <3>1, <3>2
  <2>4. Cardinality(S \cap T) = 0
    BY <2>1, FS_EmptySet
  <2>5. Cardinality(S \cup T) = Cardinality(S) + Cardinality(T)
    <3>1. Cardinality(S \cup T) = Cardinality(S) + Cardinality(T) - Cardinality(S \cap T)
      BY <2>3, FS_Union
    <3> QED
      BY <2>3, <2>4, <3>1
  <2> QED
    BY <1>1, <2>2, <2>3, <2>5
<1>3. AfterGtids(Cardinality(Begins)) = Len(log) + 1
  <2> DEFINE S == {i \in DOMAIN log : Cardinality({j \in Begins : j <= i}) <= Cardinality(Begins)}
  <2>1. ASSUME NEW i \in DOMAIN log
        PROVE  Cardinality({j \in Begins : j <= i}) <= Cardinality(Begins)
    <3>1. Begins \in SUBSET (1 .. Len(log)) /\ {j \in Begins : j <= i} \in SUBSET Begins
      BY <1>1 DEF Begins
    <3>2. IsFiniteSet(Begins)
      BY <1>1, <3>1, Counting
    <3> QED
      BY <3>1, <3>2, FS_Subset
  <2>2. S = 1 .. Len(log)
    BY <1>1, <2>1
  <2>3. Cardinality(S) = Len(log)
    BY <1>1, <2>2, Counting
  <2> QED
    BY <2>3 DEF AfterGtids
<1> QED
  BY <1>2, <1>3

\* A transaction moves no place that was asked for before.
LEMMA PlacesStay ==
  ASSUME ServerInv, Grown
  PROVE  /\ \A i \in Nat : i <= Len(log) + 1 => (Boundary(i) <=> Boundary(i)')
         /\ Cardinality(Begins)' = Cardinality(Begins) + 1
         /\ \A n \in Nat : n <= Cardinality(Begins) => AfterGtids(n)' = AfterGtids(n)
         /\ \A f \in 1 .. file : Sized(f) <= Sized(f)' /\ \A n : After(f, n)' = After(f, n)
<1>1. /\ Len(log) \in Nat /\ DOMAIN log = 1 .. Len(log) /\ file \in Nat /\ MaxFile \in Nat
      /\ Len(log') \in Nat /\ DOMAIN log' = 1 .. Len(log') /\ Len(log) < Len(log')
      /\ \A i \in 1 .. Len(log) : log'[i] = log[i]
      /\ \A i \in Len(log) + 1 .. Len(log') :
           log'[i].file = file /\ (log'[i].kind = "begin" <=> i = Len(log) + 1)
  BY WatchAssumption DEF ServerInv, Grown
<1>2. Begins' = Begins \cup {Len(log) + 1}
  BY <1>1 DEF Begins
<1>3. Begins \in SUBSET (1 .. Len(log)) /\ IsFiniteSet(Begins) /\ Cardinality(Begins) \in Nat
  <2>1. Begins \in SUBSET (1 .. Len(log))
    BY <1>1 DEF Begins
  <2> QED
    BY <1>1, <2>1, Counting
<1>4. Cardinality(Begins)' = Cardinality(Begins) + 1
  <2>1. Len(log) + 1 \notin Begins
    BY <1>1, <1>3
  <2> QED
    BY <1>2, <1>3, <2>1, FS_AddElement
<1>5. \A i \in Nat : i <= Len(log) + 1 => (Boundary(i) <=> Boundary(i)')
  BY <1>1, <1>2, <1>3 DEF Boundary
<1>6. ASSUME NEW n \in Nat, n <= Cardinality(Begins)
      PROVE  AfterGtids(n)' = AfterGtids(n)
  <2>1. ASSUME NEW i \in 1 .. Len(log)
        PROVE  {j \in Begins' : j <= i} = {j \in Begins : j <= i}
    BY <1>1, <1>2
  <2>2. ASSUME NEW i \in Len(log) + 1 .. Len(log')
        PROVE  ~(Cardinality({j \in Begins' : j <= i}) <= n)
    <3>0. \A j \in Begins' : j <= i
      BY <1>1, <1>2, <1>3
    <3>1. {j \in Begins' : j <= i} = Begins'
      BY <3>0, Zenon
    <3>2. Cardinality(Begins') = Cardinality(Begins) + 1
      BY <1>4
    <3>3. ~(Cardinality(Begins) + 1 <= n)
      BY <1>3, <1>6
    <3> QED
      BY <3>1, <3>2, <3>3, Zenon
  <2>3. {i \in 1 .. Len(log') : Cardinality({j \in Begins' : j <= i}) <= n}
          = {i \in 1 .. Len(log) : Cardinality({j \in Begins : j <= i}) <= n}
    <3>1. \A i \in 1 .. Len(log') : i \in 1 .. Len(log) \/ i \in Len(log) + 1 .. Len(log')
      BY <1>1
    <3>2. \A i \in 1 .. Len(log) : i \in 1 .. Len(log')
      BY <1>1
    <3> QED
      BY <2>1, <2>2, <3>1, <3>2, Zenon
  <2> QED
    BY <1>1, <2>3 DEF AfterGtids
<1>7. ASSUME NEW f \in 1 .. file
      PROVE  Sized(f) <= Sized(f)' /\ \A n : After(f, n)' = After(f, n)
  <2>1. {i \in 1 .. Len(log') : log'[i].file < f} = {i \in 1 .. Len(log) : log[i].file < f}
    BY <1>1
  <2>2. \A n : After(f, n)' = After(f, n)
    BY <1>1, <2>1 DEF After
  <2> DEFINE S == {i \in 1 .. Len(log) : log[i].file = f}
             T == {i \in 1 .. Len(log') : log'[i].file = f}
  <2>3. S \in SUBSET T /\ T \in SUBSET (1 .. Len(log'))
    BY <1>1
  <2>4. Sized(f) = Cardinality(S) /\ Sized(f)' = Cardinality(T)
    BY <1>1 DEF Sized
  <2> HIDE DEF S, T
  <2>5. Cardinality(S) <= Cardinality(T)
    BY <1>1, <2>3, Counting, FS_Subset
  <2> QED
    BY <2>2, <2>4, <2>5
<1> QED
  BY <1>4, <1>5, <1>6, <1>7
-----------------------------------------------------------------------------
(***************************************************************************)
(* The calls that events should lead to, and that the watcher makes.       *)
(***************************************************************************)
Call == [item : {"node", "edge"}, tag : Tag, data : Seq(Row)]

LEMMA ExpectedIs ==
  ASSUME NEW event
  PROVE  /\ event.kind \in {"begin", "map"} => Expected(event) = <<>>
         /\ event.kind = "update" =>
              Expected(event) = FlattenSeq([i \in DOMAIN event.rows |-> CallsFor("update", event.rows[i])])
         /\ event.kind \in {"write", "delete"} => Expected(event) = CallsFor(event.kind, event.rows)
BY DEF Expected

LEMMA CallsForType ==
  ASSUME NEW tag \in Tag, NEW data \in Seq(Row)
  PROVE  CallsFor(tag, data) \in Seq(Call)
<1>1. /\ [item |-> "node", tag |-> tag, data |-> data] \in Call
      /\ [item |-> "edge", tag |-> tag, data |-> data] \in Call
  BY DEF Call
<1>2. <<>> \in Seq(Call) /\ \A c \in Call : <<c>> \in Seq(Call)
  OBVIOUS
<1> QED
  BY <1>1, <1>2 DEF CallsFor

\* The calls for the pairs of an update are a sequence of sequences.
LEMMA PairsType ==
  ASSUME NEW rows \in Seq(Row \X Row)
  PROVE  /\ [i \in DOMAIN rows |-> CallsFor("update", rows[i])] \in Seq(Seq(Call))
         /\ \A i \in DOMAIN rows : rows[i] \in Seq(Row)
<1>1. \A i \in DOMAIN rows : rows[i] \in Row \X Row
  OBVIOUS
<1>2. \A i \in DOMAIN rows : rows[i] \in Seq(Row)
  <2>1. ASSUME NEW r \in Row \X Row
        PROVE  r \in Seq(Row)
    <3>1. PICK a \in Row, b \in Row : r = <<a, b>>
      OBVIOUS
    <3> QED
      BY <3>1
  <2> QED
    BY <1>1, <2>1
<1>3. \A i \in DOMAIN rows : CallsFor("update", rows[i]) \in Seq(Call)
  BY <1>2, CallsForType DEF Tag
<1>4. DOMAIN rows = 1 .. Len(rows) /\ Len(rows) \in Nat
  OBVIOUS
<1> QED
  BY <1>2, <1>3, <1>4

LEMMA ExpectedType ==
  ASSUME NEW event \in Event
  PROVE  Expected(event) \in Seq(Call)
<1>1. CASE event.kind \in {"begin", "map"}
  <2>1. Expected(event) = <<>>
    BY <1>1, ExpectedIs
  <2> QED
    BY <2>1
<1>2. CASE event.kind = "update"
  <2>1. event.rows \in Seq(Row \X Row)
    BY <1>2 DEF Event
  <2> QED
    BY <1>2, <2>1, ExpectedIs, PairsType, FlattenType
<1>3. CASE event.kind \in {"write", "delete"}
  <2>1. event.rows \in Seq(Row)
    BY <1>3 DEF Event
  <2> QED
    BY <1>3, <2>1, ExpectedIs, CallsForType DEF Tag
<1> QED
  BY <1>1, <1>2, <1>3 DEF Event

\* For each event of a log the calls it should lead to.
Corpus(events) == [i \in DOMAIN events |-> Expected(events[i])]

\* Those for the events from m to n.
Stretch(events, m, n) == FlattenSeq(SubSeq(Corpus(events), m, n))

LEMMA CorpusType ==
  ASSUME NEW events \in Seq(Event)
  PROVE  /\ Corpus(events) \in Seq(Seq(Call)) /\ Len(Corpus(events)) = Len(events)
         /\ Len(events) \in Nat
         /\ \A i \in 1 .. Len(events) : Corpus(events)[i] = Expected(events[i])
<1>1. DOMAIN events = 1 .. Len(events) /\ Len(events) \in Nat /\ \A i \in 1 .. Len(events) : events[i] \in Event
  OBVIOUS
<1>2. \A i \in 1 .. Len(events) : Expected(events[i]) \in Seq(Call)
  BY <1>1, ExpectedType
<1> QED
  BY <1>1, <1>2 DEF Corpus

LEMMA StretchIs ==
  ASSUME NEW events \in Seq(Event), NEW m \in 1 .. Len(events) + 1, NEW n \in m - 1 .. Len(events)
  PROVE  /\ FlattenSeq([i \in 1 .. n - m + 1 |-> Expected(events[m + i - 1])]) = Stretch(events, m, n)
         /\ Stretch(events, m, n) \in Seq(Call)
<1> DEFINE part == SubSeq(Corpus(events), m, n)
<1>1. /\ Corpus(events) \in Seq(Seq(Call)) /\ Len(Corpus(events)) = Len(events) /\ Len(events) \in Nat
      /\ \A i \in 1 .. Len(events) : Corpus(events)[i] = Expected(events[i])
  BY CorpusType
<1>2. /\ part \in Seq(Seq(Call)) /\ Len(part) = n - m + 1
      /\ \A i \in 1 .. n - m + 1 : part[i] = Corpus(events)[m + i - 1]
  <2>1. m \in Int /\ n \in Int /\ \A i \in m .. n : Corpus(events)[i] \in Seq(Call)
    BY <1>1
  <2>2. /\ part \in Seq(Seq(Call))
        /\ Len(part) = IF m <= n THEN n - m + 1 ELSE 0
        /\ \A i \in 1 .. n - m + 1 : part[i] = Corpus(events)[m + i - 1]
    BY <2>1, SubSeqProperties
  <2> QED
    BY <1>1, <2>2
<1> HIDE DEF part
<1>3. \A i \in 1 .. n - m + 1 : part[i] = Expected(events[m + i - 1])
  <2>1. \A i \in 1 .. n - m + 1 : m + i - 1 \in 1 .. Len(events)
    BY <1>1
  <2> QED
    BY <1>1, <1>2, <2>1
<1>4. part = [i \in 1 .. n - m + 1 |-> part[i]]
  BY <1>2
<1>5. part = [i \in 1 .. n - m + 1 |-> Expected(events[m + i - 1])]
  BY <1>3, <1>4, Zenon
<1> QED
  BY <1>2, <1>5, FlattenType DEF Stretch, part

\* What comes later does not change what was expected before.
LEMMA StretchStays ==
  ASSUME NEW events \in Seq(Event), NEW longer \in Seq(Event), Len(events) <= Len(longer),
         \A i \in 1 .. Len(events) : longer[i] = events[i],
         NEW m \in 1 .. Len(events) + 1, NEW n \in m - 1 .. Len(events)
  PROVE  Stretch(longer, m, n) = Stretch(events, m, n)
<1>1. /\ Len(events) \in Nat /\ Len(longer) \in Nat
      /\ m \in 1 .. Len(longer) + 1 /\ n \in m - 1 .. Len(longer)
      /\ \A i \in 1 .. n - m + 1 : m + i - 1 \in 1 .. Len(events)
  OBVIOUS
<1>2. [i \in 1 .. n - m + 1 |-> Expected(events[m + i - 1])]
        = [i \in 1 .. n - m + 1 |-> Expected(longer[m + i - 1])]
  BY <1>1
<1>3. FlattenSeq([i \in 1 .. n - m + 1 |-> Expected(events[m + i - 1])]) = Stretch(events, m, n)
  BY StretchIs
<1>4. FlattenSeq([i \in 1 .. n - m + 1 |-> Expected(longer[m + i - 1])]) = Stretch(longer, m, n)
  BY <1>1, StretchIs
<1> QED
  BY <1>2, <1>3, <1>4

LEMMA StretchSplits ==
  ASSUME NEW events \in Seq(Event), NEW m \in 1 .. Len(events) + 1,
         NEW k \in m - 1 .. Len(events), NEW n \in k .. Len(events)
  PROVE  Stretch(events, m, n) = Stretch(events, m, k) \o Stretch(events, k + 1, n)
<1> DEFINE corpus == Corpus(events)
<1>1. corpus \in Seq(Seq(Call)) /\ Len(corpus) = Len(events)
  BY CorpusType
<1> HIDE DEF corpus
<1>2. m \in 1 .. Len(corpus) + 1 /\ k \in m - 1 .. Len(corpus) /\ n \in k .. Len(corpus)
  BY <1>1
<1>3. FlattenSeq(SubSeq(corpus, m, n))
        = FlattenSeq(SubSeq(corpus, m, k)) \o FlattenSeq(SubSeq(corpus, k + 1, n))
  BY <1>1, <1>2, FlattenStretch
<1> QED
  BY <1>3 DEF Stretch, corpus

LEMMA StretchOne ==
  ASSUME NEW events \in Seq(Event), NEW m \in 1 .. Len(events)
  PROVE  Stretch(events, m, m) = Expected(events[m])
<1> DEFINE part == SubSeq(Corpus(events), m, m)
<1>1. /\ Corpus(events) \in Seq(Seq(Call)) /\ Len(Corpus(events)) = Len(events) /\ Len(events) \in Nat
      /\ Corpus(events)[m] = Expected(events[m]) /\ Corpus(events)[m] \in Seq(Call)
  BY CorpusType
<1>2. part \in Seq(Seq(Call)) /\ Len(part) = 1 /\ part[1] = Corpus(events)[m]
  <2>1. m \in Int /\ \A i \in m .. m : Corpus(events)[i] \in Seq(Call)
    BY <1>1
  <2>2. /\ part \in Seq(Seq(Call)) /\ Len(part) = m - m + 1
        /\ \A i \in 1 .. m - m + 1 : part[i] = Corpus(events)[m + i - 1]
    BY <2>1, SubSeqProperties
  <2> QED
    BY <2>2
<1> HIDE DEF part
<1>3. part = <<Corpus(events)[m]>>
  BY <1>2
<1> QED
  BY <1>1, <1>3, FlattenOne DEF Stretch, part

LEMMA StretchNone ==
  ASSUME NEW events \in Seq(Event), NEW m \in 1 .. Len(events) + 1
  PROVE  Stretch(events, m, m - 1) = <<>>
<1>1. SubSeq(Corpus(events), m, m - 1) = <<>>
  BY SubSeqEmpty
<1> QED
  BY <1>1, FlattenEmpty DEF Stretch
=============================================================================
