---------------------------- MODULE WatchProofs -----------------------------
(***************************************************************************)
(* Proofs about WatchMysqlBinlog for every set of tables, every length of  *)
(* the log, every number of files and ids and every width of a position.   *)
(***************************************************************************)
EXTENDS WatchLemmas

-----------------------------------------------------------------------------
\* A place for the stream: at the begin of a transaction that was not there
\* when run was called, or behind all that is there now.
Good(i) == known.called < i /\ i <= Len(log) + 1 /\ Boundary(i)

WatchTypes ==
  /\ pc \in {"idle", "reading", "returned"} \cup Querying
  /\ option \in [gt_id : BOOLEAN, gt_id_set : Nat, filename : 0 .. MaxFile, position : Nat]
  /\ start \in Nat /\ next \in Nat /\ start <= next /\ next <= Len(log) + 1
  /\ pc = "reading" => start # 0
  /\ connected \in BOOLEAN /\ (connected => pc = "reading")
  /\ calls \in Seq(Call) /\ (pc \in Querying => calls = <<>>)
  /\ known \in [called : Nat, opened : Nat] /\ known.called <= Len(log)

\* What the queries found out stays true while others commit and rotate.
AnswersInv ==
  /\ pc = "mode" => ~option.gt_id
  /\ pc \in {"logs", "connect"} /\ option.gt_id =>
       option.gt_id_set <= Cardinality(Begins) /\ Good(AfterGtids(option.gt_id_set))
  /\ pc = "connect" =>
       /\ option.filename \in 1 .. file
       /\ option.position <= Sized(option.filename)
       /\ Good(After(option.filename, option.position))

\* The table map cache: what it says was announced, and it says what was
\* announced in the stretch of the log that was read.
CacheInv ==
  /\ \A id \in DOMAIN table_map_cache :
       \E j \in Maps : log[j].id = id /\ log[j].table = table_map_cache[id]
  /\ \A id \in DOMAIN table_map_cache : Watched(table_map_cache[id])
  /\ \A j \in start .. next - 1 :
       j \in Maps /\ Watched(log[j].table) => log[j].id \in DOMAIN table_map_cache

WatchInv ==
  ServerInv /\ WatchTypes /\ AnswersInv /\ CacheInv /\ StartsWhereItLooked /\ FollowsTheLog
-----------------------------------------------------------------------------
(***************************************************************************)
(* What reading an event does.                                             *)
(***************************************************************************)
LEMMA ReadSoFar ==
  ASSUME NEW events \in Seq(Event), NEW m \in 1 .. Len(events) + 1, NEW k \in m .. Len(events) + 1
  PROVE  FlattenSeq([i \in 1 .. k - m |-> Expected(events[m + i - 1])]) = Stretch(events, m, k - 1)
<1>1. k - 1 \in m - 1 .. Len(events) /\ (k - 1) - m + 1 = k - m
  OBVIOUS
<1>2. FlattenSeq([i \in 1 .. (k - 1) - m + 1 |-> Expected(events[m + i - 1])]) = Stretch(events, m, k - 1)
  BY <1>1, StretchIs
<1> QED
  BY <1>1, <1>2

LEMMA RememberIs ==
  ASSUME NEW id, NEW t
  PROVE  /\ DOMAIN table_map_cache \subseteq DOMAIN Remember(id, t)
         /\ DOMAIN Remember(id, t) \subseteq DOMAIN table_map_cache \cup {id}
         /\ \A k \in DOMAIN table_map_cache : Remember(id, t)[k] = table_map_cache[k]
         /\ Watched(t) => id \in DOMAIN Remember(id, t)
         /\ id \in DOMAIN Remember(id, t) \ DOMAIN table_map_cache =>
              Watched(t) /\ Remember(id, t)[id] = t
BY DEF Remember, OrInsert

LEMMA DispatchType ==
  ASSUME NEW id, NEW tag \in Tag, NEW data \in Seq(Row)
  PROVE  Dispatch(id, tag, data) \in Seq(Call)
<1>1. /\ [item |-> "node", tag |-> tag, data |-> data] \in Call
      /\ [item |-> "edge", tag |-> tag, data |-> data] \in Call
  BY DEF Call
<1>2. <<>> \in Seq(Call) /\ \A c \in Call : <<c>> \in Seq(Call)
  OBVIOUS
<1> QED
  BY <1>1, <1>2 DEF Dispatch

\* What the cache says of the id of a row event is what the TableMap event of
\* its transaction says.
LEMMA CacheKnows ==
  ASSUME ServerInv, CacheInv, IdsAreUnique, Boundary(start), start \in Nat, start <= next,
         next \in 1 .. Len(log), log[next].kind \in Tag
  PROVE  \E t \in Table :
           /\ RowsOf(log[next], t)
           /\ \A tag, data : TableOf(data) = t =>
                Dispatch(log[next].id, tag, data) = CallsFor(tag, data)
<1>0. Len(log) \in Nat /\ DOMAIN log = 1 .. Len(log)
  BY PlaceTypes DEF ServerInv
<1>1. PICK j \in 1 .. next - 1 : Announces(j, next)
  BY <1>0 DEF ServerInv
<1> DEFINE t == log[j].table
           id == log[next].id
<1>2. j \in Maps /\ j \in DOMAIN log /\ log[j].id = id /\ RowsOf(log[next], t)
  BY <1>0, <1>1 DEF Announces, Maps
<1>3. t \in Table
  <2>1. log[j] \in Event /\ log[j].kind = "map"
    BY <1>0, <1>2 DEF ServerInv, Maps
  <2> QED
    BY <2>1 DEF Event
<1>4. start \in 1 .. Len(log) /\ log[start].kind = "begin"
  BY <1>0 DEF Boundary, Begins
<1>5. j \in start .. next - 1
  <2>1. start \notin j + 1 .. next
    BY <1>1, <1>4 DEF Announces
  <2> QED
    BY <1>0, <1>4, <2>1
<1>6. Watched(t) => id \in DOMAIN table_map_cache
  BY <1>2, <1>5 DEF CacheInv
<1>7. id \in DOMAIN table_map_cache => table_map_cache[id] = t /\ Watched(t)
  <2>1. ASSUME id \in DOMAIN table_map_cache
        PROVE  table_map_cache[id] = t /\ Watched(t)
    <3>1. PICK k \in Maps : log[k].id = id /\ log[k].table = table_map_cache[id]
      BY <2>1 DEF CacheInv
    <3>2. log[k].table = t
      BY <1>2, <3>1 DEF IdsAreUnique
    <3> QED
      BY <2>1, <3>1, <3>2 DEF CacheInv
  <2> QED
    BY <2>1
<1>8. t \in {Node, Edge} => Watched(t)
  BY DEF Watched
<1> HIDE DEF t, id
<1>9. ASSUME NEW tag, NEW data, TableOf(data) = t
      PROVE  Dispatch(id, tag, data) = CallsFor(tag, data)
  <2>1. CASE id \in DOMAIN table_map_cache
    BY <1>7, <1>9, <2>1 DEF Dispatch, CallsFor
  <2>2. CASE id \notin DOMAIN table_map_cache
    BY <1>6, <1>8, <1>9, <2>2 DEF Dispatch, CallsFor
  <2> QED
    BY <2>1, <2>2
<1> QED
  BY <1>2, <1>3, <1>9 DEF id

\* What an event adds to the calls.
LEMMA ParseAdds ==
  ASSUME ServerInv, calls \in Seq(Call), next \in 1 .. Len(log), Parse(log[next])
  PROVE  \E made \in Seq(Call) :
           /\ calls' = calls \o made
           /\ CacheInv /\ IdsAreUnique /\ Boundary(start) /\ start \in Nat /\ start <= next =>
                made = Expected(log[next])
<1> DEFINE event == log[next]
           Known == CacheInv /\ IdsAreUnique /\ Boundary(start) /\ start \in Nat /\ start <= next
<1>0. event \in Event
  BY DEF ServerInv
<1>1. CASE event.kind \in {"begin", "map"}
  <2>1. Expected(event) = <<>>
    BY <1>1, ExpectedIs
  <2>2. calls' = calls \o <<>>
    BY <1>1 DEF Parse
  <2>3. <<>> \in Seq(Call)
    OBVIOUS
  <2> QED
    BY <2>1, <2>2, <2>3
<1>2. CASE event.kind = "update"
  <2> DEFINE rows == event.rows
             made == [i \in DOMAIN rows |-> Dispatch(event.id, "update", rows[i])]
             due  == [i \in DOMAIN rows |-> CallsFor("update", rows[i])]
  <2>1. rows \in Seq(Row \X Row)
    BY <1>0, <1>2 DEF Event
  <2>2. calls' = calls \o FlattenSeq(made)
    BY <1>2 DEF Parse
  <2>3. Expected(event) = FlattenSeq(due)
    BY <1>2, ExpectedIs
  <2>4. made \in Seq(Seq(Call))
    <3>1. \A i \in DOMAIN rows : Dispatch(event.id, "update", rows[i]) \in Seq(Call)
      BY <2>1, PairsType, DispatchType DEF Tag
    <3>2. DOMAIN rows = 1 .. Len(rows) /\ Len(rows) \in Nat
      BY <2>1
    <3> HIDE DEF rows
    <3> QED
      BY <3>1, <3>2
  <2>5. ASSUME Known
        PROVE  made = due
    <3>1. PICK t \in Table :
            /\ RowsOf(event, t)
            /\ \A tag, data : TableOf(data) = t => Dispatch(event.id, tag, data) = CallsFor(tag, data)
      BY <1>2, <2>5, CacheKnows DEF Tag
    <3>2. \A i \in DOMAIN rows : TableOf(rows[i]) = t
      BY <1>2, <3>1 DEF RowsOf, TableOf
    <3>3. \A i \in DOMAIN rows : Dispatch(event.id, "update", rows[i]) = CallsFor("update", rows[i])
      BY <3>1, <3>2
    <3> HIDE DEF rows
    <3> QED
      BY <3>3
  <2> HIDE DEF made, due
  <2> QED
    BY <2>2, <2>3, <2>4, <2>5, FlattenType
<1>3. CASE event.kind \in {"write", "delete"}
  <2> DEFINE made == Dispatch(event.id, event.kind, event.rows)
  <2>1. event.rows \in Seq(Row) /\ event.kind \in Tag
    BY <1>0, <1>3 DEF Event, Tag
  <2>2. calls' = calls \o made /\ made \in Seq(Call)
    BY <1>3, <2>1, DispatchType DEF Parse
  <2>3. ASSUME Known
        PROVE  made = Expected(event)
    <3>1. PICK t \in Table :
            /\ RowsOf(event, t)
            /\ \A tag, data : TableOf(data) = t => Dispatch(event.id, tag, data) = CallsFor(tag, data)
      BY <2>1, <2>3, CacheKnows
    <3>2. TableOf(event.rows) = t
      BY <1>3, <3>1 DEF RowsOf, TableOf
    <3> QED
      BY <1>3, <3>1, <3>2, ExpectedIs
  <2> HIDE DEF made
  <2> QED
    BY <2>2, <2>3
<1> QED
  BY <1>0, <1>1, <1>2, <1>3 DEF Event

\* The cache keeps up with the events that are read.
LEMMA ParseRemembers ==
  ASSUME ServerInv, WatchTypes, CacheInv, next \in 1 .. Len(log), Parse(log[next]),
         UNCHANGED log, start' = start, next' = next + 1
  PROVE  CacheInv'
<1> DEFINE event == log[next]
<1>0. Len(log) \in Nat /\ DOMAIN log = 1 .. Len(log) /\ Maps' = Maps
  BY PlaceTypes DEF ServerInv, Maps
<1>1. CASE event.kind # "map"
  <2>1. table_map_cache' = table_map_cache
    BY <1>1 DEF Parse
  <2>2. next \notin Maps /\ start' .. next' - 1 = start .. next
    BY <1>0, <1>1 DEF Maps
  <2>3. \A j \in start .. next : j \in Maps => j \in start .. next - 1
    BY <2>2 DEF WatchTypes
  <2> QED
    BY <1>0, <2>1, <2>2, <2>3 DEF CacheInv
<1>2. CASE event.kind = "map"
  <2> DEFINE id == event.id
             t  == event.table
  <2>1. table_map_cache' = Remember(id, t)
    BY <1>2 DEF Parse
  <2>2. next \in Maps
    BY <1>0, <1>2 DEF Maps
  <2>3. /\ DOMAIN table_map_cache \subseteq DOMAIN table_map_cache'
        /\ \A k \in DOMAIN table_map_cache' :
             \/ k \in DOMAIN table_map_cache /\ table_map_cache'[k] = table_map_cache[k]
             \/ k = id /\ Watched(t) /\ table_map_cache'[k] = t
        /\ Watched(t) => id \in DOMAIN table_map_cache'
    BY <2>1, RememberIs
  <2>4. \A k \in DOMAIN table_map_cache' :
          /\ \E j \in Maps : log[j].id = k /\ log[j].table = table_map_cache'[k]
          /\ Watched(table_map_cache'[k])
    BY <2>2, <2>3 DEF CacheInv
  <2>5. ASSUME NEW j \in start .. next, j \in Maps, Watched(log[j].table)
        PROVE  log[j].id \in DOMAIN table_map_cache'
    <3>1. CASE j = next
      BY <2>3, <2>5, <3>1
    <3>2. CASE j # next
      <4>1. j \in start .. next - 1
        BY <2>5, <3>2 DEF WatchTypes
      <4> QED
        BY <2>3, <2>5, <4>1 DEF CacheInv
    <3> QED
      BY <3>1, <3>2
  <2>6. start' .. next' - 1 = start .. next
    BY <1>0
  <2> QED
    BY <1>0, <2>4, <2>5, <2>6 DEF CacheInv
<1> QED
  BY <1>1, <1>2
-----------------------------------------------------------------------------
(***************************************************************************)
(* The steps, one after the other, keep WatchInv.                          *)
(***************************************************************************)
LEMMA InitHolds == Init => WatchInv
<1> SUFFICES ASSUME Init
             PROVE  WatchInv
  OBVIOUS
<1>1. ServerInv
  <2>1. log = <<>> /\ log \in Seq(Event) /\ DOMAIN log = {}
    BY DEF Init, ServerInit
  <2>2. MaxFile \in Nat \ {0} /\ MaxId \in Nat
    BY WatchAssumption
  <2> QED
    BY <2>1, <2>2 DEF Init, ServerInit, ServerInv
<1>2. WatchTypes
  <2>1. Len(log) = 0 /\ calls = <<>> /\ calls \in Seq(Call) /\ MaxFile \in Nat
    BY WatchAssumption DEF Init, ServerInit
  <2>2. option \in [gt_id : BOOLEAN, gt_id_set : Nat, filename : 0 .. MaxFile, position : Nat]
    BY <2>1 DEF Init, Unknown
  <2>3. known \in [called : Nat, opened : Nat] /\ known.called = 0
    BY DEF Init
  <2>4. start = 0 /\ next = 0 /\ connected = FALSE /\ pc = "idle" /\ pc \notin Querying
    BY DEF Init, Querying
  <2>5. connected \in BOOLEAN /\ (connected => pc = "reading")
    BY <2>4, Zenon
  <2>6. start <= next /\ next <= Len(log) + 1 /\ known.called <= Len(log)
    BY <2>1, <2>3, <2>4
  <2> QED
    BY <2>1, <2>2, <2>3, <2>4, <2>5, <2>6, Zenon DEF WatchTypes
<1>3. AnswersInv /\ StartsWhereItLooked
  BY DEF Init, AnswersInv, StartsWhereItLooked
<1>4. CacheInv
  BY DEF Init, CacheInv
<1>5. FollowsTheLog
  <2>1. ~Boundary(start)
    BY DEF Init, ServerInit, Boundary, Begins
  <2> QED
    BY <2>1 DEF FollowsTheLog
<1> QED
  BY <1>1, <1>2, <1>3, <1>4, <1>5 DEF WatchInv

\* Where the log stays the same, so do its places.
SameLog ==
  /\ log' = log /\ Begins' = Begins /\ Maps' = Maps
  /\ IdsAreUnique' = IdsAreUnique
  /\ \A i : Boundary(i)' = Boundary(i)
  /\ \A n : AfterGtids(n)' = AfterGtids(n)
  /\ \A f : Sized(f)' = Sized(f) /\ \A n : After(f, n)' = After(f, n)

LEMMA LogStays == log' = log => SameLog
BY DEF SameLog, Begins, Maps, IdsAreUnique, Boundary, AfterGtids, Sized, After

\* The queries, and every end of a run.
LEMMA GotoHolds ==
  ASSUME WatchInv, NEW step \in {"idle", "status", "logs", "connect", "returned"},
         step \in Querying => pc \in Querying,
         NEW found \in [gt_id : BOOLEAN, gt_id_set : Nat, filename : 0 .. MaxFile, position : Nat],
         Goto(step, found),
         step \in {"logs", "connect"} /\ found.gt_id =>
           found.gt_id_set <= Cardinality(Begins) /\ Good(AfterGtids(found.gt_id_set)),
         step = "connect" =>
           /\ found.filename \in 1 .. file
           /\ found.position <= Sized(found.filename)
           /\ Good(After(found.filename, found.position))
  PROVE  WatchInv'
<1>1. SameLog
  BY LogStays DEF Goto, server
<1>2. ServerInv'
  BY OtherServer DEF WatchInv, Goto
<1>3. WatchTypes'
  BY DEF WatchInv, WatchTypes, Goto, server, Querying
<1>4. \A i : Good(i)' = Good(i)
  BY <1>1 DEF Good, SameLog, Goto
<1>5. AnswersInv'
  BY <1>1, <1>4 DEF AnswersInv, SameLog, Goto, server
<1>6. CacheInv'
  BY <1>1 DEF WatchInv, CacheInv, SameLog, Goto
<1>7. StartsWhereItLooked'
  BY DEF StartsWhereItLooked, Goto
<1>8. FollowsTheLog'
  BY <1>1 DEF WatchInv, FollowsTheLog, SameLog, Goto
<1> QED
  BY <1>2, <1>3, <1>5, <1>6, <1>7, <1>8 DEF WatchInv

LEMMA LogsAnswer ==
  ASSUME NEW f \in 0 .. MaxFile, NEW n \in Nat,
         NEW o \in [gt_id : BOOLEAN, gt_id_set : Nat, filename : 0 .. MaxFile, position : Nat]
  PROVE  /\ [o EXCEPT !.filename = f, !.position = n]
              \in [gt_id : BOOLEAN, gt_id_set : Nat, filename : 0 .. MaxFile, position : Nat]
         /\ [o EXCEPT !.filename = f, !.position = n].filename = f
         /\ [o EXCEPT !.filename = f, !.position = n].position = n
         /\ [o EXCEPT !.filename = f, !.position = n].gt_id = o.gt_id
         /\ [o EXCEPT !.filename = f, !.position = n].gt_id_set = o.gt_id_set
OBVIOUS

LEMMA QueriesHold ==
  ASSUME WatchInv, QueryMode \/ QueryStatus \/ QueryLogs \/ Fail \/ Drop
  PROVE  WatchInv'
<1> DEFINE Options == [gt_id : BOOLEAN, gt_id_set : Nat, filename : 0 .. MaxFile, position : Nat]
<1>1. /\ option \in Options /\ known.called \in Nat /\ known.called <= Len(log) /\ Len(log) \in Nat
      /\ Cardinality(Begins) \in Nat /\ file \in 1 .. MaxFile /\ MaxFile \in Nat /\ Sized(file) \in Nat
  <2>1. /\ option \in Options /\ known.called \in Nat /\ known.called <= Len(log)
    BY DEF WatchInv, WatchTypes
  <2>2. file \in 1 .. MaxFile /\ MaxFile \in Nat /\ file \in Nat
    BY WatchAssumption DEF WatchInv, ServerInv
  <2> QED
    BY <2>1, <2>2, PlaceTypes DEF WatchInv, ServerInv
<1>2. Good(Len(log) + 1)
  BY <1>1 DEF Good, Boundary
<1>3. CASE QueryMode
  <2>1. CASE Goto("status", [option EXCEPT !.gt_id = TRUE])
    BY <1>1, <1>3, <2>1, GotoHolds DEF QueryMode, Querying
  <2>2. CASE Goto("logs", option)
    BY <1>1, <1>3, <2>2, GotoHolds DEF QueryMode, Querying, WatchInv, AnswersInv
  <2> QED
    BY <1>3, <2>1, <2>2 DEF QueryMode
<1>4. CASE QueryStatus
  <2> DEFINE found == [option EXCEPT !.gt_id_set = Cardinality(Begins)]
  <2>1. found \in Options /\ found.gt_id_set = Cardinality(Begins)
    BY <1>1
  <2>2. Good(AfterGtids(found.gt_id_set)) /\ found.gt_id_set <= Cardinality(Begins)
    BY <1>1, <1>2, <2>1, EndOfLog DEF WatchInv
  <2>3. pc = "status" /\ Goto("logs", found)
    BY <1>4 DEF QueryStatus
  <2> HIDE DEF found
  <2> QED
    BY <2>1, <2>2, <2>3, GotoHolds DEF Querying
<1>5. CASE QueryLogs
  <2> DEFINE found == [option EXCEPT !.filename = file, !.position = Sized(file)]
  <2>1. /\ found \in Options /\ found.filename = file /\ found.position = Sized(file)
        /\ found.gt_id = option.gt_id /\ found.gt_id_set = option.gt_id_set
    <3>1. file \in 0 .. MaxFile
      BY <1>1
    <3> QED
      BY <1>1, <3>1, LogsAnswer, Zenon
  <2>2. Good(After(found.filename, found.position))
    BY <1>2, <2>1, EndOfLog DEF WatchInv
  <2>3. pc = "logs" /\ Goto("connect", found)
    BY <1>5 DEF QueryLogs
  <2>4. found.gt_id =>
          found.gt_id_set <= Cardinality(Begins) /\ Good(AfterGtids(found.gt_id_set))
    BY <2>1, <2>3 DEF WatchInv, AnswersInv
  <2>5. found.filename \in 1 .. file /\ found.position <= Sized(found.filename)
    BY <1>1, <2>1
  <2> HIDE DEF found
  <2> QED
    BY <2>1, <2>2, <2>3, <2>4, <2>5, GotoHolds DEF Querying
<1>6. CASE Fail
  BY <1>1, <1>6, GotoHolds DEF Fail, Querying
<1>7. CASE Drop
  BY <1>1, <1>7, GotoHolds DEF Drop, Querying
<1> QED
  BY <1>3, <1>4, <1>5, <1>6, <1>7

LEMMA RunHolds ==
  ASSUME WatchInv, Run
  PROVE  WatchInv'
<1>1. SameLog
  BY LogStays DEF Run, server
<1>2. ServerInv' /\ Len(log) \in Nat /\ MaxFile \in Nat
  <2>1. ServerInv'
    BY OtherServer DEF WatchInv, Run
  <2> QED
    BY <2>1, PlaceTypes, WatchAssumption DEF WatchInv, ServerInv
<1>3. WatchTypes'
  <2>1. option' \in [gt_id : BOOLEAN, gt_id_set : Nat, filename : 0 .. MaxFile, position : Nat]
    BY <1>2 DEF Run, Unknown
  <2>2. known' \in [called : Nat, opened : Nat] /\ known'.called <= Len(log')
    BY <1>1, <1>2 DEF Run, SameLog
  <2>3. /\ start' = 0 /\ next' = 0 /\ connected' = FALSE /\ pc' = "mode" /\ pc' \in Querying
        /\ calls' = <<>> /\ calls' \in Seq(Call)
    BY DEF Run, Querying
  <2>4. start' <= next' /\ next' <= Len(log') + 1
    BY <1>1, <1>2, <2>3 DEF SameLog
  <2>5. connected' \in BOOLEAN /\ (connected' => pc' = "reading")
    BY <2>3, Zenon
  <2> QED
    BY <2>1, <2>2, <2>3, <2>4, <2>5 DEF WatchTypes
<1>4. AnswersInv' /\ StartsWhereItLooked'
  BY DEF Run, AnswersInv, StartsWhereItLooked, Unknown
<1>5. CacheInv'
  <2>1. start' .. next' - 1 = {}
    BY DEF Run
  <2>2. table_map_cache' = table_map_cache
    BY DEF Run
  <2> QED
    BY <1>1, <2>1, <2>2 DEF WatchInv, CacheInv, SameLog
<1>6. FollowsTheLog'
  <2>1. ~Boundary(start)'
    <3>1. start' = 0 /\ log' = log /\ DOMAIN log = 1 .. Len(log)
      BY <1>1, PlaceTypes DEF Run, SameLog, WatchInv, ServerInv
    <3> QED
      BY <1>2, <3>1 DEF Boundary, Begins
  <2> QED
    BY <2>1 DEF FollowsTheLog
<1> QED
  BY <1>2, <1>3, <1>4, <1>5, <1>6 DEF WatchInv

\* Where the stream is opened.
LEMMA ConnectStarts ==
  ASSUME WatchInv, Connect
  PROVE  /\ start' \in 1 .. Len(log) + 1
         /\ option.gt_id \/ option.position < PosWidth => Good(start')
<1> DEFINE position == option.position % PosWidth
<1>1. /\ option \in [gt_id : BOOLEAN, gt_id_set : Nat, filename : 0 .. MaxFile, position : Nat]
      /\ option.filename \in Nat /\ MaxFile \in Nat /\ PosWidth \in Nat \ {0}
  <2>1. option \in [gt_id : BOOLEAN, gt_id_set : Nat, filename : 0 .. MaxFile, position : Nat]
    BY DEF WatchInv, WatchTypes
  <2> QED
    BY <2>1, WatchAssumption
<1>2. CASE option.gt_id
  <2>1. start' = AfterGtids(option.gt_id_set) /\ Good(AfterGtids(option.gt_id_set))
    BY <1>2 DEF Connect, WatchInv, AnswersInv
  <2> QED
    BY <1>1, <2>1, PlaceTypes DEF WatchInv, ServerInv
<1>3. CASE ~option.gt_id
  <2>1. start' = After(option.filename, position)
    BY <1>3 DEF Connect
  <2>2. /\ option.position <= Sized(option.filename)
        /\ Good(After(option.filename, option.position))
    BY DEF Connect, WatchInv, AnswersInv
  <2>3. /\ position \in Nat /\ position <= option.position
        /\ option.position < PosWidth => position = option.position
    <3>1. ASSUME NEW x \in Nat, NEW w \in Nat \ {0}
          PROVE  x % w \in Nat /\ x % w <= x /\ (x < w => x % w = x)
      OBVIOUS
    <3> QED
      BY <1>1, <3>1
  <2>4. Sized(option.filename) \in Nat /\ position <= Sized(option.filename)
    <3>1. Sized(option.filename) \in Nat
      BY <1>1, PlaceTypes DEF WatchInv, ServerInv
    <3> HIDE DEF position
    <3> QED
      BY <1>1, <2>2, <2>3, <3>1
  <2> HIDE DEF position
  <2>5. After(option.filename, position) \in 1 .. Len(log) + 1
    BY <1>1, <2>3, <2>4, PlaceTypes DEF WatchInv, ServerInv
  <2> QED
    BY <1>3, <2>1, <2>2, <2>3, <2>5
<1> QED
  BY <1>2, <1>3

LEMMA ConnectHolds ==
  ASSUME WatchInv, Connect
  PROVE  WatchInv'
<1>1. SameLog
  BY LogStays DEF Connect, server
<1>2. ServerInv' /\ Len(log) \in Nat /\ log \in Seq(Event)
  <2>1. ServerInv'
    BY OtherServer DEF WatchInv, Connect
  <2> QED
    BY <2>1, PlaceTypes DEF WatchInv, ServerInv
<1>3. /\ start' \in 1 .. Len(log) + 1 /\ next' = start' /\ known'.called = known.called
      /\ known'.opened = Len(log) /\ known' \in [called : Nat, opened : Nat]
      /\ known.called <= Len(log) /\ calls' = <<>> /\ pc' = "reading" /\ connected' = TRUE
      /\ option' = option
  <2>1. known \in [called : Nat, opened : Nat] /\ known.called <= Len(log) /\ calls = <<>>
    BY DEF Connect, WatchInv, WatchTypes, Querying
  <2> QED
    BY <1>2, <2>1, ConnectStarts DEF Connect
<1>4. WatchTypes'
  <2>1. /\ option' \in [gt_id : BOOLEAN, gt_id_set : Nat, filename : 0 .. MaxFile, position : Nat]
        /\ calls' \in Seq(Call) /\ known'.called <= Len(log') /\ pc' \notin Querying
    BY <1>1, <1>3 DEF WatchInv, WatchTypes, SameLog, Querying
  <2>2. start' \in Nat /\ next' \in Nat /\ start' <= next' /\ next' <= Len(log') + 1
    BY <1>1, <1>2, <1>3 DEF SameLog
  <2>3. connected' \in BOOLEAN /\ (connected' => pc' = "reading")
    BY <1>3, Zenon
  <2> QED
    BY <1>3, <2>1, <2>2, <2>3 DEF WatchTypes
<1>5. AnswersInv'
  BY <1>3 DEF AnswersInv
<1>6. CacheInv'
  <2>1. start' .. next' - 1 = {}
    <3>1. \A a \in Nat : a .. a - 1 = {}
      OBVIOUS
    <3>2. start' \in Nat /\ next' = start'
      BY <1>2, <1>3
    <3> QED
      BY <3>1, <3>2
  <2>2. table_map_cache' = table_map_cache
    BY DEF Connect
  <2> QED
    BY <1>1, <2>1, <2>2 DEF WatchInv, CacheInv, SameLog
<1>7. StartsWhereItLooked'
  <2>1. Boundary(start)' <=> Boundary(start')
    BY <1>1 DEF SameLog, Boundary
  <2> QED
    BY <1>2, <1>3, <2>1, ConnectStarts DEF StartsWhereItLooked, Good
<1>8. FollowsTheLog'
  <2>1. [i \in 1 .. next' - start' |-> Expected(log'[start' + i - 1])] = <<>>
    <3>1. ASSUME NEW a \in Nat, NEW b, a = b
          PROVE  1 .. b - a = {}
      BY <3>1
    <3>2. start' \in Nat /\ start' = next'
      BY <1>2, <1>3
    <3>3. 1 .. next' - start' = {}
      BY <3>1, <3>2, Zenon
    <3> QED
      BY <3>3
  <2>2. calls' = FlattenSeq(<<>>)
    BY <1>3, FlattenEmpty
  <2> QED
    BY <2>1, <2>2, Zenon DEF FollowsTheLog
<1> QED
  BY <1>2, <1>4, <1>5, <1>6, <1>7, <1>8 DEF WatchInv

LEMMA ReadHolds ==
  ASSUME WatchInv, Read
  PROVE  WatchInv'
<1>1. SameLog /\ Parse(log[next])
  BY LogStays DEF Read, server
<1>2. ServerInv' /\ Len(log) \in Nat /\ log \in Seq(Event)
  <2>1. ServerInv'
    BY OtherServer DEF WatchInv, Read
  <2> QED
    BY <2>1, PlaceTypes DEF WatchInv, ServerInv
<1>3. /\ pc = "reading" /\ pc' = "reading" /\ option' = option /\ start' = start
      /\ connected' = connected /\ known' = known /\ next' = next + 1 /\ next <= Len(log)
      /\ start \in Nat /\ next \in Nat /\ start <= next /\ calls \in Seq(Call)
      /\ known.called <= Len(log)
  BY DEF Read, WatchInv, WatchTypes
<1>4. next \in 1 .. Len(log)
  BY <1>2, <1>3 DEF WatchInv, WatchTypes
<1>5. PICK made \in Seq(Call) :
        /\ calls' = calls \o made
        /\ IdsAreUnique /\ Boundary(start) => made = Expected(log[next])
  BY <1>1, <1>3, <1>4, ParseAdds DEF WatchInv
<1>6. WatchTypes'
  <2>1. calls' \in Seq(Call)
    BY <1>3, <1>5
  <2>2. start' \in Nat /\ next' \in Nat /\ start' <= next' /\ next' <= Len(log') + 1
        /\ known'.called <= Len(log') /\ (pc' = "reading" => start' # 0)
    BY <1>1, <1>2, <1>3, <1>4 DEF SameLog, WatchInv, WatchTypes
  <2>3. connected' \in BOOLEAN /\ (connected' => pc' = "reading")
    BY <1>3, Zenon DEF WatchInv, WatchTypes
  <2>4. /\ option' \in [gt_id : BOOLEAN, gt_id_set : Nat, filename : 0 .. MaxFile, position : Nat]
        /\ known' \in [called : Nat, opened : Nat] /\ pc' \notin Querying
    BY <1>3 DEF WatchInv, WatchTypes, Querying
  <2> QED
    BY <1>3, <2>1, <2>2, <2>3, <2>4 DEF WatchTypes
<1>7. AnswersInv'
  BY <1>3 DEF AnswersInv
<1>8. CacheInv'
  <2>1. log' = log
    BY <1>1 DEF SameLog
  <2> QED
    BY <1>1, <1>3, <1>4, <2>1, ParseRemembers DEF WatchInv
<1>9. StartsWhereItLooked'
  BY <1>1, <1>3 DEF WatchInv, StartsWhereItLooked, SameLog
<1>10. FollowsTheLog'
  <2>1. SUFFICES ASSUME IdsAreUnique, Boundary(start)
                 PROVE  calls' = FlattenSeq([i \in 1 .. next' - start' |-> Expected(log'[start' + i - 1])])
    BY <1>1, <1>3 DEF FollowsTheLog, SameLog
  <2>2. /\ start \in 1 .. Len(log) + 1 /\ next \in start .. Len(log) + 1
        /\ next + 1 \in start .. Len(log) + 1 /\ (next + 1) - 1 = next
        /\ next - 1 \in start - 1 .. Len(log) /\ next \in next - 1 .. Len(log) /\ (next - 1) + 1 = next
    BY <1>2, <1>3, <1>4 DEF WatchInv, WatchTypes
  <2>3. calls = Stretch(log, start, next - 1)
    BY <1>2, <2>1, <2>2, ReadSoFar DEF WatchInv, FollowsTheLog
  <2>4. calls' = Stretch(log, start, next - 1) \o Stretch(log, next, next)
    BY <1>2, <1>4, <1>5, <2>1, <2>3, StretchOne
  <2>5. calls' = Stretch(log, start, next)
    BY <1>2, <2>2, <2>4, StretchSplits
  <2>6. FlattenSeq([i \in 1 .. (next + 1) - start |-> Expected(log[start + i - 1])])
          = Stretch(log, start, (next + 1) - 1)
    BY <1>2, <2>2, ReadSoFar
  <2>7. FlattenSeq([i \in 1 .. next' - start' |-> Expected(log'[start' + i - 1])])
          = Stretch(log, start, next)
    BY <1>1, <1>3, <2>2, <2>6 DEF SameLog
  <2> QED
    BY <2>5, <2>7
<1> QED
  BY <1>2, <1>6, <1>7, <1>8, <1>9, <1>10 DEF WatchInv

LEMMA ReadErrorHolds ==
  ASSUME WatchInv, ReadError
  PROVE  WatchInv'
<1>1. SameLog
  BY LogStays DEF ReadError, server
<1>2. ServerInv'
  BY OtherServer DEF WatchInv, ReadError
<1>3. connected' \in BOOLEAN /\ (connected' => pc' = "reading")
  BY Zenon DEF WatchInv, WatchTypes, ReadError
<1>4. WatchTypes' /\ AnswersInv' /\ StartsWhereItLooked'
  BY <1>1, <1>3 DEF WatchInv, WatchTypes, AnswersInv, StartsWhereItLooked, ReadError, SameLog
<1>5. CacheInv'
  BY <1>1 DEF WatchInv, CacheInv, SameLog, ReadError
<1>6. FollowsTheLog'
  BY <1>1 DEF WatchInv, FollowsTheLog, SameLog, ReadError
<1> QED
  BY <1>2, <1>4, <1>5, <1>6 DEF WatchInv

\* A step of the server that leaves the log alone, whatever becomes of the
\* connection and of a query.
LEMMA QuietHolds ==
  ASSUME WatchInv, Rotate \/ Reopen \/ Restart \/ UNCHANGED server,
         UNCHANGED <<option, start, next, table_map_cache, calls, known>>,
         pc' = pc \/ pc' = "returned",
         connected' \in BOOLEAN, connected' => pc' = "reading"
  PROVE  WatchInv'
<1>1. log' = log /\ SameLog
  BY LogStays DEF Rotate, Reopen, Restart, server
<1>2. ServerInv'
  BY OtherServer DEF WatchInv
<1>3. file \in Nat /\ file' \in Nat /\ file <= file'
  BY WatchAssumption DEF WatchInv, ServerInv, Rotate, Reopen, Restart, server
<1>4. WatchTypes'
  BY <1>1 DEF WatchInv, WatchTypes, Querying
<1>5. \A i : Good(i)' = Good(i)
  BY <1>1 DEF Good, SameLog
<1>6. AnswersInv'
  <2>1. \A f \in 1 .. file : f \in 1 .. file'
    BY <1>3
  <2> QED
    BY <1>1, <1>5, <2>1 DEF WatchInv, AnswersInv, SameLog
<1>7. CacheInv'
  BY <1>1 DEF WatchInv, CacheInv, SameLog
<1>8. StartsWhereItLooked'
  BY <1>1 DEF WatchInv, StartsWhereItLooked, SameLog
<1>9. FollowsTheLog'
  BY <1>1 DEF WatchInv, FollowsTheLog, SameLog
<1> QED
  BY <1>2, <1>4, <1>6, <1>7, <1>8, <1>9 DEF WatchInv

\* A transaction is logged.
LEMMA CommitHolds ==
  ASSUME WatchInv, Commit, UNCHANGED watch
  PROVE  WatchInv'
<1>1. ServerInv' /\ Grown /\ ServerInv
  BY CommitServer DEF WatchInv
<1>2. /\ UNCHANGED <<pc, option, start, next, connected, table_map_cache, calls, known>>
      /\ file' = file
  BY DEF watch, Commit
<1>3. /\ log \in Seq(Event) /\ log' \in Seq(Event) /\ Len(log) \in Nat /\ Len(log') \in Nat
      /\ Len(log) < Len(log') /\ \A i \in 1 .. Len(log) : log'[i] = log[i]
      /\ DOMAIN log = 1 .. Len(log) /\ DOMAIN log' = 1 .. Len(log')
  <2>1. log \in Seq(Event) /\ Len(log) \in Nat /\ DOMAIN log = 1 .. Len(log)
    BY <1>1, PlaceTypes DEF ServerInv
  <2>2. /\ log' \in Seq(Event) /\ Len(log') \in Nat /\ Len(log) < Len(log')
        /\ \A i \in 1 .. Len(log) : log'[i] = log[i]
    BY <1>1 DEF Grown
  <2>3. \A s \in Seq(Event) : DOMAIN s = 1 .. Len(s)
    OBVIOUS
  <2> QED
    BY <2>1, <2>2, <2>3
<1>4. /\ start \in Nat /\ next \in Nat /\ start <= next /\ next <= Len(log) + 1
      /\ known.called \in Nat /\ known.called <= Len(log)
      /\ option \in [gt_id : BOOLEAN, gt_id_set : Nat, filename : 0 .. MaxFile, position : Nat]
  BY DEF WatchInv, WatchTypes
<1>5. WatchTypes'
  <2>1. next' <= Len(log') + 1 /\ known'.called <= Len(log')
    BY <1>2, <1>3, <1>4
  <2> QED
    BY <1>2, <2>1 DEF WatchInv, WatchTypes
<1>6. /\ \A i \in Nat : i <= Len(log) + 1 => (Boundary(i) <=> Boundary(i)')
      /\ Cardinality(Begins)' = Cardinality(Begins) + 1
      /\ \A n \in Nat : n <= Cardinality(Begins) => AfterGtids(n)' = AfterGtids(n)
      /\ \A f \in 1 .. file : Sized(f) <= Sized(f)' /\ \A n : After(f, n)' = After(f, n)
  BY <1>1, PlacesStay
<1>7. \A j \in DOMAIN log : j \in Maps <=> j \in Maps'
  BY <1>3 DEF Maps
<1>8. Boundary(start)' <=> Boundary(start)
  <2>1. PICK a \in Nat : a = start
    BY <1>4
  <2>2. a <= Len(log) + 1
    BY <1>3, <1>4, <2>1
  <2>3. Boundary(start)' <=> Boundary(a)'
    BY <1>2, <2>1 DEF Boundary
  <2> QED
    BY <1>6, <2>1, <2>2, <2>3
<1>9. ASSUME NEW i \in Nat, Good(i)
      PROVE  Good(i)'
  BY <1>2, <1>3, <1>6, <1>9 DEF Good
<1>10. AnswersInv'
  <2>1. ASSUME pc \in {"logs", "connect"}, option.gt_id
        PROVE  (option.gt_id_set <= Cardinality(Begins) /\ Good(AfterGtids(option.gt_id_set)))'
    <3>1. PICK n \in Nat : n = option.gt_id_set
      BY <1>4
    <3>2. n <= Cardinality(Begins) /\ Good(AfterGtids(n))
      BY <2>1, <3>1 DEF WatchInv, AnswersInv
    <3>3. n <= Cardinality(Begins)'
      <4>1. Cardinality(Begins) \in Nat
        BY <1>3, PlaceTypes
      <4> QED
        BY <1>6, <3>2, <4>1
    <3>4. PICK a \in Nat : a = AfterGtids(n)
      BY <1>3, PlaceTypes
    <3>5. Good(a)' /\ AfterGtids(n)' = a
      BY <1>6, <1>9, <3>2, <3>4
    <3>6. option'.gt_id_set = n
      BY <1>2, <3>1
    <3> QED
      BY <3>3, <3>5, <3>6 DEF Good, AfterGtids, Boundary
  <2>2. ASSUME pc = "connect"
        PROVE  (/\ option.filename \in 1 .. file
                /\ option.position <= Sized(option.filename)
                /\ Good(After(option.filename, option.position)))'
    <3>1. PICK f \in 1 .. file, n \in Nat : f = option.filename /\ n = option.position
      BY <1>4, <2>2 DEF WatchInv, AnswersInv
    <3>2. n <= Sized(f) /\ Good(After(f, n))
      BY <2>2, <3>1 DEF WatchInv, AnswersInv
    <3>3. f \in Nat /\ Sized(f) \in Nat /\ After(f, n) \in Nat
      <4>1. file \in 1 .. MaxFile /\ MaxFile \in Nat
        BY <1>1, WatchAssumption DEF ServerInv
      <4>2. f \in Nat
        BY <4>1
      <4>3. Sized(f) \in Nat /\ (n <= Sized(f) => After(f, n) \in 1 .. Len(log) + 1)
        BY <1>3, <4>2, PlaceTypes
      <4> QED
        BY <3>2, <4>2, <4>3
    <3>4. PICK a \in Nat : a = After(f, n)
      BY <3>3
    <3>5. Good(a)' /\ After(f, n)' = a /\ Sized(f) <= Sized(f)'
      BY <1>6, <1>9, <3>2, <3>4
    <3>6. n <= Sized(f)'
      <4>1. {i \in DOMAIN log' : log'[i].file = f} \in SUBSET (1 .. Len(log'))
        BY <1>3
      <4>2. Sized(f)' \in Nat
        BY <1>3, <4>1, Counting DEF Sized
      <4> QED
        BY <3>2, <3>3, <3>5, <4>2
    <3>7. option'.filename = f /\ option'.position = n /\ f \in 1 .. file'
      BY <1>2, <3>1
    <3> QED
      BY <3>5, <3>6, <3>7 DEF Good, After, Sized, Boundary
  <2> QED
    BY <1>2, <2>1, <2>2 DEF WatchInv, AnswersInv
<1>11. CacheInv'
  <2>1. \A j \in start .. next - 1 : j \in Maps' => j \in Maps /\ log'[j] = log[j]
    <3>1. ASSUME NEW j \in start .. next - 1, j \in Maps'
          PROVE  j \in 1 .. Len(log)
      BY <1>3, <1>4, <3>1 DEF Maps
    <3> QED
      BY <1>3, <1>7, <3>1
  <2>2. \A j \in Maps : j \in Maps' /\ log'[j] = log[j]
    BY <1>3, <1>7 DEF Maps
  <2> QED
    BY <1>2, <2>1, <2>2 DEF WatchInv, CacheInv
<1>12. StartsWhereItLooked'
  BY <1>2, <1>8 DEF WatchInv, StartsWhereItLooked
<1>13. FollowsTheLog'
  <2>1. SUFFICES ASSUME IdsAreUnique', Boundary(start)
                 PROVE  calls' = FlattenSeq([i \in 1 .. next' - start' |-> Expected(log'[start' + i - 1])])
    BY <1>8 DEF FollowsTheLog
  <2>2. IdsAreUnique
    <3>1. \A j \in Maps : j \in Maps' /\ log'[j] = log[j]
      BY <1>3, <1>7 DEF Maps
    <3> QED
      BY <2>1, <3>1 DEF IdsAreUnique
  <2>3. calls = FlattenSeq([i \in 1 .. next - start |-> Expected(log[start + i - 1])])
    BY <2>1, <2>2 DEF WatchInv, FollowsTheLog
  <2>4. \A i \in 1 .. next - start : log'[start + i - 1] = log[start + i - 1]
    <3>1. start # 0
      BY <1>3, <2>1 DEF Boundary, Begins
    <3>2. \A i \in 1 .. next - start : start + i - 1 \in 1 .. Len(log)
      BY <1>3, <1>4, <3>1
    <3> QED
      BY <1>3, <3>2
  <2>5. [i \in 1 .. next - start |-> Expected(log'[start + i - 1])]
          = [i \in 1 .. next - start |-> Expected(log[start + i - 1])]
    BY <2>4
  <2> QED
    BY <1>2, <2>3, <2>5
<1> QED
  BY <1>1, <1>5, <1>10, <1>11, <1>12, <1>13 DEF WatchInv

LEMMA StepHolds == WatchInv /\ [Next]_vars => WatchInv'
<1> SUFFICES ASSUME WatchInv, [Next]_vars
             PROVE  WatchInv'
  OBVIOUS
<1>1. CASE Run
  BY <1>1, RunHolds
<1>2. CASE QueryMode \/ QueryStatus \/ QueryLogs \/ Fail \/ Drop
  BY <1>2, QueriesHold
<1>3. CASE Connect
  BY <1>3, ConnectHolds
<1>4. CASE Read
  BY <1>4, ReadHolds
<1>5. CASE ReadError
  BY <1>5, ReadErrorHolds
<1>6. CASE Crash
  <2>1. pc' = pc \/ pc' = "returned"
    BY <1>6 DEF Crash
  <2>2. connected' \in BOOLEAN /\ (connected' => pc' = "reading")
    BY <1>6, Zenon DEF Crash
  <2> QED
    BY <1>6, <2>1, <2>2, QuietHolds DEF Crash
<1>7. CASE Commit /\ UNCHANGED watch
  BY <1>7, CommitHolds
<1>8. CASE ((Rotate \/ Reopen) /\ UNCHANGED watch) \/ UNCHANGED vars
  <2>1. UNCHANGED watch
    BY <1>8 DEF vars
  <2>2. connected' \in BOOLEAN /\ (connected' => pc' = "reading")
    BY <2>1, Zenon DEF watch, WatchInv, WatchTypes
  <2> QED
    BY <1>8, <2>1, <2>2, QuietHolds DEF watch, vars
<1> QED
  BY <1>1, <1>2, <1>3, <1>4, <1>5, <1>6, <1>7, <1>8 DEF Next, Step

LEMMA WatchHolds == Spec => []WatchInv
BY InitHolds, StepHolds, PTL DEF Spec
-----------------------------------------------------------------------------
(***************************************************************************)
(* The theorems.                                                           *)
(***************************************************************************)

\* Whatever the server does, the watcher's state has its types; the cache holds
\* ids the server gave out and tables that pass the filter of
\* parse_json_columns (mysql_binlog.rs:98-110), and no stream has read past the
\* end of the log.
THEOREM WatchTypeCorrect == Spec => []TypeOK
<1>1. WatchInv => TypeOK
  <2> SUFFICES ASSUME WatchInv
               PROVE  TypeOK
    OBVIOUS
  <2>1. \A i \in DOMAIN log : EventOK(log[i])
    <3>1. ASSUME NEW event \in Event
          PROVE  EventOK(event)
      <4>1. CASE event.kind \in {"begin", "map"}
        BY <4>1 DEF Event, EventOK
      <4>2. CASE event.kind = "update"
        BY <4>2 DEF Event, EventOK, Tag
      <4>3. CASE event.kind \in {"write", "delete"}
        BY <4>3 DEF Event, EventOK, Tag
      <4> QED
        BY <4>1, <4>2, <4>3 DEF Event
    <3> QED
      BY <3>1 DEF WatchInv, ServerInv
  <2>2. DOMAIN table_map_cache \subseteq 1 .. MaxId
    <3>1. ASSUME NEW j \in Maps
          PROVE  log[j].id \in 1 .. MaxId
      <4>1. log[j] \in Event /\ log[j].kind = "map"
        BY DEF Maps, WatchInv, ServerInv
      <4> QED
        BY <4>1 DEF Event
    <3> QED
      BY <3>1 DEF WatchInv, CacheInv
  <2>3. calls \in Seq([item : {"node", "edge"}, tag : Tag, data : Seq(Row)])
    BY DEF WatchInv, WatchTypes, Call
  <2>4. \A id \in DOMAIN table_map_cache : Watched(table_map_cache[id])
    BY DEF WatchInv, CacheInv
  <2>5. file \in 1 .. MaxFile /\ ids \in [Table -> 0 .. MaxId] /\ gtid_mode \in GtidMode
    BY DEF WatchInv, ServerInv
  <2> QED
    BY <2>1, <2>2, <2>3, <2>4, <2>5 DEF TypeOK, WatchInv, WatchTypes
<1> QED
  BY <1>1, WatchHolds, PTL

\* The calls of a run are the changes of the two tables in the stretch of the
\* log it has read, in their order and each once (mysql_binlog.rs:86-134), for
\* a log of any length, any number of statements, clients, dropped runs, later
\* runs with an old cache, and restarts that do not reuse an id.
THEOREM ReadsTheLog == Spec => []FollowsTheLog
<1>1. WatchInv => FollowsTheLog
  BY DEF WatchInv
<1> QED
  BY <1>1, WatchHolds, PTL

\* Between the three queries of create_binlog_stream_option and the opening of
\* the stream others may commit, rotate files, and alter tables: the stream
\* still starts between two transactions, none missed since run was called
\* (mysql_binlog.rs:136-163), with GTIDs and with a position.
THEOREM OpensWhereItLooked == Spec => []StartsWhereItLooked
<1>1. WatchInv => StartsWhereItLooked
  BY DEF WatchInv
<1> QED
  BY <1>1, WatchHolds, PTL
-----------------------------------------------------------------------------
(***************************************************************************)
(* WatchMysqlBinlog implements ChangeFeed.                                 *)
(***************************************************************************)

\* The first event whose changes are pending.
First == IF pc = "reading" THEN next ELSE known.called + 1

LEMMA PendingIs ==
  WatchInv => /\ First \in 1 .. Len(log) + 1 /\ log \in Seq(Event)
              /\ Pending = IF Mode = "off" THEN <<>> ELSE Stretch(log, First, Len(log))
              /\ Stretch(log, First, Len(log)) \in Seq(Call)
<1> SUFFICES ASSUME WatchInv
             PROVE  /\ First \in 1 .. Len(log) + 1 /\ log \in Seq(Event)
                    /\ Pending = IF Mode = "off" THEN <<>> ELSE Stretch(log, First, Len(log))
                    /\ Stretch(log, First, Len(log)) \in Seq(Call)
  OBVIOUS
<1>1. log \in Seq(Event) /\ Len(log) \in Nat
  BY PlaceTypes DEF WatchInv, ServerInv
<1>2. First \in 1 .. Len(log) + 1
  BY <1>1 DEF First, WatchInv, WatchTypes
<1>3. Len(log) \in First - 1 .. Len(log)
  BY <1>1, <1>2
<1>4. /\ FlattenSeq([i \in 1 .. Len(log) - First + 1 |-> Expected(log[First + i - 1])])
           = Stretch(log, First, Len(log))
      /\ Stretch(log, First, Len(log)) \in Seq(Call)
  BY <1>1, <1>2, <1>3, StretchIs
<1> QED
  BY <1>1, <1>2, <1>4 DEF Pending, First

LEMMA PendingWillBe ==
  WatchInv' => /\ First' \in 1 .. Len(log') + 1 /\ log' \in Seq(Event)
               /\ Pending' = IF Mode' = "off" THEN <<>> ELSE Stretch(log', First', Len(log'))
               /\ Stretch(log', First', Len(log')) \in Seq(Call)
<1>1. (WatchInv => /\ First \in 1 .. Len(log) + 1 /\ log \in Seq(Event)
                   /\ Pending = IF Mode = "off" THEN <<>> ELSE Stretch(log, First, Len(log))
                   /\ Stretch(log, First, Len(log)) \in Seq(Call))'
  BY PendingIs, PTL
<1>2. /\ Stretch(log, First, Len(log))' = Stretch(log', First', Len(log'))
      /\ (Mode = "off")' <=> Mode' = "off"
  BY DEF Stretch, Corpus
<1> QED
  BY <1>1, <1>2

\* Queries, errors of the stream and what the server does without logging
\* changes are no steps of the feed, unless a query failed.
LEMMA FeedStutters ==
  ASSUME WatchInv, WatchInv', log' = log, UNCHANGED <<calls, known, next>>,
         Mode' = Mode, pc = "reading" <=> pc' = "reading"
  PROVE  UNCHANGED Feed!feed
<1>1. First' = First
  BY DEF First
<1>2. Pending' = Pending
  BY <1>1, PendingIs, PendingWillBe
<1> QED
  BY <1>2 DEF Feed!feed

LEMMA FeedStops ==
  ASSUME Mode # "off", Mode' = "off", calls' = calls
  PROVE  Feed!Stop
BY DEF Feed!Stop, Pending

LEMMA FeedOpens ==
  ASSUME WatchInv, WatchInv', Connect
  PROVE  Feed!FeedNext
<1>1. /\ pc = "connect" /\ pc' = "reading" /\ option' = option /\ log' = log /\ Mode = "asking"
      /\ calls' = calls /\ next' = start'
  BY DEF Connect, server, Mode, Querying
<1>2. CASE option.gt_id \/ option.position < PosWidth
  <2> DEFINE m == known.called + 1
             k == start'
             n == Len(log)
  <2>1. /\ m \in 1 .. n + 1 /\ n \in Nat /\ log \in Seq(Event)
        /\ Pending = Stretch(log, m, n)
    BY <1>1, PendingIs, PlaceTypes DEF First, Mode
  <2>2. k \in m .. n + 1
    <3>1. known.called \in Nat
      BY DEF WatchInv, WatchTypes
    <3>2. k \in 1 .. n + 1 /\ Good(k)
      BY <1>2, ConnectStarts
    <3> QED
      BY <2>1, <3>1, <3>2 DEF Good
  <2>3. CASE IdsAreUnique
    <3>1. IdsAreUnique'
      BY <1>1, <2>3 DEF IdsAreUnique, Maps
    <3>2. Mode' = "open"
      BY <1>1, <1>2, <3>1 DEF Mode, Querying
    <3>3. Pending' = Stretch(log, k, n)
      BY <1>1, <3>2, PendingWillBe DEF First
    <3> HIDE DEF m, k, n
    <3>4. k - 1 \in m - 1 .. n /\ n \in k - 1 .. n /\ (k - 1) + 1 = k
      BY <2>1, <2>2
    <3>5. Pending = Stretch(log, m, k - 1) \o Stretch(log, k, n)
      BY <2>1, <3>4, StretchSplits DEF n
    <3>6. Stretch(log, m, k - 1) \in Seq(Call) /\ Stretch(log, k, n) \in Seq(Call)
      <4>1. k \in 1 .. Len(log) + 1 /\ k - 1 \in m - 1 .. Len(log) /\ n \in k - 1 .. Len(log)
        BY <2>1, <2>2, <3>4 DEF n
      <4> QED
        BY <2>1, <4>1, StretchIs DEF n
    <3> DEFINE before == Len(Stretch(log, m, k - 1))
    <3>7. before \in Nat /\ Pending' = SubSeq(Pending, before + 1, Len(Pending))
          /\ Len(Pending) = before + Len(Stretch(log, k, n)) /\ Len(Stretch(log, k, n)) \in Nat
      BY <3>3, <3>5, <3>6, ConcatParts
    <3> HIDE DEF before
    <3>8. before + 1 \in 1 .. Len(Pending) + 1
      BY <3>7
    <3>9. Feed!Open
      BY <1>1, <3>2, <3>7, <3>8 DEF Feed!Open, Feed!From
    <3> QED
      BY <3>9 DEF Feed!FeedNext
  <2>4. CASE ~IdsAreUnique
    <3>1. ~IdsAreUnique'
      BY <1>1, <2>4 DEF IdsAreUnique, Maps
    <3>2. Mode' = "astray"
      BY <1>1, <3>1 DEF Mode, Querying
    <3> QED
      BY <3>2 DEF Feed!FeedNext, Feed!GoAstray
  <2> QED
    BY <2>3, <2>4
<1>3. CASE ~(option.gt_id \/ option.position < PosWidth)
  <2>1. Mode' = "astray"
    BY <1>1, <1>3 DEF Mode, Querying
  <2> QED
    BY <2>1 DEF Feed!FeedNext, Feed!GoAstray
<1> QED
  BY <1>2, <1>3

LEMMA FeedHandsOver ==
  ASSUME WatchInv, WatchInv', Read
  PROVE  Feed!FeedNext \/ UNCHANGED Feed!feed
<1>1. /\ pc = "reading" /\ pc' = "reading" /\ option' = option /\ log' = log /\ start' = start
      /\ next' = next + 1 /\ next <= Len(log) /\ Parse(log[next])
  BY DEF Read, server
<1>2. IdsAreUnique' <=> IdsAreUnique
  BY <1>1 DEF IdsAreUnique, Maps
<1>3. CASE ~IdsAreUnique \/ ~(option.gt_id \/ option.position < PosWidth)
  <2>1. Mode' = "astray"
    BY <1>1, <1>2, <1>3 DEF Mode, Querying
  <2> QED
    BY <2>1 DEF Feed!FeedNext, Feed!GoAstray
<1>4. CASE IdsAreUnique /\ (option.gt_id \/ option.position < PosWidth)
  <2> DEFINE due  == Expected(log[next])
             rest == Stretch(log, next + 1, Len(log))
  <2>1. Mode = "open" /\ Mode' = "open"
    BY <1>1, <1>2, <1>4 DEF Mode, Querying
  <2>2. /\ next \in 1 .. Len(log) /\ log \in Seq(Event) /\ Len(log) \in Nat /\ calls \in Seq(Call)
        /\ start \in Nat /\ start <= next /\ Boundary(start)
    <3>1. log \in Seq(Event) /\ Len(log) \in Nat
      BY PlaceTypes DEF WatchInv, ServerInv
    <3>2. /\ next \in Nat /\ start \in Nat /\ start <= next /\ start # 0 /\ calls \in Seq(Call)
      BY <1>1 DEF WatchInv, WatchTypes
    <3>3. Boundary(start)
      BY <1>1, <1>4 DEF WatchInv, StartsWhereItLooked
    <3> QED
      BY <1>1, <3>1, <3>2, <3>3
  <2>3. calls' = calls \o due
    BY <1>1, <1>4, <2>2, ParseAdds DEF WatchInv
  <2>4. Pending = Stretch(log, next, Len(log)) /\ Pending' = rest /\ rest \in Seq(Call)
    BY <1>1, <2>1, PendingIs, PendingWillBe DEF First
  <2>5. Pending = due \o rest /\ due \in Seq(Call)
    <3>1. next \in next - 1 .. Len(log) /\ Len(log) \in next .. Len(log) /\ next \in 1 .. Len(log) + 1
      BY <2>2
    <3>2. Stretch(log, next, Len(log)) = Stretch(log, next, next) \o rest
      BY <2>2, <3>1, StretchSplits
    <3>3. Stretch(log, next, next) = due
      BY <2>2, StretchOne
    <3>4. due \in Seq(Call)
      BY <2>2, ExpectedType
    <3> QED
      BY <2>4, <3>2, <3>3, <3>4
  <2> HIDE DEF due, rest
  <2>6. CASE due = <<>>
    <3>1. calls' = calls /\ Pending' = Pending
      BY <2>2, <2>3, <2>4, <2>5, <2>6
    <3> QED
      BY <2>1, <3>1 DEF Feed!feed
  <2>7. CASE due # <<>>
    <3> DEFINE n == Len(due)
    <3>1. /\ n \in Nat \ {0} /\ Len(Pending) = n + Len(rest) /\ Len(rest) \in Nat
          /\ SubSeq(Pending, 1, n) = due /\ SubSeq(Pending, n + 1, Len(Pending)) = rest
          /\ Pending \in Seq(Call)
      BY <2>4, <2>5, <2>7, ConcatParts
    <3>2. n \in DOMAIN Pending
      BY <3>1
    <3>3. Feed!HandOver(n)
      BY <2>1, <2>3, <2>4, <3>1, <3>2 DEF Feed!HandOver, Feed!From
    <3> QED
      BY <3>2, <3>3 DEF Feed!FeedNext
  <2> QED
    BY <2>6, <2>7
<1> QED
  BY <1>3, <1>4

LEMMA FeedChanges ==
  ASSUME WatchInv, WatchInv', Commit, UNCHANGED watch
  PROVE  Feed!FeedNext \/ UNCHANGED Feed!feed
<1>1. /\ UNCHANGED <<pc, option, next, calls, known>> /\ First' = First
  BY DEF watch, First
<1>2. /\ log \in Seq(Event) /\ log' \in Seq(Event) /\ Len(log) \in Nat /\ Len(log') \in Nat
      /\ Len(log) < Len(log') /\ \A i \in 1 .. Len(log) : log'[i] = log[i]
  <2>1. Grown /\ log \in Seq(Event)
    BY CommitServer DEF WatchInv, ServerInv
  <2> QED
    BY <2>1 DEF Grown
<1>3. IdsAreUnique' => IdsAreUnique
  <2>1. \A j \in Maps : j \in Maps' /\ log'[j] = log[j]
    BY <1>2 DEF Maps
  <2> QED
    BY <2>1 DEF IdsAreUnique
<1>4. CASE Mode' = "astray"
  BY <1>4 DEF Feed!FeedNext, Feed!GoAstray
<1>5. CASE Mode' # "astray"
  <2>1. Mode' = Mode
    BY <1>1, <1>3, <1>5 DEF Mode
  <2>2. CASE Mode = "off"
    <3>1. Pending' = Pending
      BY <2>1, <2>2 DEF Pending
    <3> QED
      BY <1>1, <2>1, <3>1 DEF Feed!feed
  <2>3. CASE Mode # "off"
    <3> DEFINE more == Stretch(log', Len(log) + 1, Len(log'))
    <3>1. /\ First \in 1 .. Len(log) + 1 /\ Pending = Stretch(log, First, Len(log))
          /\ Pending \in Seq(Call)
      BY <2>3, PendingIs
    <3>2. Pending' = Stretch(log', First, Len(log'))
      BY <1>1, <2>1, <2>3, PendingWillBe
    <3>3. /\ First \in 1 .. Len(log') + 1 /\ Len(log) \in First - 1 .. Len(log')
          /\ Len(log') \in Len(log) .. Len(log') /\ Len(log) \in First - 1 .. Len(log)
          /\ Len(log) + 1 \in 1 .. Len(log') + 1 /\ Len(log') \in (Len(log) + 1) - 1 .. Len(log')
      BY <1>2, <3>1
    <3>4. Stretch(log', First, Len(log')) = Stretch(log', First, Len(log)) \o more
      BY <1>2, <3>3, StretchSplits
    <3>5. Stretch(log', First, Len(log)) = Stretch(log, First, Len(log))
      BY <1>2, <3>1, <3>3, StretchStays
    <3>6. more \in Seq(Call)
      BY <1>2, <3>3, StretchIs
    <3> HIDE DEF more
    <3>7. Pending' = Pending \o more
      BY <3>1, <3>2, <3>4, <3>5
    <3>8. SubSeq(Pending', Len(Pending) + 1, Len(Pending')) = more
      BY <3>1, <3>6, <3>7, ConcatParts
    <3>9. Feed!Change(Feed!From(Pending', Len(Pending) + 1))
      BY <1>1, <2>1, <2>3, <3>7, <3>8 DEF Feed!Change, Feed!From
    <3> QED
      BY <3>9 DEF Feed!FeedNext
  <2> QED
    BY <2>2, <2>3
<1> QED
  BY <1>4, <1>5

LEMMA FeedSteps ==
  WatchInv /\ WatchInv' /\ [Next]_vars => [Feed!FeedNext]_(Feed!feed)
<1> SUFFICES ASSUME WatchInv, WatchInv', [Next]_vars
             PROVE  Feed!FeedNext \/ UNCHANGED Feed!feed
  OBVIOUS
<1>1. CASE Run
  <2>1. /\ Mode = "off" /\ Mode' = "asking" /\ calls' = <<>> /\ log' = log
        /\ known'.called = Len(log) /\ pc' = "mode"
    BY <1>1 DEF Run, Mode, Querying, server
  <2>2. Len(log) \in Nat /\ First' = Len(log) + 1
    BY <2>1, PlaceTypes DEF First, WatchInv, ServerInv
  <2>3. Pending' = Stretch(log, Len(log) + 1, (Len(log) + 1) - 1)
    BY <2>1, <2>2, PendingWillBe
  <2>4. log \in Seq(Event) /\ Len(log) + 1 \in 1 .. Len(log) + 1
    BY <2>2 DEF WatchInv, ServerInv
  <2>5. Pending' = <<>> 
    BY <2>3, <2>4, StretchNone
  <2> QED
    BY <2>1, <2>5 DEF Feed!FeedNext, Feed!Run
<1>2. CASE QueryMode \/ QueryStatus \/ QueryLogs
  <2>1. /\ log' = log /\ UNCHANGED <<calls, known, next>> /\ pc \in Querying /\ pc' \in Querying
    BY <1>2 DEF QueryMode, QueryStatus, QueryLogs, Goto, Querying, server
  <2>2. Mode' = Mode /\ pc # "reading" /\ pc' # "reading"
    BY <2>1 DEF Mode, Querying
  <2> QED
    BY <2>1, <2>2, FeedStutters
<1>3. CASE Fail \/ Drop
  <2>1. Mode # "off" /\ Mode' = "off" /\ calls' = calls
    BY <1>3 DEF Fail, Drop, Goto, Mode, Querying
  <2> QED
    BY <2>1, FeedStops DEF Feed!FeedNext
<1>4. CASE Connect
  BY <1>4, FeedOpens
<1>5. CASE Read
  BY <1>5, FeedHandsOver
<1>6. CASE Crash
  <2>1. log' = log /\ UNCHANGED <<option, calls, known, next>>
    BY <1>6 DEF Crash, Restart
  <2>2. IdsAreUnique' <=> IdsAreUnique
    BY <2>1 DEF IdsAreUnique, Maps
  <2>3. CASE pc \in Querying \ {"connect"}
    <3>1. Mode # "off" /\ Mode' = "off"
      BY <1>6, <2>3 DEF Crash, Mode, Querying
    <3> QED
      BY <2>1, <3>1, FeedStops DEF Feed!FeedNext
  <2>4. CASE pc \notin Querying \ {"connect"}
    <3>1. pc' = pc
      BY <1>6, <2>4 DEF Crash
    <3>2. Mode' = Mode
      BY <2>1, <2>2, <3>1 DEF Mode
    <3> QED
      BY <2>1, <3>1, <3>2, FeedStutters
  <2> QED
    BY <2>3, <2>4
<1>7. CASE Commit /\ UNCHANGED watch
  BY <1>7, FeedChanges
<1>8. CASE ReadError \/ ((Rotate \/ Reopen) /\ UNCHANGED watch) \/ UNCHANGED vars
  <2>1. log' = log /\ UNCHANGED <<pc, option, calls, known, next>>
    BY <1>8 DEF ReadError, Rotate, Reopen, watch, vars, server
  <2>2. Mode' = Mode
    BY <2>1 DEF Mode, IdsAreUnique, Maps
  <2> QED
    BY <2>1, <2>2, FeedStutters
<1> QED
  BY <1>1, <1>2, <1>3, <1>4, <1>5, <1>6, <1>7, <1>8 DEF Next, Step

\* The watcher keeps the promise that the application of examples/graph.rs
\* relies on, step by step: its initial states are states of ChangeFeed, and
\* each of its steps is a step of the feed or none.
THEOREM WatcherIsAFeed == Spec => ImplementsChangeFeed
<1>1. Init => Feed!FeedInit
  <2> SUFFICES ASSUME Init
               PROVE  Feed!FeedInit
    OBVIOUS
  <2>1. Mode = "off" /\ calls = <<>>
    BY DEF Init, Mode, Querying
  <2>2. Pending = <<>>
    BY <2>1 DEF Pending
  <2> QED
    BY <2>1, <2>2 DEF Feed!FeedInit
<1> QED
  BY <1>1, WatchHolds, FeedSteps, PTL DEF Spec, ImplementsChangeFeed, Feed!FeedSpec
=============================================================================
