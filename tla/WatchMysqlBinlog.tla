-------------------------- MODULE WatchMysqlBinlog --------------------------
(***************************************************************************)
(* src/controller/mysql_binlog.rs: WatchMysqlBinlog follows the binary log *)
(* and calls the functions of two items, node and edge, for the changes of *)
(* their tables.  run asks the server where its log ends, one query at a   *)
(* time, opens a stream there and then reads until its caller drops it:    *)
(* an error of a query ends it, an error of the stream is logged only.     *)
(***************************************************************************)
EXTENDS BinlogServer, SequencesExt

CONSTANTS
  Node, Edge, \* the tables of the two items
  PosWidth    \* BinlogClient::binlog_position holds positions below this, 2^32

VARIABLES
  pc,              \* where run is: "idle" when it is not called
  option,          \* what create_binlog_stream_option found out so far
  start,           \* where in the log the stream was opened
  next,            \* the event the stream reads next
  connected,       \* the connection of the stream is alive
  table_map_cache, \* table id |-> table, kept from one run to the next
  calls,           \* the calls of node.func and edge.func in this run
  known            \* history: how long the log was when run was called and
                   \* when the stream was opened

watch == <<pc, option, start, next, connected, table_map_cache, calls, known>>
vars  == <<server, watch>>

ASSUME WatchAssumption ==
  /\ {Node, Edge} \cup Joinable \subseteq Table /\ GtidMode \subseteq {"ON", "OFF"}
  /\ MaxTransaction \in Nat /\ MaxFile \in Nat \ {0} /\ MaxId \in Nat
  /\ PosWidth \in Nat \ {0}

Querying == {"mode", "status", "logs", "connect"}
Unknown  == [gt_id |-> FALSE, gt_id_set |-> 0, filename |-> 0, position |-> 0]

\* new
Init ==
  /\ ServerInit
  /\ pc = "idle"
  /\ option = Unknown
  /\ start = 0 /\ next = 0
  /\ connected = FALSE
  /\ table_map_cache = <<>>
  /\ calls = <<>>
  /\ known = [called |-> 0, opened |-> 0]

\* run goes on to the next query, or it ends and with it the stream.
Goto(step, found) ==
  /\ pc' = step
  /\ option' = found
  /\ connected' = FALSE
  /\ UNCHANGED <<start, next, table_map_cache, calls, known, server>>

Run ==
  /\ pc \in {"idle", "returned"}
  /\ pc' = "mode"
  /\ option' = Unknown
  /\ calls' = <<>>
  /\ known' = [called |-> Len(log), opened |-> 0]
  /\ start' = 0 /\ next' = 0 /\ connected' = FALSE
  /\ UNCHANGED <<table_map_cache, server>>

\* SELECT @@GLOBAL.GTID_MODE: when this query fails GTIDs are not used.
QueryMode ==
  /\ pc = "mode"
  /\ \/ gtid_mode = "ON" /\ Goto("status", [option EXCEPT !.gt_id = TRUE])
     \/ Goto("logs", option)

\* SHOW MASTER STATUS
QueryStatus ==
  /\ pc = "status"
  /\ Goto("logs", [option EXCEPT !.gt_id_set = Cardinality(Begins)])

\* Mutant of QueryLogs: the first of the files is taken.
QueryLogsFirst ==
  /\ pc = "logs"
  /\ Goto("connect", [option EXCEPT !.filename = 1, !.position = Sized(1)])

\* Mutant of QueryLogs: the position is one past the end.
QueryLogsPast ==
  /\ pc = "logs"
  /\ Goto("connect", [option EXCEPT !.filename = file, !.position = Sized(file) + 1])

\* SHOW BINARY LOGS, the last row.
QueryLogs ==
  /\ pc = "logs"
  /\ Goto("connect", [option EXCEPT !.filename = file, !.position = Sized(file)])

\* A query other than the first, or connecting, fails: run returns the error.
Fail ==
  /\ pc \in Querying
  /\ Goto("returned", option)

\* The position is cast to u32; the server counts from it, or from the GTIDs.
Connect ==
  /\ pc = "connect"
  /\ pc' = "reading"
  /\ start' = IF option.gt_id THEN AfterGtids(option.gt_id_set)
              ELSE After(option.filename, option.position % PosWidth)
  /\ next' = start'
  /\ connected' = TRUE
  /\ known' = [known EXCEPT !.opened = Len(log)]
  /\ UNCHANGED <<option, table_map_cache, calls, server>>
-----------------------------------------------------------------------------
\* TableMap: the database and the name are each compared with those of both
\* items, so a table with the one's database and the other's name is kept too.
Watched(t) == t[1] \in {Node[1], Edge[1]} /\ t[2] \in {Node[2], Edge[2]}

\* entry().or_insert(): what the cache says of an id is never replaced.
OrInsert(id, t) ==
  [k \in DOMAIN table_map_cache \cup {id} |->
     IF k \in DOMAIN table_map_cache THEN table_map_cache[k] ELSE t]

\* Mutant of Remember: a table is kept for the node item only.
RememberNode(id, t) == IF t = Node THEN OrInsert(id, t) ELSE table_map_cache

Remember(id, t) == IF Watched(t) THEN OrInsert(id, t) ELSE table_map_cache

\* tidy_func: the item of the table, node first, is handed the rows.
Dispatch(id, tag, data) ==
  IF id \notin DOMAIN table_map_cache THEN <<>>
  ELSE LET t == table_map_cache[id]
       IN  IF t = Node THEN <<[item |-> "node", tag |-> tag, data |-> data]>>
           ELSE IF t = Edge THEN <<[item |-> "edge", tag |-> tag, data |-> data]>>
           ELSE <<>>

\* parse_json_columns: one call for a write or a delete, whatever the number of
\* its rows; one for each pair of an update.
Parse(event) ==
  /\ table_map_cache' = IF event.kind = "map" THEN Remember(event.id, event.table)
                        ELSE table_map_cache
  /\ calls' = calls \o
       CASE event.kind \in {"begin", "map"} -> <<>>
         [] event.kind = "update" ->
              FlattenSeq([i \in DOMAIN event.rows |-> Dispatch(event.id, "update", event.rows[i])])
         [] OTHER -> Dispatch(event.id, event.kind, event.rows)

Read ==
  /\ pc = "reading" /\ connected /\ next <= Len(log)
  /\ Parse(log[next])
  /\ next' = next + 1
  /\ UNCHANGED <<pc, option, start, connected, known, server>>

\* Mutant of ReadError: the loop ends with the first error.
ReadErrorEnds ==
  /\ pc = "reading"
  /\ Goto("returned", option)

\* Mutant of ReadError: the event that could not be read is passed over.
ReadErrorSkips ==
  /\ pc = "reading"
  /\ next' = IF next <= Len(log) THEN next + 1 ELSE next
  /\ UNCHANGED <<pc, option, start, connected, table_map_cache, calls, known, server>>

\* read() times out, or fails because the connection is gone: the loop goes on.
ReadError ==
  /\ pc = "reading"
  /\ connected' \in {connected, FALSE}
  /\ UNCHANGED <<pc, option, start, next, table_map_cache, calls, known, server>>

\* The caller drops the future of run; it may call run again.
Drop ==
  /\ pc \in Querying \cup {"reading"}
  /\ Goto("idle", option)

\* The server restarts and all connections break: the queries that are left
\* fail, the stream is opened on a connection of its own.
Crash ==
  /\ Restart
  /\ connected' = FALSE
  /\ pc' = IF pc \in Querying \ {"connect"} THEN "returned" ELSE pc
  /\ UNCHANGED <<option, start, next, table_map_cache, calls, known>>

Step == QueryMode \/ QueryStatus \/ QueryLogs \/ Connect \/ Read

Next ==
  \/ Run \/ Step \/ Fail \/ ReadError \/ Drop \/ Crash
  \/ (Commit \/ Rotate \/ Reopen) /\ UNCHANGED watch

Spec == Init /\ [][Next]_vars

(***************************************************************************)
(* run is polled while it can go on, and reads what the server has sent.   *)
(***************************************************************************)
FairSpec == Spec /\ WF_vars(Step)
=============================================================================
