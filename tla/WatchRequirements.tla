------------------------- MODULE WatchRequirements --------------------------
(***************************************************************************)
(* What is required of WatchMysqlBinlog.                                   *)
(***************************************************************************)
EXTENDS WatchMysqlBinlog

\* Types, and: only tables that pass the filter are in the cache.
TypeOK ==
  /\ \A i \in DOMAIN log : EventOK(log[i])
  /\ file \in 1 .. MaxFile
  /\ ids \in [Table -> 0 .. MaxId] /\ gtid_mode \in GtidMode
  /\ pc \in {"idle", "reading", "returned"} \cup Querying
  /\ option \in [gt_id : BOOLEAN, gt_id_set : Nat, filename : 0 .. MaxFile, position : Nat]
  /\ start <= next /\ next <= Len(log) + 1
  /\ connected => pc = "reading"
  /\ DOMAIN table_map_cache \subseteq 1 .. MaxId
  /\ \A id \in DOMAIN table_map_cache : Watched(table_map_cache[id])
  /\ calls \in Seq([item : {"node", "edge"}, tag : Tag, data : Seq(Row)])

TableOf(data) == data[1].table

\* The call for rows of one table; the node item comes first, should both have
\* the same table.
CallsFor(tag, data) ==
  IF TableOf(data) \notin {Node, Edge} THEN <<>>
  ELSE <<[item |-> IF TableOf(data) = Node THEN "node" ELSE "edge", tag |-> tag, data |-> data]>>

\* The calls for the changes that event records.
Expected(event) ==
  CASE event.kind \in {"begin", "map"} -> <<>>
    [] event.kind = "update" ->
         FlattenSeq([i \in DOMAIN event.rows |-> CallsFor("update", event.rows[i])])
    [] OTHER -> CallsFor(event.kind, event.rows)

Boundary(i) == i \in Begins \/ i = Len(log) + 1

IdsAreUnique == \A i, j \in Maps : log[i].id = log[j].id => log[i].table = log[j].table

(***************************************************************************)
(* The calls of a run are exactly the changes of the two tables in the     *)
(* stretch of the log it read: none missing, none twice, none of another   *)
(* table, in the order of the log.  It takes a server that does not give   *)
(* the id of one table to another, and a stream that does not start in the *)
(* middle of a transaction.                                                *)
(***************************************************************************)
FollowsTheLog ==
  IdsAreUnique /\ Boundary(start) =>
    calls = FlattenSeq([i \in 1 .. next - start |-> Expected(log[start + i - 1])])

(***************************************************************************)
(* A stream starts between two transactions, after the changes that were   *)
(* there when run was called and before those that are made once the       *)
(* stream is open, whatever happens between the queries                    *)
(* (mysql_binlog.rs:142-162); unless the last file is too long for a u32   *)
(* position (mysql_binlog.rs:65).                                          *)
(***************************************************************************)
StartsWhereItLooked ==
  pc = "reading" /\ (option.gt_id \/ option.position < PosWidth) =>
    known.called < start /\ start <= known.opened + 1 /\ Boundary(start)

\* A run as a ChangeFeed.  It is astray when the server gives the id of one
\* table to another, or when the last file is too long for a u32 position.
Mode ==
  CASE pc \in {"idle", "returned"} -> "off"
    [] pc \in Querying -> "asking"
    [] OTHER -> IF IdsAreUnique /\ (option.gt_id \/ option.position < PosWidth)
                THEN "open" ELSE "astray"

Pending ==
  LET first == IF pc = "reading" THEN next ELSE known.called + 1
  IN  IF Mode = "off" THEN <<>>
      ELSE FlattenSeq([i \in 1 .. Len(log) - first + 1 |-> Expected(log[first + i - 1])])

Feed == INSTANCE ChangeFeed WITH mode <- Mode, pending <- Pending, handed <- calls

(***************************************************************************)
(* The watcher implements ChangeFeed, the watcher that the application of  *)
(* examples/graph.rs relies on: step by step, whatever the server and      *)
(* other clients do, errors of the stream, dropped runs and later ones     *)
(* included, the functions of the items are called for the changes that    *)
(* are pending, in their order, and for nothing else.                      *)
(***************************************************************************)
ImplementsChangeFeed == Feed!FeedSpec

(***************************************************************************)
(* A watcher that is behind the log catches up once no more is logged,     *)
(* unless it loses its connection or its caller drops it: no timeout of a  *)
(* read makes it give up (mysql_binlog.rs:78-80).                          *)
(***************************************************************************)
KeepsReading ==
  (connected /\ next <= Len(log)) ~>
    (next > Len(log) \/ pc = "idle" \/ (pc = "reading" /\ ~connected))

(***************************************************************************)
(* "Processing function, only handles the incoming table and db"           *)
(* (mysql_binlog.rs:115): an item is never handed a row of a table that is *)
(* not its own.                                                            *)
(***************************************************************************)
OnlyHandlesItsTable ==
  \A i \in DOMAIN calls :
    TableOf(calls[i].data) = IF calls[i].item = "node" THEN Node ELSE Edge
=============================================================================
