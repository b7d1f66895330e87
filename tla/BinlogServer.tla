---------------------------- MODULE BinlogServer ----------------------------
(***************************************************************************)
(* The MySQL server, as src/controller/mysql_binlog.rs relies on it: it    *)
(* logs every transaction in the last of its binary log files, announces   *)
(* the tables of its row events by TableMap events that bind table ids to  *)
(* tables, and answers the questions of a client that wants to follow.     *)
(* A table keeps its id while it is open.  Ids are counted up, but they    *)
(* are counted from the start again after a restart.                       *)
(***************************************************************************)
EXTENDS Naturals, Sequences, FiniteSetsExt

CONSTANTS
  Table,          \* the tables, <<database, name>>
  Joinable,       \* those that one statement may change together
  GtidMode,       \* the values @@GLOBAL.GTID_MODE may have: "ON", "OFF"
  MaxTransaction, \* bound: transactions in the log
  MaxFile,        \* bound: binary log files
  MaxId           \* bound: table ids given out between two restarts

VARIABLES
  log,       \* the events of all files, in order
  file,      \* the number of the last file
  ids,       \* the id of each table, 0 for a table that is not open
  gtid_mode  \* constant during a run

server == <<log, file, ids, gtid_mode>>

Tag == {"write", "update", "delete"}

\* A row says here which table it is from.  For a client it is the TableMap
\* event with the same id that says so.
Row == [table : Table, n : {1, 2}]

\* The events: a pair of rows, before and after, for each row of an update.
EventOK(event) ==
  /\ event.file \in 1 .. MaxFile
  /\ event.kind \in {"begin", "map"} \cup Tag
  /\ event.kind # "begin" => event.id \in 1 .. MaxId
  /\ CASE event.kind = "begin"  -> TRUE
       [] event.kind = "map"    -> event.table \in Table
       [] event.kind = "update" -> event.rows \in Seq(Row \X Row)
       [] OTHER                 -> event.rows \in Seq(Row)

Sized(f) == Cardinality({i \in DOMAIN log : log[i].file = f})

\* Where the transactions begin; their number is the GTID set of the server.
Begins == {i \in DOMAIN log : log[i].kind = "begin"}

Maps == {i \in DOMAIN log : log[i].kind = "map"}

\* The position in log that follows the first n events of file f.
After(f, n) == Cardinality({i \in DOMAIN log : log[i].file < f}) + n + 1

\* The position in log of the first transaction that is not one of the first n.
AfterGtids(n) ==
  Cardinality({i \in DOMAIN log : Cardinality({j \in Begins : j <= i}) <= n}) + 1

ServerInit ==
  /\ log = <<>>
  /\ file = 1
  /\ ids = [t \in Table |-> 0]
  /\ gtid_mode \in GtidMode

\* The rows of one event, of a statement that touches several rows or one.
Changes(t, tag) ==
  LET one == [table |-> t, n |-> 1]
      two == [table |-> t, n |-> 2]
  IN  CASE tag = "write"  -> <<one, two>>
        [] tag = "update" -> << <<one, two>>, <<two, one>> >>
        [] tag = "delete" -> <<one>>

Highest == Max({ids[t] : t \in Table})

\* The tables of a statement: one, or the two of a DELETE that joins them.
Statements ==
  {<<<<t>>, tag>> : t \in Table, tag \in Tag}
    \cup {<<ts, "delete">> : ts \in {<<t, u>> : t, u \in Joinable} \ {<<t, t>> : t \in Joinable}}

\* The tables get their ids in the order in which they are opened.
Opened(ts) ==
  LET Fresh(i) == Cardinality({j \in 1 .. i : ids[ts[j]] = 0})
  IN  [i \in DOMAIN ts |-> IF ids[ts[i]] = 0 THEN Highest + Fresh(i) ELSE ids[ts[i]]]

\* One TableMap event for each table, then the row events.
Commit ==
  /\ Cardinality(Begins) < MaxTransaction
  /\ \E s \in Statements :
       LET ts == s[1]
           id == Opened(ts)
       IN  /\ \A i \in DOMAIN ts : id[i] <= MaxId
           /\ ids' = [t \in Table |-> IF \E i \in DOMAIN ts : ts[i] = t
                                      THEN id[CHOOSE i \in DOMAIN ts : ts[i] = t] ELSE ids[t]]
           /\ log' = log \o <<[file |-> file, kind |-> "begin"]>>
                \o [i \in DOMAIN ts |-> [file |-> file, kind |-> "map", id |-> id[i], table |-> ts[i]]]
                \o [i \in DOMAIN ts |-> [file |-> file, kind |-> s[2], id |-> id[i],
                                         rows |-> Changes(ts[i], s[2])]]
  /\ UNCHANGED <<file, gtid_mode>>

\* A new file: FLUSH LOGS, or the last file reached its maximal size.
Rotate ==
  /\ file < MaxFile
  /\ file' = file + 1
  /\ UNCHANGED <<log, ids, gtid_mode>>

\* A table is altered, or evicted from the table cache: when it is opened
\* again it gets a new id.
Reopen ==
  /\ \E t \in Table :
       /\ ids[t] # 0 /\ Highest < MaxId
       /\ ids' = [ids EXCEPT ![t] = Highest + 1]
  /\ UNCHANGED <<log, file, gtid_mode>>

Restart ==
  /\ file < MaxFile
  /\ file' = file + 1
  /\ ids' = [t \in Table |-> 0]
  /\ UNCHANGED <<log, gtid_mode>>
=============================================================================
