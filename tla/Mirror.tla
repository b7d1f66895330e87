------------------------------- MODULE Mirror -------------------------------
(***************************************************************************)
(* examples/graph.rs: the application that keeps a GraphInstance, GRAPH,   *)
(* like two tables of a database.  main loads both tables with read_data,  *)
(* then starts a watcher.  Its callbacks, node and edge, spawn a task for  *)
(* every change, and the task calls one method of GRAPH.                   *)
(*                                                                         *)
(* The watcher is here the ChangeFeed that WatchMysqlBinlog implements.    *)
(***************************************************************************)
EXTENDS GraphRequirements

CONSTANTS
  Main,         \* the task of main; the others are for the callbacks, so their
                \* number bounds how many calls are under way at a time
  MaxStatement  \* bound: the statements committed to the database

VARIABLES
  db,         \* the names in each table: vids, and pairs of vids
  statements, \* how many statements were committed
  phase,      \* where main is
  todo,       \* the rows main has selected and not yet added
  mode, pending, handed, \* the watcher, see ChangeFeed
  past        \* history: what happened that matters later

Feed == INSTANCE ChangeFeed

feed == <<mode, pending, handed>>
app  == <<db, statements, phase, todo, past, feed>>

ASSUME MirrorAssumption ==
  /\ Main \in Task /\ MaxStatement \in Nat
  /\ Payload = {NoData} /\ Ops = NodeOps \cup EdgeOps

Workers == Task \ {Main}
Table   == {"node", "edge"}
Tag     == {"write", "update", "delete"}
Phase   == {"selectNodes", "addNodes", "selectEdges", "addEdges", "watch", "serving", "dead"}

Past ==
  {"unread",        \* the select of a table failed
   "gap",           \* a row was committed after main selected its table, and the
                    \* watcher does not hand it over
   "multi",         \* one change of the watcher has two rows
   "rename",        \* an update changed a name
   "dangling",      \* a node's name left the table and an edge row still has it
   "race",          \* a task was spawned while another that it depends on ran
   "removal",       \* the watcher was to hand over a removal
   "afterRemoval"}  \* and another change after that

MirrorInit ==
  /\ Init
  /\ db = [table \in Table |-> {}]
  /\ statements = 0
  /\ phase = "selectNodes" /\ todo = {}
  /\ Feed!FeedInit
  /\ past = {}
-----------------------------------------------------------------------------
(***************************************************************************)
(* The database.  Names are unique, and an edge is inserted after its end  *)
(* points; nothing else keeps the two tables consistent.                   *)
(***************************************************************************)
Selected(table) == phase \notin (IF table = "node" THEN {"selectNodes"}
                                 ELSE {"selectNodes", "addNodes", "selectEdges"})

Commit(table, tag, rows, names) ==
  LET watched == mode # "off"
  IN  /\ statements < MaxStatement /\ phase # "dead"
      /\ statements' = statements + 1
      /\ db' = [db EXCEPT ![table] = names]
      /\ Feed!Change(<<[item |-> table, tag |-> tag, data |-> rows]>>)
      /\ past' = past
           \cup (IF ~watched /\ Selected(table) THEN {"gap"} ELSE {})
           \cup (IF watched /\ tag # "update" /\ Len(rows) = 2 THEN {"multi"} ELSE {})
           \cup (IF watched /\ tag = "update" /\ rows[1] # rows[2] THEN {"rename"} ELSE {})
           \cup (IF watched /\ tag = "delete" THEN {"removal"} ELSE {})
           \cup (IF "removal" \in past THEN {"afterRemoval"} ELSE {})
           \cup (IF table = "node" /\ \E l \in db["edge"] : ~({l[1], l[2]} \subseteq names)
                 THEN {"dangling"} ELSE {})
      /\ UNCHANGED <<vars, phase, todo>>

Names(table) ==
  IF table = "node" THEN Vid ELSE {l \in Link : {l[1], l[2]} \subseteq db["node"]}

\* One row, or two different ones.
Batches(names) == {<<n>> : n \in names} \cup {b \in names \X names : b[1] # b[2]}

Statement ==
  \E table \in Table :
    \/ \E rows \in Batches(Names(table) \ db[table]) :
         Commit(table, "write", rows, db[table] \cup {rows[i] : i \in DOMAIN rows})
    \/ \E rows \in Batches(db[table]) :
         Commit(table, "delete", rows, db[table] \ {rows[i] : i \in DOMAIN rows})
    \/ \E before \in db[table] : \E after \in {before} \cup (Names(table) \ db[table]) :
         Commit(table, "update", <<before, after>>, (db[table] \ {before}) \cup {after})
-----------------------------------------------------------------------------
(***************************************************************************)
(* read_data: select a table, add its rows one by one.  A select that      *)
(* fails is passed over; a refused row is unwrapped and ends the process.  *)
(***************************************************************************)
\* Mutant of Rows: the edges are loaded first.
RowsSwapped == [selectNodes |-> "edge", selectEdges |-> "node"]

Rows == [selectNodes |-> "node", selectEdges |-> "edge"]

NextPhase ==
  [selectNodes |-> "addNodes", addNodes |-> "selectEdges", selectEdges |-> "addEdges",
   addEdges |-> "watch", watch |-> "serving"]

Select ==
  /\ phase \in DOMAIN Rows
  /\ \E read \in {db[Rows[phase]], {}} :
       /\ todo' = {[table |-> Rows[phase], name |-> n] : n \in read}
       /\ past' = past \cup IF read = db[Rows[phase]] THEN {} ELSE {"unread"}
  /\ phase' = NextPhase[phase]
  /\ UNCHANGED <<vars, db, statements, feed>>

\* Mutant of Method: the tags 2, of an update, and 3, of a delete, are swapped.
MethodTagsSwapped(table, tag) ==
  (IF table = "node" THEN [write |-> "add_node", update |-> "remove_node", delete |-> "update_node"]
   ELSE [write |-> "add_edge", update |-> "remove_edge", delete |-> "update_edge"])[tag]

\* The method of GRAPH that a change of a row leads to, and its arguments.
Method(table, tag) ==
  (IF table = "node" THEN [write |-> "add_node", update |-> "update_node", delete |-> "remove_node"]
   ELSE [write |-> "add_edge", update |-> "update_edge", delete |-> "remove_edge"])[tag]

RequestFor(table, tag, name) ==
  [op |-> Method(table, tag), data |-> NoData,
   vid |-> IF table = "node" THEN name ELSE name[1],
   to  |-> IF table = "node" THEN name ELSE name[2]]

Refused == {"NodeExists", "NodeNotFound", "EdgeExists", "EdgeNotFound", "panic"}

\* The unwrap of a refusal.
MainPanics ==
  /\ pc[Main] = "idle" /\ reply[Main].outcome \in Refused /\ phase # "dead"
  /\ phase' = "dead"
  /\ UNCHANGED <<vars, db, statements, todo, past, feed>>

Load ==
  /\ phase \in {"addNodes", "addEdges"}
  /\ reply[Main].outcome \notin Refused
  /\ \E row \in todo :
       /\ Call(Main) /\ arg'[Main] = RequestFor(row.table, "write", row.name)
       /\ todo' = todo \ {row}
  /\ UNCHANGED <<db, statements, phase, past, feed>>

Loaded ==
  /\ phase \in {"addNodes", "addEdges"} /\ todo = {}
  /\ pc[Main] = "idle" /\ reply[Main].outcome \notin Refused
  /\ phase' = NextPhase[phase]
  /\ UNCHANGED <<vars, db, statements, todo, past, feed>>

\* binlog is spawned and calls run; main goes on to serve requests.
StartWatch ==
  /\ phase = "watch"
  /\ phase' = NextPhase[phase]
  /\ Feed!Run
  /\ UNCHANGED <<vars, db, statements, todo, past>>

\* The stream is opened, or run fails and the unwrap ends the watcher's task.
Watching ==
  /\ mode = "asking"
  /\ Feed!Open \/ Feed!Stop
  /\ past' = past \cup IF pending' # pending THEN {"gap"} ELSE {}
  /\ UNCHANGED <<vars, db, statements, phase, todo>>
-----------------------------------------------------------------------------
\* tidy_func and tidy_func_edge: the row after an update, the first of a write
\* or a delete.
Decoded(change) == IF change.tag = "update" THEN change.data[2] ELSE change.data[1]

Removal(op) == op \in {"remove_node", "remove_edge"}

\* A call that depends on one that runs: they share a vid, or one moves indices.
DependsOn(r, s) == {r.vid, r.to} \cap {s.vid, s.to} # {} \/ Removal(r.op) \/ Removal(s.op)

\* node and edge: a task is spawned for the change, nobody waits for it.
Spawn(t, change) ==
  LET request == RequestFor(change.item, change.tag, Decoded(change))
  IN  /\ Call(t) /\ arg'[t] = request
      /\ past' = past \cup
           IF \E u \in Workers : pc[u] # "idle" /\ DependsOn(request, arg[u])
           THEN {"race"} ELSE {}

\* Mutant of HandOver: the watcher unwraps the refusals itself.
HandOverUnwrapping ==
  /\ \A u \in Workers : reply[u].outcome \notin Refused
  /\ Feed!HandOver(1)
  /\ \E t \in Workers : Spawn(t, Head(pending))
  /\ UNCHANGED <<db, statements, phase, todo>>

HandOver ==
  /\ Feed!HandOver(1)
  /\ \E t \in Workers : Spawn(t, Head(pending))
  /\ UNCHANGED <<db, statements, phase, todo>>

Work(t) == phase # "dead" /\ Step(t) /\ UNCHANGED app

MainStep == Select \/ MainPanics \/ Load \/ Loaded \/ StartWatch

MirrorNext == Statement \/ MainStep \/ Watching \/ HandOver \/ \E t \in Task : Work(t)

MirrorSpec == MirrorInit /\ [][MirrorNext]_<<vars, app>>

(***************************************************************************)
(* tokio runs main, the watcher and the spawned tasks; statements come as  *)
(* they like.                                                              *)
(***************************************************************************)
FairMirrorSpec ==
  /\ MirrorSpec
  /\ WF_<<vars, app>>(MainStep) /\ WF_<<vars, app>>(Watching) /\ WF_<<vars, app>>(HandOver)
  /\ \A t \in Task : WF_<<vars, app>>(Work(t))
=============================================================================
