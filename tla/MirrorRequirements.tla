------------------------- MODULE MirrorRequirements --------------------------
(***************************************************************************)
(* What is required of the application of examples/graph.rs.               *)
(***************************************************************************)
EXTENDS Mirror

\* Types; TypeOK is about the graph and its tasks.
MirrorTypeOK ==
  /\ TypeOK
  /\ db["node"] \subseteq Vid /\ db["edge"] \subseteq Link
  /\ statements \in 0 .. MaxStatement
  /\ phase \in Phase /\ past \subseteq Past
  /\ todo \subseteq [table : {"node"}, name : Vid] \cup [table : {"edge"}, name : Link]
  /\ mode \in {"off", "asking", "open"}
  /\ \A i \in DOMAIN pending : pending[i].item \in Table /\ pending[i].tag \in Tag

\* What the watcher and the tasks have yet to do to the rows of a table.
Owed(table, tag) ==
  {Decoded(pending[i]) : i \in {j \in DOMAIN pending :
                                   pending[j].item = table /\ pending[j].tag = tag}}
    \cup {IF table = "node" THEN arg[t].vid ELSE <<arg[t].vid, arg[t].to>> :
            t \in {u \in Workers : arg[u].op = Method(table, tag)}}

Between(links) == {l \in links : {l[1], l[2]} \subseteq db["node"]}

(***************************************************************************)
(* While the application serves, the graph and what the watcher and the    *)
(* tasks have yet to do to it make up the rows of the database, and every  *)
(* edge joins the nodes it names: if both tables were read, no row fell    *)
(* between reading and watching, each statement changed one row and no     *)
(* name, no task was spawned while one ran that it depends on, and nothing *)
(* followed a removal.  Calls that do not depend on each other may overlap *)
(* (examples/graph.rs:28-31, 75, 103, 174).                                *)
(***************************************************************************)
Mirrored ==
  mode = "open" /\ past \subseteq {"dangling", "removal"} =>
    /\ (LiveVids \cup Owed("node", "write")) \ Owed("node", "delete") = db["node"]
    /\ Between(({Joined(e) : e \in DOMAIN graph.edges} \cup Owed("edge", "write"))
                 \ Owed("edge", "delete"))
         = Between(db["edge"])

(***************************************************************************)
(* Loading fails only on rows that contradict each other: an edge whose    *)
(* end point was deleted, or inserted after the nodes were selected, or    *)
(* not read (examples/graph.rs:311-341).                                   *)
(***************************************************************************)
LoadsConsistentTables == phase = "dead" => past \cap {"unread", "gap", "dangling"} # {}

(***************************************************************************)
(* Every change is handed over in the end and every task ends, whatever is *)
(* refused: a refusal ends the task only (examples/graph.rs:112, 191).     *)
(* Unless loading ended the process, or the watcher did not start.         *)
(***************************************************************************)
Quiet == pending = <<>> /\ \A t \in Task : pc[t] = "idle"

CatchesUp ==
  <>[](phase = "dead" \/ (phase = "serving" /\ (mode = "off" \/ (mode = "open" /\ Quiet))))
=============================================================================
