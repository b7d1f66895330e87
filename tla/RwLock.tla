------------------------------- MODULE RwLock -------------------------------
(***************************************************************************)
(* tokio::sync::RwLock as src/controller/graph.rs uses it.  The lock is    *)
(* fair: requests are served first come, first served, a writer alone and  *)
(* consecutive readers together.  One sequence is enough to say so: a      *)
(* task's request stays in the line from the call of read() or write()     *)
(* until the guard is dropped (or the waiting future is), and it is        *)
(* granted once everything before it in the line is compatible.            *)
(***************************************************************************)
EXTENDS Naturals, Sequences

Mode == {"read", "write"}

Enter(line, t, mode) == Append(line, [task |-> t, mode |-> mode])

\* The positions of task t in the line: at most one, see GraphInstance.
Places(line, t) == {i \in DOMAIN line : line[i].task = t}

Leave(line, t) ==
  IF Places(line, t) = {} THEN line
  ELSE LET p == CHOOSE i \in Places(line, t) : TRUE
       IN  [i \in 1 .. Len(line) - 1 |-> IF i < p THEN line[i] ELSE line[i + 1]]

Granted(line, t) ==
  \E i \in Places(line, t) :
    \A j \in 1 .. i - 1 : line[i].mode = "read" /\ line[j].mode = "read"
=============================================================================
