----------------------------- MODULE GraphStore -----------------------------
(***************************************************************************)
(* What the methods of GraphInstance promise to their callers, from their  *)
(* signatures, error values and tests (src/controller/graph.rs:21-32,      *)
(* 282-341): a map of nodes by vid and a map of edges by pair of vids.     *)
(* Each call takes effect at one instant between invocation and return,    *)
(* or is cancelled by its caller and has no effect.                        *)
(***************************************************************************)
EXTENDS Naturals, Sequences

CONSTANTS
  Task,     \* the callers
  Request,  \* the calls they make: [op, vid, to, data]
  NoCall    \* the request of a task that makes no call

VARIABLES
  nodes,    \* vid |-> data of the node
  edges,    \* <<from, to>> |-> data of the edge
  request,  \* the call each task has under way
  response  \* what its last call returned

vars == <<nodes, edges, request, response>>

Reply(outcome) == [outcome |-> outcome, found |-> {}]

With(map, new) ==
  [k \in DOMAIN map \cup DOMAIN new |-> IF k \in DOMAIN new THEN new[k] ELSE map[k]]

Without(map, K) == [k \in DOMAIN map \ K |-> map[k]]

Init ==
  /\ nodes = <<>>
  /\ edges = <<>>
  /\ request = [t \in Task |-> NoCall]
  /\ response = [t \in Task |-> Reply("None")]

Invoke(t) ==
  /\ request[t] = NoCall
  /\ \E r \in Request : request' = [request EXCEPT ![t] = r]
  /\ response' = [response EXCEPT ![t] = Reply("pending")]
  /\ UNCHANGED <<nodes, edges>>

\* The call of t, a call of the method op, takes effect and returns.
Serve(t, op, value) ==
  /\ request[t] # NoCall
  /\ request[t].op = op
  /\ request' = [request EXCEPT ![t] = NoCall]
  /\ response' = [response EXCEPT ![t] = value]

AddNode(t) ==
  LET r == request[t]
  IN  \/ /\ r.vid \in DOMAIN nodes
         /\ Serve(t, "add_node", Reply("NodeExists"))
         /\ UNCHANGED <<nodes, edges>>
      \/ /\ r.vid \notin DOMAIN nodes
         /\ Serve(t, "add_node", Reply("Ok"))
         /\ nodes' = With(nodes, [v \in {r.vid} |-> r.data])
         /\ UNCHANGED edges

FindNode(t) ==
  LET r == request[t]
  IN  /\ \/ /\ r.vid \in DOMAIN nodes
            /\ Serve(t, "find_node",
                 [outcome |-> "Some", found |-> {[vid |-> r.vid, data |-> nodes[r.vid]]}])
         \/ /\ r.vid \notin DOMAIN nodes
            /\ Serve(t, "find_node", Reply("None"))
      /\ UNCHANGED <<nodes, edges>>

\* A node goes with its edges.
RemoveNode(t) ==
  LET r == request[t]
  IN  \/ /\ r.vid \in DOMAIN nodes
         /\ Serve(t, "remove_node", Reply("true"))
         /\ nodes' = Without(nodes, {r.vid})
         /\ edges' = Without(edges, {e \in DOMAIN edges : r.vid \in {e[1], e[2]}})
      \/ /\ r.vid \notin DOMAIN nodes
         /\ Serve(t, "remove_node", Reply("false"))
         /\ UNCHANGED <<nodes, edges>>

UpdateNode(t) ==
  LET r == request[t]
  IN  /\ \/ /\ r.vid \in DOMAIN nodes
            /\ Serve(t, "update_node", Reply("true"))
            /\ nodes' = [nodes EXCEPT ![r.vid] = r.data]
         \/ /\ r.vid \notin DOMAIN nodes
            /\ Serve(t, "update_node", Reply("false"))
            /\ UNCHANGED nodes
      /\ UNCHANGED edges

AddEdge(t) ==
  LET r    == request[t]
      link == <<r.vid, r.to>>
  IN  /\ \/ /\ link \in DOMAIN edges
            /\ Serve(t, "add_edge", Reply("EdgeExists"))
            /\ UNCHANGED edges
         \/ /\ ~({r.vid, r.to} \subseteq DOMAIN nodes)
            /\ Serve(t, "add_edge", Reply("NodeNotFound"))
            /\ UNCHANGED edges
         \/ /\ link \notin DOMAIN edges
            /\ {r.vid, r.to} \subseteq DOMAIN nodes
            /\ Serve(t, "add_edge", Reply("Ok"))
            /\ edges' = With(edges, [l \in {link} |-> r.data])
      /\ UNCHANGED nodes

UpdateEdge(t) ==
  LET r    == request[t]
      link == <<r.vid, r.to>>
  IN  /\ \/ /\ link \in DOMAIN edges
            /\ Serve(t, "update_edge", Reply("Ok"))
            /\ edges' = [edges EXCEPT ![link] = With(@, r.data)]
         \/ /\ link \notin DOMAIN edges
            /\ Serve(t, "update_edge", Reply("EdgeNotFound"))
            /\ UNCHANGED edges
      /\ UNCHANGED nodes

RemoveEdge(t) ==
  LET r    == request[t]
      link == <<r.vid, r.to>>
  IN  /\ \/ /\ link \in DOMAIN edges
            /\ Serve(t, "remove_edge", Reply("true"))
            /\ edges' = Without(edges, {link})
         \/ /\ link \notin DOMAIN edges
            /\ Serve(t, "remove_edge", Reply("false"))
            /\ UNCHANGED edges
      /\ UNCHANGED nodes

Cancel(t) ==
  /\ request[t] # NoCall
  /\ request' = [request EXCEPT ![t] = NoCall]
  /\ response' = [response EXCEPT ![t] = Reply("cancelled")]
  /\ UNCHANGED <<nodes, edges>>

Next ==
  \E t \in Task :
    \/ Invoke(t) \/ Cancel(t)
    \/ AddNode(t) \/ FindNode(t) \/ RemoveNode(t) \/ UpdateNode(t)
    \/ AddEdge(t) \/ UpdateEdge(t) \/ RemoveEdge(t)

Spec == Init /\ [][Next]_vars
=============================================================================
