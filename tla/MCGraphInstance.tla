-------------------------- MODULE MCGraphInstance --------------------------
(***************************************************************************)
(* Small instances of GraphInstance for TLC: the values of its constants.  *)
(***************************************************************************)
EXTENDS GraphRequirements, TLC

\* Two or three vids; the pairs the edge calls name.
MCVids2 == {<<"a">>, <<"b">>}
MCVids3 == MCVids2 \cup {<<"c">>}

MCOneLink  == {<<<<"a">>, <<"b">>>>}
MCBothWays == {<<<<"a">>, <<"b">>>>, <<<<"b">>, <<"a">>>>}
MCPath     == {<<<<"a">>, <<"b">>>>, <<<<"b">>, <<"c">>>>}

\* Two pairs of vids with the same key: "a" "_" "a_a" and "a_a" "_" "a".
MCVidsWithSegment == {<<"a">>, <<"a", "_", "a">>}
MCSameKey ==
  {<<<<"a">>, <<"a", "_", "a">>>>, <<<<"a", "_", "a">>, <<"a">>>>}

\* The data maps: only the empty one, or two to tell merging from replacing.
MCNoPayload == {<<>>}
MCPayload   == {<<>>, "k" :> "x"}

MCTasks == Permutations(Task)

\* The methods the callers of an instance use.
MCAll     == NodeOps \cup EdgeOps
MCGrow    == MCAll \ {"remove_node", "remove_edge"}
MCLinks   == {"add_node", "add_edge", "update_edge", "remove_edge"}
MCReshape == {"add_node", "remove_node", "add_edge", "remove_edge"}
MCNested  == {"add_node", "add_edge"}
MCFind    == {"add_node", "remove_node", "find_node"}
=============================================================================
