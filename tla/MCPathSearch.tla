---------------------------- MODULE MCPathSearch ----------------------------
(***************************************************************************)
(* A small instance of PathSearch for TLC: a square, all nodes loaded.     *)
(***************************************************************************)
EXTENDS SearchRequirements

MCRows == << <<"a">>, <<"b">>, <<"c">>, <<"d">> >>
MCVids == {MCRows[i] : i \in DOMAIN MCRows}

Pairs == {<<1, 2>>, <<2, 4>>, <<1, 3>>, <<4, 3>>}
MCLink == {<<MCRows[p[1]], MCRows[p[2]]>> : p \in Pairs}

MCPayload == {<<>>}
MCOps     == {"remove_node", "add_edge"}
=============================================================================
