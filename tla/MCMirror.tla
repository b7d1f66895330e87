------------------------------ MODULE MCMirror ------------------------------
(***************************************************************************)
(* A small instance of Mirror for TLC.                                     *)
(***************************************************************************)
EXTENDS MirrorRequirements, TLC

MCVids == {<<"a">>, <<"b">>, <<"c">>}
MCLink == {<<<<"a">>, <<"b">>>>, <<<<"b">>, <<"c">>>>}
MCPayload == {<<>>}
MCOps == NodeOps \cup EdgeOps
=============================================================================
