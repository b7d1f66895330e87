------------------------ MODULE MCWatchMysqlBinlog -------------------------
(***************************************************************************)
(* Instances of WatchMysqlBinlog for TLC.                                  *)
(***************************************************************************)
EXTENDS WatchRequirements

CONSTANTS d, e, nodes, edges

MCNode   == <<d, nodes>>
MCEdge   == <<e, edges>>
MCMixed  == <<d, edges>>  \* passes the filter, belongs to no item
MCTables == {MCNode, MCEdge, MCMixed}
MCTwo    == {MCNode, MCEdge}
=============================================================================
