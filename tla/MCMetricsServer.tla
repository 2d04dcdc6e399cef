--------------------------- MODULE MCMetricsServer ---------------------------
(***************************************************************************)
(* An instance of MetricsServer for TLC, over the logs of MCLogIndexer.    *)
(***************************************************************************)
EXTENDS MCLogIndexer, MetricsServer
=============================================================================
