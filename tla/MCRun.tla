-------------------------------- MODULE MCRun --------------------------------
(* RunProperties over the Workflows of MCGraphs.                            *)
EXTENDS RunProperties, MCGraphs
=============================================================================
