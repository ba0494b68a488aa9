----------------------------- MODULE MCScheduler -----------------------------
(* SchedulerProperties over the Workflows of MCGraphs.                      *)
EXTENDS SchedulerProperties, MCGraphs
=============================================================================
