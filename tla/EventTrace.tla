----------------------------- MODULE EventTrace ------------------------------
(***************************************************************************)
(* The Event trace (src/caw/events.py) as the executor writes it.  The     *)
(* append-only file is abstracted to the last Event that names each Node   *)
(* and the last run-level Event: enough to ask whether the trace and State *)
(* tell the same story.                                                    *)
(*                                                                         *)
(* The executor always commits to State first and appends the Event after  *)
(* it.  `owed` is the Event a handler has not appended yet: Owe registers  *)
(* it together with the commit, Append is the write, and every further     *)
(* step of the executor waits for it.  A process that dies in between      *)
(* leaves the commit without its Event.                                    *)
(***************************************************************************)
EXTENDS WorkflowGraph

VARIABLES
  traced,     \* traced[n]: type of the last Event naming n, "none" if none
  runTraced,  \* type of the last run-level Event
  owed        \* the Event still to be appended, NoEvent when there is none

traceVars == <<traced, runTraced, owed>>

NodeEvents == {"node_started", "node_finished", "node_retrying", "node_skipped",
               "gate_awaiting", "gate_approved", "gate_rejected"}
RunEvents == {"run_started", "run_resumed", "run_finished", "run_errored"}

(* run_errored is the run-level Event that also names Nodes: those in       *)
(* flight when the Run crashed.                                             *)
Events == [type : NodeEvents \cup RunEvents \cup {"none"}, nodes : SUBSET Nodes]
NoEvent == [type |-> "none", nodes |-> {}]

Owe(type, nodes) ==
  /\ owed' = [type |-> type, nodes |-> nodes]
  /\ UNCHANGED <<traced, runTraced>>

OweNothing == UNCHANGED traceVars

AppendEvent ==
  /\ owed # NoEvent
  /\ traced' = [n \in Nodes |-> IF n \in owed.nodes THEN owed.type ELSE traced[n]]
  /\ runTraced' = IF owed.type \in RunEvents THEN owed.type ELSE runTraced
  /\ owed' = NoEvent
=============================================================================
