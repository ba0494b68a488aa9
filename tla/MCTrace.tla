------------------------------- MODULE MCTrace -------------------------------
(* EventLog with more kills than it takes to tear a line that is torn       *)
(* already, twice over.                                                     *)
EXTENDS EventLog
=============================================================================
