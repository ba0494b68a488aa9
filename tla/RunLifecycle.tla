----------------------------- MODULE RunLifecycle -----------------------------
(***************************************************************************)
(* What `caw run` and `caw resume` promise, without a scheduler, a session *)
(* or a crash: a Run has a status and a ledger that says of each Node      *)
(* where it stands.  Completed work stays; work is completed only on top   *)
(* of settled needs; a human decides on gates that wait; and each outcome  *)
(* is a statement about the ledger.  Run implements this (RunProperties).  *)
(***************************************************************************)
CONSTANTS Nodes, Needs

VARIABLES
  status,  \* "absent", "running", an outcome, or "parked"
  ledger   \* ledger[n]: where Node n stands

Standings == {"open", "waiting", "completed", "withheld", "failed", "declined"}

Resting == {"parked", "failed", "errored"}

Having(S) == {n \in Nodes : ledger[n] \in S}

Init ==
  /\ status = "absent"
  /\ ledger = [n \in Nodes |-> "open"]

Begin ==
  /\ status = "absent"
  /\ status' = "running"
  /\ UNCHANGED ledger

(* A Node may complete once each of its needs completed or was withheld,    *)
(* and one of them, if it has any, completed.                               *)
Earned(n) ==
  /\ Needs[n] \subseteq Having({"completed", "withheld"})
  /\ Needs[n] # {} => Needs[n] \cap Having({"completed"}) # {}

Work(n) ==
  /\ status = "running" /\ ledger[n] # "completed"
  /\ \E standing \in Standings \ {"declined"} :
       /\ standing = "completed" => Earned(n)
       /\ ledger' = [ledger EXCEPT ![n] = standing]
  /\ UNCHANGED status

(* A Run left "running" by a process that died is decided on and resumed    *)
(* like one at rest.                                                        *)
Decide(n) ==
  /\ status \in Resting \cup {"running"} /\ ledger[n] = "waiting"
  /\ \E standing \in {"completed", "declined"} : ledger' = [ledger EXCEPT ![n] = standing]
  /\ UNCHANGED status

Resume ==
  /\ status \in Resting
  /\ status' = "running"
  /\ UNCHANGED ledger

Reject ==
  /\ status \in Resting \cup {"running"} /\ Having({"declined"}) # {}
  /\ status' = "rejected"
  /\ UNCHANGED ledger

Conclude ==
  /\ status = "running"
  /\ \/ status' = "succeeded" /\ Having({"completed", "withheld"}) = Nodes
     \/ /\ status' = "failed"
        /\ Having({"completed", "withheld", "failed"}) = Nodes /\ Having({"failed"}) # {}
     \/ status' = "parked" /\ Having({"waiting"}) # {}
     \/ status' = "errored"
  /\ UNCHANGED ledger

Next ==
  \/ Begin \/ Resume \/ Reject \/ Conclude
  \/ \E n \in Nodes : Work(n) \/ Decide(n)

Spec == Init /\ [][Next]_<<status, ledger>>
=============================================================================
