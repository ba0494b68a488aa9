----------------------------- MODULE StateStore ------------------------------
(***************************************************************************)
(* The State Store (src/caw/state.py) of one run directory: the `run` row, *)
(* the `node` table and the `attempt` table of state.sqlite.  Every method *)
(* of StateStore is one statement and one commit, so every operator here   *)
(* is one durable write: a process that dies between two of them leaves    *)
(* the first one on disk.                                                  *)
(*                                                                         *)
(* An INSERT is enabled only where it does not breach a primary key; the   *)
(* caller that can breach one has an action of its own for the            *)
(* IntegrityError.  Timestamps, checksums, error texts and the outputs     *)
(* themselves are left out, except the one bit of an output that a `when`  *)
(* leaf reads.                                                             *)
(***************************************************************************)
EXTENDS WorkflowGraph

VARIABLES
  runStatus,  \* status of the run row, "absent" before the row is inserted
  rows,       \* rows[n]: status of n's node row, "absent" while it has none
  causes,     \* causes[n]: the cause column of n's node row
  attempts    \* the attempt table, a set of records

storeVars == <<runStatus, rows, causes, attempts>>

FailureKinds == {"failed", "timed_out", "errored"}
AttemptStatus == {"succeeded"} \cup FailureKinds
NodeStatus == AttemptStatus \cup {"running", "skipped", "awaiting", "rejected"}
RunStatus == {"running", "succeeded", "failed", "errored", "parked", "rejected"}
Causes == {"blocked", "when_false", "all_branches_skipped"}

(* The Attempt numbers recorded for n, and the highest of them.             *)
Numbers(n) == {a.attempt : a \in {b \in attempts : b.node = n}}
MaxAttempt(n) ==
  IF Numbers(n) = {} THEN 0 ELSE CHOOSE k \in Numbers(n) : \A j \in Numbers(n) : j <= k

(* node_output: whether n has a recorded output, and the bit of its latest. *)
HasOutput(n) == Numbers(n) # {}
LatestOut(n) == \E a \in attempts : a.node = n /\ a.attempt = MaxAttempt(n) /\ a.out

WithStatus(S) == {n \in Nodes : rows[n] \in S}

RecordRunStarted ==
  /\ runStatus = "absent"
  /\ runStatus' = "running"
  /\ UNCHANGED <<rows, causes, attempts>>

(* record_run_finished, record_run_running, record_run_errored and          *)
(* record_run_parked differ in the status they set and in columns that are  *)
(* not modelled (finished_at, error).                                       *)
RecordRunStatus(status) ==
  /\ runStatus' = status
  /\ UNCHANGED <<rows, causes, attempts>>

RecordNodeStarted(n) ==
  /\ rows[n] = "absent"
  /\ rows' = [rows EXCEPT ![n] = "running"]
  /\ UNCHANGED <<runStatus, causes, attempts>>

(* An UPDATE of the status alone: the cause column keeps what it held.      *)
RecordNodeRunning(n) ==
  /\ rows' = [rows EXCEPT ![n] = "running"]
  /\ UNCHANGED <<runStatus, causes, attempts>>

(* An UPDATE, which matches nothing when the Node has no row.               *)
RecordNodeFinished(n, status, cause) ==
  /\ rows' = [rows EXCEPT ![n] = IF @ = "absent" THEN @ ELSE status]
  /\ causes' = [causes EXCEPT ![n] = IF rows[n] = "absent" THEN @ ELSE cause]
  /\ UNCHANGED <<runStatus, attempts>>

RecordNodeSkipped(n, cause) ==
  /\ rows[n] = "absent"
  /\ rows' = [rows EXCEPT ![n] = "skipped"]
  /\ causes' = [causes EXCEPT ![n] = cause]
  /\ UNCHANGED <<runStatus, attempts>>

(* An UPSERT whose conflict branch sets the status alone.                   *)
RecordNodeAwaiting(n) ==
  /\ rows' = [rows EXCEPT ![n] = "awaiting"]
  /\ UNCHANGED <<runStatus, causes, attempts>>

RecordAttempt(n, number, result) ==
  /\ number \notin Numbers(n)
  /\ attempts' = attempts \cup
       {[node |-> n, attempt |-> number, status |-> result.status, out |-> result.out]}
  /\ UNCHANGED <<runStatus, rows, causes>>
=============================================================================
