------------------------- MODULE SchedulerProperties -------------------------
(***************************************************************************)
(* What one session of the scheduler promises.  The properties are about   *)
(* the session of a fresh Run (SessionSpec); Run states those that must    *)
(* survive crashes, resumes and human decisions.                           *)
(***************************************************************************)
EXTENDS Scheduler, Integers

StoreTypeOK ==
  /\ runStatus \in RunStatus \cup {"absent"}
  /\ rows \in [Nodes -> NodeStatus \cup {"absent"}]
  /\ causes \in [Nodes -> Causes \cup {"none"}]
  /\ attempts \subseteq [node : Nodes, attempt : Nat, status : AttemptStatus, out : BOOLEAN]

TraceTypeOK ==
  /\ traced \in [Nodes -> NodeEvents \cup RunEvents \cup {"none"}]
  /\ runTraced \in RunEvents \cup {"none"}
  /\ owed \in Events

FateTypeOK ==
  /\ indegree \in [Nodes -> Int]
  /\ task \in [Nodes -> TaskStates]
  /\ results \in [Nodes -> NodeResults \cup {NoResult}]
  /\ skipped \in SUBSET Nodes
  /\ blocker \in [Nodes -> Nodes \cup {NoNode}]
  /\ awaiting \in SUBSET Nodes
  /\ nextAttempt \in [Nodes -> Nat]
  /\ started \in SUBSET Nodes

LoopTypeOK ==
  /\ awaitingSeed \in SUBSET Nodes
  /\ satisfied \in SUBSET Nodes
  /\ batch \in SUBSET Nodes
  /\ crash \in BOOLEAN
  /\ current \in Nodes \cup {NoNode}
  /\ queue \in Seq(Nodes \X Nodes)
  /\ origin \in Nodes \cup {NoNode}

(* Every variable of State, trace and scheduler has the type its code gives *)
(* it.                                                                      *)
SessionTypeOK == StoreTypeOK /\ TraceTypeOK /\ FateTypeOK /\ LoopTypeOK /\ phase \in Phases

-----------------------------------------------------------------------------
(* Fates.  A Node has taken part in a session once it was launched, has a   *)
(* result, or was parked as a gate.                                         *)

Failed == Resulted \ Succeeded
Executed == Succeeded \cup satisfied
TakenUp == InFlight \cup Resulted \cup awaiting

(* The Workflow's `concurrency` is a hard limit on the Attempts in flight   *)
(* (_launch_ready), however batches, retries and skips interleave.          *)
SlotBound == Cardinality(InFlight) <= Concurrency

(* A Node is taken up only when none of its needs is pending or has failed, *)
(* when all of them executed under `join: all`, and when at least one of    *)
(* them executed under `join: any` (Node.join, _ready_nodes, the skip walk).*)
TakenUpWhenReady ==
  \A n \in TakenUp :
    /\ Needs[n] \subseteq Settled
    /\ n \notin JoinAny => Needs[n] \subseteq Executed
    /\ Needs[n] # {} => Needs[n] \cap Executed # {}

(* The phases of run() before any raise.                                    *)
Looping == phase \in {"launch", "wait", "handle", "settle", "walk", "finish"}

(* _indegree counts exactly the unsettled needs: however success and both   *)
(* skip walks share the decrements, none is lost or done twice.  (The drain *)
(* after a raise records results without counting any more.)                *)
IndegreeExact == Looping => \A n \in Nodes : indegree[n] = Cardinality(Needs[n] \ Settled)

(* A Node never has two fates at once: neither walk skips a Node that is in *)
(* flight, parked, finished or satisfied, and none of those runs again.     *)
OneFate ==
  /\ InFlight \cap (Resulted \cup skipped \cup awaiting \cup satisfied) = {}
  /\ Resulted \cap (skipped \cup awaiting \cup satisfied) = {}
  /\ skipped \cap (awaiting \cup satisfied) = {}
  /\ awaiting \cap satisfied = {}

(* Every skip has the reason State records for it: a `blocked` Node names   *)
(* an ancestor that failed, or the skipped need that orphaned it under      *)
(* `join: all`; all_branches_skipped is a tolerant join with no branch      *)
(* left; when_false is a closed `when` over settled needs.                  *)
Justified(n) ==
  CASE causes[n] = "blocked" ->
         \/ blocker[n] \in Failed \cap Ancestors(n)
         \/ n \notin JoinAny /\ blocker[n] \in skipped \cap Needs[n]
    [] causes[n] = "all_branches_skipped" ->
         n \in JoinAny /\ Needs[n] # {} /\ Needs[n] \subseteq skipped /\ blocker[n] = NoNode
    [] causes[n] = "when_false" ->
         Needs[n] \subseteq Settled /\ ~WhenHolds(n) /\ blocker[n] = NoNode
    [] OTHER -> FALSE

SkipsJustified == \A n \in skipped : Justified(n)

(* Outside a walk the skips are closed: a failed need skips its dependents  *)
(* whatever their join, a skipped need skips those with `join: all`, and a  *)
(* `join: any` Node is skipped when all its needs are.                      *)
Orphaned(n) ==
  \/ Needs[n] \cap Failed # {}
  \/ n \notin JoinAny /\ Needs[n] \cap skipped # {}
  \/ Needs[n] # {} /\ Needs[n] \subseteq skipped

SkipsComplete ==
  Looping /\ phase # "walk" => \A n \in Nodes : Orphaned(n) => n \in skipped

-----------------------------------------------------------------------------
(* The inductive invariant behind the five properties above: what the       *)
(* batch, the walk's queue and the node rows satisfy between the points     *)
(* where those properties speak.                                            *)

(* The batch holds finished Attempts, and the Node being settled is one     *)
(* that ended with a result and is no longer in the batch.                  *)
HandlingBatch == phase \in {"handle", "settle"} \/ (phase = "walk" /\ origin # NoNode)

HandlingSound ==
  /\ IF phase \in {"settle", "drained"} THEN current \in Nodes /\ task[current] \in NodeResults
                                        ELSE current = NoNode
  /\ HandlingBatch => batch \subseteq Finished \ {current}

(* A walk never has to step back from a Node that was taken up; one from a  *)
(* skip meets no failure; and every orphaned Node is skipped or on its way. *)
Entries(q) == {q[i][1] : i \in 1..Len(q)}
Queued == Entries(queue)

WalkSound ==
  /\ phase = "walk" => Queued \cap TakenUp = {}
  /\ phase = "walk" /\ origin = NoNode => \A n \in Nodes \ skipped : Needs[n] \cap Failed = {}
  /\ Looping => \A n \in Nodes : Orphaned(n) => n \in skipped \/ (phase = "walk" /\ n \in Queued)

(* A fresh session knows of every node row there is.                        *)
FreshRows ==
  /\ satisfied = {}
  /\ \A n \in Nodes : rows[n] # "absent" => n \in started \cup awaiting

SessionInv ==
  /\ SessionTypeOK
  /\ HandlingSound
  /\ FreshRows
  /\ OneFate
  /\ TakenUpWhenReady
  /\ IndegreeExact
  /\ WalkSound

-----------------------------------------------------------------------------
(* The outcome of the Run.                                                  *)

Over == At("idle")

(* The scheduler never reports an outcome over a Node it forgot: a Run that *)
(* finished has a terminal row for every Node, and in a parked Run every    *)
(* other Node waits behind a gate that is awaiting.                         *)
NoNodeForgotten ==
  Over =>
    /\ runStatus \in {"succeeded", "failed"} =>
         WithStatus(AttemptStatus \cup {"skipped"}) = Nodes
    /\ runStatus = "parked" =>
         \A n \in Nodes \ WithStatus(AttemptStatus \cup {"skipped"}) :
           ({n} \cup Ancestors(n)) \cap WithStatus({"awaiting"}) # {}

(* The Run's status tells how its Nodes ended (RunResult.status): succeeded *)
(* means no Node failed, failed means one did, parked means a gate awaits,  *)
(* and errored is the only other way for a session to end.                  *)
StatusTruthful ==
  Over =>
    /\ runStatus \in {"succeeded", "failed", "parked", "errored"}
    /\ runStatus = "succeeded" => WithStatus(FailureKinds) = {}
    /\ runStatus = "failed" => WithStatus(FailureKinds) # {}
    /\ runStatus = "parked" <=> WithStatus({"awaiting"}) # {} /\ runStatus # "errored"

(* The retry loop: Attempts are numbered 1, 2, ... without gaps, never more *)
(* than retries + 1; only a retryable failure is followed by another        *)
(* Attempt; and unless the session crashed, a Node ends in a retryable      *)
(* failure only when its budget is used up.                                 *)
RetryBudget ==
  /\ \A n \in Nodes :
       /\ Numbers(n) = 1..MaxAttempt(n)
       /\ MaxAttempt(n) <= Retries[n] + 1
  /\ \A a \in attempts : a.attempt < MaxAttempt(a.node) => Retryable(a)
  /\ Over /\ runStatus # "errored" =>
       \A n \in WithStatus({"failed", "timed_out"}) : MaxAttempt(n) = Retries[n] + 1

(* When a session is over, the last Event naming a Node tells the same      *)
(* story as its row.  A row left `running` is a Node that was waiting for   *)
(* its next Attempt when the session crashed.                               *)
ToldBy(status) ==
  CASE status = "absent" -> {"none"}
    [] status \in {"succeeded", "failed", "timed_out"} -> {"node_finished"}
    [] status = "errored" -> {"node_finished", "run_errored"}
    [] status = "skipped" -> {"node_skipped"}
    [] status = "awaiting" -> {"gate_awaiting"}
    [] status = "running" -> {"node_retrying"}
    [] OTHER -> {}

TraceAgrees ==
  Over =>
    /\ \A n \in Nodes : traced[n] \in ToldBy(rows[n])
    /\ runStatus \in {"succeeded", "failed"} <=> runTraced = "run_finished"
    /\ runStatus = "errored" <=> runTraced = "run_errored"

(* A session ends: no interleaving of retries, skips, full slots and parked *)
(* gates makes the readiness loop wait for something that cannot come.      *)
SessionEnds == <>(phase = "idle")

-----------------------------------------------------------------------------
(* What the docs say of the scheduler and the code does not always do.      *)

(* _finalize_crashed_run: "Every Node still in flight when the Run crashed  *)
(* is marked ``errored`` so no Node is left recorded as ``running``."       *)
NoRowLeftRunning == Over => WithStatus({"running"}) = {}

(* _record_skip: "re-skipping never breaches the ``(run_id, node_id)`` PK". *)
(* True of the session of a fresh Run, not of every resumed one.            *)
SkipNeverBreaches == phase = "walk" => \A n \in Nodes : Reaches(n) => n \in started \/ rows[n] = "absent"
=============================================================================
