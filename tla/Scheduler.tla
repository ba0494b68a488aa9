------------------------------ MODULE Scheduler ------------------------------
(***************************************************************************)
(* One session of _Scheduler (src/caw/executor.py): the readiness loop     *)
(* that drives a Run from its seeds to a fixpoint, and _drive_scheduler,   *)
(* which commits the outcome or finalizes the crash.                       *)
(*                                                                         *)
(* The scheduler is one coroutine.  It gives up control only at            *)
(* asyncio.wait, so Attempts finish (and an interrupt arrives) only in     *)
(* phase "wait"; every other phase is straight-line code, cut into one     *)
(* step per State commit so that a composition can stop the process        *)
(* between any two of them:                                                *)
(*                                                                         *)
(*   launch    one iteration of _launch_ready: the first ready Node is     *)
(*             started, parked or skipped                                  *)
(*   wait      asyncio.wait over the Attempts in flight                    *)
(*   handle    the batch of finished Attempts, in any order (a set)        *)
(*   settle    _handle_result after its record_attempt                     *)
(*   walk      one dequeue of _propagate_skips                             *)
(*   drain, drained   _drain_in_flight after a raise                       *)
(*   finalize  _finalize_crashed_run                                       *)
(*   finish    run() returned: commit parked or the terminal status        *)
(*   idle      no process works on the run directory                       *)
(*                                                                         *)
(* Simplifications.  A Node has at most one task, so the task map is a     *)
(* function of the Node.  An Attempt that is being handled leaves `task`   *)
(* when its outcome is settled, not when it is popped: no other code runs  *)
(* in between.  Drain and finalization visit the Nodes in any order, where *)
(* the code follows the order of launch.  `when` is a conjunction of       *)
(* leaves (WorkflowGraph).  _skipped_causes mirrors the cause column.      *)
(***************************************************************************)
EXTENDS StateStore, EventTrace

CONSTANT Outcomes   \* how an Attempt may end; "raised" is a spawn failure

ASSUME OutcomesAssumption == Outcomes \subseteq AttemptStatus \cup {"raised"}

VARIABLES
  phase,
  indegree,     \* indegree[n]: the needs of n not settled yet
  task,         \* task[n]: n's Attempt in flight, or how it finished
  results,      \* results[n]: n's terminal NodeResult of this session
  skipped,      \* the Nodes skipped in this session
  blocker,      \* blocker[n]: the Node that blocked a skipped n, or NoNode
  awaiting,     \* the gates parked in this session
  awaitingSeed, \* the gates that were awaiting when the session began
  nextAttempt,  \* nextAttempt[n]: the Attempt number n's next launch uses
  started,      \* the Nodes this session knows to have a node row
  satisfied,    \* the Nodes that had succeeded when the session began
  batch,        \* the Nodes of the batch still to be handled
  crash,        \* whether a task of the batch raised
  current,      \* the Node between record_attempt and its terminal commit
  queue,        \* the walk's deque of <<dependent, orphaning Node>>
  origin        \* the failed Node a walk started from, NoNode for a skip

fateVars == <<indegree, task, results, skipped, blocker, awaiting, nextAttempt, started>>
seedVars == <<awaitingSeed, satisfied>>
loopVars == <<batch, crash, current, queue, origin>>
vars == <<storeVars, traceVars, phase, fateVars, seedVars, loopVars>>

NoResult == [status |-> "none", out |-> FALSE]
InFlightResult == [status |-> "in_flight", out |-> FALSE]
NodeResults == [status : AttemptStatus, out : BOOLEAN]
TaskStates == NodeResults \cup {NoResult, InFlightResult} \cup [status : {"raised"}, out : BOOLEAN]

Phases == {"idle", "launch", "wait", "handle", "settle", "walk",
           "drain", "drained", "finalize", "finish"}

InFlight == {n \in Nodes : task[n] # NoResult}
Finished == {n \in InFlight : task[n] # InFlightResult}
Resulted == {n \in Nodes : results[n] # NoResult}
Succeeded == {n \in Nodes : results[n].status = "succeeded"}
Settled == Succeeded \cup satisfied \cup skipped

Retryable(result) == result.status \in {"failed", "timed_out"}

(* As if nextAttempt counted the Attempts made.                             *)
BugRetriesRemaining(n) == nextAttempt[n] <= Retries[n] + 1

RetriesRemaining(n) == nextAttempt[n] <= Retries[n]

(* A step at phase p, once the Event of the previous commit is written.     *)
At(p) == phase = p /\ owed = NoEvent
Go(p) == phase' = p

-----------------------------------------------------------------------------
(* Readiness and `when`.                                                    *)

(* As if a skipped Node could still become ready.                           *)
BugReadyIfSkipped == {n \in Nodes :
  indegree[n] = 0 /\ n \notin InFlight \cup Resulted \cup satisfied \cup awaiting}

Ready == {n \in Nodes :
  indegree[n] = 0 /\ n \notin InFlight \cup Resulted \cup skipped \cup satisfied \cup awaiting}

FirstReady(n) == n \in Ready /\ \A m \in Ready : Position[n] <= Position[m]

(* As if a full set of slots took one more.                                 *)
BugSlotFree == Cardinality(InFlight) <= Concurrency

SlotFree == Cardinality(InFlight) < Concurrency

(* _output_of and _evaluate_leaf: the result in memory, else the latest     *)
(* Attempt in State, else no output, over which a leaf is false.  (For a    *)
(* Node with no output that was not skipped _output_of raises: unreachable, *)
(* see OutputsCurrent in RunProperties.)                                    *)
LeafTrue(m) == IF m \in Resulted THEN results[m].out ELSE LatestOut(m)

WhenHolds(n) == \A leaf \in When[n] : LeafTrue(leaf.ref) = leaf.expect

(* As if one settled need were enough under every join.                     *)
BugOnSettled(n) == indegree' = [d \in Nodes |-> IF n \in Needs[d] THEN 0 ELSE indegree[d]]

(* A settled need unblocks its dependents: _on_success and _on_skip.        *)
OnSettled(n) ==
  indegree' = [d \in Nodes |-> IF n \in Needs[d] THEN indegree[d] - 1 ELSE indegree[d]]

(* The deque entries of n's dependents, each orphaned by n.                 *)
Orphans(n) == [i \in 1..Len(Dependents[n]) |-> <<Dependents[n][i], n>>]

(* _record_skip and _on_skip where no primary key is breached.              *)
RecordSkip(n, cause, by) ==
  /\ skipped' = skipped \cup {n}
  /\ blocker' = [blocker EXCEPT ![n] = by]
  /\ IF n \in started THEN RecordNodeFinished(n, "skipped", cause)
                      ELSE RecordNodeSkipped(n, cause)
  /\ started' = started \cup {n}
  /\ Owe("node_skipped", {n})
  /\ OnSettled(n)
  /\ UNCHANGED <<task, results, awaiting, nextAttempt>>

-----------------------------------------------------------------------------
(* _launch_ready.                                                           *)

MayConsider(n) == FirstReady(n) /\ (n \in Gates \/ SlotFree)

LaunchSkip(n) ==
  /\ At("launch") /\ MayConsider(n) /\ ~WhenHolds(n)
  /\ RecordSkip(n, "when_false", NoNode)
  /\ queue' = Orphans(n)
  /\ origin' = NoNode
  /\ Go("walk")
  /\ UNCHANGED <<seedVars, batch, crash, current>>

(* As if a park left no Event.                                             *)
BugParkSilent(n) ==
  /\ At("launch") /\ MayConsider(n) /\ WhenHolds(n) /\ n \in Gates
  /\ RecordNodeAwaiting(n)
  /\ awaiting' = awaiting \cup {n}
  /\ OweNothing
  /\ UNCHANGED <<phase, indegree, task, results, skipped, blocker, nextAttempt, started,
                 seedVars, loopVars>>

LaunchPark(n) ==
  /\ At("launch") /\ MayConsider(n) /\ WhenHolds(n) /\ n \in Gates
  /\ RecordNodeAwaiting(n)
  /\ awaiting' = awaiting \cup {n}
  /\ IF n \in awaitingSeed THEN OweNothing ELSE Owe("gate_awaiting", {n})
  /\ UNCHANGED <<phase, indegree, task, results, skipped, blocker, nextAttempt, started,
                 seedVars, loopVars>>

LaunchStart(n) ==
  /\ At("launch") /\ MayConsider(n) /\ WhenHolds(n) /\ n \notin Gates
  /\ IF n \in started THEN RecordNodeRunning(n) ELSE RecordNodeStarted(n)
  /\ started' = started \cup {n}
  /\ task' = [task EXCEPT ![n] = InFlightResult]
  /\ Owe("node_started", {n})
  /\ UNCHANGED <<phase, indegree, results, skipped, blocker, awaiting, nextAttempt,
                 seedVars, loopVars>>

(* As if run() polled an awaiting gate.                                     *)
BugReturnPolls ==
  /\ At("launch") /\ \A n \in Nodes : ~MayConsider(n)
  /\ Go(IF InFlight # {} THEN "wait" ELSE IF awaiting # {} THEN "launch" ELSE "finish")
  /\ UNCHANGED <<storeVars, traceVars, fateVars, seedVars, loopVars>>

LaunchReturn ==
  /\ At("launch") /\ \A n \in Nodes : ~MayConsider(n)
  /\ Go(IF InFlight = {} THEN "finish" ELSE "wait")
  /\ UNCHANGED <<storeVars, traceVars, fateVars, seedVars, loopVars>>

-----------------------------------------------------------------------------
(* The await of run(): Attempts end, the wait returns a batch, or the       *)
(* coroutine is cancelled (KeyboardInterrupt).                              *)

AttemptEnds(n) ==
  /\ At("wait") /\ task[n] = InFlightResult
  /\ \E status \in Outcomes, out \in (IF n \in Referenced THEN BOOLEAN ELSE {FALSE}) :
       task' = [task EXCEPT ![n] = [status |-> status, out |-> out]]
  /\ UNCHANGED <<storeVars, traceVars, phase, indegree, results, skipped, blocker, awaiting,
                 nextAttempt, started, seedVars, loopVars>>

WaitReturns ==
  /\ At("wait") /\ Finished # {}
  /\ batch' = Finished
  /\ crash' = FALSE
  /\ Go("handle")
  /\ UNCHANGED <<storeVars, traceVars, fateVars, seedVars, current, queue, origin>>

Interrupt ==
  /\ At("wait")
  /\ Go("drain")
  /\ UNCHANGED <<storeVars, traceVars, fateVars, seedVars, loopVars>>

-----------------------------------------------------------------------------
(* The batch loop of run() and _handle_result.                              *)

HandleRaised(n) ==
  /\ At("handle") /\ n \in batch /\ task[n].status = "raised"
  /\ crash' = TRUE
  /\ batch' = batch \ {n}
  /\ UNCHANGED <<storeVars, traceVars, phase, fateVars, seedVars, current, queue, origin>>

(* As if the Attempt were recorded nowhere but in its Event.                *)
BugHandleAttempt(n) ==
  /\ At("handle") /\ n \in batch /\ task[n].status # "raised"
  /\ Owe("node_finished", {n})
  /\ batch' = batch \ {n}
  /\ current' = n
  /\ Go("settle")
  /\ UNCHANGED <<storeVars, fateVars, seedVars, crash, queue, origin>>

(* _record_attempt, the first commit of _handle_result.                     *)
HandleAttempt(n) ==
  /\ At("handle") /\ n \in batch /\ task[n].status # "raised"
  /\ RecordAttempt(n, nextAttempt[n], task[n])
  /\ Owe("node_finished", {n})
  /\ batch' = batch \ {n}
  /\ current' = n
  /\ Go("settle")
  /\ UNCHANGED <<fateVars, seedVars, crash, queue, origin>>

(* The Node leaves the task map with its terminal result.                   *)
Conclude(n) ==
  /\ RecordNodeFinished(n, task[n].status, "none")
  /\ results' = [results EXCEPT ![n] = task[n]]
  /\ task' = [task EXCEPT ![n] = NoResult]
  /\ current' = NoNode
  /\ OweNothing
  /\ UNCHANGED <<skipped, blocker, awaiting, nextAttempt, started>>

SettleSuccess(n) ==
  /\ At("settle") /\ n = current /\ task[n].status = "succeeded"
  /\ Conclude(n)
  /\ OnSettled(n)
  /\ Go("handle")
  /\ UNCHANGED <<seedVars, batch, crash, queue, origin>>

(* A retry leaves the node row as it is: the Node waits to be launched.     *)
SettleRetry(n) ==
  /\ At("settle") /\ n = current /\ Retryable(task[n]) /\ RetriesRemaining(n)
  /\ nextAttempt' = [nextAttempt EXCEPT ![n] = @ + 1]
  /\ task' = [task EXCEPT ![n] = NoResult]
  /\ current' = NoNode
  /\ Owe("node_retrying", {n})
  /\ Go("handle")
  /\ UNCHANGED <<storeVars, indegree, results, skipped, blocker, awaiting, started,
                 seedVars, batch, crash, queue, origin>>

SettleFailure(n) ==
  /\ At("settle") /\ n = current /\ task[n].status # "succeeded"
  /\ ~(Retryable(task[n]) /\ RetriesRemaining(n))
  /\ Conclude(n)
  /\ queue' = Orphans(n)
  /\ origin' = n
  /\ Go("walk")
  /\ UNCHANGED <<indegree, seedVars, batch, crash>>

BatchDone ==
  /\ At("handle") /\ batch = {}
  /\ Go(IF crash THEN "drain" ELSE "launch")
  /\ UNCHANGED <<storeVars, traceVars, fateVars, seedVars, loopVars>>

-----------------------------------------------------------------------------
(* _propagate_skips: the one breadth-first walk.  A walk from a failure     *)
(* runs inside the batch loop, a walk from a skip inside _launch_ready.     *)

JoinAware == origin = NoNode
Target == Head(queue)[1]
Orphaner == Head(queue)[2]

(* As if skips were not terminal, a tolerant join never gave up, or         *)
(* tolerance extended to failures.                                          *)
BugTerminal(n) == n \in Resulted
BugNeverGivesUp(n) == JoinAware /\ n \in JoinAny

Terminal(n) == n \in Resulted \cup skipped
Tolerates(n) == JoinAware /\ n \in JoinAny /\ ~(Needs[n] \subseteq skipped)

WalkCause(n) == IF JoinAware /\ n \in JoinAny THEN "all_branches_skipped" ELSE "blocked"

(* As if the walk from a failure blamed the nearest Node.                   *)
BugWalkBlocker(n) == IF JoinAware /\ n \in JoinAny THEN NoNode ELSE Orphaner

WalkBlocker(n) ==
  IF ~JoinAware THEN origin ELSE IF n \in JoinAny THEN NoNode ELSE Orphaner

WalkPasses ==
  /\ At("walk") /\ queue # <<>> /\ (Terminal(Target) \/ Tolerates(Target))
  /\ queue' = Tail(queue)
  /\ UNCHANGED <<storeVars, traceVars, phase, fateVars, seedVars, batch, crash, current, origin>>

Reaches(n) == queue # <<>> /\ n = Target /\ ~Terminal(n) /\ ~Tolerates(n)

(* The INSERT of a row that is already there would breach the primary key.  *)
(* A fresh session never meets one (SkipNeverBreaches, proved); a resumed   *)
(* one does, and Run has the step (WalkBreaches).                           *)

(* As if only direct dependents were skipped.                               *)
BugWalkSkips(n) ==
  /\ At("walk") /\ Reaches(n) /\ (n \in started \/ rows[n] = "absent")
  /\ RecordSkip(n, WalkCause(n), WalkBlocker(n))
  /\ queue' = Tail(queue)
  /\ UNCHANGED <<phase, seedVars, batch, crash, current, origin>>

WalkSkips(n) ==
  /\ At("walk") /\ Reaches(n) /\ (n \in started \/ rows[n] = "absent")
  /\ RecordSkip(n, WalkCause(n), WalkBlocker(n))
  /\ queue' = Tail(queue) \o Orphans(n)
  /\ UNCHANGED <<phase, seedVars, batch, crash, current, origin>>

WalkDone ==
  /\ At("walk") /\ queue = <<>>
  /\ Go(IF JoinAware THEN "launch" ELSE "handle")
  /\ UNCHANGED <<storeVars, traceVars, fateVars, seedVars, loopVars>>

-----------------------------------------------------------------------------
(* _drain_in_flight: a peer that had finished is recorded by its real       *)
(* result, with neither retry nor skip walk; the rest are cancelled and     *)
(* stay in flight for the finalization.                                     *)

(* As if a task that raised were drained like one that returned.            *)
BugDrainable == Finished

Drainable == {n \in Finished : task[n].status # "raised"}

DrainAttempt(n) ==
  /\ At("drain") /\ n \in Drainable
  /\ RecordAttempt(n, nextAttempt[n], task[n])
  /\ Owe("node_finished", {n})
  /\ current' = n
  /\ Go("drained")
  /\ UNCHANGED <<fateVars, seedVars, batch, crash, queue, origin>>

DrainSettles(n) ==
  /\ At("drained") /\ n = current
  /\ Conclude(n)
  /\ Go("drain")
  /\ UNCHANGED <<indegree, seedVars, batch, crash, queue, origin>>

(* As if only the cancelled tasks were finalized.                           *)
BugDrainDone ==
  /\ At("drain") /\ Drainable = {}
  /\ batch' = InFlight \ Finished
  /\ Go("finalize")
  /\ UNCHANGED <<storeVars, traceVars, fateVars, seedVars, crash, current, queue, origin>>

DrainDone ==
  /\ At("drain") /\ Drainable = {}
  /\ batch' = InFlight
  /\ Go("finalize")
  /\ UNCHANGED <<storeVars, traceVars, fateVars, seedVars, crash, current, queue, origin>>

(* _finalize_crashed_run: every Node still in flight, then the Run.         *)
FinalizeNode(n) ==
  /\ At("finalize") /\ n \in batch
  /\ RecordNodeFinished(n, "errored", "none")
  /\ batch' = batch \ {n}
  /\ OweNothing
  /\ UNCHANGED <<phase, fateVars, seedVars, crash, current, queue, origin>>

FinalizeRun ==
  /\ At("finalize") /\ batch = {}
  /\ RecordRunStatus("errored")
  /\ Owe("run_errored", InFlight)
  /\ Go("idle")
  /\ UNCHANGED <<fateVars, seedVars, loopVars>>

-----------------------------------------------------------------------------
(* The end of _drive_scheduler when run() returned.                         *)

(* As if one success were enough.                                           *)
BugRunOutcome == IF Succeeded # {} THEN "succeeded" ELSE "failed"

RunOutcome == IF \A n \in Resulted : n \in Succeeded THEN "succeeded" ELSE "failed"

FinishParked ==
  /\ At("finish") /\ awaiting # {}
  /\ RecordRunStatus("parked")
  /\ OweNothing
  /\ Go("idle")
  /\ UNCHANGED <<fateVars, seedVars, loopVars>>

(* As if the terminal status were committed over awaiting gates.            *)
BugFinishRun ==
  /\ At("finish")
  /\ RecordRunStatus(RunOutcome)
  /\ Owe("run_finished", {})
  /\ Go("idle")
  /\ UNCHANGED <<fateVars, seedVars, loopVars>>

FinishRun ==
  /\ At("finish") /\ awaiting = {}
  /\ RecordRunStatus(RunOutcome)
  /\ Owe("run_finished", {})
  /\ Go("idle")
  /\ UNCHANGED <<fateVars, seedVars, loopVars>>

-----------------------------------------------------------------------------

(* The write that follows a commit.                                         *)
WriteEvent ==
  /\ AppendEvent
  /\ UNCHANGED <<storeVars, phase, fateVars, seedVars, loopVars>>

(* What the coroutine does next, outside its await.                         *)
Step ==
  \/ WriteEvent
  \/ LaunchReturn \/ WaitReturns \/ BatchDone
  \/ WalkPasses \/ WalkDone
  \/ DrainDone \/ FinalizeRun \/ FinishParked \/ FinishRun
  \/ \E n \in Nodes :
       \/ LaunchSkip(n) \/ LaunchPark(n) \/ LaunchStart(n)
       \/ HandleRaised(n) \/ HandleAttempt(n)
       \/ SettleSuccess(n) \/ SettleRetry(n) \/ SettleFailure(n)
       \/ WalkSkips(n)
       \/ DrainAttempt(n) \/ DrainSettles(n) \/ FinalizeNode(n)

Environment == Interrupt \/ \E n \in Nodes : AttemptEnds(n)

(* _Scheduler.__init__: `done` seeds the satisfied Nodes, `known` the Nodes *)
(* with a row, `number` the Attempt numbers, `parked` the awaiting gates.   *)
Seed(done, known, number, parked) ==
  /\ indegree' = [n \in Nodes |-> Cardinality(Needs[n]) - Cardinality(Needs[n] \cap done)]
  /\ task' = [n \in Nodes |-> NoResult]
  /\ results' = [n \in Nodes |-> NoResult]
  /\ skipped' = {}
  /\ blocker' = [n \in Nodes |-> NoNode]
  /\ awaiting' = {}
  /\ awaitingSeed' = parked
  /\ nextAttempt' = number
  /\ started' = known
  /\ satisfied' = done
  /\ batch' = {}
  /\ crash' = FALSE
  /\ current' = NoNode
  /\ queue' = <<>>
  /\ origin' = NoNode

(* A session that has ended stays ended.                                    *)
Ended == At("idle") /\ UNCHANGED vars

-----------------------------------------------------------------------------
(* The session of a fresh Run, from the moment execute_run has inserted the *)
(* run row and appended run_started.                                        *)

SessionInit ==
  /\ runStatus = "running"
  /\ rows = [n \in Nodes |-> "absent"]
  /\ causes = [n \in Nodes |-> "none"]
  /\ attempts = {}
  /\ traced = [n \in Nodes |-> "none"]
  /\ runTraced = "run_started"
  /\ owed = NoEvent
  /\ phase = "launch"
  /\ indegree = [n \in Nodes |-> Cardinality(Needs[n])]
  /\ task = [n \in Nodes |-> NoResult]
  /\ results = [n \in Nodes |-> NoResult]
  /\ skipped = {}
  /\ blocker = [n \in Nodes |-> NoNode]
  /\ awaiting = {}
  /\ awaitingSeed = {}
  /\ nextAttempt = [n \in Nodes |-> 1]
  /\ started = {}
  /\ satisfied = {}
  /\ batch = {}
  /\ crash = FALSE
  /\ current = NoNode
  /\ queue = <<>>
  /\ origin = NoNode

SessionNext == Step \/ Environment \/ Ended

SessionSafety == SessionInit /\ [][SessionNext]_vars

(* The event loop keeps running the coroutine, and every Attempt ends: its  *)
(* process exits, times out or is killed.  Nothing makes an interrupt come. *)
SessionFairness ==
  /\ WF_vars(Step)
  /\ \A n \in Nodes : WF_vars(AttemptEnds(n))

SessionSpec == SessionSafety /\ SessionFairness
=============================================================================
