--------------------------------- MODULE Run ---------------------------------
(***************************************************************************)
(* The life of one Run over its run directory (src/caw/executor.py):       *)
(* execute_run starts it, sessions of the Scheduler advance it, resume_run *)
(* takes it up again after a failure, a crash or a park, and applies the   *)
(* human decisions on its gates.  What survives from one session to the    *)
(* next is the State Store and the Event trace; everything the Scheduler   *)
(* keeps in memory is seeded anew.                                         *)
(*                                                                         *)
(* A session can also be killed (the process or the machine dies) between  *)
(* any two commits, and between a commit and the Event that follows it.    *)
(* A killed session leaves its memory variables as they were: Seed         *)
(* overwrites every one of them before they are read again.                *)
(*                                                                         *)
(* Simplifications.  One process at a time works on the run directory.  A  *)
(* refused resume (absent, succeeded or rejected Run, tampered snapshot,   *)
(* a named Node that is not awaiting) changes nothing and is no step.  An  *)
(* approval named beside a rejection is dropped, as in the code.           *)
(***************************************************************************)
EXTENDS Scheduler

CONSTANTS
  MaxSessions,  \* bounds how often the Run is started or resumed
  MaxCrashes,   \* bounds how often a session is interrupted or killed
  HardKills     \* whether the process may die between two writes

ASSUME RunAssumption ==
  MaxSessions \in Nat \ {0} /\ MaxCrashes \in Nat /\ HardKills \in BOOLEAN

VARIABLES
  sessions,     \* sessions begun so far (counts up to MaxSessions)
  crashes,      \* interrupts and kills so far (counts up to MaxCrashes)
  priorStatus,  \* the run's status when resume_run read it
  named,        \* the gates named by --approve or --reject
  todo          \* those of them whose decision is not recorded yet

resumeVars == <<priorStatus, named, todo>>
boundVars == <<sessions, crashes>>
runVars == <<vars, boundVars, resumeVars>>

(* As if eligibility forgot one status, or refused a Run left running.      *)
BugResumableSucceeded == runStatus \notin {"absent", "rejected"}
BugResumableRejected == runStatus \notin {"absent", "succeeded"}
BugResumableNotRunning == runStatus \notin {"absent", "succeeded", "rejected", "running"}

(* Resume Eligibility.                                                      *)
Resumable == runStatus \notin {"absent", "succeeded", "rejected"}

BeginSession ==
  /\ At("idle") /\ sessions < MaxSessions
  /\ sessions' = sessions + 1
  /\ UNCHANGED crashes

-----------------------------------------------------------------------------
(* execute_run.                                                             *)

Start ==
  /\ BeginSession
  /\ RecordRunStarted
  /\ Owe("run_started", {})
  /\ Seed({}, {}, [n \in Nodes |-> 1], {})
  /\ Go("launch")
  /\ UNCHANGED resumeVars

-----------------------------------------------------------------------------
(* resume_run up to its first write: what it reads, and the decisions it is *)
(* given, each of which must name an awaiting gate.                         *)

Resume(gates, next) ==
  /\ BeginSession /\ Resumable
  /\ gates \subseteq WithStatus({"awaiting"})
  /\ priorStatus' = runStatus
  /\ named' = gates
  /\ todo' = gates
  /\ awaitingSeed' = WithStatus({"awaiting"})
  /\ Go(next)
  /\ UNCHANGED <<storeVars, traceVars, fateVars, satisfied, loopVars>>

ResumeApproving(gates) == Resume(gates, "approve")
ResumeRejecting(gates) == gates # {} /\ Resume(gates, "reject")

(* A rejection ends the Run: every named gate, then the Run.                *)
RejectGate(g) ==
  /\ At("reject") /\ g \in todo
  /\ RecordNodeFinished(g, "rejected", "none")
  /\ Owe("gate_rejected", {g})
  /\ todo' = todo \ {g}
  /\ UNCHANGED <<phase, fateVars, seedVars, loopVars, boundVars, priorStatus, named>>

RejectRun ==
  /\ At("reject") /\ todo = {}
  /\ RecordRunStatus("rejected")
  /\ Owe("run_finished", {})
  /\ Go("idle")
  /\ UNCHANGED <<fateVars, seedVars, loopVars, boundVars, resumeVars>>

(* An approval is recorded as the gate's Attempt 1, then flips its row.  An *)
(* approved gate's output cannot be read by a `when`.                       *)
ApproveAttempt(g) ==
  /\ At("approve") /\ g \in todo
  /\ RecordAttempt(g, 1, [status |-> "succeeded", out |-> FALSE])
  /\ current' = g
  /\ OweNothing
  /\ Go("approving")
  /\ UNCHANGED <<fateVars, seedVars, batch, crash, queue, origin, boundVars, resumeVars>>

ApproveGate(g) ==
  /\ At("approving") /\ g = current
  /\ RecordNodeFinished(g, "succeeded", "none")
  /\ Owe("gate_approved", {g})
  /\ todo' = todo \ {g}
  /\ current' = NoNode
  /\ Go("approve")
  /\ UNCHANGED <<fateVars, seedVars, batch, crash, queue, origin, boundVars, priorStatus, named>>

(* The INSERT of an Attempt 1 that is already there raises out of           *)
(* resume_run, which finalizes nothing.                                     *)
ApproveCollides(g) ==
  /\ At("approve") /\ g \in todo /\ 1 \in Numbers(g)
  /\ Go("idle")
  /\ UNCHANGED <<storeVars, traceVars, fateVars, seedVars, loopVars, boundVars, resumeVars>>

(* As if nothing were kept, awaiting gates counted as done, or the seed     *)
(* repeated the last Attempt number.                                        *)
BugDoneNothing == {}
BugDoneAwaiting == WithStatus({"succeeded", "awaiting"})

(* What the resumed session knows of each Node from its row.                *)
Done == WithStatus({"succeeded"})
Known == WithStatus(NodeStatus) \ Done
BugNextNumber == [n \in Nodes |-> IF n \in Known /\ HasOutput(n) THEN MaxAttempt(n) ELSE 1]
NextNumber == [n \in Nodes |-> IF n \in Known THEN MaxAttempt(n) + 1 ELSE 1]

Reopen ==
  /\ At("approve") /\ todo = {}
  /\ RecordRunStatus("running")
  /\ Owe("run_resumed", {})
  /\ Seed(Done, Known, NextNumber, awaitingSeed)
  /\ Go("launch")
  /\ UNCHANGED <<boundVars, resumeVars>>

-----------------------------------------------------------------------------
CrashOnce ==
  /\ crashes < MaxCrashes
  /\ crashes' = crashes + 1
  /\ UNCHANGED sessions

(* The process dies: what is owed is never written.                         *)
Kill ==
  /\ HardKills /\ CrashOnce
  /\ phase # "idle" \/ owed # NoEvent
  /\ phase' = "idle"
  /\ owed' = NoEvent
  /\ UNCHANGED <<storeVars, traced, runTraced, fateVars, seedVars, loopVars, resumeVars>>

Cancel == CrashOnce /\ Interrupt /\ UNCHANGED resumeVars

(* The INSERT of a Node that has a row this session does not know of raises *)
(* IntegrityError out of the walk, after the in-memory bookkeeping.         *)
WalkBreaches(n) ==
  /\ At("walk") /\ Reaches(n) /\ n \notin started /\ rows[n] # "absent"
  /\ skipped' = skipped \cup {n}
  /\ blocker' = [blocker EXCEPT ![n] = WalkBlocker(n)]
  /\ Go("drain")
  /\ UNCHANGED <<storeVars, traceVars, indegree, task, results, awaiting, nextAttempt, started,
                 seedVars, loopVars, boundVars, resumeVars>>

Advance == Step /\ UNCHANGED <<boundVars, resumeVars>>
Ends(n) == AttemptEnds(n) /\ UNCHANGED <<boundVars, resumeVars>>

ResumeStep ==
  \/ RejectRun \/ Reopen
  \/ \E g \in Gates :
       RejectGate(g) \/ ApproveAttempt(g) \/ ApproveGate(g) \/ ApproveCollides(g)

Human ==
  \/ Start
  \/ \E gates \in SUBSET Gates : ResumeApproving(gates) \/ ResumeRejecting(gates)

AtRest == At("idle") /\ UNCHANGED runVars

RunInit ==
  /\ runStatus = "absent"
  /\ rows = [n \in Nodes |-> "absent"]
  /\ causes = [n \in Nodes |-> "none"]
  /\ attempts = {}
  /\ traced = [n \in Nodes |-> "none"]
  /\ runTraced = "none"
  /\ owed = NoEvent
  /\ phase = "idle"
  /\ indegree = [n \in Nodes |-> Cardinality(Needs[n])]
  /\ task = [n \in Nodes |-> NoResult]
  /\ results = [n \in Nodes |-> NoResult]
  /\ skipped = {}
  /\ blocker = [n \in Nodes |-> NoNode]
  /\ awaiting = {}
  /\ awaitingSeed = {}
  /\ nextAttempt = [n \in Nodes |-> 1]
  /\ started = {}
  /\ satisfied = {}
  /\ batch = {}
  /\ crash = FALSE
  /\ current = NoNode
  /\ queue = <<>>
  /\ origin = NoNode
  /\ sessions = 0
  /\ crashes = 0
  /\ priorStatus = "absent"
  /\ named = {}
  /\ todo = {}

RunNext ==
  \/ Advance \/ ResumeStep \/ Human \/ Cancel \/ Kill \/ AtRest
  \/ \E n \in Nodes : Ends(n) \/ WalkBreaches(n)

RunSafety == RunInit /\ [][RunNext]_runVars

(* As in a session: the process runs on, and every Attempt ends.  Nothing   *)
(* forces anybody to resume a Run, to decide on a gate, or to kill it.      *)
RunFairness ==
  /\ WF_runVars(Advance)
  /\ WF_runVars(ResumeStep)
  /\ WF_runVars(\E n \in Nodes : WalkBreaches(n))
  /\ \A n \in Nodes : WF_runVars(Ends(n))

RunSpec == RunSafety /\ RunFairness

(* Somebody resumes the Run, deciding on nothing, whenever that is possible.*)
PersistentSpec == RunSpec /\ WF_runVars(Start) /\ WF_runVars(ResumeApproving({}))
=============================================================================
