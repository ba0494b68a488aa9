---------------------------- MODULE RunProperties ----------------------------
(***************************************************************************)
(* What a Run promises over its whole life: through failures, interrupts,  *)
(* hard kills, parks, human decisions and resumes.                         *)
(***************************************************************************)
EXTENDS Run, SchedulerProperties

TerminalRow(n) == rows[n] \in AttemptStatus \cup {"skipped"}
AttemptsOf(n) == {a \in attempts : a.node = n}

-----------------------------------------------------------------------------
(* What is durable.                                                         *)

(* Completed work is never lost and never repeated: once a Node's row says  *)
(* succeeded, no later step of any session, and no crash, changes the row   *)
(* or adds an Attempt (the promise of `caw resume`).                        *)
CompletedStays ==
  [][\A n \in WithStatus({"succeeded"}) :
       rows'[n] = "succeeded" /\ AttemptsOf(n)' = AttemptsOf(n)]_runVars

(* A succeeded row is backed by a recorded Attempt that succeeded and is    *)
(* the latest, wherever a crash falls between the two commits: the output a *)
(* resumed Run reads for a satisfied Node is there and is the right one.    *)
SucceededIsBacked ==
  \A n \in WithStatus({"succeeded"}) :
    \E a \in AttemptsOf(n) : a.attempt = MaxAttempt(n) /\ a.status = "succeeded"

(* What a `when` reads is current (_output_of): a result of this session,   *)
(* the recorded output of a Node that had succeeded before it, or nothing   *)
(* at all for a Node skipped in it.  It never raises for want of an output, *)
(* and never reads what a failed or interrupted Attempt of an earlier       *)
(* session left in State.                                                   *)
OutputsCurrent ==
  phase = "launch" =>
    \A n \in Nodes : MayConsider(n) =>
      \A leaf \in When[n] :
        \/ leaf.ref \in Resulted
        \/ leaf.ref \in satisfied /\ HasOutput(leaf.ref)
        \/ leaf.ref \in skipped /\ ~HasOutput(leaf.ref)

(* Across any number of sessions Attempts are numbered without a gap, and   *)
(* the number the next Attempt will be recorded under is free: the resume's *)
(* seeds and the retry loop never breach the attempt table's primary key.   *)
AttemptNumbersFree ==
  /\ \A n \in Nodes : Numbers(n) = 1..MaxAttempt(n)
  /\ phase \in {"launch", "wait", "handle", "drain"} =>
       \A n \in Nodes \ (Resulted \cup satisfied) : nextAttempt[n] = MaxAttempt(n) + 1

-----------------------------------------------------------------------------
(* Outcomes and gates.                                                      *)

(* The recorded outcome of a Run agrees with its Nodes however many         *)
(* sessions it took: no Node is forgotten, succeeded means nothing failed,  *)
(* failed means something did, rejected means a gate was.                   *)
OutcomeHolds ==
  Over =>
    /\ runStatus = "succeeded" => WithStatus({"succeeded", "skipped"}) = Nodes
    /\ runStatus = "failed" =>
         (\A n \in Nodes : TerminalRow(n)) /\ WithStatus(FailureKinds) # {}
    /\ runStatus = "rejected" => WithStatus({"rejected"}) # {}
    /\ runStatus = "parked" =>
         \A n \in Nodes : ~TerminalRow(n) =>
           \E g \in ({n} \cup Ancestors(n)) \cap Gates : rows[g] \in {"awaiting", "succeeded", "rejected"}

(* Nothing runs past a gate: an Attempt of a Node that needs a gate starts  *)
(* only when the gate was approved, or skipped under `join: any`, in the    *)
(* State on disk, whatever crashed or resumed before.                       *)
GatesHold ==
  [][\A n \in Nodes : n \notin InFlight /\ n \in InFlight' =>
       \A g \in Needs[n] \cap Gates :
         rows[g] = "succeeded" \/ (n \in JoinAny /\ rows[g] = "skipped")]_runVars

(* A resumed session keeps the promises of a fresh one, the satisfied Nodes *)
(* it was seeded with included: readiness, the counter, one fate per Node,  *)
(* and exactly the skips that are due.                                      *)
ResumedSessionSound ==
  /\ Looping => TakenUpWhenReady /\ OneFate /\ SkipsJustified
  /\ IndegreeExact /\ SkipsComplete

(* Every session ends, and so does every resume that applies decisions.     *)
SessionsEnd == phase # "idle" ~> phase = "idle"

(* A Run that is interrupted or killed, at whatever step, can always be     *)
(* completed: when none of its Attempts fails, no gate waits for a human    *)
(* and somebody keeps resuming it, the first session that is left alone     *)
(* makes it succeed.                                                        *)
EventuallySucceeds ==
  <>(\/ runStatus = "succeeded"
     \/ \E a \in attempts : a.status # "succeeded"
     \/ WithStatus({"awaiting", "rejected"}) # {})

-----------------------------------------------------------------------------
(* The abstract lifecycle.                                                  *)

Standing(row) ==
  CASE row \in {"absent", "running"} -> "open"
    [] row = "awaiting" -> "waiting"
    [] row = "succeeded" -> "completed"
    [] row = "skipped" -> "withheld"
    [] row = "rejected" -> "declined"
    [] OTHER -> "failed"

Lifecycle == INSTANCE RunLifecycle WITH
  status <- runStatus, ledger <- [n \in Nodes |-> Standing(rows[n])]

(* The executor, its State Store and `caw resume` together implement the    *)
(* lifecycle: every commit of every session, resume and decision is a step  *)
(* of RunLifecycle, or changes nothing there, whatever is killed between.   *)
RefinesLifecycle == Lifecycle!Spec

-----------------------------------------------------------------------------
(* What holds as long as no process is killed.                              *)

(* A rejected gate stays rejected: no later decision overrides the no.      *)
RejectionStands == [][\A g \in WithStatus({"rejected"}) : rows'[g] = "rejected"]_runVars

(* When a session, or a decision on gates, is over, the trace's last word   *)
(* on every gate that awaits is that it does.                               *)
GatesTraced ==
  Over => \A g \in WithStatus({"awaiting"}) : traced[g] = "gate_awaiting"

=============================================================================
