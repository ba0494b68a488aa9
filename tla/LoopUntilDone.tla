---------------------------- MODULE LoopUntilDone ----------------------------
(***************************************************************************)
(* The loop-until-done controller: rounds until the done predicate holds,  *)
(* a round's Run does not succeed, or the cap is reached.                  *)
(***************************************************************************)
EXTENDS RunGroup

(* As if a finished loop were resumed, or an interrupted one refused.       *)
BugLoopFinal == {"exhausted"}
BugLoopFinalRunning == {"done", "exhausted", "running"}

(* The statuses of a loop that has nothing left to do.                      *)
LoopFinal == {"done", "exhausted"}

IterationVerdict(r) ==
  IF runs[r].status # "succeeded" THEN "failed"
  ELSE IF "done" \in Output(r) THEN "done" ELSE "none"

RunLoop == Is("loop") /\ Begin
LoopRound == Is("loop") /\ Materialize(0)
LoopRefuses == Is("loop") /\ Refuse(0)
LoopJudges == Is("loop") /\ At("judge") /\ Judge(IterationVerdict(current))
LoopExhausts == Is("loop") /\ CapReached("exhausted")

(* As if a resumed loop had forgotten what to feed forward.                 *)
BugLoopGoesOn == Is("loop") /\ GoOn(0)
LoopGoesOn == Is("loop") /\ GoOn(FeedbackValue(current))
ResumeLoop == Is("loop") /\ Reload(LoopFinal)

LoopDrive == LoopRound \/ LoopRefuses \/ LoopJudges \/ LoopExhausts \/ LoopGoesOn
=============================================================================
