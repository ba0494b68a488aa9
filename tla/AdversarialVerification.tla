----------------------- MODULE AdversarialVerification -----------------------
(***************************************************************************)
(* The adversarial-verification controller: rounds until one is accepted,  *)
(* or, where the spec declares a reject predicate, rejected; the cap        *)
(* rejects too.                                                            *)
(***************************************************************************)
EXTENDS RunGroup

VerifyFinal == {"accepted", "rejected"}

(* As if there were no explicit reject.                                     *)
BugVerificationVerdict(r) ==
  IF runs[r].status # "succeeded" THEN "failed"
  ELSE IF "accept" \in Output(r) THEN "accepted" ELSE "none"

(* Accept is asked before reject.                                           *)
VerificationVerdict(r) ==
  IF runs[r].status # "succeeded" THEN "failed"
  ELSE IF "accept" \in Output(r) THEN "accepted"
  ELSE IF "reject" \in Output(r) THEN "rejected" ELSE "none"

RunVerification == Is("verify") /\ Begin
VerifyRound == Is("verify") /\ Materialize(0)
VerifyRefuses == Is("verify") /\ Refuse(0)
VerifyJudges == Is("verify") /\ At("judge") /\ Judge(VerificationVerdict(current))
VerifyExhausts == Is("verify") /\ CapReached("rejected")
VerifyGoesOn == Is("verify") /\ GoOn(FeedbackValue(current))
ResumeVerification == Is("verify") /\ Reload(VerifyFinal)

VerifyDrive == VerifyRound \/ VerifyRefuses \/ VerifyJudges \/ VerifyExhausts \/ VerifyGoesOn
=============================================================================
