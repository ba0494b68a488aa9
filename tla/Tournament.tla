------------------------------ MODULE Tournament ------------------------------
(***************************************************************************)
(* The tournament controller: a fixed number of rounds, each naming a      *)
(* winner that is promoted into the next.  A round that fails, or names    *)
(* nobody, fails the group.                                                *)
(***************************************************************************)
EXTENDS RunGroup

TournamentFinal == {"complete"}

(* The winner of the last round, which a resume reads from group.json.      *)
LastWinner == IF completed = <<>> THEN 0 ELSE LastRound.promoted
Promoted == IF spec.promote THEN LastWinner ELSE 0

RoundWinner(r) ==
  IF runs[r].status = "succeeded" /\ "winner" \in Output(r) THEN r ELSE 0

RunTournament == Is("tournament") /\ Begin
TournamentRound == Is("tournament") /\ Materialize(Promoted)
TournamentRefuses == Is("tournament") /\ Refuse(Promoted)

RoundLost ==
  /\ Is("tournament") /\ At("judge") /\ RoundWinner(current) = 0
  /\ Stop("failed")

RoundWon ==
  /\ Is("tournament") /\ At("judge") /\ RoundWinner(current) # 0
  /\ completed' = [completed EXCEPT ![Len(completed)].promoted = RoundWinner(current)]
  /\ feedback' = FeedbackValue(current)
  /\ \/ ~inPlace /\ Write(IF UnderCap THEN "running" ELSE "complete")
     \/ /\ inPlace
        /\ Go("drive")
        /\ UNCHANGED <<spec, diskVars, current, inPlace, pending, returned, kills>>

(* No round is left: the drive returns "complete", and writes nothing.      *)
TournamentReturns ==
  /\ Is("tournament") /\ At("drive") /\ ~UnderCap
  /\ returned' = [status |-> "complete", winner |-> LastWinner]
  /\ Leave
  /\ UNCHANGED <<spec, diskVars, kills>>

TournamentGoesOn ==
  Is("tournament") /\ GoOn(IF LastRound.ok THEN FeedbackValue(current) ELSE 0)
ResumeTournament == Is("tournament") /\ Reload(TournamentFinal)

TournamentDrive ==
  \/ TournamentRound \/ TournamentRefuses \/ RoundLost \/ RoundWon
  \/ TournamentReturns \/ TournamentGoesOn
=============================================================================
