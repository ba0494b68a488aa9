-------------------------- MODULE PatternControllers --------------------------
(***************************************************************************)
(* The three controllers over one Run Group each, driven, killed, and      *)
(* resumed any number of times, and what they promise together.            *)
(***************************************************************************)
EXTENDS LoopUntilDone, AdversarialVerification, Tournament

Drive ==
  \/ LoopDrive \/ VerifyDrive \/ TournamentDrive
  \/ ResumeLast \/ Record \/ Persist

RunEnds == RunSucceeds \/ RunFallsShort

ResumeGroup == ResumeLoop \/ ResumeVerification \/ ResumeTournament

Invoke == RunLoop \/ RunVerification \/ RunTournament \/ ResumeGroup

Dying == KillDrive \/ KillWrite \/ RunRaises

GroupAtRest == At("idle") /\ UNCHANGED groupVars

GroupNext == Drive \/ RunEnds \/ Invoke \/ Dying \/ GroupAtRest

GroupSafety == GroupInit /\ [][GroupNext]_groupVars

(* The controller runs on; its Runs end; somebody resumes the group as long *)
(* as that is possible; and a Run that is executed again and again succeeds *)
(* at last, unless a gate holds it.                                         *)
GroupFairness ==
  /\ WF_groupVars(Drive)
  /\ WF_groupVars(RunEnds)
  /\ WF_groupVars(ResumeGroup)
  /\ SF_groupVars(RunSucceeds)

GroupSpec == GroupSafety /\ GroupFairness

-----------------------------------------------------------------------------
Status == {"none", "running", "failed", "done", "exhausted", "accepted", "rejected", "complete"}
FileStatus == (Status \ {"none"}) \cup {"absent", "torn"}

RunNumbers == 1..Len(runs)
RunShape ==
  [status : IterationStatus, offers : SUBSET Offers,
   fed : Nat, promoted : Nat, position : 0..spec.cap, held : BOOLEAN]
RoundShape == [run : RunNumbers, ok : BOOLEAN, promoted : {0} \cup RunNumbers]

(* Every variable keeps its type; whatever is on record, or in memory,      *)
(* names a Run that exists.                                                 *)
GroupTypeOK ==
  /\ spec \in Specs
  /\ runs \in Seq(RunShape)
  /\ file \in [status : FileStatus, entries : Seq(RoundShape), winner : {0} \cup RunNumbers]
  /\ phase \in GroupPhases
  /\ completed \in Seq(RoundShape)
  /\ feedback \in {0} \cup RunNumbers
  /\ current \in {0} \cup RunNumbers
  /\ inPlace \in BOOLEAN
  /\ pending \in Status
  /\ returned \in [status : Status, winner : {0} \cup RunNumbers]
  /\ kills \in 0..MaxKills

Settled == file.status \in {"done", "exhausted", "accepted", "rejected", "complete"}

(* A settled group is final: nothing rewrites group.json, starts another    *)
(* Run or touches an old one, whoever resumes it ("resume refused").        *)
SettledStays == [][Settled => UNCHANGED diskVars]_groupVars

(* No round is built on an unfinished one: behind every round on record     *)
(* that is not the last stands a Run that succeeded, through all failures,  *)
(* parks and kills.                                                         *)
NoRoundOnUnfinished ==
  \A i \in 1..(Len(file.entries) - 1) : runs[file.entries[i].run].status = "succeeded"

(* What round i of a group was given: the feedback, and the winner, of the  *)
(* round before it.  A tournament goes by what is on record for that round. *)
Due(entries, i) ==
  IF i = 1 THEN [fed |-> 0, promoted |-> 0]
  ELSE LET before == entries[i - 1]
       IN [fed |-> IF Is("tournament") /\ ~before.ok THEN 0 ELSE FeedbackValue(before.run),
           promoted |-> IF spec.promote THEN before.promoted ELSE 0]

(* Every round on record, and the one being run, was made from its          *)
(* predecessor's feedback and winner, and its Run says which round it is:   *)
(* no resume drops, repeats or misdirects what is fed forward.              *)
FedByPredecessor ==
  \A i \in DOMAIN file.entries :
    LET r == file.entries[i].run
    IN /\ runs[r].fed = Due(file.entries, i).fed
       /\ runs[r].promoted = Due(file.entries, i).promoted
       /\ runs[r].position = i

Decisive == {"done", "accept", "reject"}

(* The rounds on record as failed that have succeeded since, with an output *)
(* that decides: nobody has judged it.                                      *)
Unheard(entries) ==
  {i \in DOMAIN entries : ~entries[i].ok /\ Output(entries[i].run) \cap Decisive # {}}

(* The verdict of a round is heeded, or a kill has cost it.  A loop or a    *)
(* verification goes past a round, and comes to its cap with one, only if   *)
(* its output decides nothing or nobody has judged it: its Run was resumed  *)
(* in place and succeeded, and the verdict was not yet written when the     *)
(* process died.  The next resume passes such a round over, and each that   *)
(* was passed over took a kill of its own.  A group that a verdict or the   *)
(* last winner settled is settled by that of its last round.                *)
VerdictHeeded ==
  LET entries == file.entries
      Last == entries[Len(entries)]
      Decides(round) == round.ok /\ Output(round.run) \cap Decisive # {}
      PassedOver == {i \in Unheard(entries) : i < Len(entries) \/ Settled}
  IN /\ ~Is("tournament") => \A i \in 1..(Len(entries) - 1) : ~Decides(entries[i])
     /\ Cardinality(PassedOver) <= kills
     /\ file.status = "done" => "done" \in Output(Last.run)
     /\ file.status = "accepted" => "accept" \in Output(Last.run)
     /\ file.status = "rejected" =>
          \/ Len(entries) = spec.cap /\ ~Decides(Last)
          \/ "reject" \in Output(Last.run) /\ "accept" \notin Output(Last.run)
     /\ file.status = "exhausted" => Len(entries) = spec.cap /\ ~Decides(Last)
     /\ file.status = "complete" => Len(entries) = spec.cap /\ file.winner = Last.run

(* The cap bounds what a group costs: only a kill or an interrupt makes it  *)
(* execute more Runs than rounds are allowed.                               *)
RunsBounded == Len(runs) <= spec.cap + kills

Standing ==
  CASE file.status \in {"absent", "failed"} -> file.status
    [] file.status = "running" -> "open"
    [] file.status = "torn" -> "lost"
    [] OTHER -> "settled"

Lifecycle == INSTANCE GroupLifecycle WITH
  Caps <- {s.cap : s \in Specs}, cap <- spec.cap,
  standing <- Standing, rounds <- Len(file.entries)

(* All three controllers, with their resumes and under every kill, do to    *)
(* group.json only what GroupLifecycle allows.                              *)
RefinesGroupLifecycle == Lifecycle!Spec

Held == Readable /\ runs[file.entries[Len(file.entries)].run].held

(* A loop or a verification that has written its first round is settled in  *)
(* the end, whatever kills it, if somebody keeps resuming it: unless the    *)
(* write itself was cut short, its last round is held by a gate, or its     *)
(* workflow has no Node to feed.                                            *)
GroupConcludes ==
  (Readable /\ ~Is("tournament") /\ "feedback" \in spec.has) ~> (Settled \/ file = Torn \/ Held)

-----------------------------------------------------------------------------
(* What controller.py says of the groups, and the code does not always do.  *)

(* "a winnerless round is a controller FAILURE -- never a `complete` with   *)
(* no winner".                                                              *)
CompleteHasWinner == returned.status = "complete" => returned.winner # 0

(* The cap settles a group only "without done" (GROUP_EXHAUSTED), or        *)
(* "without an acceptance" (GROUP_REJECTED): none of its rounds is one that *)
(* the done, or the accept, predicate holds over.                           *)
CapWithoutVerdict ==
  LET Offered(offer) == \E i \in DOMAIN file.entries : offer \in Output(file.entries[i].run)
  IN /\ file.status = "exhausted" => ~Offered("done")
     /\ file.status = "rejected" => ~Offered("accept")
=============================================================================
