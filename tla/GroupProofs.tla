----------------------------- MODULE GroupProofs -----------------------------
(***************************************************************************)
(* Proofs about the Pattern Controllers for every set of specs, every cap  *)
(* and any number of kills.                                                *)
(*                                                                         *)
(*   GroupInv is inductive: it says how many rounds the controller knows   *)
(*   of beyond those in group.json at each point of its loop, which Run it *)
(*   is about, and how many Runs it has made so far.                       *)
(*                                                                         *)
(*   FeedInv, inductive together with GroupInv, is about what passes from  *)
(*   round to round: the value at hand is what the next round is due       *)
(*   wherever that round may be made, and the Run of a new round keeps     *)
(*   what it was made with.                                                *)
(*                                                                         *)
(*   VerdictInv, inductive together with both: a status written for a      *)
(*   group is justified by its last round, and a group goes on only where  *)
(*   its last round decides nothing, or is on record as failed.            *)
(*                                                                         *)
(*   LostInv, inductive together with all three, counts the rounds of the  *)
(*   last kind whose output would have decided: as many as kills at most.  *)
(***************************************************************************)
EXTENDS PatternControllers, SequenceTheorems, FiniteSetTheorems, NaturalBounds

(* A final status is written by one kind of controller only.                *)
Fitting(status) ==
  /\ status \in {"done", "exhausted"} => Is("loop")
  /\ status \in {"accepted", "rejected"} => Is("verify")
  /\ status = "complete" => Is("tournament")

FileInv ==
  /\ Fitting(file.status) /\ Fitting(pending)
  /\ Len(file.entries) <= spec.cap
  /\ Readable <=> Len(file.entries) >= 1

Resumed == phase \in {"load", "judge"} \/ (phase \in {"execute", "record"} /\ inPlace)
Fresh == phase \in {"execute", "record"} /\ ~inPlace

(* The rounds in memory against those on record, and the Run in hand.       *)
MemoryInv ==
  /\ At("idle") => completed = <<>>
  /\ ~At("idle") =>
       /\ file.status # "torn"
       /\ Len(completed) <= spec.cap /\ Len(file.entries) <= Len(completed)
       /\ Settled => At("drive") /\ file.status = "complete" /\ ~UnderCap
  /\ phase \in {"load", "drive", "execute", "record"} => Len(completed) = Len(file.entries)
  /\ At("judge") => Len(completed) = Len(file.entries) + (IF inPlace THEN 0 ELSE 1)
  /\ At("persist") =>
       /\ Len(completed) >= 1 /\ Len(completed) <= Len(file.entries) + 1
       /\ pending # "none"
       /\ pending \in {"running", "complete"} => Len(completed) = Len(file.entries) + 1
       /\ pending = "complete" => ~UnderCap
  /\ Resumed => Len(completed) >= 1 /\ current = completed[Len(completed)].run
  /\ Fresh => UnderCap /\ current >= 1 /\ \A i \in 1..Len(completed) : completed[i].run < current

(* No Run is made but for a round, or for a kill to waste.                  *)
CountInv ==
  /\ file.status = "torn" => Len(runs) <= spec.cap + kills
  /\ At("idle") /\ file.status # "torn" => Len(runs) <= Len(file.entries) + kills
  /\ ~At("idle") /\ ~Fresh => Len(runs) <= Len(completed) + kills
  /\ Fresh => Len(runs) <= Len(completed) + 1 + kills

Ascending(rounds) == \A i, j \in 1..Len(rounds) : i < j => rounds[i].run < rounds[j].run

(* The rounds in memory have the Runs of the rounds on record.              *)
OrderInv ==
  /\ Ascending(completed) /\ Ascending(file.entries)
  /\ ~At("idle") => \A i \in 1..Len(file.entries) : file.entries[i].run = completed[i].run

Finished(rounds, n) == \A i \in 1..n : runs[rounds[i].run].status = "succeeded"

(* Every round but the last stands on a Run that succeeded; the last one too*)
(* wherever the next may be made.                                           *)
FinishedInv ==
  /\ NoRoundOnUnfinished
  /\ Finished(completed, Len(completed) - 1)
  /\ At("drive") \/ Fresh \/ (At("persist") /\ pending \in {"running", "complete"}) =>
       Finished(completed, Len(completed))

GroupInv == GroupTypeOK /\ FileInv /\ MemoryInv /\ CountInv /\ OrderInv /\ FinishedInv

-----------------------------------------------------------------------------
LEMMA SpecFacts ==
  ASSUME GroupTypeOK
  PROVE  /\ spec.cap \in Nat /\ spec.cap >= 1 /\ spec.controller \in Controllers
         /\ spec.promote \in BOOLEAN
BY SpecsAssumption DEF GroupTypeOK, SpecShape

(* What is on record, and in memory, names Runs that exist.                 *)
LEMMA Lengths ==
  ASSUME GroupTypeOK
  PROVE  /\ Len(runs) \in Nat /\ Len(completed) \in Nat /\ Len(file.entries) \in Nat
         /\ DOMAIN runs = RunNumbers
         /\ DOMAIN completed = 1..Len(completed)
         /\ DOMAIN file.entries = 1..Len(file.entries)
         /\ kills \in Nat
<1>1. file.entries \in Seq(RoundShape) BY DEF GroupTypeOK
<1>2. kills \in Nat BY KillsAssumption DEF GroupTypeOK
<1> QED BY <1>1, <1>2, LenProperties DEF GroupTypeOK, RunNumbers

LEMMA Elements ==
  ASSUME GroupTypeOK
  PROVE  /\ \A i \in RunNumbers : runs[i] \in RunShape
         /\ \A i \in 1..Len(completed) :
              completed[i] \in RoundShape /\ completed[i].run \in RunNumbers
         /\ \A i \in 1..Len(file.entries) :
              file.entries[i] \in RoundShape /\ file.entries[i].run \in RunNumbers
<1>1. file.entries \in Seq(RoundShape) BY DEF GroupTypeOK
<1>2. \A round \in RoundShape : round.run \in RunNumbers BY DEF RoundShape
<1> QED BY <1>1, <1>2, ElementOfSeq DEF GroupTypeOK, RunNumbers

(* A Run that is added or changed leaves the shape of everything else.      *)
LEMMA ShapesStay ==
  ASSUME GroupTypeOK, Len(runs') \in Nat, Len(runs') >= Len(runs), UNCHANGED spec
  PROVE  /\ RunShape' = RunShape
         /\ RunNumbers \subseteq RunNumbers'
         /\ \A rounds \in Seq(RoundShape) : rounds \in Seq(RoundShape')
         /\ file \in [status : FileStatus, entries : Seq(RoundShape'),
                      winner : {0} \cup RunNumbers']
         /\ returned \in [status : Status, winner : {0} \cup RunNumbers']
<1>1. RunShape' = RunShape BY DEF RunShape, Offers, Is
<1>2. RunNumbers \subseteq RunNumbers' BY Lengths DEF RunNumbers
<1>3. RoundShape \subseteq RoundShape' BY <1>2 DEF RoundShape
<1>4. \A rounds \in Seq(RoundShape) : rounds \in Seq(RoundShape') BY <1>3, SeqMonotonic
<1>5. file \in [status : FileStatus, entries : Seq(RoundShape'), winner : {0} \cup RunNumbers']
  <2> DEFINE S == Seq(RoundShape) T == Seq(RoundShape') W == {0} \cup RunNumbers
             V == {0} \cup RunNumbers'
  <2>1. file \in [status : FileStatus, entries : S, winner : W] BY DEF GroupTypeOK
  <2>2. S \subseteq T BY <1>4
  <2>3. W \subseteq V BY <1>2
  <2> HIDE DEF S, T, V, W
  <2>4. file \in [status : FileStatus, entries : T, winner : V] BY <2>1, <2>2, <2>3
  <2> QED BY <2>4 DEF T, V
<1>6. returned \in [status : Status, winner : {0} \cup RunNumbers'] BY <1>2 DEF GroupTypeOK
<1> QED BY <1>1, <1>2, <1>4, <1>5, <1>6

LEMMA RunChanges ==
  ASSUME GroupTypeOK, UNCHANGED spec, NEW r \in RunNumbers, NEW run \in RunShape,
         runs' = [runs EXCEPT ![r] = run]
  PROVE  /\ runs' \in Seq(RunShape') /\ Len(runs') = Len(runs)
         /\ \A i \in RunNumbers : runs'[i] = IF i = r THEN run ELSE runs[i]
<1>1. /\ runs' \in Seq(RunShape) /\ Len(runs') = Len(runs)
      /\ \A i \in RunNumbers : runs'[i] = IF i = r THEN run ELSE runs[i]
  BY ExceptSeq DEF GroupTypeOK, RunNumbers
<1> QED BY <1>1, ShapesStay, Lengths

(* Of the rounds that named a winner there is a last one.                   *)
LEMMA LastNamedTyped ==
  ASSUME NEW rounds \in Seq(RoundShape) PROVE LastNamed(rounds) \in {0} \cup RunNumbers
<1> DEFINE N == {i \in DOMAIN rounds : rounds[i].promoted # 0}
           Last(i) == /\ rounds[i].promoted # 0
                      /\ \A j \in DOMAIN rounds : j > i => rounds[j].promoted = 0
<1>1. CASE N = {} BY <1>1 DEF LastNamed
<1>2. CASE N # {}
  <2> DEFINE n == Len(rounds)
  <2>1. n \in Nat /\ DOMAIN rounds = 1..n BY LenProperties
  <2>2. N \in SUBSET (1..n) BY <2>1
  <2>3. PICK i \in N : \A j \in N : j <= i BY <1>2, <2>1, <2>2, BoundedGreatest
  <2>4. Last(i) BY <2>1, <2>2, <2>3
  <2>5. \E j \in DOMAIN rounds : Last(j) BY <2>4
  <2> DEFINE c == CHOOSE j \in DOMAIN rounds : Last(j)
  <2>6. c \in DOMAIN rounds BY <2>5
  <2>7. LastNamed(rounds) = rounds[c].promoted BY <1>2 DEF LastNamed
  <2>8. rounds[c] \in RoundShape BY <2>1, <2>6, ElementOfSeq
  <2> QED BY <2>7, <2>8 DEF RoundShape
<1> QED BY <1>1, <1>2

-----------------------------------------------------------------------------
(* The steps, one by one.  First those that change no Run.                  *)

LEMMA SameRuns ==
  ASSUME GroupTypeOK, UNCHANGED <<spec, runs>>
  PROVE  RunShape' = RunShape /\ RunNumbers' = RunNumbers /\ RoundShape' = RoundShape
BY DEF RunShape, RunNumbers, RoundShape, Offers, Is

LEMMA BeginInv ==
  ASSUME GroupInv, Begin PROVE GroupInv'
<1> USE DEF GroupInv, Begin, At, Go, diskVars, memoryVars
<1>1. GroupTypeOK' BY SameRuns DEF GroupTypeOK, GroupPhases
<1>2. FileInv' BY DEF FileInv, Fitting, Readable, Is
<1>3. file = NoFile /\ completed = <<>> /\ runs = <<>> BY DEF MemoryInv
<1>4. MemoryInv'
  BY <1>3, SpecFacts DEF MemoryInv, NoFile, Resumed, Fresh, Settled, UnderCap
<1>5. CountInv' BY <1>3, Lengths DEF CountInv, NoFile, Fresh
<1>6. OrderInv' BY <1>3 DEF OrderInv, Ascending, NoFile
<1>7. FinishedInv' BY <1>3 DEF FinishedInv, NoRoundOnUnfinished, Finished, NoFile
<1> QED BY <1>1, <1>2, <1>4, <1>5, <1>6, <1>7

(* What is reloaded is not final, so its controller has work to do.         *)
LEMMA ReloadInv ==
  ASSUME GroupInv, NEW final, Reload(final), Settled => file.status \in final
  PROVE  GroupInv'
<1> USE DEF GroupInv, Reload, At, Go, diskVars
<1>1. Len(file.entries) >= 1 BY DEF FileInv
<1>2. GroupTypeOK'
  <2>1. current' \in RunNumbers BY <1>1, Lengths, Elements
  <2>2. completed' \in Seq(RoundShape) BY DEF GroupTypeOK
  <2> QED BY <2>1, <2>2, SameRuns DEF GroupTypeOK, GroupPhases, NoResult, Status
<1>3. FileInv' BY DEF FileInv, Fitting, Readable, Is
<1>4. MemoryInv'
  BY <1>1, Lengths DEF MemoryInv, FileInv, Readable, Resumed, Fresh, Settled, UnderCap
<1>5. CountInv' BY Lengths DEF CountInv, Fresh, Readable
<1>6. OrderInv' BY DEF OrderInv, Ascending
<1>7. FinishedInv' BY DEF FinishedInv, NoRoundOnUnfinished, Finished, Fresh
<1> QED BY <1>2, <1>3, <1>4, <1>5, <1>6, <1>7

LEMMA GoOnInv ==
  ASSUME GroupInv, NEW value \in {0} \cup RunNumbers, GoOn(value)
  PROVE  GroupInv'
<1> USE DEF GroupInv, GoOn, At, Go, diskVars
<1>1. GroupTypeOK' BY SameRuns DEF GroupTypeOK, GroupPhases
<1>2. FileInv' BY DEF FileInv, Fitting, Readable, Is
<1>3. MemoryInv' BY DEF MemoryInv, Resumed, Fresh, Settled, UnderCap
<1>4. CountInv' BY DEF CountInv, Fresh
<1>5. OrderInv' BY DEF OrderInv, Ascending
<1>6. FinishedInv'
  <2>1. Finished(completed, Len(completed))
    BY Lengths DEF MemoryInv, Resumed, FinishedInv, Finished, Incomplete
  <2> QED BY <2>1 DEF FinishedInv, NoRoundOnUnfinished, Finished
<1> QED BY <1>1, <1>2, <1>3, <1>4, <1>5, <1>6

(* A process that ends leaves the file, and the count of Runs it may waste. *)
LEMMA LeaveInv ==
  ASSUME GroupInv, Leave, UNCHANGED <<spec, diskVars>>,
         returned' \in [status : Status, winner : {0} \cup RunNumbers],
         ~At("idle"), \/ At("drive") /\ kills' = kills
                      \/ kills' = kills + 1 /\ kills < MaxKills
  PROVE  GroupInv'
<1> USE DEF GroupInv, Leave, At, Go, diskVars
<1>1. GroupTypeOK'
  <2>1. completed' \in Seq(RoundShape) BY EmptySeq
  <2>2. kills' \in 0..MaxKills BY KillsAssumption DEF GroupTypeOK
  <2> QED BY <2>1, <2>2, SameRuns DEF GroupTypeOK, GroupPhases, Status
<1>2. FileInv' BY DEF FileInv, Fitting, Readable, Is
<1>3. MemoryInv' BY DEF MemoryInv, Resumed, Fresh
<1>4. CountInv'
  <2>1. file.status # "torn" BY DEF MemoryInv
  <2>2. Len(runs) <= Len(file.entries) + kills'
    BY Lengths DEF CountInv, MemoryInv, Fresh, GroupTypeOK, GroupPhases
  <2> QED BY <2>1, <2>2 DEF CountInv, Fresh
<1>5. OrderInv' BY DEF OrderInv, Ascending
<1>6. FinishedInv' BY DEF FinishedInv, NoRoundOnUnfinished, Finished, Fresh
<1> QED BY <1>1, <1>2, <1>3, <1>4, <1>5, <1>6

LEMMA RefuseInv ==
  ASSUME GroupInv, NEW promoted, Refuse(promoted) PROVE GroupInv'
<1>1. returned' \in [status : Status, winner : {0} \cup RunNumbers]
  BY DEF GroupInv, GroupTypeOK, Refuse
<1> QED BY <1>1, LeaveInv DEF Refuse, At

LEMMA TournamentReturnsInv ==
  ASSUME GroupInv, TournamentReturns PROVE GroupInv'
<1>1. Len(completed) >= 1 => LastRound.promoted \in {0} \cup RunNumbers
  BY Lengths, Elements DEF GroupInv, LastRound, RoundShape
<1>2. completed = <<>> \/ Len(completed) >= 1
  BY Lengths, EmptySeq DEF GroupInv, GroupTypeOK
<1>3. LastWinner \in {0} \cup RunNumbers BY <1>1, <1>2 DEF LastWinner
<1>4. returned' \in [status : Status, winner : {0} \cup RunNumbers]
  BY <1>3 DEF TournamentReturns, Status
<1> QED BY <1>4, LeaveInv DEF TournamentReturns, At

LEMMA KillDriveInv ==
  ASSUME GroupInv, KillDrive PROVE GroupInv'
<1>1. returned' \in [status : Status, winner : {0} \cup RunNumbers]
  BY DEF GroupInv, GroupTypeOK, KillDrive
<1> QED BY <1>1, LeaveInv DEF KillDrive, Dies

LEMMA KillWriteInv ==
  ASSUME GroupInv, KillWrite PROVE GroupInv'
<1> USE DEF GroupInv, KillWrite, Dies, Leave, At, Go, Torn, NoFile
<1>1. file' = [status |-> "torn", entries |-> <<>>, winner |-> 0] OBVIOUS
<1>2. GroupTypeOK'
  <2>1. completed' \in Seq(RoundShape) /\ file'.entries \in Seq(RoundShape) BY <1>1, EmptySeq
  <2>2. kills' \in 0..MaxKills BY KillsAssumption DEF GroupTypeOK
  <2>3. file' \in [status : FileStatus, entries : Seq(RoundShape), winner : {0} \cup RunNumbers]
    BY <1>1, <2>1 DEF FileStatus
  <2> QED BY <2>1, <2>2, <2>3, SameRuns DEF GroupTypeOK, GroupPhases, Status
<1>3. FileInv' BY <1>1, SpecFacts DEF FileInv, Fitting, Readable, Is
<1>4. MemoryInv' BY DEF MemoryInv, Resumed, Fresh
<1>5. CountInv'
  <2>1. Len(runs) <= Len(completed) + kills BY DEF CountInv, Fresh
  <2>2. Len(completed) <= spec.cap BY DEF MemoryInv
  <2>3. Len(runs) <= spec.cap + kills + 1 BY <2>1, <2>2, SpecFacts, Lengths
  <2> QED BY <1>1, <2>3, SpecFacts, Lengths DEF CountInv, Fresh
<1>6. OrderInv' BY <1>1 DEF OrderInv, Ascending
<1>7. FinishedInv' BY <1>1 DEF FinishedInv, NoRoundOnUnfinished, Finished, Fresh
<1> QED BY <1>2, <1>3, <1>4, <1>5, <1>6, <1>7

-----------------------------------------------------------------------------
(* The steps that change a Run: the one in hand, which stands behind no     *)
(* round but the last.                                                      *)

LEMMA CurrentIsLast ==
  ASSUME GroupInv, Fresh \/ Resumed
  PROVE  /\ current \in RunNumbers
         /\ \A i \in 1..(Len(completed) - 1) : completed[i].run # current
         /\ \A i \in 1..(Len(file.entries) - 1) : file.entries[i].run # current
         /\ Fresh => \A i \in 1..Len(completed) : completed[i].run # current
<1> USE DEF GroupInv
<1> DEFINE n == Len(completed) e == Len(file.entries)
<1>1. n \in Nat /\ e \in Nat /\ e <= n
  BY Lengths DEF MemoryInv, Fresh, Resumed, At
<1>2. \A i \in 1..n : completed[i].run \in Nat
  BY Elements, Lengths DEF RunNumbers
<1>3. \A i \in 1..e : file.entries[i].run = completed[i].run
  BY DEF OrderInv, Fresh, Resumed, At
<1>4. CASE Fresh
  <2>1. current \in RunNumbers /\ \A i \in 1..n : completed[i].run < current
    BY <1>4, Lengths DEF MemoryInv, GroupTypeOK, RunNumbers
  <2> QED BY <1>1, <1>2, <1>3, <2>1 DEF RunNumbers
<1>5. CASE Resumed /\ ~Fresh
  <2>1. n >= 1 /\ current = completed[n].run BY <1>5 DEF MemoryInv
  <2>2. current \in RunNumbers BY <1>1, <2>1, Elements
  <2>3. \A i \in 1..(n - 1) : completed[i].run < completed[n].run
    BY <1>1, <2>1 DEF OrderInv, Ascending
  <2>4. \A i \in 1..(n - 1) : completed[i].run # current BY <1>1, <1>2, <2>1, <2>3
  <2> QED BY <1>1, <1>3, <1>5, <2>2, <2>4
<1> QED BY <1>4, <1>5

LEMMA CurrentChanges ==
  ASSUME GroupInv, Fresh \/ Resumed, UNCHANGED <<spec, file>>,
         NEW run \in RunShape, runs' = [runs EXCEPT ![current] = run]
  PROVE  /\ runs' \in Seq(RunShape') /\ Len(runs') = Len(runs)
         /\ RunNumbers' = RunNumbers /\ RoundShape' = RoundShape
         /\ runs'[current] = run
         /\ NoRoundOnUnfinished'
         /\ \A i \in 1..(Len(completed) - 1) : runs'[completed[i].run].status = "succeeded"
         /\ Fresh =>
              \A i \in 1..Len(completed) : runs'[completed[i].run].status = "succeeded"
<1>1. /\ runs' \in Seq(RunShape') /\ Len(runs') = Len(runs)
      /\ \A i \in RunNumbers : runs'[i] = IF i = current THEN run ELSE runs[i]
  BY CurrentIsLast, RunChanges DEF GroupInv
<1>2. RunNumbers' = RunNumbers /\ RoundShape' = RoundShape
  BY <1>1 DEF RunNumbers, RoundShape
<1>3. NoRoundOnUnfinished'
  <2>1. \A i \in 1..(Len(file.entries) - 1) :
          /\ file.entries[i].run \in RunNumbers /\ file.entries[i].run # current
          /\ runs[file.entries[i].run].status = "succeeded"
    BY CurrentIsLast, Elements, Lengths DEF GroupInv, FinishedInv, NoRoundOnUnfinished
  <2> QED BY <1>1, <2>1 DEF NoRoundOnUnfinished
<1>4. \A i \in 1..(Len(completed) - 1) : runs'[completed[i].run].status = "succeeded"
  <2>1. \A i \in 1..(Len(completed) - 1) :
          /\ completed[i].run \in RunNumbers /\ completed[i].run # current
          /\ runs[completed[i].run].status = "succeeded"
    BY CurrentIsLast, Elements, Lengths DEF GroupInv, FinishedInv, Finished
  <2> QED BY <1>1, <2>1
<1>5. ASSUME Fresh
      PROVE  \A i \in 1..Len(completed) : runs'[completed[i].run].status = "succeeded"
  <2>1. \A i \in 1..Len(completed) :
          /\ completed[i].run \in RunNumbers /\ completed[i].run # current
          /\ runs[completed[i].run].status = "succeeded"
    BY <1>5, CurrentIsLast, Elements, Lengths DEF GroupInv, FinishedInv, Finished
  <2> QED BY <1>1, <2>1
<1> QED BY <1>1, <1>2, <1>3, <1>4, <1>5, CurrentIsLast

(* The type of what a step may leave alone, whatever becomes of a Run.      *)
LEMMA TypesStay ==
  ASSUME GroupTypeOK, UNCHANGED spec,
         RunNumbers' = RunNumbers, RoundShape' = RoundShape, runs' \in Seq(RunShape')
  PROVE  GroupTypeOK' <=>
           /\ file' \in [status : FileStatus, entries : Seq(RoundShape),
                         winner : {0} \cup RunNumbers]
           /\ phase' \in GroupPhases
           /\ completed' \in Seq(RoundShape)
           /\ feedback' \in {0} \cup RunNumbers
           /\ current' \in {0} \cup RunNumbers
           /\ inPlace' \in BOOLEAN
           /\ pending' \in Status
           /\ returned' \in [status : Status, winner : {0} \cup RunNumbers]
           /\ kills' \in 0..MaxKills
BY DEF GroupTypeOK

LEMMA ResumeLastInv ==
  ASSUME GroupInv, ResumeLast PROVE GroupInv'
<1> USE DEF GroupInv, ResumeLast, At, Go
<1> DEFINE run == [runs[current] EXCEPT !.status = "running"]
<1>0. Resumed BY DEF Resumed
<1>1. current \in RunNumbers BY <1>0, CurrentIsLast
<1>2. run \in RunShape BY <1>1, Elements DEF RunShape, IterationStatus
<1>3. runs' = [runs EXCEPT ![current] = run] OBVIOUS
<1> HIDE DEF run
<1>4. GroupTypeOK'
  BY <1>0, <1>2, <1>3, CurrentChanges, TypesStay DEF GroupTypeOK, GroupPhases
<1>5. FileInv' BY DEF FileInv, Fitting, Readable, Is
<1>6. MemoryInv' BY <1>0 DEF MemoryInv, Resumed, Fresh, Settled, UnderCap
<1>7. CountInv' BY <1>0, <1>2, <1>3, CurrentChanges DEF CountInv, Fresh
<1>8. OrderInv' BY DEF OrderInv, Ascending
<1>9. FinishedInv'
  BY <1>0, <1>2, <1>3, CurrentChanges DEF FinishedInv, Finished, Fresh
<1> QED BY <1>4, <1>5, <1>6, <1>7, <1>8, <1>9

(* The Run of a round ends, one way or another.                             *)
LEMMA RunEndsInv ==
  ASSUME GroupInv, At("execute"), Go("record"), NEW run \in RunShape,
         runs' = [runs EXCEPT ![current] = run],
         UNCHANGED <<spec, file, memoryVars, returned, kills>>
  PROVE  GroupInv'
<1> USE DEF GroupInv, At, Go, memoryVars
<1>0. Fresh \/ Resumed BY DEF Fresh, Resumed, GroupTypeOK
<1>1. current \in RunNumbers BY <1>0, CurrentIsLast
<1>2. GroupTypeOK' BY <1>0, CurrentChanges, TypesStay DEF GroupTypeOK, GroupPhases
<1>3. FileInv' BY DEF FileInv, Fitting, Readable, Is
<1>4. MemoryInv'
  BY <1>0, <1>1, CurrentChanges DEF MemoryInv, Resumed, Fresh, Settled, UnderCap
<1>5. CountInv' BY <1>0, CurrentChanges DEF CountInv, Fresh
<1>6. OrderInv' BY DEF OrderInv, Ascending
<1>7. FinishedInv' BY <1>0, CurrentChanges DEF FinishedInv, Finished, Fresh
<1> QED BY <1>2, <1>3, <1>4, <1>5, <1>6, <1>7

LEMMA RunSucceedsInv ==
  ASSUME GroupInv, RunSucceeds PROVE GroupInv'
<1> USE DEF RunSucceeds
<1>1. current \in RunNumbers
  BY CurrentIsLast DEF Fresh, Resumed, At, GroupInv, GroupTypeOK
<1>2. PICK offers \in SUBSET Offers :
        runs' = [runs EXCEPT ![current].status = "succeeded", ![current].offers = offers]
  OBVIOUS
<1> DEFINE run == [runs[current] EXCEPT !.status = "succeeded", !.offers = offers]
<1>3. run \in RunShape BY <1>1, Elements DEF RunShape, IterationStatus, GroupInv
<1>4. runs' = [runs EXCEPT ![current] = run]
  BY <1>1, <1>2, Lengths, LenProperties DEF GroupInv, GroupTypeOK
<1> HIDE DEF run
<1> QED BY <1>3, <1>4, RunEndsInv

LEMMA RunFallsShortInv ==
  ASSUME GroupInv, RunFallsShort PROVE GroupInv'
<1> USE DEF RunFallsShort
<1>1. current \in RunNumbers
  BY CurrentIsLast DEF Fresh, Resumed, At, GroupInv, GroupTypeOK
<1>2. CASE runs' = [runs EXCEPT ![current].status = "parked", ![current].held = TRUE]
  <2> DEFINE run == [runs[current] EXCEPT !.status = "parked", !.held = TRUE]
  <2>1. run \in RunShape BY <1>1, Elements DEF RunShape, IterationStatus, GroupInv
  <2>2. runs' = [runs EXCEPT ![current] = run]
    BY <1>1, <1>2, Lengths, LenProperties DEF GroupInv, GroupTypeOK
  <2> HIDE DEF run
  <2> QED BY <2>1, <2>2, RunEndsInv
<1>3. CASE runs' = [runs EXCEPT ![current].status = "failed"]
  <2> DEFINE run == [runs[current] EXCEPT !.status = "failed"]
  <2>1. run \in RunShape BY <1>1, Elements DEF RunShape, IterationStatus, GroupInv
  <2>2. runs' = [runs EXCEPT ![current] = run] BY <1>3
  <2> HIDE DEF run
  <2> QED BY <2>1, <2>2, RunEndsInv
<1> QED BY <1>2, <1>3

LEMMA RunRaisesInv ==
  ASSUME GroupInv, RunRaises PROVE GroupInv'
<1> USE DEF GroupInv, RunRaises, Dies, Leave, At, Go
<1> DEFINE run == [runs[current] EXCEPT !.status = "errored"]
<1>0. Fresh \/ Resumed BY DEF Fresh, Resumed, GroupTypeOK
<1>1. current \in RunNumbers BY <1>0, CurrentIsLast
<1>2. run \in RunShape BY <1>1, Elements DEF RunShape, IterationStatus
<1>3. runs' = [runs EXCEPT ![current] = run] OBVIOUS
<1> HIDE DEF run
<1>4. GroupTypeOK'
  <2>1. completed' \in Seq(RoundShape) BY EmptySeq
  <2>2. kills' \in 0..MaxKills BY KillsAssumption DEF GroupTypeOK
  <2> QED BY <1>0, <1>2, <1>3, <2>1, <2>2, CurrentChanges, TypesStay
          DEF GroupTypeOK, GroupPhases, Status
<1>5. FileInv' BY DEF FileInv, Fitting, Readable, Is
<1>6. MemoryInv' BY DEF MemoryInv, Resumed, Fresh
<1>7. CountInv'
  <2>1. Len(runs) <= Len(file.entries) + 1 + kills
    BY Lengths DEF CountInv, MemoryInv, Fresh
  <2>2. file.status # "torn" BY DEF MemoryInv
  <2> QED BY <1>0, <1>2, <1>3, <2>1, <2>2, CurrentChanges, Lengths DEF CountInv, Fresh
<1>8. OrderInv' BY DEF OrderInv, Ascending
<1>9. FinishedInv'
  <2>1. NoRoundOnUnfinished' BY <1>0, <1>2, <1>3, CurrentChanges
  <2>2. Finished(completed, Len(completed) - 1)' BY DEF Finished
  <2> QED BY <2>1, <2>2 DEF FinishedInv, Fresh
<1> QED BY <1>4, <1>5, <1>6, <1>7, <1>8, <1>9

-----------------------------------------------------------------------------
(* The steps between two rounds.                                            *)

LEMMA MaterializeInv ==
  ASSUME GroupInv, NEW promoted \in {0} \cup RunNumbers, Materialize(promoted)
  PROVE  GroupInv'
<1> USE DEF GroupInv, Materialize, At, Go
<1> DEFINE run == [status |-> "running", offers |-> {}, fed |-> feedback,
                   promoted |-> promoted, position |-> 0, held |-> FALSE]
<1>1. run \in RunShape
  <2>1. feedback \in Nat /\ promoted \in Nat BY Lengths DEF GroupTypeOK, RunNumbers
  <2>2. 0 \in 0..spec.cap BY SpecFacts
  <2> QED BY <2>1, <2>2 DEF RunShape, IterationStatus
<1>2. runs' = Append(runs, run) OBVIOUS
<1> HIDE DEF run
<1>3. /\ runs' \in Seq(RunShape) /\ Len(runs') = Len(runs) + 1
      /\ \A i \in RunNumbers : runs'[i] = runs[i]
  BY <1>1, <1>2, Lengths, AppendProperties DEF GroupTypeOK, RunNumbers
<1>4. /\ RunShape' = RunShape /\ RunNumbers \subseteq RunNumbers'
      /\ completed \in Seq(RoundShape')
      /\ file \in [status : FileStatus, entries : Seq(RoundShape'),
                   winner : {0} \cup RunNumbers']
      /\ returned \in [status : Status, winner : {0} \cup RunNumbers']
  BY <1>3, Lengths, ShapesStay DEF GroupTypeOK
<1>5. GroupTypeOK'
  <2>1. current' \in RunNumbers' BY <1>3, Lengths DEF RunNumbers
  <2>2. feedback' \in {0} \cup RunNumbers' BY <1>4 DEF GroupTypeOK
  <2>3. /\ spec' \in Specs /\ inPlace' \in BOOLEAN /\ phase' \in GroupPhases
        /\ pending' \in Status /\ kills' \in 0..MaxKills
    BY DEF GroupTypeOK, GroupPhases
  <2> QED BY <1>3, <1>4, <2>1, <2>2, <2>3 DEF GroupTypeOK
<1>6. FileInv' BY DEF FileInv, Fitting, Readable, Is
<1>7. MemoryInv'
  <2>1. \A i \in 1..Len(completed) : completed[i].run < current'
    BY <1>3, Lengths, Elements DEF RunNumbers
  <2>2. current' >= 1 BY <1>3, Lengths
  <2> QED BY <2>1, <2>2 DEF MemoryInv, Resumed, Fresh, Settled, UnderCap
<1>8. CountInv'
  <2>1. Len(runs') <= Len(completed) + 1 + kills BY <1>3, Lengths DEF CountInv, Fresh
  <2>2. file.status # "torn" BY DEF MemoryInv
  <2> QED BY <2>1, <2>2 DEF CountInv, Fresh
<1>9. OrderInv' BY DEF OrderInv, Ascending
<1>10. FinishedInv'
  <2>1. \A i \in 1..(Len(file.entries) - 1) : runs'[file.entries[i].run].status = "succeeded"
    <3> SUFFICES ASSUME NEW i \in 1..(Len(file.entries) - 1)
                 PROVE  runs'[file.entries[i].run].status = "succeeded"
      OBVIOUS
    <3>1. i \in 1..Len(file.entries) BY Lengths
    <3>2. file.entries[i].run \in RunNumbers BY <3>1, Elements
    <3>3. runs[file.entries[i].run].status = "succeeded" BY DEF FinishedInv, NoRoundOnUnfinished
    <3> QED BY <1>3, <3>2, <3>3
  <2>2. \A i \in 1..Len(completed) : runs'[completed[i].run].status = "succeeded"
    <3> SUFFICES ASSUME NEW i \in 1..Len(completed)
                 PROVE  runs'[completed[i].run].status = "succeeded"
      OBVIOUS
    <3>1. completed[i].run \in RunNumbers BY Elements
    <3>2. runs[completed[i].run].status = "succeeded" BY DEF FinishedInv, Finished
    <3> QED BY <1>3, <3>1, <3>2
  <2>3. \A i \in 1..(Len(completed) - 1) : runs'[completed[i].run].status = "succeeded"
    <3>1. \A i \in 1..(Len(completed) - 1) : i \in 1..Len(completed) BY Lengths
    <3> QED BY <2>2, <3>1
  <2> QED BY <2>1, <2>2, <2>3 DEF FinishedInv, NoRoundOnUnfinished, Finished
<1> QED BY <1>5, <1>6, <1>7, <1>8, <1>9, <1>10

(* A round that is put, or put anew, at the end of the list.                *)
LEMMA RecordedRounds ==
  ASSUME GroupInv, Record
  PROVE  LET n == IF inPlace THEN Len(completed) ELSE Len(completed) + 1
         IN /\ completed' \in Seq(RoundShape) /\ Len(completed') = n /\ n >= 1
            /\ completed'[n].run = current
            /\ \A i \in 1..(n - 1) : i \in 1..Len(completed) /\ completed'[i] = completed[i]
<1> USE DEF GroupInv, Record, At, Go
<1> DEFINE round == [run |-> current, ok |-> runs[current].status = "succeeded", promoted |-> 0]
<1>1. current \in RunNumbers BY CurrentIsLast DEF Fresh, Resumed, GroupTypeOK
<1>2. round \in RoundShape BY <1>1 DEF RoundShape
<1>3. round.run = current OBVIOUS
<1>4. completed' = IF inPlace THEN [completed EXCEPT ![Len(completed)] = round]
                              ELSE Append(completed, round)
  OBVIOUS
<1> HIDE DEF round
<1>5. completed \in Seq(RoundShape) /\ Len(completed) \in Nat BY Lengths DEF GroupTypeOK
<1>6. CASE inPlace
  <2>1. Len(completed) >= 1 BY <1>6 DEF MemoryInv, Resumed
  <2> QED BY <1>2, <1>3, <1>4, <1>5, <1>6, <2>1, ExceptSeq
<1>7. CASE ~inPlace BY <1>2, <1>3, <1>4, <1>5, <1>7, AppendProperties
<1> QED BY <1>6, <1>7

LEMMA RecordInv ==
  ASSUME GroupInv, Record PROVE GroupInv'
<1> USE DEF GroupInv, At, Go
<1> DEFINE run == [runs[current] EXCEPT !.position = Len(completed')]
           n == IF inPlace THEN Len(completed) ELSE Len(completed) + 1
<1>0. phase = "record" /\ phase' = "judge" BY DEF Record
<1>1. (Fresh \/ Resumed) /\ (Fresh <=> ~inPlace) BY <1>0 DEF Fresh, Resumed, GroupTypeOK
<1>2. current \in RunNumbers BY <1>1, CurrentIsLast
<1>3. /\ completed' \in Seq(RoundShape) /\ Len(completed') = n /\ n >= 1
      /\ completed'[n].run = current
      /\ \A i \in 1..(n - 1) : i \in 1..Len(completed) /\ completed'[i] = completed[i]
  BY RecordedRounds
<1>4. n \in Nat /\ n <= spec.cap
  <2>1. ~inPlace => Len(completed) < spec.cap BY <1>1 DEF MemoryInv, UnderCap
  <2>2. Len(completed) <= spec.cap BY <1>0 DEF MemoryInv
  <2> QED BY <2>1, <2>2, Lengths, SpecFacts
<1>5. run \in RunShape
  <2>1. n \in 0..spec.cap BY <1>4, SpecFacts
  <2> QED BY <1>2, <1>3, <2>1, Elements DEF RunShape
<1>6. runs' = [runs EXCEPT ![current] = run] BY DEF Record, RecordMembership
<1>7. UNCHANGED <<spec, file, feedback, current, inPlace, pending, returned, kills>>
  BY DEF Record
<1> HIDE DEF run
<1>8. GroupTypeOK'
  BY <1>0, <1>1, <1>3, <1>5, <1>6, <1>7, CurrentChanges, TypesStay
     DEF GroupTypeOK, GroupPhases
<1>9. FileInv' BY <1>7 DEF FileInv, Fitting, Readable, Is
<1>10. MemoryInv'
  <2>1. Len(completed) = Len(file.entries) /\ file.status # "torn" /\ ~Settled
    BY <1>0 DEF MemoryInv
  <2>2. /\ Len(completed') = Len(file.entries) + (IF inPlace THEN 0 ELSE 1)
        /\ Len(file.entries) <= Len(completed')
    <3>1. CASE inPlace BY <1>3, <2>1, <3>1, Lengths
    <3>2. CASE ~inPlace BY <1>3, <2>1, <3>2, Lengths
    <3> QED BY <3>1, <3>2
  <2>4. Resumed' => Len(completed') >= 1 /\ current' = completed'[Len(completed')].run
    BY <1>3, <1>7
  <2>5. Len(completed') <= spec.cap BY <1>3, <1>4
  <2>6. ~Settled' /\ ~Fresh' BY <1>0, <1>7, <2>1 DEF Settled, Fresh
  <2> QED BY <1>0, <1>7, <2>1, <2>2, <2>4, <2>5, <2>6 DEF MemoryInv
<1>11. CountInv'
  <2>1. Len(runs) <= n + kills BY <1>0, <1>1 DEF CountInv
  <2>2. file.status # "torn" BY <1>0 DEF MemoryInv
  <2> QED BY <1>0, <1>1, <1>3, <1>5, <1>6, <1>7, <2>1, <2>2, CurrentChanges
          DEF CountInv, Fresh
<1>12. OrderInv'
  <2>1. \A i \in 1..(n - 1) : completed[i].run < current
    <3>1. CASE inPlace
      BY <1>1, <1>3, <1>4, <3>1, Lengths DEF OrderInv, Ascending, MemoryInv
    <3>2. CASE ~inPlace
      <4>1. n - 1 = Len(completed) BY <3>2, Lengths
      <4> QED BY <1>1, <3>2, <4>1 DEF MemoryInv
    <3> QED BY <3>1, <3>2
  <2>2. Ascending(completed)'
    <3> SUFFICES ASSUME NEW i \in 1..n, NEW j \in 1..n, i < j
                 PROVE  completed'[i].run < completed'[j].run
      BY <1>3 DEF Ascending
    <3>1. i \in 1..(n - 1) BY <1>4
    <3>2. CASE j = n BY <1>3, <2>1, <3>1, <3>2
    <3>3. CASE j # n
      <4>1. j \in 1..(n - 1) BY <1>4, <3>3
      <4> QED BY <1>3, <3>1, <4>1 DEF OrderInv, Ascending
    <3> QED BY <3>2, <3>3
  <2>3. \A i \in 1..Len(file.entries) : file.entries[i].run = completed'[i].run
    <3> SUFFICES ASSUME NEW i \in 1..Len(file.entries)
                 PROVE  file.entries[i].run = completed'[i].run
      OBVIOUS
    <3>1. Len(completed) = Len(file.entries) /\ file.entries[i].run = completed[i].run
      BY <1>0 DEF MemoryInv, OrderInv
    <3>2. CASE i = n
      <4>1. inPlace BY <3>1, <3>2, Lengths
      <4> QED BY <1>1, <1>3, <3>1, <3>2, <4>1 DEF MemoryInv, Resumed, Fresh
    <3>3. CASE i # n
      <4>1. i \in 1..(n - 1) BY <1>4, <3>1, <3>3, Lengths
      <4> QED BY <1>3, <3>1, <4>1
    <3> QED BY <3>2, <3>3
  <2> QED BY <1>0, <1>7, <2>2, <2>3 DEF OrderInv, Ascending
<1>13. FinishedInv'
  <2>1. \A i \in 1..(n - 1) : runs'[completed[i].run].status = "succeeded"
    <3>1. CASE inPlace BY <1>1, <1>5, <1>6, <1>7, <3>1, CurrentChanges
    <3>2. CASE ~inPlace
      <4>1. n - 1 = Len(completed) BY <3>2, Lengths
      <4> QED BY <1>1, <1>5, <1>6, <1>7, <3>2, <4>1, CurrentChanges
    <3> QED BY <3>1, <3>2
  <2>2. \A i \in 1..(n - 1) : runs'[completed'[i].run].status = "succeeded"
    BY <1>3, <2>1
  <2>3. NoRoundOnUnfinished' BY <1>1, <1>5, <1>6, <1>7, CurrentChanges
  <2> QED BY <1>0, <1>3, <2>2, <2>3 DEF FinishedInv, Finished, Fresh
<1> QED BY <1>8, <1>9, <1>10, <1>11, <1>12, <1>13

-----------------------------------------------------------------------------
(* Verdicts, and what they write.                                           *)

LEMMA StopInv ==
  ASSUME GroupInv, NEW status \in Status \ {"none", "running", "complete"}, Stop(status),
         Fitting(status), ~Settled, At("judge") \/ (At("drive") /\ ~UnderCap)
  PROVE  GroupInv'
<1> USE DEF GroupInv, Stop, Write, At, Go, diskVars
<1>1. GroupTypeOK' BY SameRuns DEF GroupTypeOK, GroupPhases
<1>2. FileInv' BY DEF FileInv, Fitting, Readable, Is
<1>3. Len(completed) >= 1 /\ Len(completed) <= Len(file.entries) + 1
  <2>1. CASE At("judge")
    <3>1. Len(completed) = Len(file.entries) + (IF inPlace THEN 0 ELSE 1)
      BY <2>1 DEF MemoryInv
    <3>2. Len(completed) >= 1 BY <2>1 DEF MemoryInv, Resumed
    <3>3. CASE inPlace BY <3>1, <3>2, <3>3, Lengths
    <3>4. CASE ~inPlace BY <3>1, <3>2, <3>4, Lengths
    <3> QED BY <3>3, <3>4
  <2>2. CASE At("drive") /\ ~UnderCap
    <3>1. Len(completed) = Len(file.entries) /\ Len(completed) >= spec.cap
      BY <2>2, Lengths, SpecFacts DEF MemoryInv, UnderCap
    <3> QED BY <3>1, Lengths, SpecFacts
  <2> QED BY <2>1, <2>2
<1>4. MemoryInv' BY <1>3 DEF MemoryInv, Resumed, Fresh, Settled
<1>5. CountInv' BY DEF CountInv, MemoryInv, Fresh
<1>6. OrderInv' BY DEF OrderInv, Ascending
<1>7. FinishedInv' BY DEF FinishedInv, NoRoundOnUnfinished, Finished, Fresh
<1> QED BY <1>1, <1>2, <1>4, <1>5, <1>6, <1>7

(* A round whose Run succeeded completes the list.                          *)
LEMMA JudgedFinished ==
  ASSUME GroupInv, At("judge"), runs[current].status = "succeeded"
  PROVE  /\ Finished(completed, Len(completed))
         /\ Len(completed) >= 1 /\ ~Settled /\ file.status # "torn"
         /\ inPlace => Len(completed) = Len(file.entries)
         /\ ~inPlace => Len(completed) = Len(file.entries) + 1
<1>1. Len(completed) >= 1 /\ current = completed[Len(completed)].run
  BY DEF GroupInv, MemoryInv, Resumed, At
<1>2. \A i \in 1..(Len(completed) - 1) : runs[completed[i].run].status = "succeeded"
  BY DEF GroupInv, FinishedInv, Finished
<1>3. Finished(completed, Len(completed))
  BY <1>1, <1>2, Lengths DEF GroupInv, Finished
<1>4. ~Settled /\ file.status # "torn" BY DEF GroupInv, MemoryInv, At
<1>5. inPlace => Len(completed) = Len(file.entries)
  BY Lengths DEF GroupInv, MemoryInv, At
<1>6. ~inPlace => Len(completed) = Len(file.entries) + 1
  BY Lengths DEF GroupInv, MemoryInv, At
<1> QED BY <1>1, <1>3, <1>4, <1>5, <1>6

(* Going on: the next round is made at once, or after a write.              *)
LEMMA GoesOnInv ==
  ASSUME GroupInv, At("judge"), runs[current].status = "succeeded",
         feedback' \in {0} \cup RunNumbers,
         completed' \in Seq(RoundShape), Len(completed') = Len(completed),
         \A i \in 1..Len(completed) : completed'[i].run = completed[i].run,
         \/ /\ ~inPlace
            /\ \E status \in {"running", "complete"} :
                 /\ Write(status)
                 /\ status = "complete" => Is("tournament") /\ ~UnderCap
         \/ /\ inPlace /\ Go("drive")
            /\ UNCHANGED <<spec, diskVars, current, inPlace, pending, returned, kills>>
  PROVE  GroupInv'
<1> USE DEF GroupInv, At, Go, diskVars
<1> DEFINE n == Len(completed)
<1>1. UNCHANGED <<spec, diskVars, current, inPlace, returned, kills>> BY DEF Write
<1>2. /\ phase' = "drive" /\ inPlace /\ pending' = pending
      \/ /\ phase' = "persist" /\ ~inPlace /\ pending' \in {"running", "complete"}
         /\ pending' = "complete" => Is("tournament") /\ ~UnderCap
  BY DEF Write
<1>3. GroupTypeOK'
  BY <1>1, <1>2, SameRuns DEF GroupTypeOK, GroupPhases, Status
<1>4. FileInv' BY <1>1, <1>2 DEF FileInv, Fitting, Readable, Is
<1>5. MemoryInv'
  <2>1. n <= spec.cap /\ Len(file.entries) <= n BY DEF MemoryInv
  <2>2. ~Settled' /\ ~Fresh' /\ ~Resumed' /\ (UnderCap' <=> UnderCap)
    BY <1>1, <1>2, JudgedFinished DEF Settled, Fresh, Resumed, UnderCap
  <2>3. CASE inPlace BY <1>1, <1>2, <2>1, <2>2, <2>3, JudgedFinished DEF MemoryInv
  <2>4. CASE ~inPlace
    <3>1. n = Len(file.entries) + 1 /\ n >= 1 BY <2>4, JudgedFinished
    <3>2. pending' # "none" BY <1>2, <2>4
    <3> QED BY <1>1, <1>2, <2>1, <2>2, <2>4, <3>1, <3>2, JudgedFinished, Lengths DEF MemoryInv
  <2> QED BY <2>3, <2>4
<1>6. CountInv' BY <1>1, <1>2, JudgedFinished DEF CountInv, Fresh
<1>7. OrderInv'
  <2>1. Len(file.entries) <= n BY DEF MemoryInv
  <2> QED BY <1>1, <2>1, Lengths DEF OrderInv, Ascending
<1>8. FinishedInv'
  <2>1. \A i \in 1..n : runs[completed'[i].run].status = "succeeded"
    BY JudgedFinished DEF Finished
  <2>2. \A i \in 1..(n - 1) : runs[completed'[i].run].status = "succeeded"
    BY <2>1, Lengths
  <2> QED BY <1>1, <2>1, <2>2 DEF FinishedInv, NoRoundOnUnfinished, Finished
<1> QED BY <1>3, <1>4, <1>5, <1>6, <1>7, <1>8

LEMMA ContinueInv ==
  ASSUME GroupInv, At("judge"), runs[current].status = "succeeded", Continue
  PROVE  GroupInv'
<1>1. feedback' \in {0} \cup RunNumbers
  BY CurrentIsLast DEF Continue, FeedbackValue, Resumed, At
<1>2. completed' = completed /\ completed' \in Seq(RoundShape)
  BY DEF Continue, GroupInv, GroupTypeOK
<1> QED BY <1>1, <1>2, GoesOnInv DEF Continue

LEMMA RoundWonInv ==
  ASSUME GroupInv, RoundWon PROVE GroupInv'
<1> USE DEF RoundWon
<1> DEFINE n == Len(completed)
           round == [completed[n] EXCEPT !.promoted = RoundWinner(current)]
<1>1. runs[current].status = "succeeded" /\ RoundWinner(current) = current
  BY DEF RoundWinner
<1>2. current \in RunNumbers BY CurrentIsLast DEF Resumed, At
<1>3. feedback' \in {0} \cup RunNumbers BY <1>2 DEF FeedbackValue
<1>4. n \in Nat /\ n >= 1 /\ n \in 1..n
  <2>1. n >= 1 BY <1>1, JudgedFinished
  <2>2. n \in Nat BY Lengths DEF GroupInv
  <2> QED BY <2>1, <2>2
<1>5. completed[n] \in RoundShape BY <1>4, Elements DEF GroupInv
<1>6. round \in RoundShape /\ round.run = completed[n].run
  BY <1>1, <1>2, <1>5 DEF RoundShape
<1>7. completed' = [completed EXCEPT ![n] = round] OBVIOUS
<1> HIDE DEF round
<1>8. completed \in Seq(RoundShape) BY DEF GroupInv, GroupTypeOK
<1>9. /\ completed' \in Seq(RoundShape) /\ Len(completed') = n
      /\ \A i \in 1..n : completed'[i].run = completed[i].run
  BY <1>4, <1>6, <1>7, <1>8, ExceptSeq
<1> QED BY <1>1, <1>3, <1>9, GoesOnInv

LEMMA PersistInv ==
  ASSUME GroupInv, Persist PROVE GroupInv'
<1> USE DEF GroupInv, Persist, Leave, At, Go
<1>0. /\ file'.status = pending /\ file'.entries = completed
      /\ file'.winner = LastNamed(completed)
      /\ file' = [status |-> pending, entries |-> completed, winner |-> LastNamed(completed)]
  BY DEF Document
<1>1. /\ pending \in Status \ {"none"} /\ Len(completed) >= 1
      /\ pending = "complete" => ~UnderCap
  BY DEF MemoryInv, GroupTypeOK
<1>2. UNCHANGED <<spec, runs, kills>> OBVIOUS
<1>3. /\ pending \in {"running", "complete"} /\ phase' = "drive"
         /\ UNCHANGED <<memoryVars, returned>>
      \/ /\ pending \notin {"running", "complete"} /\ phase' = "idle"
         /\ completed' = <<>> /\ feedback' = 0 /\ current' = 0 /\ inPlace' = FALSE
         /\ pending' = "none" /\ returned' = [status |-> pending, winner |-> 0]
  OBVIOUS
<1>4. GroupTypeOK'
  <2>1. completed \in Seq(RoundShape) BY DEF GroupTypeOK
  <2>2. LastNamed(completed) \in {0} \cup RunNumbers BY <2>1, LastNamedTyped
  <2>3. file' \in [status : FileStatus, entries : Seq(RoundShape), winner : {0} \cup RunNumbers]
    BY <1>0, <1>1, <2>1, <2>2 DEF FileStatus
  <2>4. completed' \in Seq(RoundShape) BY <1>3, <2>1, EmptySeq DEF memoryVars
  <2>5. returned' \in [status : Status, winner : {0} \cup RunNumbers]
    BY <1>1, <1>3 DEF GroupTypeOK
  <2>6. /\ phase' \in GroupPhases /\ feedback' \in {0} \cup RunNumbers
        /\ current' \in {0} \cup RunNumbers /\ inPlace' \in BOOLEAN /\ pending' \in Status
    BY <1>3 DEF GroupTypeOK, GroupPhases, Status, memoryVars
  <2>7. runs' \in Seq(RunShape') /\ spec' \in Specs /\ kills' \in 0..MaxKills
    BY <1>2, SameRuns DEF GroupTypeOK
  <2> QED BY <1>2, <2>3, <2>4, <2>5, <2>6, <2>7, SameRuns DEF GroupTypeOK
<1>5. FileInv'
  <2>1. Readable' BY <1>0, <1>1 DEF Readable, Status
  <2>2. Len(completed) <= spec.cap BY DEF MemoryInv
  <2>3. Fitting(file.status)' /\ Fitting(pending)'
    BY <1>0, <1>2, <1>3 DEF FileInv, Fitting, Is, memoryVars
  <2> QED BY <1>0, <1>1, <1>2, <2>1, <2>2, <2>3 DEF FileInv
<1>6. MemoryInv'
  <2>1. Len(completed) <= spec.cap BY DEF MemoryInv
  <2>2. CASE phase' = "idle" BY <1>3, <2>2 DEF MemoryInv, Resumed, Fresh
  <2>3. CASE phase' = "drive"
    <3>1. UNCHANGED memoryVars /\ pending \in {"running", "complete"} BY <1>3, <2>3
    <3>2. Settled' => file'.status = "complete" /\ ~UnderCap'
      BY <1>0, <1>1, <1>2, <3>1 DEF Settled, UnderCap, memoryVars
    <3> QED BY <1>0, <1>1, <1>2, <2>1, <2>3, <3>1, <3>2, Lengths
            DEF MemoryInv, Resumed, Fresh, Status, memoryVars
  <2> QED BY <1>3, <2>2, <2>3
<1>7. CountInv'
  <2>1. Len(runs) <= Len(completed) + kills BY DEF CountInv, Fresh
  <2>2. file'.status # "torn" BY <1>0, <1>1 DEF Status
  <2> QED BY <1>0, <1>2, <1>3, <2>1, <2>2 DEF CountInv, Fresh, memoryVars
<1>8. OrderInv' BY <1>0, <1>3 DEF OrderInv, Ascending, memoryVars
<1>9. FinishedInv'
  <2>1. NoRoundOnUnfinished' BY <1>0, <1>2 DEF FinishedInv, NoRoundOnUnfinished, Finished
  <2>2. CASE phase' = "idle"
    BY <1>3, <2>1, <2>2 DEF FinishedInv, Finished, Fresh
  <2>3. CASE phase' = "drive"
    BY <1>2, <1>3, <2>1, <2>3 DEF FinishedInv, Finished, memoryVars
  <2> QED BY <1>3, <2>2, <2>3
<1> QED BY <1>4, <1>5, <1>6, <1>7, <1>8, <1>9

-----------------------------------------------------------------------------
(* The controllers' own steps are those above.                              *)

LEMMA SettledAtCap ==
  ASSUME GroupInv, At("drive"), ~Is("tournament") PROVE ~Settled
BY DEF GroupInv, MemoryInv, FileInv, Fitting, At, Is

LEMMA CapReachedInv ==
  ASSUME GroupInv, NEW status \in Status \ {"none", "running", "complete"}, Fitting(status),
         ~Is("tournament"), CapReached(status)
  PROVE  GroupInv'
BY SettledAtCap, StopInv DEF CapReached

(* A verdict is "none" only over a Run that succeeded.                      *)
LEMMA JudgeInv ==
  ASSUME GroupInv, NEW verdict \in Status \ {"running", "complete"}, Fitting(verdict),
         At("judge"), verdict = "none" => runs[current].status = "succeeded",
         Judge(verdict)
  PROVE  GroupInv'
<1>1. ~Settled BY DEF GroupInv, MemoryInv, At
<1>2. CASE verdict = "none" BY <1>2, ContinueInv DEF Judge
<1>3. CASE verdict # "none" BY <1>1, <1>3, StopInv DEF Judge
<1> QED BY <1>2, <1>3

LEMMA ReloadedSettled ==
  ASSUME GroupInv
  PROVE  /\ Is("loop") => (Settled => file.status \in LoopFinal)
         /\ Is("verify") => (Settled => file.status \in VerifyFinal)
         /\ Is("tournament") => (Settled => file.status \in TournamentFinal)
BY DEF GroupInv, FileInv, Fitting, Settled, Is, LoopFinal, VerifyFinal, TournamentFinal

LEMMA LoopInv ==
  ASSUME GroupInv, RunLoop \/ ResumeLoop \/ LoopDrive PROVE GroupInv'
<1>1. CASE RunLoop BY <1>1, BeginInv DEF RunLoop
<1>2. CASE ResumeLoop BY <1>2, ReloadInv, ReloadedSettled DEF ResumeLoop
<1>3. CASE LoopRound BY <1>3, MaterializeInv DEF LoopRound
<1>4. CASE LoopRefuses BY <1>4, RefuseInv DEF LoopRefuses
<1>5. CASE LoopJudges
  <2> DEFINE verdict == IterationVerdict(current)
  <2>1. verdict \in {"failed", "done", "none"} BY DEF IterationVerdict
  <2>2. verdict = "none" => runs[current].status = "succeeded" BY DEF IterationVerdict
  <2>3. Is("loop") /\ At("judge") /\ Judge(verdict) BY <1>5 DEF LoopJudges
  <2> HIDE DEF verdict
  <2>4. verdict \in Status \ {"running", "complete"} /\ Fitting(verdict)
    BY <2>1, <2>3 DEF Status, Fitting
  <2> QED BY <2>2, <2>3, <2>4, JudgeInv
<1>6. CASE LoopExhausts
  BY <1>6, CapReachedInv DEF LoopExhausts, Status, Fitting, Is
<1>7. CASE LoopGoesOn
  <2>1. current \in RunNumbers BY <1>7, CurrentIsLast DEF LoopGoesOn, GoOn, Resumed, At
  <2> QED BY <1>7, <2>1, GoOnInv DEF LoopGoesOn, FeedbackValue
<1> QED BY <1>1, <1>2, <1>3, <1>4, <1>5, <1>6, <1>7 DEF LoopDrive

LEMMA VerificationInv ==
  ASSUME GroupInv, RunVerification \/ ResumeVerification \/ VerifyDrive PROVE GroupInv'
<1>1. CASE RunVerification BY <1>1, BeginInv DEF RunVerification
<1>2. CASE ResumeVerification BY <1>2, ReloadInv, ReloadedSettled DEF ResumeVerification
<1>3. CASE VerifyRound BY <1>3, MaterializeInv DEF VerifyRound
<1>4. CASE VerifyRefuses BY <1>4, RefuseInv DEF VerifyRefuses
<1>5. CASE VerifyJudges
  <2> DEFINE verdict == VerificationVerdict(current)
  <2>1. verdict \in {"failed", "accepted", "rejected", "none"} BY DEF VerificationVerdict
  <2>2. verdict = "none" => runs[current].status = "succeeded" BY DEF VerificationVerdict
  <2>3. Is("verify") /\ At("judge") /\ Judge(verdict) BY <1>5 DEF VerifyJudges
  <2> HIDE DEF verdict
  <2>4. verdict \in Status \ {"running", "complete"} /\ Fitting(verdict)
    BY <2>1, <2>3 DEF Status, Fitting
  <2> QED BY <2>2, <2>3, <2>4, JudgeInv
<1>6. CASE VerifyExhausts
  BY <1>6, CapReachedInv DEF VerifyExhausts, Status, Fitting, Is
<1>7. CASE VerifyGoesOn
  <2>1. current \in RunNumbers BY <1>7, CurrentIsLast DEF VerifyGoesOn, GoOn, Resumed, At
  <2> QED BY <1>7, <2>1, GoOnInv DEF VerifyGoesOn, FeedbackValue
<1> QED BY <1>1, <1>2, <1>3, <1>4, <1>5, <1>6, <1>7 DEF VerifyDrive

LEMMA TournamentInv ==
  ASSUME GroupInv, RunTournament \/ ResumeTournament \/ TournamentDrive PROVE GroupInv'
<1>0. LastWinner \in {0} \cup RunNumbers
  <2>1. completed = <<>> \/ Len(completed) >= 1
    BY Lengths, EmptySeq DEF GroupInv, GroupTypeOK
  <2>2. Len(completed) >= 1 => LastRound.promoted \in {0} \cup RunNumbers
    BY Lengths, Elements DEF GroupInv, LastRound, RoundShape
  <2> QED BY <2>1, <2>2 DEF LastWinner
<1>1. CASE RunTournament BY <1>1, BeginInv DEF RunTournament
<1>2. CASE ResumeTournament BY <1>2, ReloadInv, ReloadedSettled DEF ResumeTournament
<1>3. CASE TournamentRound
  BY <1>0, <1>3, MaterializeInv DEF TournamentRound, Promoted
<1>4. CASE TournamentRefuses BY <1>4, RefuseInv DEF TournamentRefuses
<1>5. CASE RoundLost
  <2>1. ~Settled /\ At("judge") /\ Stop("failed")
    BY <1>5 DEF RoundLost, GroupInv, MemoryInv, At
  <2> QED BY <2>1, StopInv DEF Status, Fitting
<1>6. CASE RoundWon BY <1>6, RoundWonInv
<1>7. CASE TournamentReturns BY <1>7, TournamentReturnsInv
<1>8. CASE TournamentGoesOn
  <2>1. current \in RunNumbers
    BY <1>8, CurrentIsLast DEF TournamentGoesOn, GoOn, Resumed, At
  <2> QED BY <1>8, <2>1, GoOnInv DEF TournamentGoesOn, FeedbackValue
<1> QED BY <1>1, <1>2, <1>3, <1>4, <1>5, <1>6, <1>7, <1>8 DEF TournamentDrive

(* The start.                                                               *)
LEMMA GroupInitInv ==
  ASSUME GroupInit PROVE GroupInv
<1> USE DEF GroupInit, NoFile
<1>1. GroupTypeOK
  <2>1. runs \in Seq(RunShape) /\ completed \in Seq(RoundShape) BY EmptySeq
  <2>2. file \in [status : FileStatus, entries : Seq(RoundShape), winner : {0} \cup RunNumbers]
    BY EmptySeq DEF FileStatus
  <2>3. kills \in 0..MaxKills BY KillsAssumption
  <2> QED BY <2>1, <2>2, <2>3 DEF GroupTypeOK, GroupPhases, Status, NoResult
<1>2. FileInv BY <1>1, SpecFacts DEF FileInv, Fitting, Readable
<1>3. MemoryInv BY DEF MemoryInv, At, Resumed, Fresh
<1>4. CountInv BY <1>1, SpecFacts DEF CountInv, At, Fresh
<1>5. OrderInv BY DEF OrderInv, Ascending, At
<1>6. FinishedInv BY DEF FinishedInv, NoRoundOnUnfinished, Finished, At, Fresh
<1> QED BY <1>1, <1>2, <1>3, <1>4, <1>5, <1>6 DEF GroupInv

LEMMA GroupStepInv ==
  ASSUME GroupInv, [GroupNext]_groupVars PROVE GroupInv'
<1>1. CASE Drive
  <2>1. CASE LoopDrive BY <2>1, LoopInv
  <2>2. CASE VerifyDrive BY <2>2, VerificationInv
  <2>3. CASE TournamentDrive BY <2>3, TournamentInv
  <2>4. CASE ResumeLast BY <2>4, ResumeLastInv
  <2>5. CASE Record BY <2>5, RecordInv
  <2>6. CASE Persist BY <2>6, PersistInv
  <2> QED BY <1>1, <2>1, <2>2, <2>3, <2>4, <2>5, <2>6 DEF Drive
<1>2. CASE RunEnds BY <1>2, RunSucceedsInv, RunFallsShortInv DEF RunEnds
<1>3. CASE Invoke
  BY <1>3, LoopInv, VerificationInv, TournamentInv DEF Invoke, ResumeGroup
<1>4. CASE Dying BY <1>4, KillDriveInv, KillWriteInv, RunRaisesInv DEF Dying
<1>5. CASE UNCHANGED groupVars
  <2> USE <1>5 DEF groupVars, diskVars, memoryVars
  <2>1. GroupTypeOK' BY SameRuns DEF GroupInv, GroupTypeOK
  <2>2. FileInv' BY DEF GroupInv, FileInv, Fitting, Readable, Is
  <2>3. MemoryInv'
    BY DEF GroupInv, MemoryInv, At, Resumed, Fresh, Settled, UnderCap
  <2>4. CountInv' BY DEF GroupInv, CountInv, At, Fresh
  <2>5. OrderInv' BY DEF GroupInv, OrderInv, Ascending, At
  <2>6. FinishedInv'
    BY DEF GroupInv, FinishedInv, NoRoundOnUnfinished, Finished, At, Fresh
  <2> QED BY <2>1, <2>2, <2>3, <2>4, <2>5, <2>6 DEF GroupInv
<1> QED BY <1>1, <1>2, <1>3, <1>4, <1>5 DEF GroupNext, GroupAtRest

(* The inductive invariant of a Run Group: what the controller knows of its *)
(* rounds, what group.json says of them and how many Runs there are fit     *)
(* together at every point where it may be killed.                          *)
THEOREM GroupInvHolds == GroupSafety => []GroupInv
<1>1. GroupInit => GroupInv BY GroupInitInv
<1>2. GroupInv /\ [GroupNext]_groupVars => GroupInv' BY GroupStepInv
<1> QED BY <1>1, <1>2, PTL DEF GroupSafety

(* All that a Run Group has on record exists, for any number of kills.      *)
THEOREM GroupTypeCorrect == GroupSafety => []GroupTypeOK
<1>1. GroupInv => GroupTypeOK BY DEF GroupInv
<1> QED BY <1>1, GroupInvHolds, PTL

(* No round stands on an unfinished one, whatever the cap and however often *)
(* the controller is killed and resumed.                                    *)
THEOREM NoRoundOnUnfinishedHolds == GroupSafety => []NoRoundOnUnfinished
<1>1. GroupInv => NoRoundOnUnfinished BY DEF GroupInv, FinishedInv
<1> QED BY <1>1, GroupInvHolds, PTL

(* A group costs no more Runs than its cap, and one for every kill.         *)
THEOREM RunsBoundedHolds == GroupSafety => []RunsBounded
<1>1. ASSUME GroupInv PROVE RunsBounded
  <2> USE <1>1 DEF GroupInv
  <2>1. /\ Len(runs) \in Nat /\ Len(completed) \in Nat /\ Len(file.entries) \in Nat
        /\ kills \in Nat /\ spec.cap \in Nat
    BY Lengths, SpecFacts
  <2>2. CASE At("idle")
    <3>1. Len(file.entries) <= spec.cap BY DEF FileInv
    <3> QED BY <2>1, <2>2, <3>1 DEF CountInv, RunsBounded
  <2>3. CASE ~At("idle") /\ ~Fresh
    <3>1. Len(completed) <= spec.cap BY <2>3 DEF MemoryInv
    <3> QED BY <2>1, <2>3, <3>1 DEF CountInv, RunsBounded
  <2>4. CASE Fresh
    <3>1. Len(completed) + 1 <= spec.cap BY <2>1, <2>4 DEF MemoryInv, UnderCap
    <3> QED BY <2>1, <2>4, <3>1 DEF CountInv, RunsBounded
  <2> QED BY <2>2, <2>3, <2>4
<1> QED BY <1>1, GroupInvHolds, PTL

-----------------------------------------------------------------------------
(* What each step leaves alone: only Persist and KillWrite touch group.json,*)
(* and only five steps a Run.                                               *)
LEMMA LeftAlone ==
  ASSUME [GroupNext]_groupVars
  PROVE  /\ spec' = spec
         /\ Persist \/ KillWrite \/ file' = file
         /\ \/ At("load") \/ At("execute") \/ At("record") \/ (At("drive") /\ UnderCap)
            \/ runs' = runs
BY DEF GroupNext, Drive, RunEnds, Invoke, Dying, GroupAtRest, groupVars, diskVars,
       LoopDrive, VerifyDrive, TournamentDrive, ResumeGroup,
       RunLoop, ResumeLoop, LoopRound, LoopRefuses, LoopJudges, LoopExhausts, LoopGoesOn,
       RunVerification, ResumeVerification, VerifyRound, VerifyRefuses, VerifyJudges,
       VerifyExhausts, VerifyGoesOn, RunTournament, ResumeTournament, TournamentRound,
       TournamentRefuses, RoundLost, RoundWon, TournamentReturns, TournamentGoesOn,
       Begin, Reload, ResumeLast, GoOn, Materialize, Refuse, RunSucceeds, RunFallsShort,
       Record, Judge, Continue, Stop, Write, CapReached, Persist, KillDrive, KillWrite,
       RunRaises

LEMMA PersistedStanding ==
  ASSUME GroupInv, Persist
  PROVE  /\ Standing \in {"absent", "open", "failed"}
         /\ Len(file.entries) >= 1 => Standing \in {"open", "failed"}
         /\ Standing' \in {"open", "failed", "settled"}
         /\ Standing' = "open" => Len(completed) = Len(file.entries) + 1
         /\ Len(file'.entries) = Len(completed)
         /\ \/ Len(completed) = Len(file.entries) + 1 /\ Len(file.entries) < spec.cap
            \/ Len(completed) = Len(file.entries) /\ Len(file.entries) >= 1
<1> USE DEF GroupInv, Persist, At
<1>1. file'.status = pending /\ file'.entries = completed BY DEF Document
<1>2. pending \in Status \ {"none"} BY DEF MemoryInv, GroupTypeOK
<1>3. /\ file.status \in FileStatus /\ file.status # "torn" /\ ~Settled
      /\ Readable <=> Len(file.entries) >= 1
  BY DEF MemoryInv, GroupTypeOK, FileInv
<1>4. file.status \in {"absent", "failed", "running"}
  BY <1>3 DEF FileStatus, Status, Settled
<1>5. Standing \in {"absent", "open", "failed"} BY <1>4 DEF Standing
<1>6. Len(file.entries) >= 1 => Standing \in {"open", "failed"}
  BY <1>3, <1>4 DEF Standing, Readable
<1>7. Standing' \in {"open", "failed", "settled"} BY <1>1, <1>2 DEF Standing, Status
<1>8. Standing' = "open" => pending = "running" BY <1>1, <1>2 DEF Standing, Status
<1>9. /\ Len(completed) >= 1 /\ Len(completed) <= Len(file.entries) + 1
      /\ pending = "running" => Len(completed) = Len(file.entries) + 1
      /\ Len(completed) <= spec.cap /\ Len(file.entries) <= Len(completed)
  BY DEF MemoryInv
<1>10. \/ Len(completed) = Len(file.entries) + 1 /\ Len(file.entries) < spec.cap
       \/ Len(completed) = Len(file.entries) /\ Len(file.entries) >= 1
  <2>1. /\ Len(completed) \in Nat /\ Len(file.entries) \in Nat /\ spec.cap \in Nat
    BY Lengths, SpecFacts
  <2> QED BY <1>9, <2>1
<1> QED BY <1>1, <1>5, <1>6, <1>7, <1>8, <1>9, <1>10

(* Every step of a controller is a step of the lifecycle, or none.          *)
LEMMA LifecycleStep ==
  ASSUME GroupInv, [GroupNext]_groupVars
  PROVE  [Lifecycle!Next]_<<spec.cap, Standing, Len(file.entries)>>
<1> USE DEF Lifecycle!Next, Lifecycle!Unsettled
<1>0. spec'.cap = spec.cap BY LeftAlone
<1>1. CASE Persist
  <2>1. CASE Len(completed) = Len(file.entries) + 1
    <3>1. Lifecycle!PutOnRecord
      BY <1>0, <1>1, <2>1, PersistedStanding, Lengths DEF Lifecycle!PutOnRecord, GroupInv
    <3> QED BY <3>1
  <2>2. CASE Len(completed) = Len(file.entries)
    <3>1. Standing' # "open" BY <1>1, <2>2, PersistedStanding, Lengths DEF GroupInv
    <3>2. Len(file.entries) >= 1 BY <1>1, <2>2, PersistedStanding, Lengths DEF GroupInv
    <3>3. Lifecycle!JudgeAgain
      BY <1>0, <1>1, <2>2, <3>1, <3>2, PersistedStanding DEF Lifecycle!JudgeAgain
    <3> QED BY <3>3
  <2> QED BY <1>1, <2>1, <2>2, PersistedStanding
<1>2. CASE KillWrite
  <2>1. file' = [status |-> "torn", entries |-> <<>>, winner |-> 0]
    BY <1>2 DEF KillWrite, Torn, NoFile
  <2>2. Standing' = "lost" /\ Len(file'.entries) = 0 BY <2>1 DEF Standing
  <2>3. file.status \in {"absent", "failed", "running"}
    BY <1>2 DEF KillWrite, GroupInv, MemoryInv, GroupTypeOK, FileStatus, Status, Settled, At
  <2>4. Standing \in {"absent", "open", "failed"} BY <2>3 DEF Standing
  <2>5. Lifecycle!Lose BY <1>0, <2>2, <2>4 DEF Lifecycle!Lose
  <2> QED BY <2>5
<1>3. CASE ~Persist /\ ~KillWrite
  BY <1>0, <1>3, LeftAlone DEF Standing
<1> QED BY <1>1, <1>2, <1>3

(* The controllers, killed and resumed at will, implement the lifecycle.    *)
THEOREM LifecycleImplemented == GroupSafety => RefinesGroupLifecycle
<1>1. GroupInit => Lifecycle!Init
  BY DEF GroupInit, NoFile, Lifecycle!Init, Standing
<1>2. GroupInv /\ [GroupNext]_groupVars =>
        [Lifecycle!Next]_<<spec.cap, Standing, Len(file.entries)>>
  BY LifecycleStep
<1> QED BY <1>1, <1>2, GroupInvHolds, PTL DEF GroupSafety, RefinesGroupLifecycle, Lifecycle!Spec

(* A settled group is left alone by every later step, resumes included.     *)
THEOREM SettledStaysHolds == GroupSafety => SettledStays
<1>1. ASSUME GroupInv, [GroupNext]_groupVars, Settled PROVE UNCHANGED diskVars
  <2>1. At("idle") \/ (At("drive") /\ ~UnderCap) BY <1>1 DEF GroupInv, MemoryInv
  <2>2. /\ ~At("load") /\ ~At("execute") /\ ~At("record") /\ ~At("persist")
        /\ ~(At("drive") /\ UnderCap)
    BY <2>1 DEF At
  <2>3. file' = file BY <1>1, <2>2, LeftAlone DEF Persist, KillWrite
  <2>4. runs' = runs BY <1>1, <2>2, LeftAlone
  <2> QED BY <2>3, <2>4 DEF diskVars
<1>2. GroupInv /\ [GroupNext]_groupVars => [Settled => UNCHANGED diskVars]_groupVars
  BY <1>1
<1> QED BY <1>2, GroupInvHolds, PTL DEF GroupSafety, SettledStays

-----------------------------------------------------------------------------
(* What passes from round to round.                                         *)

FedRight(rounds) ==
  \A i \in 1..Len(rounds) :
    LET r == rounds[i].run
    IN /\ runs[r].fed = Due(rounds, i).fed
       /\ runs[r].promoted = Due(rounds, i).promoted
       /\ runs[r].position = i

Next1 == Len(completed) + 1

FeedInv ==
  /\ FedRight(file.entries)
  /\ At("idle") => feedback = 0
  /\ ~At("idle") => FedRight(completed)
  /\ At("drive") \/ Fresh \/ (At("persist") /\ pending \in {"running", "complete"}) =>
       feedback = Due(completed, Next1).fed
  /\ Fresh =>
       /\ runs[current].fed = feedback
       /\ runs[current].promoted = Due(completed, Next1).promoted
  /\ At("judge") =>
       completed[Len(completed)].ok = (runs[current].status = "succeeded")
  /\ ~Is("tournament") =>
       /\ \A i \in 1..Len(completed) : completed[i].promoted = 0
       /\ \A i \in 1..Len(file.entries) : file.entries[i].promoted = 0

-----------------------------------------------------------------------------
(* Steps that leave the Runs alone.                                         *)

LEMMA BeginFeed ==
  ASSUME GroupInv, FeedInv, Begin PROVE FeedInv'
<1>1. completed = <<>> /\ file = NoFile /\ feedback = 0 /\ Len(completed) = 0
  BY DEF GroupInv, MemoryInv, FeedInv, Begin, At
<1>2. /\ completed' = <<>> /\ file' = NoFile /\ feedback' = 0 /\ phase' = "drive"
      /\ spec' = spec
  BY <1>1 DEF Begin, diskVars, memoryVars, Go
<1>3. Next1' = 1 BY <1>2 DEF Next1
<1>4. Due(completed, Next1)'.fed = 0 BY <1>3 DEF Due
<1> QED BY <1>2, <1>4 DEF FeedInv, FedRight, Fresh, At, NoFile

LEMMA ReloadFeed ==
  ASSUME GroupInv, FeedInv, NEW final, Reload(final) PROVE FeedInv'
<1>1. /\ completed' = file.entries /\ file' = file /\ runs' = runs /\ spec' = spec
      /\ phase' = "load"
  BY DEF Reload, diskVars, Go
<1> QED BY <1>1 DEF FeedInv, FedRight, Due, FeedbackValue, Output, Is, Fresh, At

(* The round after the last, when the value at hand is that of its Run.     *)
LEMMA NextIsFed ==
  ASSUME GroupInv, Resumed, Is("tournament") => LastRound.ok
  PROVE  Due(completed, Next1).fed = FeedbackValue(current)
<1>1. Len(completed) \in Nat /\ Len(completed) >= 1
      /\ current = completed[Len(completed)].run
  BY Lengths DEF GroupInv, MemoryInv
<1>2. Next1 # 1 /\ Next1 - 1 = Len(completed) BY <1>1 DEF Next1
<1> QED BY <1>1, <1>2 DEF Due, LastRound

LEMMA GoOnFeed ==
  ASSUME GroupInv, FeedInv, NEW value, GoOn(value), value = Due(completed, Next1).fed
  PROVE  FeedInv'
<1>1. /\ completed' = completed /\ file' = file /\ runs' = runs /\ spec' = spec
      /\ phase' = "drive" /\ phase = "load" /\ feedback' = value
  BY DEF GoOn, diskVars, Go, At
<1> QED BY <1>1 DEF FeedInv, FedRight, Due, FeedbackValue, Output, Is, Fresh, At, Next1

LEMMA LeaveFeed ==
  ASSUME GroupInv, FeedInv, Leave, UNCHANGED <<spec, runs>>,
         file' = file \/ Len(file'.entries) = 0
  PROVE  FeedInv'
<1>1. completed' = <<>> /\ feedback' = 0 /\ phase' = "idle" BY DEF Leave, Go
<1>2. FedRight(file.entries)'
  <2>1. CASE file' = file
    BY <2>1 DEF FeedInv, FedRight, Due, FeedbackValue, Output, Is
  <2>2. CASE Len(file'.entries) = 0 BY <2>2 DEF FedRight
  <2> QED BY <2>1, <2>2
<1>3. ~Is("tournament")' => \A i \in 1..Len(file'.entries) : file'.entries[i].promoted = 0
  <2>1. CASE file' = file BY <2>1 DEF FeedInv, Is
  <2>2. CASE Len(file'.entries) = 0 BY <2>2
  <2> QED BY <2>1, <2>2
<1> QED BY <1>1, <1>2, <1>3 DEF FeedInv, Fresh, At

LEMMA WriteFeed ==
  ASSUME GroupInv, FeedInv, NEW status \in Status \ {"none", "running", "complete"},
         Stop(status), ~At("idle")
  PROVE  FeedInv'
<1>1. /\ completed' = completed /\ feedback' = feedback /\ file' = file /\ runs' = runs
      /\ spec' = spec /\ phase' = "persist" /\ pending' = status
  BY DEF Stop, Write, diskVars, Go
<1> QED BY <1>1 DEF FeedInv, FedRight, Due, FeedbackValue, Output, Is, Fresh, At

(* Going on after a verdict.                                                *)
LEMMA ContinueFeed ==
  ASSUME GroupInv, FeedInv, At("judge"), Continue, ~Is("tournament") PROVE FeedInv'
<1>1. /\ completed' = completed /\ feedback' = FeedbackValue(current) /\ file' = file
      /\ runs' = runs /\ spec' = spec /\ phase' \in {"persist", "drive"}
  BY DEF Continue, Write, diskVars, Go
<1>2. feedback' = Due(completed, Next1).fed BY <1>1, NextIsFed DEF Resumed, At
<1> QED BY <1>1, <1>2 DEF FeedInv, FedRight, Due, FeedbackValue, Output, Is, Fresh, At, Next1

LEMMA PersistFeed ==
  ASSUME GroupInv, FeedInv, Persist PROVE FeedInv'
<1>1. /\ file'.entries = completed /\ runs' = runs /\ spec' = spec /\ phase = "persist"
  BY DEF Persist, Document, At
<1>2. \/ /\ pending \in {"running", "complete"} /\ phase' = "drive"
         /\ completed' = completed /\ feedback' = feedback
      \/ completed' = <<>> /\ feedback' = 0 /\ phase' = "idle"
  BY DEF Persist, memoryVars, Leave, Go
<1>3. FedRight(completed) BY <1>1 DEF FeedInv, At
<1>4. FedRight(file.entries)'
  BY <1>1, <1>3 DEF FedRight, Due, FeedbackValue, Output, Is
<1>5. ~Is("tournament")' => \A i \in 1..Len(file'.entries) : file'.entries[i].promoted = 0
  BY <1>1 DEF FeedInv, Is
<1>6. CASE phase' = "idle" /\ completed' = <<>> /\ feedback' = 0
  BY <1>4, <1>5, <1>6 DEF FeedInv, Fresh, At
<1>7. CASE /\ pending \in {"running", "complete"} /\ phase' = "drive"
           /\ completed' = completed /\ feedback' = feedback
  <2>1. FedRight(completed)'
    BY <1>1, <1>3, <1>7 DEF FedRight, Due, FeedbackValue, Output, Is
  <2>2. feedback' = Due(completed, Next1)'.fed
    BY <1>1, <1>7 DEF FeedInv, Due, FeedbackValue, Output, Is, At, Next1
  <2>3. ~Is("tournament")' => \A i \in 1..Len(completed') : completed'[i].promoted = 0
    BY <1>1, <1>7 DEF FeedInv, Is
  <2> QED BY <1>4, <1>5, <1>7, <2>1, <2>2, <2>3 DEF FeedInv, Fresh, At
<1> QED BY <1>2, <1>6, <1>7

-----------------------------------------------------------------------------
(* Steps that change the Run in hand, but nothing it was made with.         *)

LEMMA FeedbackStays ==
  ASSUME GroupInv, Fresh \/ Resumed, UNCHANGED <<spec, file>>,
         NEW run \in RunShape, runs' = [runs EXCEPT ![current] = run],
         run.fed = runs[current].fed, run.promoted = runs[current].promoted
  PROVE  /\ \A r \in RunNumbers : /\ runs'[r].fed = runs[r].fed
                                  /\ runs'[r].promoted = runs[r].promoted
         /\ \A r \in RunNumbers : r # current =>
              FeedbackValue(r)' = FeedbackValue(r) /\ runs'[r].position = runs[r].position
         /\ runs'[current].position = run.position
<1>1. current \in RunNumbers BY CurrentIsLast
<1>2. \A i \in RunNumbers : runs'[i] = IF i = current THEN run ELSE runs[i]
  BY <1>1, RunChanges DEF GroupInv
<1> QED BY <1>1, <1>2 DEF FeedbackValue, Output

(* What the rounds were due does not change with it, nor, while a new round *)
(* is made, what the next one is due.                                       *)
LEMMA DueStays ==
  ASSUME GroupInv, Fresh \/ Resumed, UNCHANGED <<spec, file>>,
         NEW run \in RunShape, runs' = [runs EXCEPT ![current] = run],
         run.fed = runs[current].fed, run.promoted = runs[current].promoted
  PROVE  /\ \A i \in 1..Len(file.entries) : Due(file.entries, i)' = Due(file.entries, i)
         /\ completed' = completed =>
              /\ \A i \in 1..Len(completed) : Due(completed, i)' = Due(completed, i)
              /\ Fresh => Due(completed, Next1)' = Due(completed, Next1)
<1>1. \A r \in RunNumbers : r # current => FeedbackValue(r)' = FeedbackValue(r)
  BY FeedbackStays
<1>2. \A i \in 1..Len(file.entries) : Due(file.entries, i)' = Due(file.entries, i)
  <2> SUFFICES ASSUME NEW i \in 1..Len(file.entries), i # 1
               PROVE  Due(file.entries, i)' = Due(file.entries, i)
    BY DEF Due
  <2>1. i - 1 \in 1..Len(file.entries) /\ i - 1 \in 1..(Len(file.entries) - 1)
    BY Lengths DEF GroupInv
  <2>2. file.entries[i - 1].run \in RunNumbers /\ file.entries[i - 1].run # current
    BY <2>1, Elements, CurrentIsLast DEF GroupInv
  <2> QED BY <1>1, <2>2 DEF Due, Is
<1>3. ASSUME completed' = completed, NEW i \in 1..Len(completed)
      PROVE  Due(completed, i)' = Due(completed, i)
  <2>1. CASE i = 1 BY <1>3, <2>1 DEF Due
  <2>2. CASE i # 1
    <3>1. i - 1 \in 1..Len(completed) /\ i - 1 \in 1..(Len(completed) - 1)
      BY <2>2, Lengths DEF GroupInv
    <3>2. completed[i - 1].run \in RunNumbers /\ completed[i - 1].run # current
      BY <3>1, Elements, CurrentIsLast DEF GroupInv
    <3> QED BY <1>1, <1>3, <3>2 DEF Due, Is
  <2> QED BY <2>1, <2>2
<1>4. ASSUME completed' = completed, Fresh
      PROVE  Due(completed, Next1)' = Due(completed, Next1)
  <2>1. Next1' = Next1 BY <1>4 DEF Next1
  <2>2. CASE Next1 = 1 BY <2>1, <2>2 DEF Due
  <2>3. CASE Next1 # 1
    <3>1. Next1 - 1 \in 1..Len(completed) BY <2>3, Lengths DEF GroupInv, Next1
    <3>2. completed[Next1 - 1].run \in RunNumbers /\ completed[Next1 - 1].run # current
      BY <1>4, <3>1, Elements, CurrentIsLast DEF GroupInv
    <3> QED BY <1>1, <1>4, <2>1, <2>3, <3>2 DEF Due, Is
  <2> QED BY <2>2, <2>3
<1> QED BY <1>2, <1>3, <1>4

LEMMA FileFedStays ==
  ASSUME GroupInv, FeedInv, Fresh \/ Resumed, UNCHANGED <<spec, file>>,
         NEW run \in RunShape, runs' = [runs EXCEPT ![current] = run],
         run.fed = runs[current].fed, run.promoted = runs[current].promoted,
         Fresh \/ run.position = runs[current].position
  PROVE  FedRight(file.entries)'
<1> SUFFICES ASSUME NEW i \in 1..Len(file.entries)
             PROVE  LET r == file.entries[i].run
                    IN /\ runs'[r].fed = Due(file.entries, i)'.fed
                       /\ runs'[r].promoted = Due(file.entries, i)'.promoted
                       /\ runs'[r].position = i
  BY DEF FedRight
<1>1. file.entries[i].run \in RunNumbers BY Elements DEF GroupInv
<1>2. Fresh => file.entries[i].run # current
  <2>1. Fresh => Len(file.entries) = Len(completed) /\ file.entries[i].run = completed[i].run
    BY DEF GroupInv, MemoryInv, OrderInv, Fresh, At
  <2> QED BY <2>1, CurrentIsLast
<1>3. runs'[file.entries[i].run].position = runs[file.entries[i].run].position
  BY <1>1, <1>2, FeedbackStays
<1>4. LET r == file.entries[i].run
      IN /\ runs[r].fed = Due(file.entries, i).fed
         /\ runs[r].promoted = Due(file.entries, i).promoted
         /\ runs[r].position = i
  BY DEF FeedInv, FedRight
<1> QED BY <1>1, <1>3, <1>4, FeedbackStays, DueStays

LEMMA MemoryFedStays ==
  ASSUME GroupInv, FeedInv, Fresh \/ Resumed, UNCHANGED <<spec, file>>,
         NEW run \in RunShape, runs' = [runs EXCEPT ![current] = run],
         run.fed = runs[current].fed, run.promoted = runs[current].promoted,
         run.position = runs[current].position, completed' = completed
  PROVE  FedRight(completed)'
<1> SUFFICES ASSUME NEW i \in 1..Len(completed)
             PROVE  LET r == completed[i].run
                    IN /\ runs'[r].fed = Due(completed, i)'.fed
                       /\ runs'[r].promoted = Due(completed, i)'.promoted
                       /\ runs'[r].position = i
  BY DEF FedRight
<1>1. completed[i].run \in RunNumbers BY Elements DEF GroupInv
<1>2. LET r == completed[i].run
      IN /\ runs[r].fed = Due(completed, i).fed
         /\ runs[r].promoted = Due(completed, i).promoted
         /\ runs[r].position = i
  BY DEF FeedInv, FedRight, Fresh, Resumed, At
<1>3. runs'[completed[i].run].position = runs[completed[i].run].position
  BY <1>1, FeedbackStays
<1> QED BY <1>1, <1>2, <1>3, FeedbackStays, DueStays

LEMMA ResumeLastFeed ==
  ASSUME GroupInv, FeedInv, ResumeLast PROVE FeedInv'
<1> DEFINE run == [runs[current] EXCEPT !.status = "running"]
<1>0. Resumed BY DEF ResumeLast, Resumed, At
<1>1. current \in RunNumbers BY <1>0, CurrentIsLast
<1>2. /\ run \in RunShape /\ run.fed = runs[current].fed
      /\ run.promoted = runs[current].promoted /\ run.position = runs[current].position
  BY <1>1, Elements DEF GroupInv, RunShape, IterationStatus
<1>3. /\ runs' = [runs EXCEPT ![current] = run] /\ completed' = completed /\ file' = file
      /\ spec' = spec /\ phase' = "execute" /\ inPlace'
  BY DEF ResumeLast, Go
<1> HIDE DEF run
<1>4. FedRight(file.entries)' /\ FedRight(completed)'
  BY <1>0, <1>2, <1>3, FileFedStays, MemoryFedStays
<1> QED BY <1>3, <1>4 DEF FeedInv, Fresh, At, Is

LEMMA RunEndsFeed ==
  ASSUME GroupInv, FeedInv, At("execute"), Go("record"), NEW run \in RunShape,
         runs' = [runs EXCEPT ![current] = run],
         run.fed = runs[current].fed, run.promoted = runs[current].promoted,
         run.position = runs[current].position,
         UNCHANGED <<spec, file, memoryVars>>
  PROVE  FeedInv'
<1>0. Fresh \/ Resumed BY DEF At, Fresh, Resumed, GroupInv, GroupTypeOK
<1>1. /\ completed' = completed /\ file' = file /\ spec' = spec /\ feedback' = feedback
      /\ current' = current /\ inPlace' = inPlace /\ phase = "execute" /\ phase' = "record"
  BY DEF memoryVars, At, Go
<1>2. FedRight(file.entries)' /\ FedRight(completed)'
  BY <1>0, <1>1, FileFedStays, MemoryFedStays
<1>3. Fresh' <=> Fresh BY <1>1 DEF Fresh
<1>4. Fresh => /\ feedback' = Due(completed, Next1)'.fed
               /\ runs'[current'].fed = feedback'
               /\ runs'[current'].promoted = Due(completed, Next1)'.promoted
  <2>1. current \in RunNumbers BY <1>0, CurrentIsLast
  <2>2. Fresh => Due(completed, Next1)' = Due(completed, Next1) BY <1>1, DueStays
  <2> QED BY <1>0, <1>1, <2>1, <2>2, FeedbackStays DEF FeedInv
<1> QED BY <1>1, <1>2, <1>3, <1>4 DEF FeedInv, At, Is

LEMMA RunSucceedsFeed ==
  ASSUME GroupInv, FeedInv, RunSucceeds PROVE FeedInv'
<1> USE DEF RunSucceeds
<1>1. current \in RunNumbers
  BY CurrentIsLast DEF Fresh, Resumed, At, GroupInv, GroupTypeOK
<1>2. PICK offers \in SUBSET Offers :
        runs' = [runs EXCEPT ![current].status = "succeeded", ![current].offers = offers]
  OBVIOUS
<1> DEFINE run == [runs[current] EXCEPT !.status = "succeeded", !.offers = offers]
<1>3. /\ run \in RunShape /\ run.fed = runs[current].fed
      /\ run.promoted = runs[current].promoted /\ run.position = runs[current].position
  BY <1>1, Elements DEF RunShape, IterationStatus, GroupInv
<1>4. runs' = [runs EXCEPT ![current] = run]
  BY <1>1, <1>2, Lengths, LenProperties DEF GroupInv, GroupTypeOK
<1> HIDE DEF run
<1> QED BY <1>3, <1>4, RunEndsFeed

LEMMA RunFallsShortFeed ==
  ASSUME GroupInv, FeedInv, RunFallsShort PROVE FeedInv'
<1> USE DEF RunFallsShort
<1>1. current \in RunNumbers
  BY CurrentIsLast DEF Fresh, Resumed, At, GroupInv, GroupTypeOK
<1>2. CASE runs' = [runs EXCEPT ![current].status = "parked", ![current].held = TRUE]
  <2> DEFINE run == [runs[current] EXCEPT !.status = "parked", !.held = TRUE]
  <2>1. /\ run \in RunShape /\ run.fed = runs[current].fed
        /\ run.promoted = runs[current].promoted /\ run.position = runs[current].position
    BY <1>1, Elements DEF RunShape, IterationStatus, GroupInv
  <2>2. runs' = [runs EXCEPT ![current] = run]
    BY <1>1, <1>2, Lengths, LenProperties DEF GroupInv, GroupTypeOK
  <2> HIDE DEF run
  <2> QED BY <2>1, <2>2, RunEndsFeed
<1>3. CASE runs' = [runs EXCEPT ![current].status = "failed"]
  <2> DEFINE run == [runs[current] EXCEPT !.status = "failed"]
  <2>1. /\ run \in RunShape /\ run.fed = runs[current].fed
        /\ run.promoted = runs[current].promoted /\ run.position = runs[current].position
    BY <1>1, Elements DEF RunShape, IterationStatus, GroupInv
  <2>2. runs' = [runs EXCEPT ![current] = run] BY <1>3
  <2> HIDE DEF run
  <2> QED BY <2>1, <2>2, RunEndsFeed
<1> QED BY <1>2, <1>3

LEMMA RunRaisesFeed ==
  ASSUME GroupInv, FeedInv, RunRaises PROVE FeedInv'
<1> DEFINE run == [runs[current] EXCEPT !.status = "errored"]
<1>0. Fresh \/ Resumed BY DEF RunRaises, At, Fresh, Resumed, GroupInv, GroupTypeOK
<1>1. current \in RunNumbers BY <1>0, CurrentIsLast
<1>2. /\ run \in RunShape /\ run.fed = runs[current].fed
      /\ run.promoted = runs[current].promoted /\ run.position = runs[current].position
  BY <1>1, Elements DEF GroupInv, RunShape, IterationStatus
<1>3. /\ runs' = [runs EXCEPT ![current] = run] /\ file' = file /\ spec' = spec
      /\ completed' = <<>> /\ feedback' = 0 /\ phase' = "idle"
  BY DEF RunRaises, Dies, Leave, Go
<1> HIDE DEF run
<1>4. FedRight(file.entries)' BY <1>0, <1>2, <1>3, FileFedStays
<1> QED BY <1>3, <1>4 DEF FeedInv, Fresh, At, Is

-----------------------------------------------------------------------------
(* A new round, and one that is put on the list.                            *)

LEMMA MaterializeFeed ==
  ASSUME GroupInv, FeedInv, NEW promoted \in {0} \cup RunNumbers, Materialize(promoted),
         promoted = Due(completed, Next1).promoted
  PROVE  FeedInv'
<1> DEFINE run == [status |-> "running", offers |-> {}, fed |-> feedback,
                   promoted |-> promoted, position |-> 0, held |-> FALSE]
<1>1. /\ completed' = completed /\ file' = file /\ spec' = spec /\ feedback' = feedback
      /\ phase = "drive" /\ phase' = "execute" /\ runs' = Append(runs, run)
      /\ current' = Len(runs')
  BY DEF Materialize, At, Go
<1>2. run.fed = feedback /\ run.promoted = promoted OBVIOUS
<1>3. run \in [status : {"running"}, offers : {{}}, fed : {feedback},
               promoted : {promoted}, position : {0}, held : {FALSE}]
  OBVIOUS
<1> HIDE DEF run
<1>4. runs \in Seq(RunShape) /\ Len(runs) \in Nat BY Lengths DEF GroupInv, GroupTypeOK
<1>5. /\ \A i \in RunNumbers : runs'[i] = runs[i]
      /\ runs'[current'] = run
  BY <1>1, <1>4, AppendProperties, Lengths DEF RunNumbers, GroupInv
<1>6. \A r \in RunNumbers : FeedbackValue(r)' = FeedbackValue(r)
  BY <1>5 DEF FeedbackValue, Output
<1>7. FedRight(file.entries)'
  <2> SUFFICES ASSUME NEW i \in 1..Len(file.entries)
               PROVE  LET r == file.entries[i].run
                      IN /\ runs'[r].fed = Due(file.entries, i)'.fed
                         /\ runs'[r].promoted = Due(file.entries, i)'.promoted
                         /\ runs'[r].position = i
    BY <1>1 DEF FedRight
  <2>1. Due(file.entries, i)' = Due(file.entries, i)
    <3>1. CASE i = 1 BY <3>1 DEF Due
    <3>2. CASE i # 1
      <4>1. i - 1 \in 1..Len(file.entries) BY <3>2, Lengths DEF GroupInv
      <4>2. file.entries[i - 1].run \in RunNumbers BY <4>1, Elements DEF GroupInv
      <4> QED BY <1>1, <1>6, <3>2, <4>2 DEF Due, Is
    <3> QED BY <3>1, <3>2
  <2>2. file.entries[i].run \in RunNumbers BY Elements DEF GroupInv
  <2> QED BY <1>5, <2>1, <2>2 DEF FeedInv, FedRight
<1>8. \A i \in 1..(Len(completed) + 1) : Due(completed, i)' = Due(completed, i)
  <2> SUFFICES ASSUME NEW i \in 1..(Len(completed) + 1)
               PROVE  Due(completed, i)' = Due(completed, i)
    OBVIOUS
  <2>1. CASE i = 1 BY <2>1 DEF Due
  <2>2. CASE i # 1
    <3>1. i - 1 \in 1..Len(completed) BY <2>2, Lengths DEF GroupInv
    <3>2. completed[i - 1].run \in RunNumbers BY <3>1, Elements DEF GroupInv
    <3> QED BY <1>1, <1>6, <2>2, <3>2 DEF Due, Is
  <2> QED BY <2>1, <2>2
<1>9. FedRight(completed)'
  <2> SUFFICES ASSUME NEW i \in 1..Len(completed)
               PROVE  LET r == completed[i].run
                      IN /\ runs'[r].fed = Due(completed, i)'.fed
                         /\ runs'[r].promoted = Due(completed, i)'.promoted
                         /\ runs'[r].position = i
    BY <1>1 DEF FedRight
  <2>1. Due(completed, i)' = Due(completed, i) BY <1>8, Lengths DEF GroupInv
  <2>2. completed[i].run \in RunNumbers BY Elements DEF GroupInv
  <2> QED BY <1>1, <1>5, <2>1, <2>2 DEF FeedInv, FedRight, At
<1>10. /\ feedback' = Due(completed, Next1)'.fed
       /\ runs'[current'].fed = feedback'
       /\ runs'[current'].promoted = Due(completed, Next1)'.promoted
  <2>1. Next1' = Next1 /\ Next1 \in 1..(Len(completed) + 1)
    BY <1>1, Lengths DEF Next1, GroupInv
  <2>2. Due(completed, Next1)' = Due(completed, Next1)
    <3>1. CASE Next1 = 1 BY <2>1, <3>1 DEF Due
    <3>2. CASE Next1 # 1
      <4>1. Next1 - 1 \in 1..Len(completed) BY <2>1, <3>2, Lengths DEF GroupInv
      <4>2. completed[Next1 - 1].run \in RunNumbers BY <4>1, Elements DEF GroupInv
      <4> QED BY <1>1, <1>6, <2>1, <3>2, <4>2 DEF Due, Is
    <3> QED BY <3>1, <3>2
  <2> QED BY <1>1, <1>2, <1>5, <2>2 DEF FeedInv, At
<1> QED BY <1>1, <1>7, <1>9, <1>10 DEF FeedInv, At, Is

LEMMA RecordedLast ==
  ASSUME GroupInv, Record
  PROVE  /\ completed'[Len(completed')].ok = (runs[current].status = "succeeded")
         /\ completed'[Len(completed')].promoted = 0
<1> USE DEF GroupInv
<1> DEFINE round == [run |-> current, ok |-> runs[current].status = "succeeded", promoted |-> 0]
<1>1. current \in RunNumbers
  BY CurrentIsLast DEF Record, Fresh, Resumed, At, GroupTypeOK
<1>2. round \in RoundShape BY <1>1 DEF RoundShape
<1>3. round.ok = (runs[current].status = "succeeded") /\ round.promoted = 0 OBVIOUS
<1>4. completed' = IF inPlace THEN [completed EXCEPT ![Len(completed)] = round]
                              ELSE Append(completed, round)
  BY DEF Record
<1> HIDE DEF round
<1>5. completed \in Seq(RoundShape) /\ Len(completed) \in Nat BY Lengths DEF GroupTypeOK
<1>6. CASE inPlace
  <2>1. Len(completed) >= 1 BY <1>6 DEF MemoryInv, Resumed, Record, At
  <2>2. completed'[Len(completed')] = round BY <1>2, <1>4, <1>5, <1>6, <2>1, ExceptSeq
  <2> QED BY <1>3, <2>2
<1>7. CASE ~inPlace
  <2>1. completed'[Len(completed')] = round BY <1>2, <1>4, <1>5, <1>7, AppendProperties
  <2> QED BY <1>3, <2>1
<1> QED BY <1>6, <1>7

LEMMA RecordFeed ==
  ASSUME GroupInv, FeedInv, Record PROVE FeedInv'
<1> DEFINE run == [runs[current] EXCEPT !.position = Len(completed')]
           n == IF inPlace THEN Len(completed) ELSE Len(completed) + 1
<1>0. /\ phase = "record" /\ phase' = "judge" /\ file' = file /\ spec' = spec
      /\ current' = current /\ runs' = [runs EXCEPT ![current] = run]
  BY DEF Record, RecordMembership, At, Go
<1>1. (Fresh \/ Resumed) /\ (Fresh <=> ~inPlace)
  BY <1>0 DEF Fresh, Resumed, GroupInv, GroupTypeOK
<1>2. current \in RunNumbers BY <1>1, CurrentIsLast
<1>3. /\ Len(completed') = n /\ n >= 1 /\ completed'[n].run = current
      /\ \A i \in 1..(n - 1) : i \in 1..Len(completed) /\ completed'[i] = completed[i]
  BY RecordedRounds
<1>4. n \in Nat /\ n <= spec.cap
  <2>1. ~inPlace => Len(completed) < spec.cap BY <1>1 DEF GroupInv, MemoryInv, UnderCap
  <2>2. Len(completed) <= spec.cap BY <1>0 DEF GroupInv, MemoryInv, At
  <2>3. CASE inPlace BY <2>2, <2>3, Lengths DEF GroupInv
  <2>4. CASE ~inPlace BY <2>1, <2>4, Lengths, SpecFacts DEF GroupInv
  <2> QED BY <2>3, <2>4
<1>5. runs[current] \in RunShape BY <1>2, Elements DEF GroupInv
<1>6. /\ run \in RunShape /\ run.fed = runs[current].fed
      /\ run.promoted = runs[current].promoted /\ run.position = n
      /\ run.status = runs[current].status
  <2>1. n \in 0..spec.cap BY <1>4, SpecFacts DEF GroupInv
  <2> QED BY <1>3, <1>5, <2>1 DEF RunShape
<1> HIDE DEF run
<1>7. inPlace => /\ runs[current].position = n
                 /\ runs[current].fed = Due(completed, n).fed
                 /\ runs[current].promoted = Due(completed, n).promoted
  <2> SUFFICES ASSUME inPlace
               PROVE  /\ runs[current].position = n
                      /\ runs[current].fed = Due(completed, n).fed
                      /\ runs[current].promoted = Due(completed, n).promoted
    OBVIOUS
  <2>1. n = Len(completed) OBVIOUS
  <2>2. current = completed[n].run BY <1>1, <2>1 DEF GroupInv, MemoryInv
  <2>3. FedRight(completed) BY <1>0 DEF FeedInv, At
  <2>4. n \in 1..Len(completed) BY <1>3, <1>4, <2>1
  <2> HIDE DEF n
  <2> QED BY <2>2, <2>3, <2>4 DEF FedRight
<1>8. ~inPlace => /\ runs[current].fed = Due(completed, n).fed
                  /\ runs[current].promoted = Due(completed, n).promoted
  BY <1>1 DEF FeedInv, Next1
<1> HIDE DEF n
<1>9. FedRight(file.entries)'
  BY <1>0, <1>1, <1>6, <1>7, FileFedStays
<1>10. \A i \in 1..(n - 1) : completed[i].run \in RunNumbers /\ completed[i].run # current
  <2>1. \A i \in 1..(n - 1) : completed[i].run \in RunNumbers
    BY <1>3, Elements DEF GroupInv
  <2>2. CASE inPlace BY <1>1, <2>1, <2>2, CurrentIsLast DEF n
  <2>3. CASE ~inPlace BY <1>1, <1>3, <2>1, <2>3, CurrentIsLast
  <2> QED BY <2>2, <2>3
<1>11. /\ \A r \in RunNumbers : /\ runs'[r].fed = runs[r].fed
                                /\ runs'[r].promoted = runs[r].promoted
       /\ \A r \in RunNumbers : r # current =>
            FeedbackValue(r)' = FeedbackValue(r) /\ runs'[r].position = runs[r].position
       /\ runs'[current].position = n
  BY <1>0, <1>1, <1>6, FeedbackStays
<1>12. ASSUME NEW i \in 1..n PROVE Due(completed, i)' = Due(completed, i)
  <2>1. CASE i = 1 BY <2>1 DEF Due
  <2>2. CASE i # 1
    <3>1. i - 1 \in 1..(n - 1) BY <1>4, <2>2
    <3>2. /\ completed[i - 1].run \in RunNumbers /\ completed[i - 1].run # current
          /\ completed'[i - 1] = completed[i - 1]
      BY <1>3, <1>10, <3>1
    <3> QED BY <1>0, <1>11, <2>2, <3>2 DEF Due, Is
  <2> QED BY <2>1, <2>2
<1>13. FedRight(completed)'
  <2> SUFFICES ASSUME NEW i \in 1..n
               PROVE  LET r == completed'[i].run
                      IN /\ runs'[r].fed = Due(completed, i)'.fed
                         /\ runs'[r].promoted = Due(completed, i)'.promoted
                         /\ runs'[r].position = i
    BY <1>3 DEF FedRight
  <2>1. Due(completed, i)' = Due(completed, i) BY <1>12
  <2>2. CASE i = n BY <1>2, <1>3, <1>7, <1>8, <1>11, <2>1, <2>2
  <2>3. CASE i # n
    <3>1. i \in 1..(n - 1) BY <1>4, <2>3
    <3>2. completed'[i] = completed[i] /\ i \in 1..Len(completed) BY <1>3, <3>1
    <3>3. completed[i].run \in RunNumbers /\ completed[i].run # current BY <1>10, <3>1
    <3>4. FedRight(completed) BY <1>0 DEF FeedInv, At
    <3> QED BY <1>11, <2>1, <3>2, <3>3, <3>4 DEF FedRight
  <2> QED BY <2>2, <2>3
<1>14. runs'[current].status = runs[current].status
  BY <1>0, <1>2, <1>6, RunChanges DEF GroupInv
<1>15. completed'[Len(completed')].ok = (runs'[current'].status = "succeeded")
  BY <1>0, <1>14, RecordedLast
<1>16. ~Is("tournament")' => \A i \in 1..Len(completed') : completed'[i].promoted = 0
  <2> SUFFICES ASSUME ~Is("tournament"), NEW i \in 1..n PROVE completed'[i].promoted = 0
    BY <1>0, <1>3 DEF Is
  <2>1. CASE i = n BY <1>3, <2>1, RecordedLast
  <2>2. CASE i # n
    <3>1. i \in 1..(n - 1) BY <1>4, <2>2
    <3> QED BY <1>3, <3>1 DEF FeedInv
  <2> QED BY <2>1, <2>2
<1> QED BY <1>0, <1>9, <1>13, <1>15, <1>16 DEF FeedInv, Fresh, At, Is

(* The winner of a round is what the next is due, if it is promoted at all. *)
LEMMA RoundWonFeed ==
  ASSUME GroupInv, FeedInv, RoundWon PROVE FeedInv'
<1> DEFINE n == Len(completed)
           round == [completed[n] EXCEPT !.promoted = RoundWinner(current)]
<1>0. /\ phase = "judge" /\ phase' \in {"persist", "drive"} /\ Is("tournament")
      /\ file' = file /\ spec' = spec /\ runs' = runs
      /\ completed' = [completed EXCEPT ![n] = round]
      /\ feedback' = FeedbackValue(current)
  BY DEF RoundWon, Write, diskVars, At, Go
<1>1. n \in Nat /\ n >= 1 /\ current = completed[n].run /\ n \in 1..n
  <2>1. n \in Nat BY Lengths DEF GroupInv
  <2>2. n >= 1 /\ current = completed[n].run BY <1>0 DEF GroupInv, MemoryInv, Resumed
  <2> QED BY <2>1, <2>2
<1>2. completed[n] \in RoundShape /\ current \in RunNumbers
  BY <1>1, Elements DEF GroupInv
<1>3. runs[current].status = "succeeded" /\ RoundWinner(current) = current
  BY <1>1, <1>2, Lengths DEF RoundWon, RoundWinner, RunNumbers
<1>4. round \in RoundShape /\ round.run = current /\ round.ok = completed[n].ok
  BY <1>1, <1>2, <1>3 DEF RoundShape
<1>5. completed[n].ok BY <1>0, <1>3 DEF FeedInv, At
<1> HIDE DEF round
<1>6. completed \in Seq(RoundShape) BY DEF GroupInv, GroupTypeOK
<1>7. /\ Len(completed') = n /\ completed'[n] = round
      /\ \A i \in 1..n : i # n => completed'[i] = completed[i]
  BY <1>0, <1>1, <1>4, <1>6, ExceptSeq
<1> HIDE DEF n
<1>8. \A r : FeedbackValue(r)' = FeedbackValue(r) BY <1>0 DEF FeedbackValue, Output
<1>9. FedRight(file.entries)' BY <1>0 DEF FeedInv, FedRight, Due, FeedbackValue, Output, Is
<1>10. ASSUME NEW i \in 1..n PROVE Due(completed, i)' = Due(completed, i)
  <2>1. CASE i = 1 BY <2>1 DEF Due
  <2>2. CASE i # 1
    <3>1. i - 1 \in 1..n /\ i - 1 # n BY <1>1, <2>2
    <3>2. completed'[i - 1] = completed[i - 1] BY <1>7, <3>1
    <3> QED BY <1>0, <1>8, <2>2, <3>2 DEF Due, Is
  <2> QED BY <2>1, <2>2
<1>11. FedRight(completed)'
  <2> SUFFICES ASSUME NEW i \in 1..n
               PROVE  LET r == completed'[i].run
                      IN /\ runs'[r].fed = Due(completed, i)'.fed
                         /\ runs'[r].promoted = Due(completed, i)'.promoted
                         /\ runs'[r].position = i
    BY <1>7 DEF FedRight
  <2>1. Due(completed, i)' = Due(completed, i) BY <1>10
  <2>2. completed'[i].run = completed[i].run BY <1>1, <1>4, <1>7
  <2>3. FedRight(completed) /\ i \in 1..Len(completed) BY <1>0 DEF FeedInv, At, n
  <2> QED BY <1>0, <2>1, <2>2, <2>3 DEF FedRight
<1>12. feedback' = Due(completed, Next1)'.fed
  <2>1. Next1' = n + 1 /\ n + 1 # 1 /\ (n + 1) - 1 = n BY <1>1, <1>7 DEF Next1
  <2>2. completed'[n].ok /\ completed'[n].run = current BY <1>4, <1>5, <1>7
  <2> QED BY <1>0, <1>8, <2>1, <2>2 DEF Due, Is
<1> QED BY <1>0, <1>9, <1>11, <1>12 DEF FeedInv, Fresh, At, Is

-----------------------------------------------------------------------------
(* The controllers' own steps are those above.                              *)

(* Only a tournament has winners to promote.                                *)
LEMMA NothingPromoted ==
  ASSUME GroupInv, FeedInv, At("drive"), ~Is("tournament")
  PROVE  Due(completed, Next1).promoted = 0
<1>1. CASE Next1 = 1 BY <1>1 DEF Due
<1>2. CASE Next1 # 1
  <2>1. Next1 - 1 \in 1..Len(completed) BY <1>2, Lengths DEF GroupInv, Next1
  <2> QED BY <1>2, <2>1 DEF FeedInv, Due
<1> QED BY <1>1, <1>2

LEMMA WinnerPromoted ==
  ASSUME GroupInv
  PROVE  /\ Due(completed, Next1).promoted = Promoted
         /\ Promoted \in {0} \cup RunNumbers
<1>1. completed = <<>> \/ Len(completed) >= 1
  BY Lengths, EmptySeq DEF GroupInv, GroupTypeOK
<1>2. CASE completed = <<>>
  <2>1. Next1 = 1 BY <1>2 DEF Next1
  <2> QED BY <1>2, <2>1 DEF Due, Promoted, LastWinner
<1>3. CASE Len(completed) >= 1
  <2>1. Next1 # 1 /\ Next1 - 1 = Len(completed) /\ completed # <<>>
    BY <1>3, Lengths DEF GroupInv, Next1
  <2>2. LastRound \in RoundShape
    BY <1>3, Lengths, Elements DEF GroupInv, LastRound
  <2> QED BY <2>1, <2>2 DEF Due, Promoted, LastWinner, LastRound, RoundShape
<1> QED BY <1>1, <1>2, <1>3

LEMMA GoneOnFeed ==
  ASSUME GroupInv, FeedInv, NEW value, GoOn(value), ~Is("tournament"),
         value = FeedbackValue(current)
  PROVE  FeedInv'
<1>1. Resumed BY DEF GoOn, Resumed, At
<1> QED BY <1>1, NextIsFed, GoOnFeed

LEMMA JudgeFeed ==
  ASSUME GroupInv, FeedInv, At("judge"), ~Is("tournament"),
         NEW verdict \in Status \ {"running", "complete"}, Judge(verdict)
  PROVE  FeedInv'
<1>1. CASE verdict = "none" BY <1>1, ContinueFeed DEF Judge
<1>2. CASE verdict # "none" BY <1>2, WriteFeed DEF Judge, At
<1> QED BY <1>1, <1>2

LEMMA LoopFeed ==
  ASSUME GroupInv, FeedInv, RunLoop \/ ResumeLoop \/ LoopDrive PROVE FeedInv'
<1>0. Is("loop") /\ ~Is("tournament")
  BY DEF RunLoop, ResumeLoop, LoopDrive, LoopRound, LoopRefuses, LoopJudges, LoopExhausts,
         LoopGoesOn, Is
<1>1. CASE RunLoop BY <1>1, BeginFeed DEF RunLoop
<1>2. CASE ResumeLoop BY <1>2, ReloadFeed DEF ResumeLoop
<1>3. CASE LoopRound
  BY <1>0, <1>3, NothingPromoted, MaterializeFeed DEF LoopRound, Materialize
<1>4. CASE LoopRefuses BY <1>4, LeaveFeed DEF LoopRefuses, Refuse, diskVars
<1>5. CASE LoopJudges
  <2>1. IterationVerdict(current) \in Status \ {"running", "complete"}
    BY DEF IterationVerdict, Status
  <2> QED BY <1>0, <1>5, <2>1, JudgeFeed DEF LoopJudges
<1>6. CASE LoopExhausts
  BY <1>6, WriteFeed DEF LoopExhausts, CapReached, Status, At
<1>7. CASE LoopGoesOn BY <1>0, <1>7, GoneOnFeed DEF LoopGoesOn
<1> QED BY <1>1, <1>2, <1>3, <1>4, <1>5, <1>6, <1>7 DEF LoopDrive

LEMMA VerificationFeed ==
  ASSUME GroupInv, FeedInv, RunVerification \/ ResumeVerification \/ VerifyDrive
  PROVE  FeedInv'
<1>0. Is("verify") /\ ~Is("tournament")
  BY DEF RunVerification, ResumeVerification, VerifyDrive, VerifyRound, VerifyRefuses,
         VerifyJudges, VerifyExhausts, VerifyGoesOn, Is
<1>1. CASE RunVerification BY <1>1, BeginFeed DEF RunVerification
<1>2. CASE ResumeVerification BY <1>2, ReloadFeed DEF ResumeVerification
<1>3. CASE VerifyRound
  BY <1>0, <1>3, NothingPromoted, MaterializeFeed DEF VerifyRound, Materialize
<1>4. CASE VerifyRefuses BY <1>4, LeaveFeed DEF VerifyRefuses, Refuse, diskVars
<1>5. CASE VerifyJudges
  <2>1. VerificationVerdict(current) \in Status \ {"running", "complete"}
    BY DEF VerificationVerdict, Status
  <2> QED BY <1>0, <1>5, <2>1, JudgeFeed DEF VerifyJudges
<1>6. CASE VerifyExhausts
  BY <1>6, WriteFeed DEF VerifyExhausts, CapReached, Status, At
<1>7. CASE VerifyGoesOn BY <1>0, <1>7, GoneOnFeed DEF VerifyGoesOn
<1> QED BY <1>1, <1>2, <1>3, <1>4, <1>5, <1>6, <1>7 DEF VerifyDrive

LEMMA TournamentFeed ==
  ASSUME GroupInv, FeedInv, RunTournament \/ ResumeTournament \/ TournamentDrive
  PROVE  FeedInv'
<1>1. CASE RunTournament BY <1>1, BeginFeed DEF RunTournament
<1>2. CASE ResumeTournament BY <1>2, ReloadFeed DEF ResumeTournament
<1>3. CASE TournamentRound
  BY <1>3, WinnerPromoted, MaterializeFeed DEF TournamentRound
<1>4. CASE TournamentRefuses BY <1>4, LeaveFeed DEF TournamentRefuses, Refuse, diskVars
<1>5. CASE RoundLost BY <1>5, WriteFeed DEF RoundLost, Status, At
<1>6. CASE RoundWon BY <1>6, RoundWonFeed
<1>7. CASE TournamentReturns BY <1>7, LeaveFeed DEF TournamentReturns, diskVars
<1>8. CASE TournamentGoesOn
  <2> DEFINE value == IF LastRound.ok THEN FeedbackValue(current) ELSE 0
  <2>1. Is("tournament") /\ GoOn(value) /\ Resumed
    BY <1>8 DEF TournamentGoesOn, GoOn, Resumed, At
  <2>2. value = Due(completed, Next1).fed
    <3>1. Len(completed) \in Nat /\ Len(completed) >= 1
      BY <2>1, Lengths DEF GroupInv, MemoryInv
    <3>2. Next1 # 1 /\ Next1 - 1 = Len(completed) BY <3>1 DEF Next1
    <3>3. CASE LastRound.ok BY <2>1, <3>3, NextIsFed
    <3>4. CASE ~LastRound.ok BY <2>1, <3>2, <3>4 DEF Due, LastRound
    <3> QED BY <3>3, <3>4
  <2> HIDE DEF value
  <2> QED BY <2>1, <2>2, GoOnFeed
<1> QED BY <1>1, <1>2, <1>3, <1>4, <1>5, <1>6, <1>7, <1>8 DEF TournamentDrive

LEMMA FeedStep ==
  ASSUME GroupInv, FeedInv, [GroupNext]_groupVars PROVE FeedInv'
<1>1. CASE Drive
  <2>1. CASE LoopDrive BY <2>1, LoopFeed
  <2>2. CASE VerifyDrive BY <2>2, VerificationFeed
  <2>3. CASE TournamentDrive BY <2>3, TournamentFeed
  <2>4. CASE ResumeLast BY <2>4, ResumeLastFeed
  <2>5. CASE Record BY <2>5, RecordFeed
  <2>6. CASE Persist BY <2>6, PersistFeed
  <2> QED BY <1>1, <2>1, <2>2, <2>3, <2>4, <2>5, <2>6 DEF Drive
<1>2. CASE RunEnds BY <1>2, RunSucceedsFeed, RunFallsShortFeed DEF RunEnds
<1>3. CASE Invoke
  BY <1>3, LoopFeed, VerificationFeed, TournamentFeed DEF Invoke, ResumeGroup
<1>4. CASE KillDrive BY <1>4, LeaveFeed DEF KillDrive, Dies, diskVars
<1>5. CASE KillWrite
  <2>1. file' = Torn /\ Len(Torn.entries) = 0
    BY <1>5 DEF KillWrite, Torn, NoFile
  <2> QED BY <1>5, <2>1, LeaveFeed DEF KillWrite, Dies
<1>6. CASE RunRaises BY <1>6, RunRaisesFeed
<1>7. CASE UNCHANGED groupVars
  BY <1>7 DEF groupVars, diskVars, memoryVars, FeedInv, FedRight, Due, FeedbackValue,
              Output, Is, At, Fresh, Next1
<1> QED BY <1>1, <1>2, <1>3, <1>4, <1>5, <1>6, <1>7 DEF GroupNext, Dying, GroupAtRest

(* What is fed forward, in memory and on record, stays what the round before*)
(* it offered, wherever the controller is killed.                           *)
THEOREM FeedInvHolds == GroupSafety => []FeedInv
<1>1. GroupInit => FeedInv
  BY DEF GroupInit, NoFile, FeedInv, FedRight, At, Fresh
<1>2. GroupInv /\ FeedInv /\ [GroupNext]_groupVars => FeedInv' BY FeedStep
<1> QED BY <1>1, <1>2, GroupInvHolds, PTL DEF GroupSafety

(* Every round on record was made from its predecessor's feedback and       *)
(* winner, whatever the specs and however often the group is resumed.       *)
THEOREM FedByPredecessorHolds == GroupSafety => []FedByPredecessor
<1>1. GroupInv /\ FeedInv => FedByPredecessor
  BY Lengths DEF GroupInv, FeedInv, FedRight, FedByPredecessor
<1> QED BY <1>1, GroupInvHolds, FeedInvHolds, PTL

-----------------------------------------------------------------------------
(* Verdicts.                                                                *)


Decides(round) == round.ok /\ Output(round.run) \cap {"done", "accept", "reject"} # {}

Heeded(rounds) == ~Is("tournament") => \A i \in 1..(Len(rounds) - 1) : ~Decides(rounds[i])

Open(rounds) ==
  ~Is("tournament") /\ Len(rounds) >= 1 => ~Decides(rounds[Len(rounds)])

Justified(status, rounds, winner) ==
  LET Last == rounds[Len(rounds)]
  IN /\ status \in {"running", "failed"} => Open(rounds)
     /\ status = "done" => "done" \in Output(Last.run)
     /\ status = "accepted" => "accept" \in Output(Last.run)
     /\ status = "rejected" =>
          \/ Len(rounds) = spec.cap /\ ~Decides(Last)
          \/ "reject" \in Output(Last.run) /\ "accept" \notin Output(Last.run)
     /\ status = "exhausted" => Len(rounds) = spec.cap /\ ~Decides(Last)
     /\ status = "complete" => Len(rounds) = spec.cap /\ winner = Last.run

(* A round is on record as succeeded only over a Run that did.              *)
Backed(rounds) ==
  \A i \in 1..Len(rounds) : rounds[i].ok => runs[rounds[i].run].status = "succeeded"

VerdictInv ==
  /\ Heeded(file.entries) /\ Backed(file.entries)
  /\ Justified(file.status, file.entries, file.winner)
  /\ Heeded(completed) /\ Backed(completed)
  /\ At("load") => completed = file.entries
  /\ At("execute") => runs[current].status = "running"
  /\ At("drive") \/ Fresh => Open(completed)
  /\ At("persist") => Justified(pending, completed, LastNamed(completed))

-----------------------------------------------------------------------------
(* Steps that leave the Runs alone.                                         *)

LEMMA BeginVerdict ==
  ASSUME GroupInv, VerdictInv, Begin PROVE VerdictInv'
<1>1. /\ completed' = completed /\ file' = file /\ runs' = runs /\ spec' = spec
      /\ phase' = "drive" /\ Len(completed) = 0
  BY DEF GroupInv, MemoryInv, Begin, diskVars, memoryVars, Go, At
<1>2. Open(completed)' BY <1>1 DEF Open
<1>3. /\ Heeded(file.entries)' /\ Backed(file.entries)'
      /\ Justified(file.status, file.entries, file.winner)'
      /\ Heeded(completed)' /\ Backed(completed)'
  BY <1>1 DEF VerdictInv, Heeded, Backed, Justified, Open, Decides, Output, Is
<1> QED BY <1>1, <1>2, <1>3 DEF VerdictInv, Fresh, At

LEMMA ReloadVerdict ==
  ASSUME GroupInv, VerdictInv, NEW final, Reload(final) PROVE VerdictInv'
<1>1. /\ completed' = file.entries /\ file' = file /\ runs' = runs /\ spec' = spec
      /\ phase' = "load"
  BY DEF Reload, diskVars, Go
<1> QED BY <1>1 DEF VerdictInv, Heeded, Backed, Justified, Open, Decides, Output, Is, Fresh, At

LEMMA GoOnVerdict ==
  ASSUME GroupInv, VerdictInv, NEW value, GoOn(value) PROVE VerdictInv'
<1>1. /\ completed' = completed /\ file' = file /\ runs' = runs /\ spec' = spec
      /\ phase = "load" /\ phase' = "drive"
  BY DEF GoOn, diskVars, Go, At
<1>2. completed = file.entries BY <1>1 DEF VerdictInv, At
<1>3. file.status \in {"running", "failed"}
  <2>1. Len(file.entries) >= 1 /\ file.status # "torn" /\ ~Settled
    BY <1>1, <1>2 DEF GroupInv, MemoryInv, Resumed, At
  <2>2. Readable /\ file.status \in FileStatus BY <2>1 DEF GroupInv, FileInv, GroupTypeOK
  <2> QED BY <2>1, <2>2 DEF Readable, Settled, FileStatus, Status
<1>4. Open(completed) BY <1>2, <1>3 DEF VerdictInv, Justified
<1> QED BY <1>1, <1>4
        DEF VerdictInv, Heeded, Backed, Justified, Open, Decides, Output, Is, Fresh, At

LEMMA LeaveVerdict ==
  ASSUME GroupInv, VerdictInv, Leave, UNCHANGED <<spec, runs>>, file' = file \/ file' = Torn
  PROVE  VerdictInv'
<1>1. completed' = <<>> /\ phase' = "idle" BY DEF Leave, Go
<1>2. /\ Heeded(file.entries)' /\ Backed(file.entries)'
      /\ Justified(file.status, file.entries, file.winner)'
  <2>1. CASE file' = file
    BY <2>1 DEF VerdictInv, Heeded, Backed, Justified, Open, Decides, Output, Is
  <2>2. CASE file' = Torn
    <3>1. file'.entries = <<>> /\ file'.status = "torn" BY <2>2 DEF Torn, NoFile
    <3> QED BY <3>1 DEF Heeded, Backed, Justified
  <2> QED BY <2>1, <2>2
<1> QED BY <1>1, <1>2 DEF VerdictInv, Heeded, Backed, Fresh, At

LEMMA StopVerdict ==
  ASSUME GroupInv, VerdictInv, NEW status, Stop(status),
         Justified(status, completed, LastNamed(completed))
  PROVE  VerdictInv'
<1>1. /\ completed' = completed /\ file' = file /\ runs' = runs
      /\ spec' = spec /\ phase' = "persist" /\ pending' = status
  BY DEF Stop, Write, diskVars, Go
<1>2. Justified(pending, completed, LastNamed(completed))'
  BY <1>1 DEF Justified, Open, Decides, Output, Is, LastNamed
<1> QED BY <1>1, <1>2
        DEF VerdictInv, Heeded, Backed, Justified, Open, Decides, Output, Is, Fresh, At

LEMMA ContinueVerdict ==
  ASSUME GroupInv, VerdictInv, Continue, Open(completed) PROVE VerdictInv'
<1>1. /\ completed' = completed /\ file' = file /\ runs' = runs /\ spec' = spec
      /\ phase' = "drive" \/ (phase' = "persist" /\ pending' = "running")
  BY DEF Continue, Write, diskVars, Go
<1>2. Open(completed)' BY <1>1 DEF Open, Decides, Output, Is
<1>3. /\ Heeded(file.entries)' /\ Backed(file.entries)'
      /\ Justified(file.status, file.entries, file.winner)'
      /\ Heeded(completed)' /\ Backed(completed)'
  BY <1>1 DEF VerdictInv, Heeded, Backed, Justified, Open, Decides, Output, Is
<1>4. phase' = "persist" => Justified(pending, completed, LastNamed(completed))'
  BY <1>1, <1>2 DEF Justified
<1> QED BY <1>1, <1>2, <1>3, <1>4 DEF VerdictInv, Fresh, At

LEMMA PersistVerdict ==
  ASSUME GroupInv, VerdictInv, Persist PROVE VerdictInv'
<1>1. /\ file'.entries = completed /\ file'.status = pending
      /\ file'.winner = LastNamed(completed)
      /\ runs' = runs /\ spec' = spec /\ phase = "persist"
  BY DEF Persist, Document, At
<1>2. \/ /\ pending \in {"running", "complete"} /\ phase' = "drive"
         /\ completed' = completed
      \/ completed' = <<>> /\ phase' = "idle"
  BY DEF Persist, memoryVars, Leave, Go
<1>3. /\ Heeded(completed) /\ Backed(completed)
      /\ Justified(pending, completed, LastNamed(completed))
  BY <1>1 DEF VerdictInv, At
<1>4. /\ Heeded(file.entries)' /\ Backed(file.entries)'
      /\ Justified(file.status, file.entries, file.winner)'
  BY <1>1, <1>3 DEF Heeded, Backed, Justified, Open, Decides, Output, Is
<1>5. CASE completed' = <<>> /\ phase' = "idle"
  BY <1>4, <1>5 DEF VerdictInv, Heeded, Backed, Fresh, At
<1>6. CASE /\ pending \in {"running", "complete"} /\ phase' = "drive"
           /\ completed' = completed
  <2>1. Open(completed)
    BY <1>3, <1>6 DEF Justified, GroupInv, FileInv, Fitting, Open
  <2>2. Open(completed)' /\ Heeded(completed)' /\ Backed(completed)'
    BY <1>1, <1>3, <1>6, <2>1 DEF Open, Heeded, Backed, Decides, Output, Is
  <2> QED BY <1>4, <1>6, <2>2 DEF VerdictInv, Fresh, At
<1> QED BY <1>2, <1>5, <1>6

-----------------------------------------------------------------------------
(* Steps that change the Run in hand: it stands behind no round that is on  *)
(* record as succeeded, or what it offers stays.                            *)

LEMMA DecidesStays ==
  ASSUME GroupInv, Fresh \/ Resumed, UNCHANGED spec,
         NEW run \in RunShape, runs' = [runs EXCEPT ![current] = run],
         \/ runs[current].status # "succeeded"
         \/ run.status = runs[current].status /\ run.offers = runs[current].offers
  PROVE  \A round \in RoundShape :
           (round.ok => runs[round.run].status = "succeeded") =>
             /\ Decides(round)' <=> Decides(round)
             /\ round.ok => runs'[round.run].status = "succeeded"
<1>1. current \in RunNumbers BY CurrentIsLast
<1>2. \A i \in RunNumbers : runs'[i] = IF i = current THEN run ELSE runs[i]
  BY <1>1, RunChanges DEF GroupInv
<1> SUFFICES ASSUME NEW round \in RoundShape,
                    round.ok => runs[round.run].status = "succeeded"
             PROVE  /\ Decides(round)' <=> Decides(round)
                    /\ round.ok => runs'[round.run].status = "succeeded"
  OBVIOUS
<1>3. round.run \in RunNumbers BY DEF RoundShape
<1>4. CASE round.ok
  <2>1. /\ runs'[round.run].status = runs[round.run].status
        /\ runs'[round.run].offers = runs[round.run].offers
    BY <1>1, <1>2, <1>3, <1>4
  <2> QED BY <1>4, <2>1 DEF Decides, Output
<1>5. CASE ~round.ok BY <1>5 DEF Decides
<1> QED BY <1>4, <1>5

LEMMA FileVerdictStays ==
  ASSUME GroupInv, VerdictInv, Fresh \/ Resumed, UNCHANGED <<spec, file>>,
         NEW run \in RunShape, runs' = [runs EXCEPT ![current] = run],
         \/ runs[current].status # "succeeded"
         \/ run.status = runs[current].status /\ run.offers = runs[current].offers
  PROVE  /\ Heeded(file.entries)' /\ Backed(file.entries)'
         /\ Justified(file.status, file.entries, file.winner)'
<1>1. \A i \in 1..Len(file.entries) :
        /\ Decides(file.entries[i])' <=> Decides(file.entries[i])
        /\ file.entries[i].ok => runs'[file.entries[i].run].status = "succeeded"
  BY DecidesStays, Elements DEF GroupInv, VerdictInv, Backed
<1>2. Len(file.entries) \in Nat BY Lengths DEF GroupInv
<1>3. Heeded(file.entries)'
  <2>1. \A i \in 1..(Len(file.entries) - 1) : i \in 1..Len(file.entries) BY <1>2
  <2> QED BY <1>1, <2>1 DEF VerdictInv, Heeded, Is
<1>4. Backed(file.entries)' BY <1>1 DEF Backed
<1>5. Open(file.entries) => Open(file.entries)'
  <2>1. Len(file.entries) >= 1 => Len(file.entries) \in 1..Len(file.entries) BY <1>2
  <2> QED BY <1>1, <2>1 DEF Open, Is
<1>6. ~Settled BY DEF GroupInv, MemoryInv, Fresh, Resumed, At
<1>7. Justified(file.status, file.entries, file.winner)'
  BY <1>5, <1>6 DEF VerdictInv, Justified, Settled
<1> QED BY <1>3, <1>4, <1>7

LEMMA MemoryVerdictStays ==
  ASSUME GroupInv, VerdictInv, Fresh \/ Resumed, UNCHANGED <<spec, completed>>,
         NEW run \in RunShape, runs' = [runs EXCEPT ![current] = run],
         \/ runs[current].status # "succeeded"
         \/ run.status = runs[current].status /\ run.offers = runs[current].offers
  PROVE  /\ Heeded(completed)' /\ Backed(completed)'
         /\ Open(completed) => Open(completed)'
<1>1. \A i \in 1..Len(completed) :
        /\ Decides(completed[i])' <=> Decides(completed[i])
        /\ completed[i].ok => runs'[completed[i].run].status = "succeeded"
  BY DecidesStays, Elements DEF GroupInv, VerdictInv, Backed
<1>2. Len(completed) \in Nat BY Lengths DEF GroupInv
<1>3. Heeded(completed)'
  <2>1. \A i \in 1..(Len(completed) - 1) : i \in 1..Len(completed) BY <1>2
  <2> QED BY <1>1, <2>1 DEF VerdictInv, Heeded, Is
<1>4. Backed(completed)' BY <1>1 DEF Backed
<1>5. Open(completed) => Open(completed)'
  <2>1. Len(completed) >= 1 => Len(completed) \in 1..Len(completed) BY <1>2
  <2> QED BY <1>1, <2>1 DEF Open, Is
<1> QED BY <1>3, <1>4, <1>5

LEMMA ResumeLastVerdict ==
  ASSUME GroupInv, VerdictInv, ResumeLast PROVE VerdictInv'
<1> DEFINE run == [runs[current] EXCEPT !.status = "running"]
<1>0. Resumed /\ runs[current].status # "succeeded"
  BY DEF ResumeLast, Resumed, At, Incomplete
<1>1. current \in RunNumbers BY <1>0, CurrentIsLast
<1>2. run \in RunShape /\ run.status = "running"
  BY <1>1, Elements DEF GroupInv, RunShape, IterationStatus
<1>3. /\ runs' = [runs EXCEPT ![current] = run] /\ completed' = completed /\ file' = file
      /\ spec' = spec /\ phase' = "execute" /\ inPlace' /\ current' = current
  BY DEF ResumeLast, Go
<1> HIDE DEF run
<1>4. runs'[current'].status = "running"
  <2>1. \A i \in RunNumbers : runs'[i] = IF i = current THEN run ELSE runs[i]
    BY <1>1, <1>2, <1>3, RunChanges DEF GroupInv
  <2> QED BY <1>1, <1>2, <1>3, <2>1
<1> QED BY <1>0, <1>2, <1>3, <1>4, FileVerdictStays, MemoryVerdictStays
        DEF VerdictInv, Fresh, At

LEMMA RunEndsVerdict ==
  ASSUME GroupInv, VerdictInv, At("execute"), Go("record"), NEW run \in RunShape,
         runs' = [runs EXCEPT ![current] = run], UNCHANGED <<spec, file, memoryVars>>
  PROVE  VerdictInv'
<1>0. Fresh \/ Resumed BY DEF At, Fresh, Resumed, GroupInv, GroupTypeOK
<1>1. /\ completed' = completed /\ file' = file /\ spec' = spec /\ inPlace' = inPlace
      /\ phase = "execute" /\ phase' = "record"
  BY DEF memoryVars, At, Go
<1>2. runs[current].status # "succeeded" BY <1>1 DEF VerdictInv, At
<1>3. Fresh' => Fresh BY <1>1 DEF Fresh
<1>4. /\ Heeded(file.entries)' /\ Backed(file.entries)'
      /\ Justified(file.status, file.entries, file.winner)'
      /\ Heeded(completed)' /\ Backed(completed)'
      /\ Fresh' => Open(completed)'
  BY <1>0, <1>1, <1>2, <1>3, FileVerdictStays, MemoryVerdictStays DEF VerdictInv
<1> QED BY <1>1, <1>4 DEF VerdictInv, At

LEMMA RunSucceedsVerdict ==
  ASSUME GroupInv, VerdictInv, RunSucceeds PROVE VerdictInv'
<1> USE DEF RunSucceeds
<1>1. current \in RunNumbers
  BY CurrentIsLast DEF Fresh, Resumed, At, GroupInv, GroupTypeOK
<1>2. PICK offers \in SUBSET Offers :
        runs' = [runs EXCEPT ![current].status = "succeeded", ![current].offers = offers]
  OBVIOUS
<1> DEFINE run == [runs[current] EXCEPT !.status = "succeeded", !.offers = offers]
<1>3. run \in RunShape BY <1>1, Elements DEF RunShape, IterationStatus, GroupInv
<1>4. runs' = [runs EXCEPT ![current] = run]
  BY <1>1, <1>2, Lengths, LenProperties DEF GroupInv, GroupTypeOK
<1> HIDE DEF run
<1> QED BY <1>3, <1>4, RunEndsVerdict

LEMMA RunFallsShortVerdict ==
  ASSUME GroupInv, VerdictInv, RunFallsShort PROVE VerdictInv'
<1> USE DEF RunFallsShort
<1>1. current \in RunNumbers
  BY CurrentIsLast DEF Fresh, Resumed, At, GroupInv, GroupTypeOK
<1>2. CASE runs' = [runs EXCEPT ![current].status = "parked", ![current].held = TRUE]
  <2> DEFINE run == [runs[current] EXCEPT !.status = "parked", !.held = TRUE]
  <2>1. run \in RunShape BY <1>1, Elements DEF RunShape, IterationStatus, GroupInv
  <2>2. runs' = [runs EXCEPT ![current] = run]
    BY <1>1, <1>2, Lengths, LenProperties DEF GroupInv, GroupTypeOK
  <2> HIDE DEF run
  <2> QED BY <2>1, <2>2, RunEndsVerdict
<1>3. CASE runs' = [runs EXCEPT ![current].status = "failed"]
  <2> DEFINE run == [runs[current] EXCEPT !.status = "failed"]
  <2>1. run \in RunShape BY <1>1, Elements DEF RunShape, IterationStatus, GroupInv
  <2>2. runs' = [runs EXCEPT ![current] = run] BY <1>3
  <2> HIDE DEF run
  <2> QED BY <2>1, <2>2, RunEndsVerdict
<1> QED BY <1>2, <1>3

LEMMA RunRaisesVerdict ==
  ASSUME GroupInv, VerdictInv, RunRaises PROVE VerdictInv'
<1> DEFINE run == [runs[current] EXCEPT !.status = "errored"]
<1>0. (Fresh \/ Resumed) /\ runs[current].status # "succeeded"
  BY DEF RunRaises, At, Fresh, Resumed, GroupInv, GroupTypeOK, VerdictInv
<1>1. current \in RunNumbers BY <1>0, CurrentIsLast
<1>2. run \in RunShape BY <1>1, Elements DEF GroupInv, RunShape, IterationStatus
<1>3. /\ runs' = [runs EXCEPT ![current] = run] /\ file' = file /\ spec' = spec
      /\ completed' = <<>> /\ phase' = "idle"
  BY DEF RunRaises, Dies, Leave, Go
<1> HIDE DEF run
<1>4. /\ Heeded(file.entries)' /\ Backed(file.entries)'
      /\ Justified(file.status, file.entries, file.winner)'
  BY <1>0, <1>2, <1>3, FileVerdictStays
<1> QED BY <1>3, <1>4 DEF VerdictInv, Heeded, Backed, Fresh, At

-----------------------------------------------------------------------------
(* A new round, and one that is put on the list.                            *)

LEMMA MaterializeVerdict ==
  ASSUME GroupInv, VerdictInv, NEW promoted \in {0} \cup RunNumbers, Materialize(promoted)
  PROVE  VerdictInv'
<1> DEFINE run == [status |-> "running", offers |-> {}, fed |-> feedback,
                   promoted |-> promoted, position |-> 0, held |-> FALSE]
<1>1. /\ completed' = completed /\ file' = file /\ spec' = spec
      /\ phase = "drive" /\ phase' = "execute" /\ runs' = Append(runs, run)
      /\ current' = Len(runs')
  BY DEF Materialize, At, Go
<1>2. run.status = "running" OBVIOUS
<1>3. run \in [status : {"running"}, offers : {{}}, fed : {feedback},
               promoted : {promoted}, position : {0}, held : {FALSE}]
  OBVIOUS
<1> HIDE DEF run
<1>4. runs \in Seq(RunShape) /\ Len(runs) \in Nat BY Lengths DEF GroupInv, GroupTypeOK
<1>5. /\ \A i \in RunNumbers : runs'[i] = runs[i]
      /\ runs'[current'] = run
  BY <1>1, <1>4, AppendProperties, Lengths DEF RunNumbers, GroupInv
<1>6. \A round \in RoundShape :
        /\ Decides(round)' <=> Decides(round)
        /\ runs'[round.run].status = runs[round.run].status
  BY <1>5 DEF Decides, Output, RoundShape
<1>7. /\ \A i \in 1..Len(file.entries) : file.entries[i] \in RoundShape
      /\ \A i \in 1..Len(completed) : completed[i] \in RoundShape
      /\ Len(file.entries) \in Nat /\ Len(completed) \in Nat
  BY Elements, Lengths DEF GroupInv
<1>8. Open(completed) BY <1>1 DEF VerdictInv, At
<1>9. Open(completed)'
  <2>1. Len(completed) >= 1 => Len(completed) \in 1..Len(completed) BY <1>7
  <2> QED BY <1>1, <1>6, <1>7, <1>8, <2>1 DEF Open, Is
<1>10. Heeded(completed)' /\ Backed(completed)'
  <2>1. \A i \in 1..(Len(completed) - 1) : i \in 1..Len(completed) BY <1>7
  <2> QED BY <1>1, <1>6, <1>7, <2>1 DEF VerdictInv, Heeded, Backed, Is
<1>11. Heeded(file.entries)' /\ Backed(file.entries)'
  <2>1. \A i \in 1..(Len(file.entries) - 1) : i \in 1..Len(file.entries) BY <1>7
  <2> QED BY <1>1, <1>6, <1>7, <2>1 DEF VerdictInv, Heeded, Backed, Is
<1>12. Open(file.entries) => Open(file.entries)'
  <2>1. Len(file.entries) >= 1 => Len(file.entries) \in 1..Len(file.entries) BY <1>7
  <2> QED BY <1>1, <1>6, <1>7, <2>1 DEF Open, Is
<1>13. Justified(file.status, file.entries, file.winner)'
  <2>1. Settled => file.status = "complete" /\ ~UnderCap
    BY <1>1 DEF GroupInv, MemoryInv, At
  <2>2. ~Settled BY <2>1 DEF Materialize
  <2> QED BY <1>1, <1>12, <2>2 DEF VerdictInv, Justified, Settled
<1> QED BY <1>1, <1>2, <1>5, <1>9, <1>10, <1>11, <1>13 DEF VerdictInv, At

LEMMA RecordVerdict ==
  ASSUME GroupInv, FeedInv, VerdictInv, Record PROVE VerdictInv'
<1> DEFINE run == [runs[current] EXCEPT !.position = Len(completed')]
           n == IF inPlace THEN Len(completed) ELSE Len(completed) + 1
<1>0. /\ phase = "record" /\ phase' = "judge" /\ file' = file /\ spec' = spec
      /\ current' = current /\ runs' = [runs EXCEPT ![current] = run]
  BY DEF Record, RecordMembership, At, Go
<1>1. (Fresh \/ Resumed) /\ (Fresh <=> ~inPlace)
  BY <1>0 DEF Fresh, Resumed, GroupInv, GroupTypeOK
<1>2. current \in RunNumbers BY <1>1, CurrentIsLast
<1>3. /\ Len(completed') = n /\ n >= 1 /\ completed'[n].run = current
      /\ \A i \in 1..(n - 1) : i \in 1..Len(completed) /\ completed'[i] = completed[i]
      /\ completed'[n].ok = (runs[current].status = "succeeded")
  BY RecordedRounds, RecordedLast
<1>4. n \in Nat /\ n <= spec.cap
  <2>1. ~inPlace => Len(completed) < spec.cap BY <1>1 DEF GroupInv, MemoryInv, UnderCap
  <2>2. Len(completed) <= spec.cap BY <1>0 DEF GroupInv, MemoryInv, At
  <2>3. CASE inPlace BY <2>2, <2>3, Lengths DEF GroupInv
  <2>4. CASE ~inPlace BY <2>1, <2>4, Lengths, SpecFacts DEF GroupInv
  <2> QED BY <2>3, <2>4
<1>5. runs[current] \in RunShape BY <1>2, Elements DEF GroupInv
<1>6. /\ run \in RunShape /\ run.status = runs[current].status
      /\ run.offers = runs[current].offers
  <2>1. n \in 0..spec.cap BY <1>4, SpecFacts DEF GroupInv
  <2> QED BY <1>3, <1>5, <2>1 DEF RunShape
<1> HIDE DEF run
<1>7. /\ Heeded(file.entries)' /\ Backed(file.entries)'
      /\ Justified(file.status, file.entries, file.winner)'
  BY <1>0, <1>1, <1>6, FileVerdictStays
<1>8. \A i \in 1..Len(completed) :
        completed[i].ok => runs'[completed[i].run].status = "succeeded"
  <2>1. \A round \in RoundShape :
          (round.ok => runs[round.run].status = "succeeded") =>
            (round.ok => runs'[round.run].status = "succeeded")
    BY <1>0, <1>1, <1>6, DecidesStays
  <2> QED BY <2>1, Elements DEF GroupInv, VerdictInv, Backed
<1> DEFINE Deciding == {"done", "accept", "reject"}
<1>9. \A round \in RoundShape :
        /\ round.ok => runs[round.run].status = "succeeded"
        /\ ~(round.ok /\ runs[round.run].offers \cap Deciding # {})
        => ~(round.ok /\ runs'[round.run].offers \cap Deciding # {})
  BY <1>0, <1>1, <1>6, DecidesStays DEF Decides, Output
<1>10. runs'[current].status = runs[current].status
  <2>1. \A i \in RunNumbers : runs'[i] = IF i = current THEN run ELSE runs[i]
    BY <1>0, <1>2, <1>6, RunChanges DEF GroupInv
  <2> QED BY <1>2, <1>6, <2>1
<1>11. Backed(completed)'
  <2> SUFFICES ASSUME NEW i \in 1..n, completed'[i].ok
               PROVE  runs'[completed'[i].run].status = "succeeded"
    BY <1>3 DEF Backed
  <2>1. CASE i = n BY <1>3, <1>10, <2>1
  <2>2. CASE i # n
    <3>1. i \in 1..(n - 1) BY <1>4, <2>2
    <3> QED BY <1>3, <1>8, <3>1
  <2> QED BY <2>1, <2>2
<1>12. Heeded(completed)'
  <2> SUFFICES ASSUME ~Is("tournament"), NEW i \in 1..(n - 1)
               PROVE  ~(/\ completed'[i].ok
                        /\ runs'[completed'[i].run].offers \cap Deciding # {})
    BY <1>0, <1>3 DEF Heeded, Decides, Output, Is
  <2>1. i \in 1..Len(completed) /\ completed'[i] = completed[i] BY <1>3
  <2>2. completed[i] \in RoundShape /\ (completed[i].ok => runs[completed[i].run].status = "succeeded")
    BY <2>1, Elements DEF GroupInv, VerdictInv, Backed
  <2>3. ~Decides(completed[i])
    <3>1. CASE inPlace
      <4>1. i \in 1..(Len(completed) - 1) BY <3>1
      <4> QED BY <4>1 DEF VerdictInv, Heeded
    <3>2. CASE ~inPlace
      <4>1. Open(completed) BY <1>1, <3>2 DEF VerdictInv
      <4>2. CASE i = Len(completed)
        <5>1. Len(completed) >= 1 BY <2>1, Lengths DEF GroupInv
        <5> QED BY <4>1, <4>2, <5>1 DEF Open
      <4>3. CASE i # Len(completed)
        <5>1. Len(completed) \in Nat BY Lengths DEF GroupInv
        <5>2. i \in 1..(Len(completed) - 1) BY <2>1, <4>3, <5>1
        <5> QED BY <5>2 DEF VerdictInv, Heeded
      <4> QED BY <4>2, <4>3
    <3> QED BY <3>1, <3>2
  <2>4. ~(completed[i].ok /\ runs'[completed[i].run].offers \cap Deciding # {})
    BY <1>9, <2>2, <2>3 DEF Decides, Output
  <2> QED BY <2>1, <2>4
<1> QED BY <1>0, <1>7, <1>11, <1>12 DEF VerdictInv, Fresh, At

-----------------------------------------------------------------------------
(* Verdicts.                                                                *)

(* The last of the rounds that named a winner, if the last round did.       *)
LEMMA LastNamedLast ==
  ASSUME NEW rounds \in Seq(RoundShape), Len(rounds) >= 1,
         rounds[Len(rounds)].promoted # 0
  PROVE  LastNamed(rounds) = rounds[Len(rounds)].promoted
<1> DEFINE n == Len(rounds)
           Last(i) == /\ rounds[i].promoted # 0
                      /\ \A j \in DOMAIN rounds : j > i => rounds[j].promoted = 0
           c == CHOOSE i \in DOMAIN rounds : Last(i)
<1>1. n \in Nat /\ DOMAIN rounds = 1..n /\ n \in DOMAIN rounds
  <2>1. n \in Nat /\ DOMAIN rounds = 1..n BY LenProperties
  <2> QED BY <2>1
<1>2. Last(n)
  <2>1. \A j \in DOMAIN rounds : ~(j > n) BY <1>1
  <2> QED BY <2>1
<1>3. c \in DOMAIN rounds /\ Last(c) BY <1>1, <1>2
<1>4. LastNamed(rounds) = rounds[c].promoted BY <1>1 DEF LastNamed
<1>5. c = n
  <2>1. ~(n > c) BY <1>1, <1>3
  <2> HIDE DEF c, n
  <2> QED BY <1>1, <1>3, <2>1
<1> QED BY <1>4, <1>5

(* What is known of the round being judged.                                 *)
LEMMA Judged ==
  ASSUME GroupInv, FeedInv, At("judge")
  PROVE  LET Last == completed[Len(completed)]
         IN /\ Len(completed) >= 1 /\ Last.run = current
            /\ Last.ok = (runs[current].status = "succeeded")
            /\ current \in RunNumbers /\ Output(current) \subseteq Offers
<1>1. Len(completed) >= 1 /\ completed[Len(completed)].run = current
  BY DEF GroupInv, MemoryInv, Resumed, At
<1>2. completed[Len(completed)].ok = (runs[current].status = "succeeded") BY DEF FeedInv
<1>3. current \in RunNumbers BY CurrentIsLast DEF Resumed, At
<1>4. runs[current] \in RunShape BY <1>3, Elements DEF GroupInv
<1>5. Output(current) \subseteq Offers BY <1>4 DEF RunShape, Output
<1> QED BY <1>1, <1>2, <1>3, <1>5

LEMMA LoopJudgesVerdict ==
  ASSUME GroupInv, FeedInv, VerdictInv, LoopJudges PROVE VerdictInv'
<1> DEFINE verdict == IterationVerdict(current)
           Last == completed[Len(completed)]
<1>0. Is("loop") /\ At("judge") /\ Judge(verdict) BY DEF LoopJudges
<1>1. /\ Len(completed) >= 1 /\ Last.run = current
      /\ Last.ok = (runs[current].status = "succeeded")
      /\ Output(current) \subseteq Offers
  BY <1>0, Judged
<1>2. spec \in Specs /\ ~spec.reject
  BY <1>0, RejectAssumption DEF GroupInv, GroupTypeOK, Is
<1>3. Output(current) \subseteq {"feedback", "done"}
  <2>1. Offers \subseteq {"feedback", "done"} BY <1>0, <1>2 DEF Offers, Is
  <2> QED BY <1>1, <2>1
<1>4. \/ verdict = "failed" /\ runs[current].status # "succeeded"
      \/ verdict = "done" /\ "done" \in Output(current)
      \/ verdict = "none" /\ "done" \notin Output(current)
  BY DEF IterationVerdict
<1> HIDE DEF verdict
<1>5. CASE verdict = "failed" /\ runs[current].status # "succeeded"
  <2>1. Open(completed) BY <1>1, <1>5 DEF Open, Decides
  <2>2. Justified("failed", completed, LastNamed(completed)) BY <2>1 DEF Justified
  <2> QED BY <1>0, <1>5, <2>2, StopVerdict DEF Judge
<1>6. CASE verdict = "done" /\ "done" \in Output(current)
  <2>1. Justified("done", completed, LastNamed(completed)) BY <1>1, <1>6 DEF Justified
  <2> QED BY <1>0, <1>6, <2>1, StopVerdict DEF Judge
<1>7. CASE verdict = "none" /\ "done" \notin Output(current)
  <2>1. Output(current) \cap {"done", "accept", "reject"} = {} BY <1>3, <1>7
  <2>2. Open(completed) BY <1>1, <2>1 DEF Open, Decides
  <2> QED BY <1>0, <1>7, <2>2, ContinueVerdict DEF Judge
<1> QED BY <1>4, <1>5, <1>6, <1>7

LEMMA VerifyJudgesVerdict ==
  ASSUME GroupInv, FeedInv, VerdictInv, VerifyJudges PROVE VerdictInv'
<1> DEFINE verdict == VerificationVerdict(current)
           Last == completed[Len(completed)]
<1>0. Is("verify") /\ At("judge") /\ Judge(verdict) BY DEF VerifyJudges
<1>1. /\ Len(completed) >= 1 /\ Last.run = current
      /\ Last.ok = (runs[current].status = "succeeded")
      /\ Output(current) \subseteq Offers
  BY <1>0, Judged
<1>2. Output(current) \subseteq {"feedback", "reject", "accept"}
  <2>1. Offers \subseteq {"feedback", "reject", "accept"} BY <1>0 DEF Offers, Is
  <2> QED BY <1>1, <2>1
<1>3. \/ verdict = "failed" /\ runs[current].status # "succeeded"
      \/ verdict = "accepted" /\ "accept" \in Output(current)
      \/ /\ verdict = "rejected"
         /\ "reject" \in Output(current) /\ "accept" \notin Output(current)
      \/ /\ verdict = "none"
         /\ "reject" \notin Output(current) /\ "accept" \notin Output(current)
  BY DEF VerificationVerdict
<1> HIDE DEF verdict
<1>4. CASE verdict = "failed" /\ runs[current].status # "succeeded"
  <2>1. Open(completed) BY <1>1, <1>4 DEF Open, Decides
  <2>2. Justified("failed", completed, LastNamed(completed)) BY <2>1 DEF Justified
  <2> QED BY <1>0, <1>4, <2>2, StopVerdict DEF Judge
<1>5. CASE verdict = "accepted" /\ "accept" \in Output(current)
  <2>1. Justified("accepted", completed, LastNamed(completed)) BY <1>1, <1>5 DEF Justified
  <2> QED BY <1>0, <1>5, <2>1, StopVerdict DEF Judge
<1>6. CASE /\ verdict = "rejected"
           /\ "reject" \in Output(current) /\ "accept" \notin Output(current)
  <2>1. Justified("rejected", completed, LastNamed(completed)) BY <1>1, <1>6 DEF Justified
  <2> QED BY <1>0, <1>6, <2>1, StopVerdict DEF Judge
<1>7. CASE /\ verdict = "none"
           /\ "reject" \notin Output(current) /\ "accept" \notin Output(current)
  <2>1. Output(current) \cap {"done", "accept", "reject"} = {} BY <1>2, <1>7
  <2>2. Open(completed) BY <1>1, <2>1 DEF Open, Decides
  <2> QED BY <1>0, <1>7, <2>2, ContinueVerdict DEF Judge
<1> QED BY <1>3, <1>4, <1>5, <1>6, <1>7

(* The cap is reached behind a round that decided nothing.                  *)
LEMMA CapReachedVerdict ==
  ASSUME GroupInv, VerdictInv, ~Is("tournament"),
         NEW status \in {"exhausted", "rejected"}, CapReached(status)
  PROVE  VerdictInv'
<1>1. Open(completed) BY DEF VerdictInv, CapReached, At
<1>2. Len(completed) = spec.cap /\ Len(completed) >= 1
  <2>1. Len(completed) <= spec.cap BY DEF GroupInv, MemoryInv, CapReached, At
  <2> QED BY <2>1, Lengths, SpecFacts DEF CapReached, UnderCap, GroupInv
<1>3. ~Decides(completed[Len(completed)]) BY <1>1, <1>2 DEF Open
<1>4. Justified(status, completed, LastNamed(completed)) BY <1>2, <1>3 DEF Justified
<1> QED BY <1>4, StopVerdict DEF CapReached

LEMMA RoundLostVerdict ==
  ASSUME GroupInv, VerdictInv, RoundLost PROVE VerdictInv'
<1>1. Justified("failed", completed, LastNamed(completed))
  BY DEF RoundLost, Justified, Open
<1> QED BY <1>1, StopVerdict DEF RoundLost

LEMMA RoundWonVerdict ==
  ASSUME GroupInv, FeedInv, VerdictInv, RoundWon PROVE VerdictInv'
<1> DEFINE n == Len(completed)
           round == [completed[n] EXCEPT !.promoted = RoundWinner(current)]
<1>0. /\ Is("tournament") /\ At("judge")
      /\ file' = file /\ spec' = spec /\ runs' = runs
      /\ completed' = [completed EXCEPT ![n] = round]
      /\ \/ phase' = "drive"
         \/ phase' = "persist" /\ pending' = IF UnderCap THEN "running" ELSE "complete"
  BY DEF RoundWon, Write, diskVars, Go
<1>1. n \in Nat /\ n >= 1 /\ completed[n].run = current /\ current \in RunNumbers
  BY <1>0, Judged, Lengths DEF GroupInv
<1>2. n \in 1..n /\ completed[n] \in RoundShape BY <1>1, Elements DEF GroupInv
<1>3. RoundWinner(current) = current /\ current # 0
  BY <1>1 DEF RoundWon, RoundWinner, RunNumbers
<1>4. /\ round \in RoundShape /\ round.run = current /\ round.ok = completed[n].ok
      /\ round.promoted = current
  BY <1>1, <1>2, <1>3 DEF RoundShape
<1> HIDE DEF round
<1>5. completed \in Seq(RoundShape) BY DEF GroupInv, GroupTypeOK
<1>6. /\ completed' \in Seq(RoundShape) /\ Len(completed') = n /\ completed'[n] = round
      /\ \A i \in 1..n : i # n => completed'[i] = completed[i]
  BY <1>0, <1>1, <1>2, <1>4, <1>5, ExceptSeq
<1>7. \A i \in 1..n : completed'[i].run = completed[i].run /\ completed'[i].ok = completed[i].ok
  BY <1>1, <1>4, <1>6
<1> HIDE DEF n
<1>8. Backed(completed)'
  <2>1. \A i \in 1..n : completed[i].ok => runs[completed[i].run].status = "succeeded"
    BY DEF VerdictInv, Backed, n
  <2> QED BY <1>0, <1>6, <1>7, <2>1 DEF Backed
<1>9. Heeded(completed)' /\ Open(completed)' BY <1>0 DEF Heeded, Open, Is
<1>10. /\ Heeded(file.entries)' /\ Backed(file.entries)'
       /\ Justified(file.status, file.entries, file.winner)'
  BY <1>0 DEF VerdictInv, Heeded, Backed, Justified, Open, Decides, Output, Is
<1>11. phase' = "persist" => Justified(pending, completed, LastNamed(completed))'
  <2>1. CASE UnderCap
    BY <1>0, <1>9, <2>1 DEF Justified
  <2>2. CASE ~UnderCap
    <3>1. n = spec.cap
      <4>1. n <= spec.cap BY <1>0 DEF GroupInv, MemoryInv, At, n
      <4> QED BY <1>1, <2>2, <4>1, SpecFacts DEF UnderCap, GroupInv, n
    <3>2. LastNamed(completed') = current
      BY <1>1, <1>3, <1>4, <1>6, LastNamedLast
    <3>3. LastNamed(completed)' = LastNamed(completed') BY DEF LastNamed
    <3> QED BY <1>0, <1>4, <1>6, <2>2, <3>1, <3>2, <3>3 DEF Justified
  <2> QED BY <2>1, <2>2
<1> QED BY <1>0, <1>8, <1>9, <1>10, <1>11 DEF VerdictInv, Fresh, At

-----------------------------------------------------------------------------
(* The controllers' own steps are those above.                              *)

LEMMA LoopVerdict ==
  ASSUME GroupInv, FeedInv, VerdictInv, RunLoop \/ ResumeLoop \/ LoopDrive
  PROVE  VerdictInv'
<1>1. CASE RunLoop BY <1>1, BeginVerdict DEF RunLoop
<1>2. CASE ResumeLoop BY <1>2, ReloadVerdict DEF ResumeLoop
<1>3. CASE LoopRound BY <1>3, MaterializeVerdict DEF LoopRound
<1>4. CASE LoopRefuses BY <1>4, LeaveVerdict DEF LoopRefuses, Refuse, diskVars
<1>5. CASE LoopJudges BY <1>5, LoopJudgesVerdict
<1>6. CASE LoopExhausts BY <1>6, CapReachedVerdict DEF LoopExhausts, Is
<1>7. CASE LoopGoesOn BY <1>7, GoOnVerdict DEF LoopGoesOn
<1> QED BY <1>1, <1>2, <1>3, <1>4, <1>5, <1>6, <1>7 DEF LoopDrive

LEMMA VerificationKept ==
  ASSUME GroupInv, FeedInv, VerdictInv, RunVerification \/ ResumeVerification \/ VerifyDrive
  PROVE  VerdictInv'
<1>1. CASE RunVerification BY <1>1, BeginVerdict DEF RunVerification
<1>2. CASE ResumeVerification BY <1>2, ReloadVerdict DEF ResumeVerification
<1>3. CASE VerifyRound BY <1>3, MaterializeVerdict DEF VerifyRound
<1>4. CASE VerifyRefuses BY <1>4, LeaveVerdict DEF VerifyRefuses, Refuse, diskVars
<1>5. CASE VerifyJudges BY <1>5, VerifyJudgesVerdict
<1>6. CASE VerifyExhausts BY <1>6, CapReachedVerdict DEF VerifyExhausts, Is
<1>7. CASE VerifyGoesOn BY <1>7, GoOnVerdict DEF VerifyGoesOn
<1> QED BY <1>1, <1>2, <1>3, <1>4, <1>5, <1>6, <1>7 DEF VerifyDrive

LEMMA TournamentVerdict ==
  ASSUME GroupInv, FeedInv, VerdictInv, RunTournament \/ ResumeTournament \/ TournamentDrive
  PROVE  VerdictInv'
<1>1. CASE RunTournament BY <1>1, BeginVerdict DEF RunTournament
<1>2. CASE ResumeTournament BY <1>2, ReloadVerdict DEF ResumeTournament
<1>3. CASE TournamentRound
  BY <1>3, WinnerPromoted, MaterializeVerdict DEF TournamentRound
<1>4. CASE TournamentRefuses BY <1>4, LeaveVerdict DEF TournamentRefuses, Refuse, diskVars
<1>5. CASE RoundLost BY <1>5, RoundLostVerdict
<1>6. CASE RoundWon BY <1>6, RoundWonVerdict
<1>7. CASE TournamentReturns BY <1>7, LeaveVerdict DEF TournamentReturns, diskVars
<1>8. CASE TournamentGoesOn BY <1>8, GoOnVerdict DEF TournamentGoesOn
<1> QED BY <1>1, <1>2, <1>3, <1>4, <1>5, <1>6, <1>7, <1>8 DEF TournamentDrive

LEMMA VerdictStep ==
  ASSUME GroupInv, FeedInv, VerdictInv, [GroupNext]_groupVars PROVE VerdictInv'
<1>1. CASE Drive
  <2>1. CASE LoopDrive BY <2>1, LoopVerdict
  <2>2. CASE VerifyDrive BY <2>2, VerificationKept
  <2>3. CASE TournamentDrive BY <2>3, TournamentVerdict
  <2>4. CASE ResumeLast BY <2>4, ResumeLastVerdict
  <2>5. CASE Record BY <2>5, RecordVerdict
  <2>6. CASE Persist BY <2>6, PersistVerdict
  <2> QED BY <1>1, <2>1, <2>2, <2>3, <2>4, <2>5, <2>6 DEF Drive
<1>2. CASE RunEnds BY <1>2, RunSucceedsVerdict, RunFallsShortVerdict DEF RunEnds
<1>3. CASE Invoke
  BY <1>3, LoopVerdict, VerificationKept, TournamentVerdict DEF Invoke, ResumeGroup
<1>4. CASE KillDrive BY <1>4, LeaveVerdict DEF KillDrive, Dies, diskVars
<1>5. CASE KillWrite BY <1>5, LeaveVerdict DEF KillWrite, Dies
<1>6. CASE RunRaises BY <1>6, RunRaisesVerdict
<1>7. CASE UNCHANGED groupVars
  BY <1>7 DEF groupVars, diskVars, memoryVars, VerdictInv, Heeded, Backed, Justified, Open,
              Decides, Output, Is, At, Fresh, LastNamed
<1> QED BY <1>1, <1>2, <1>3, <1>4, <1>5, <1>6, <1>7 DEF GroupNext, Dying, GroupAtRest

(* What is written for a group is justified by its last round, and only an  *)
(* undecided round is gone past, wherever the controller is killed.         *)
THEOREM VerdictInvHolds == GroupSafety => []VerdictInv
<1>1. GroupInit => VerdictInv
  BY DEF GroupInit, NoFile, VerdictInv, Heeded, Backed, Justified, At, Fresh
<1>2. GroupInv /\ FeedInv /\ VerdictInv /\ [GroupNext]_groupVars => VerdictInv'
  BY VerdictStep
<1> QED BY <1>1, <1>2, GroupInvHolds, FeedInvHolds, PTL DEF GroupSafety

-----------------------------------------------------------------------------
(* Verdicts lost to kills.                                                  *)

(* A Run that was resumed in place and has ended is still to be judged, and *)
(* its verdict to be written.                                               *)
InHand(rounds, phases) == IF inPlace /\ phase \in phases THEN {Len(rounds)} ELSE {}

LostInMemory == Unheard(completed) \ InHand(completed, {"record"})
LostOnFile == Unheard(file.entries) \ InHand(file.entries, {"record", "judge", "persist"})

(* Only a Run that succeeded has an output.                                 *)
OutputsEarned == \A r \in RunNumbers : runs[r].status # "succeeded" => runs[r].offers = {}

LostInv ==
  /\ OutputsEarned
  /\ Cardinality(LostInMemory) <= kills
  /\ Cardinality(LostOnFile) <= kills

LEMMA UnheardFinite ==
  ASSUME NEW rounds, Len(rounds) \in Nat, DOMAIN rounds = 1..Len(rounds)
  PROVE  \A S : S \subseteq Unheard(rounds) => IsFiniteSet(S) /\ Cardinality(S) \in Nat
<1>1. IsFiniteSet(1..Len(rounds)) BY FS_Interval
<1>2. Unheard(rounds) \subseteq 1..Len(rounds) BY DEF Unheard
<1> SUFFICES ASSUME NEW S, S \subseteq Unheard(rounds)
             PROVE  IsFiniteSet(S) /\ Cardinality(S) \in Nat
  OBVIOUS
<1>3. S \in SUBSET (1..Len(rounds)) BY <1>2
<1>4. IsFiniteSet(S) BY <1>1, <1>3, FS_Subset
<1> QED BY <1>4, FS_CardinalityType

LEMMA LostFinite ==
  ASSUME GroupInv
  PROVE  /\ IsFiniteSet(LostInMemory) /\ Cardinality(LostInMemory) \in Nat
         /\ IsFiniteSet(LostOnFile) /\ Cardinality(LostOnFile) \in Nat
BY Lengths, UnheardFinite DEF GroupInv, LostInMemory, LostOnFile

(* A step that is no kill loses no verdict, and a kill loses at most the    *)
(* one in hand.                                                             *)
LEMMA LostStays ==
  ASSUME GroupInv, LostInv, OutputsEarned', kills' = kills,
         LostInMemory' \subseteq LostInMemory, LostOnFile' \subseteq LostOnFile
  PROVE  LostInv'
<1> DEFINE M == LostInMemory F == LostOnFile MM == LostInMemory' FF == LostOnFile'
<1>1. IsFiniteSet(M) /\ IsFiniteSet(F) /\ Cardinality(M) \in Nat /\ Cardinality(F) \in Nat
  BY LostFinite
<1>2. MM \in SUBSET M /\ FF \in SUBSET F OBVIOUS
<1>3. Cardinality(M) <= kills /\ Cardinality(F) <= kills /\ kills \in Nat
  BY Lengths DEF LostInv, GroupInv
<1> HIDE DEF M, F, MM, FF
<1>4. /\ IsFiniteSet(MM) /\ Cardinality(MM) <= Cardinality(M)
      /\ IsFiniteSet(FF) /\ Cardinality(FF) <= Cardinality(F)
  BY <1>1, <1>2, FS_Subset
<1>5. Cardinality(MM) \in Nat /\ Cardinality(FF) \in Nat BY <1>4, FS_CardinalityType
<1>6. Cardinality(MM) <= kills /\ Cardinality(FF) <= kills BY <1>1, <1>3, <1>4, <1>5
<1> QED BY <1>6 DEF LostInv, MM, FF

LEMMA LostAtKill ==
  ASSUME GroupInv, LostInv, OutputsEarned', kills' = kills + 1,
         LostInMemory' = {}, NEW x, LostOnFile' \subseteq LostOnFile \cup {x}
  PROVE  LostInv'
<1> DEFINE F == LostOnFile FF == LostOnFile'
<1>1. IsFiniteSet(F) /\ Cardinality(F) \in Nat BY LostFinite
<1>2. FF \in SUBSET (F \cup {x}) OBVIOUS
<1>3. Cardinality(F) <= kills /\ kills \in Nat BY Lengths DEF LostInv, GroupInv
<1> HIDE DEF F, FF
<1>4. /\ IsFiniteSet(F \cup {x})
      /\ Cardinality(F \cup {x}) = Cardinality(F) \/ Cardinality(F \cup {x}) = Cardinality(F) + 1
  BY <1>1, FS_AddElement
<1>5. IsFiniteSet(FF) /\ Cardinality(FF) <= Cardinality(F \cup {x}) BY <1>2, <1>4, FS_Subset
<1>6. Cardinality(FF) \in Nat BY <1>5, FS_CardinalityType
<1>7. Cardinality(FF) <= kills + 1 BY <1>1, <1>3, <1>4, <1>5, <1>6
<1>8. Cardinality(LostInMemory') <= kills + 1 BY <1>3, FS_EmptySet
<1> QED BY <1>7, <1>8 DEF LostInv, FF

-----------------------------------------------------------------------------
(* Steps that leave the Runs alone.                                         *)

LEMMA SameUnheard ==
  ASSUME UNCHANGED runs
  PROVE  /\ file' = file => Unheard(file.entries)' = Unheard(file.entries)
         /\ completed' = completed => Unheard(completed)' = Unheard(completed)
         /\ completed' = file.entries => Unheard(completed)' = Unheard(file.entries)
         /\ completed' = <<>> => Unheard(completed)' = {}
         /\ file'.entries = completed => Unheard(file.entries)' = Unheard(completed)
         /\ file'.entries = <<>> => Unheard(file.entries)' = {}
         /\ OutputsEarned => OutputsEarned'
BY DEF Unheard, Output, OutputsEarned, RunNumbers

(* Between the points where a verdict is in hand.                           *)
LEMMA QuietLost ==
  ASSUME GroupInv, LostInv, UNCHANGED <<runs, file, completed, kills>>,
         phase \notin {"record", "judge", "persist"}
  PROVE  LostInv'
<1>1. LostInMemory' \subseteq LostInMemory /\ LostOnFile' \subseteq LostOnFile
  BY SameUnheard DEF LostInMemory, LostOnFile, InHand
<1> QED BY <1>1, SameUnheard, LostStays DEF LostInv

LEMMA ReloadLost ==
  ASSUME GroupInv, LostInv, NEW final, Reload(final) PROVE LostInv'
<1>1. /\ phase = "idle" /\ phase' = "load" /\ runs' = runs /\ file' = file
      /\ completed' = file.entries /\ kills' = kills
  BY DEF Reload, At, Go, diskVars
<1>2. LostOnFile' = LostOnFile /\ LostInMemory' = LostOnFile
  BY <1>1, SameUnheard DEF LostInMemory, LostOnFile, InHand
<1>3. OutputsEarned' BY <1>1, SameUnheard DEF LostInv
<1>4. Cardinality(LostOnFile) <= kills BY DEF LostInv
<1>5. Cardinality(LostOnFile') <= kills' BY <1>1, <1>2, <1>4
<1>6. Cardinality(LostInMemory') <= kills' BY <1>1, <1>2, <1>4
<1> QED BY <1>3, <1>5, <1>6 DEF LostInv

(* A process that ends by itself has no verdict in hand.                    *)
LEMMA LeaveLost ==
  ASSUME GroupInv, LostInv, At("drive"), Leave, UNCHANGED <<runs, file, kills>>
  PROVE  LostInv'
<1>1. phase = "drive" /\ phase' = "idle" /\ completed' = <<>>
  BY DEF Leave, At, Go
<1>2. LostInMemory' \subseteq LostInMemory /\ LostOnFile' \subseteq LostOnFile
  BY <1>1, SameUnheard DEF LostInMemory, LostOnFile, InHand
<1> QED BY <1>2, SameUnheard, LostStays DEF LostInv

LEMMA KillLost ==
  ASSUME GroupInv, LostInv, KillDrive \/ KillWrite PROVE LostInv'
<1>1. /\ phase' = "idle" /\ completed' = <<>> /\ runs' = runs /\ kills' = kills + 1
      /\ file' = file \/ file'.entries = <<>>
  BY DEF KillDrive, KillWrite, Dies, Leave, Go, diskVars, Torn, NoFile
<1>2. LostInMemory' = {} BY <1>1, SameUnheard DEF LostInMemory
<1>3. LostOnFile' \subseteq LostOnFile \cup {Len(file.entries)}
  BY <1>1, SameUnheard DEF LostOnFile, InHand
<1>4. OutputsEarned' BY <1>1, SameUnheard DEF LostInv
<1> QED BY <1>1, <1>2, <1>3, <1>4, LostAtKill

(* What is written was judged.                                              *)
LEMMA StopLost ==
  ASSUME GroupInv, LostInv, NEW status, Stop(status), phase \in {"drive", "judge"}
  PROVE  LostInv'
<1>1. /\ phase' = "persist" /\ runs' = runs /\ file' = file /\ completed' = completed
      /\ kills' = kills /\ inPlace' = inPlace
  BY DEF Stop, Write, Go, diskVars
<1>2. LostInMemory' \subseteq LostInMemory /\ LostOnFile' \subseteq LostOnFile
  BY <1>1, SameUnheard DEF LostInMemory, LostOnFile, InHand
<1> QED BY <1>1, <1>2, SameUnheard, LostStays DEF LostInv

LEMMA PersistLost ==
  ASSUME GroupInv, LostInv, Persist PROVE LostInv'
<1>1. /\ phase = "persist" /\ phase' \in {"idle", "drive"} /\ runs' = runs
      /\ file'.entries = completed /\ kills' = kills
      /\ completed' = completed \/ completed' = <<>>
  BY DEF Persist, Document, At, Go, Leave, memoryVars
<1>2. LostInMemory = Unheard(completed) BY <1>1 DEF LostInMemory, InHand
<1>3. LostOnFile' = LostInMemory BY <1>1, <1>2, SameUnheard DEF LostOnFile, InHand
<1>4. LostInMemory' = LostInMemory \/ LostInMemory' = {}
  BY <1>1, <1>2, SameUnheard DEF LostInMemory, InHand
<1>5. OutputsEarned' BY <1>1, SameUnheard DEF LostInv
<1>6. Cardinality(LostInMemory) <= kills /\ kills \in Nat BY Lengths DEF LostInv, GroupInv
<1>7. Cardinality(LostOnFile') <= kills' BY <1>1, <1>3, <1>6
<1>8. Cardinality(LostInMemory') <= kills'
  <2>1. CASE LostInMemory' = LostInMemory BY <1>1, <1>6, <2>1
  <2>2. CASE LostInMemory' = {}
    <3>1. Cardinality(LostInMemory') = 0 BY <2>2, FS_EmptySet
    <3> QED BY <1>1, <1>6, <3>1
  <2> QED BY <1>4, <2>1, <2>2
<1> QED BY <1>5, <1>7, <1>8 DEF LostInv

-----------------------------------------------------------------------------
(* Steps that change the Run in hand.                                       *)

LEMMA NotLast ==
  ASSUME NEW n \in Nat, NEW i \in 1..n, i # n PROVE i \in 1..(n - 1)
OBVIOUS

LEMMA CurrentLost ==
  ASSUME GroupInv, LostInv, Fresh \/ Resumed, UNCHANGED <<spec, file>>,
         NEW run \in RunShape, runs' = [runs EXCEPT ![current] = run],
         run.status # "succeeded" => run.offers = {}
  PROVE  /\ OutputsEarned'
         /\ Unheard(file.entries)' \subseteq Unheard(file.entries) \cup {Len(file.entries)}
         /\ run.offers = runs[current].offers \/ Fresh =>
              Unheard(file.entries)' \subseteq Unheard(file.entries)
         /\ completed' = completed =>
              /\ Unheard(completed)' \subseteq Unheard(completed) \cup {Len(completed)}
              /\ run.offers = runs[current].offers \/ Fresh =>
                   Unheard(completed)' \subseteq Unheard(completed)
<1>1. current \in RunNumbers BY CurrentIsLast
<1>2. /\ \A i \in RunNumbers : runs'[i] = IF i = current THEN run ELSE runs[i]
      /\ RunNumbers' = RunNumbers
  BY <1>1, RunChanges DEF GroupInv, RunNumbers
<1>3. OutputsEarned' BY <1>1, <1>2 DEF LostInv, OutputsEarned
<1>4. /\ Len(completed) \in Nat /\ DOMAIN completed = 1..Len(completed)
      /\ Len(file.entries) \in Nat /\ DOMAIN file.entries = 1..Len(file.entries)
      /\ \A i \in 1..Len(completed) : completed[i].run \in RunNumbers
      /\ \A i \in 1..Len(file.entries) : file.entries[i].run \in RunNumbers
  BY Lengths, Elements DEF GroupInv
<1>5. /\ \A i \in 1..Len(completed) : i # Len(completed) => completed[i].run # current
      /\ \A i \in 1..Len(file.entries) : i # Len(file.entries) => file.entries[i].run # current
  <2> DEFINE c == Len(completed) e == Len(file.entries)
  <2>1. c \in Nat /\ e \in Nat BY <1>4
  <2> HIDE DEF c, e
  <2>2. \A i \in 1..c : i # c => i \in 1..(c - 1) BY <2>1, NotLast
  <2>3. \A i \in 1..e : i # e => i \in 1..(e - 1) BY <2>1, NotLast
  <2> QED BY <2>2, <2>3, CurrentIsLast DEF c, e
<1>6. Fresh => /\ \A i \in 1..Len(completed) : completed[i].run # current
               /\ \A i \in 1..Len(file.entries) : file.entries[i].run # current
  <2> SUFFICES ASSUME Fresh
               PROVE  /\ \A i \in 1..Len(completed) : completed[i].run # current
                      /\ \A i \in 1..Len(file.entries) : file.entries[i].run # current
    OBVIOUS
  <2>1. \A i \in 1..Len(completed) : completed[i].run # current BY CurrentIsLast
  <2>2. Len(file.entries) <= Len(completed) BY DEF GroupInv, MemoryInv, Fresh, At
  <2>3. \A i \in 1..Len(file.entries) : file.entries[i].run = completed[i].run
    BY DEF GroupInv, OrderInv, Fresh, At
  <2>4. \A i \in 1..Len(file.entries) : i \in 1..Len(completed) BY <1>4, <2>2
  <2> QED BY <2>1, <2>3, <2>4
<1>7. Unheard(file.entries)' =
        {i \in 1..Len(file.entries) :
           ~file.entries[i].ok /\ runs'[file.entries[i].run].offers \cap Decisive # {}}
  BY <1>4 DEF Unheard, Output
<1>8. completed' = completed =>
        Unheard(completed)' =
          {i \in 1..Len(completed) :
             ~completed[i].ok /\ runs'[completed[i].run].offers \cap Decisive # {}}
  BY <1>4 DEF Unheard, Output
<1>9. /\ Unheard(file.entries)' \subseteq Unheard(file.entries) \cup {Len(file.entries)}
      /\ run.offers = runs[current].offers \/ Fresh =>
           Unheard(file.entries)' \subseteq Unheard(file.entries)
  <2>1. \A i \in 1..Len(file.entries) :
          file.entries[i].run # current \/ run.offers = runs[current].offers =>
            runs'[file.entries[i].run].offers = runs[file.entries[i].run].offers
    BY <1>1, <1>2, <1>4
  <2>2. Unheard(file.entries) =
          {i \in 1..Len(file.entries) :
             ~file.entries[i].ok /\ runs[file.entries[i].run].offers \cap Decisive # {}}
    BY <1>4 DEF Unheard, Output
  <2> QED BY <1>5, <1>6, <1>7, <2>1, <2>2
<1>10. completed' = completed =>
         /\ Unheard(completed)' \subseteq Unheard(completed) \cup {Len(completed)}
         /\ run.offers = runs[current].offers \/ Fresh =>
              Unheard(completed)' \subseteq Unheard(completed)
  <2>1. \A i \in 1..Len(completed) :
          completed[i].run # current \/ run.offers = runs[current].offers =>
            runs'[completed[i].run].offers = runs[completed[i].run].offers
    BY <1>1, <1>2, <1>4
  <2>2. Unheard(completed) =
          {i \in 1..Len(completed) :
             ~completed[i].ok /\ runs[completed[i].run].offers \cap Decisive # {}}
    BY <1>4 DEF Unheard, Output
  <2> QED BY <1>5, <1>6, <1>8, <2>1, <2>2
<1> QED BY <1>3, <1>9, <1>10

LEMMA ResumeLastLost ==
  ASSUME GroupInv, LostInv, ResumeLast PROVE LostInv'
<1> DEFINE run == [runs[current] EXCEPT !.status = "running"]
<1>0. Resumed /\ phase = "load" /\ phase' = "execute" /\ runs[current].status # "succeeded"
  BY DEF ResumeLast, Resumed, At, Go, Incomplete
<1>1. current \in RunNumbers BY <1>0, CurrentIsLast
<1>2. run \in RunShape /\ run.offers = runs[current].offers
  BY <1>1, Elements DEF GroupInv, RunShape, IterationStatus
<1>3. run.offers = {} BY <1>0, <1>1, <1>2 DEF LostInv, OutputsEarned
<1>4. /\ runs' = [runs EXCEPT ![current] = run] /\ completed' = completed /\ file' = file
      /\ spec' = spec /\ kills' = kills
  BY DEF ResumeLast
<1> HIDE DEF run
<1>5. /\ OutputsEarned' /\ Unheard(file.entries)' \subseteq Unheard(file.entries)
      /\ Unheard(completed)' \subseteq Unheard(completed)
  BY <1>0, <1>2, <1>3, <1>4, CurrentLost
<1>6. LostInMemory' \subseteq LostInMemory /\ LostOnFile' \subseteq LostOnFile
  BY <1>0, <1>5 DEF LostInMemory, LostOnFile, InHand
<1> QED BY <1>4, <1>5, <1>6, LostStays

(* The verdict of a Run that ends is in hand, unless it is of a new round.  *)
LEMMA RunEndsLost ==
  ASSUME GroupInv, LostInv, At("execute"), Go("record"), NEW run \in RunShape,
         runs' = [runs EXCEPT ![current] = run],
         run.status # "succeeded" => run.offers = {},
         UNCHANGED <<spec, file, memoryVars, kills>>
  PROVE  LostInv'
<1>0. /\ phase = "execute" /\ phase' = "record" /\ completed' = completed
      /\ inPlace' = inPlace /\ file' = file
  BY DEF At, Go, memoryVars
<1>1. (Fresh \/ Resumed) /\ (~inPlace => Fresh)
  BY <1>0 DEF Fresh, Resumed, GroupInv, GroupTypeOK
<1>2. /\ OutputsEarned'
      /\ Unheard(file.entries)' \subseteq Unheard(file.entries) \cup {Len(file.entries)}
      /\ Unheard(completed)' \subseteq Unheard(completed) \cup {Len(completed)}
      /\ ~inPlace => /\ Unheard(file.entries)' \subseteq Unheard(file.entries)
                     /\ Unheard(completed)' \subseteq Unheard(completed)
  BY <1>0, <1>1, CurrentLost
<1>3. LostInMemory' \subseteq LostInMemory
  BY <1>0, <1>2 DEF LostInMemory, InHand
<1>4. LostOnFile' \subseteq LostOnFile
  BY <1>0, <1>2 DEF LostOnFile, InHand
<1> QED BY <1>2, <1>3, <1>4, LostStays

LEMMA RunSucceedsLost ==
  ASSUME GroupInv, LostInv, RunSucceeds PROVE LostInv'
<1> USE DEF RunSucceeds
<1>1. current \in RunNumbers
  BY CurrentIsLast DEF Fresh, Resumed, At, GroupInv, GroupTypeOK
<1>2. PICK offers \in SUBSET Offers :
        runs' = [runs EXCEPT ![current].status = "succeeded", ![current].offers = offers]
  OBVIOUS
<1> DEFINE run == [runs[current] EXCEPT !.status = "succeeded", !.offers = offers]
<1>3. run \in RunShape /\ run.status = "succeeded"
  BY <1>1, Elements DEF RunShape, IterationStatus, GroupInv
<1>4. runs' = [runs EXCEPT ![current] = run]
  BY <1>1, <1>2, Lengths, LenProperties DEF GroupInv, GroupTypeOK
<1> HIDE DEF run
<1> QED BY <1>3, <1>4, RunEndsLost

(* The Run that is executed has not succeeded yet.                          *)
LEMMA NothingOffered ==
  ASSUME GroupInv, VerdictInv, LostInv, At("execute") PROVE runs[current].offers = {}
<1>1. current \in RunNumbers
  BY CurrentIsLast DEF Fresh, Resumed, At, GroupInv, GroupTypeOK
<1> QED BY <1>1 DEF VerdictInv, LostInv, OutputsEarned

LEMMA RunFallsShortLost ==
  ASSUME GroupInv, VerdictInv, LostInv, RunFallsShort PROVE LostInv'
<1> USE DEF RunFallsShort
<1>1. current \in RunNumbers /\ runs[current].offers = {}
  BY CurrentIsLast, NothingOffered DEF Fresh, Resumed, At, GroupInv, GroupTypeOK
<1>2. CASE runs' = [runs EXCEPT ![current].status = "parked", ![current].held = TRUE]
  <2> DEFINE run == [runs[current] EXCEPT !.status = "parked", !.held = TRUE]
  <2>1. run \in RunShape /\ run.offers = {}
    BY <1>1, Elements DEF RunShape, IterationStatus, GroupInv
  <2>2. runs' = [runs EXCEPT ![current] = run]
    BY <1>1, <1>2, Lengths, LenProperties DEF GroupInv, GroupTypeOK
  <2> HIDE DEF run
  <2> QED BY <2>1, <2>2, RunEndsLost
<1>3. CASE runs' = [runs EXCEPT ![current].status = "failed"]
  <2> DEFINE run == [runs[current] EXCEPT !.status = "failed"]
  <2>1. run \in RunShape /\ run.offers = {}
    BY <1>1, Elements DEF RunShape, IterationStatus, GroupInv
  <2>2. runs' = [runs EXCEPT ![current] = run] BY <1>3
  <2> HIDE DEF run
  <2> QED BY <2>1, <2>2, RunEndsLost
<1> QED BY <1>2, <1>3

LEMMA RunRaisesLost ==
  ASSUME GroupInv, VerdictInv, LostInv, RunRaises PROVE LostInv'
<1> DEFINE run == [runs[current] EXCEPT !.status = "errored"]
<1>0. (Fresh \/ Resumed) /\ phase = "execute"
  BY DEF RunRaises, At, Fresh, Resumed, GroupInv, GroupTypeOK
<1>1. current \in RunNumbers /\ runs[current].offers = {}
  BY <1>0, CurrentIsLast, NothingOffered DEF RunRaises
<1>2. run \in RunShape /\ run.offers = {}
  BY <1>1, Elements DEF GroupInv, RunShape, IterationStatus
<1>3. /\ runs' = [runs EXCEPT ![current] = run] /\ file' = file /\ spec' = spec
      /\ completed' = <<>> /\ phase' = "idle" /\ kills' = kills + 1
  BY DEF RunRaises, Dies, Leave, Go
<1> HIDE DEF run
<1>4. OutputsEarned' /\ Unheard(file.entries)' \subseteq Unheard(file.entries)
  BY <1>0, <1>1, <1>2, <1>3, CurrentLost
<1>5. LostInMemory' = {} BY <1>3 DEF LostInMemory, Unheard
<1>6. LostOnFile' \subseteq LostOnFile \cup {0}
  BY <1>0, <1>3, <1>4 DEF LostOnFile, InHand
<1> QED BY <1>3, <1>4, <1>5, <1>6, LostAtKill

LEMMA MaterializeLost ==
  ASSUME GroupInv, LostInv, NEW promoted, Materialize(promoted) PROVE LostInv'
<1> DEFINE run == [status |-> "running", offers |-> {}, fed |-> feedback,
                   promoted |-> promoted, position |-> 0, held |-> FALSE]
<1>1. /\ completed' = completed /\ file' = file /\ kills' = kills
      /\ phase = "drive" /\ phase' = "execute" /\ runs' = Append(runs, run)
  BY DEF Materialize, At, Go
<1>2. run.offers = {} OBVIOUS
<1> HIDE DEF run
<1>3. runs \in Seq(RunShape) /\ Len(runs) \in Nat BY Lengths DEF GroupInv, GroupTypeOK
<1>4. /\ \A i \in RunNumbers : runs'[i] = runs[i]
      /\ RunNumbers' = RunNumbers \cup {Len(runs) + 1}
      /\ runs'[Len(runs) + 1] = run
  BY <1>1, <1>3, AppendProperties, Lengths DEF RunNumbers, GroupInv
<1>5. OutputsEarned' BY <1>2, <1>4 DEF LostInv, OutputsEarned
<1>6. /\ DOMAIN completed = 1..Len(completed)
      /\ DOMAIN file.entries = 1..Len(file.entries)
      /\ \A i \in 1..Len(completed) : completed[i].run \in RunNumbers
      /\ \A i \in 1..Len(file.entries) : file.entries[i].run \in RunNumbers
  BY Lengths, Elements DEF GroupInv
<1>7. /\ Unheard(completed)' \subseteq Unheard(completed)
      /\ Unheard(file.entries)' \subseteq Unheard(file.entries)
  BY <1>1, <1>4, <1>6 DEF Unheard, Output
<1>8. LostInMemory' \subseteq LostInMemory /\ LostOnFile' \subseteq LostOnFile
  BY <1>1, <1>7 DEF LostInMemory, LostOnFile, InHand
<1> QED BY <1>1, <1>5, <1>8, LostStays

(* A round that is put on the list says whether its Run succeeded.          *)
LEMMA RecordLost ==
  ASSUME GroupInv, LostInv, Record PROVE LostInv'
<1> DEFINE run == [runs[current] EXCEPT !.position = Len(completed')]
           n == IF inPlace THEN Len(completed) ELSE Len(completed) + 1
<1>0. /\ phase = "record" /\ phase' = "judge" /\ file' = file /\ spec' = spec
      /\ inPlace' = inPlace /\ kills' = kills /\ runs' = [runs EXCEPT ![current] = run]
  BY DEF Record, RecordMembership, At, Go
<1>1. (Fresh \/ Resumed) /\ (Fresh <=> ~inPlace)
  BY <1>0 DEF Fresh, Resumed, GroupInv, GroupTypeOK
<1>2. current \in RunNumbers BY <1>1, CurrentIsLast
<1>3. /\ completed' \in Seq(RoundShape) /\ Len(completed') = n /\ n >= 1
      /\ completed'[n].run = current
      /\ \A i \in 1..(n - 1) : i \in 1..Len(completed) /\ completed'[i] = completed[i]
      /\ completed'[n].ok = (runs[current].status = "succeeded")
  BY RecordedRounds, RecordedLast
<1>4. n \in Nat /\ n <= spec.cap
  <2>1. ~inPlace => Len(completed) < spec.cap BY <1>1 DEF GroupInv, MemoryInv, UnderCap
  <2>2. Len(completed) <= spec.cap BY <1>0 DEF GroupInv, MemoryInv, At
  <2>3. CASE inPlace BY <2>2, <2>3, Lengths DEF GroupInv
  <2>4. CASE ~inPlace BY <2>1, <2>4, Lengths, SpecFacts DEF GroupInv
  <2> QED BY <2>3, <2>4
<1>5. runs[current] \in RunShape BY <1>2, Elements DEF GroupInv
<1>6. /\ run \in RunShape /\ run.status = runs[current].status
      /\ run.offers = runs[current].offers
  <2>1. n \in 0..spec.cap BY <1>4, SpecFacts DEF GroupInv
  <2> QED BY <1>3, <1>5, <2>1 DEF RunShape
<1>7. run.status # "succeeded" => run.offers = {} BY <1>2, <1>6 DEF LostInv, OutputsEarned
<1> HIDE DEF run
<1>8. OutputsEarned' /\ Unheard(file.entries)' \subseteq Unheard(file.entries)
  BY <1>0, <1>1, <1>6, <1>7, CurrentLost
<1>9. LostOnFile' \subseteq LostOnFile BY <1>0, <1>8 DEF LostOnFile, InHand
<1>10. \A i \in RunNumbers : runs'[i].offers = runs[i].offers
  BY <1>0, <1>2, <1>6, RunChanges DEF GroupInv
<1>11. LostInMemory' \subseteq LostInMemory
  <2>1. LostInMemory' = Unheard(completed)' BY <1>0 DEF LostInMemory, InHand
  <2> SUFFICES ASSUME NEW i \in Unheard(completed)' PROVE i \in LostInMemory
    BY <2>1
  <2>2. DOMAIN completed' = 1..n BY <1>3, <1>4, LenProperties
  <2>3. i \in 1..n /\ ~completed'[i].ok /\ runs'[completed'[i].run].offers \cap Decisive # {}
    BY <2>2 DEF Unheard, Output
  <2>4. i # n
    <3> SUFFICES ASSUME i = n PROVE FALSE OBVIOUS
    <3>1. runs[current].status # "succeeded" BY <1>3, <2>3
    <3>2. runs'[current].offers = {} BY <1>2, <1>10, <3>1 DEF LostInv, OutputsEarned
    <3> QED BY <1>3, <2>3, <3>2
  <2>5. i \in 1..(n - 1) BY <1>4, <2>3, <2>4
  <2>6. i \in 1..Len(completed) /\ completed'[i] = completed[i] BY <1>3, <2>5
  <2>7. completed[i].run \in RunNumbers BY <2>6, Elements DEF GroupInv
  <2>8. i \in Unheard(completed) BY <1>10, <2>3, <2>6, <2>7, Lengths DEF Unheard, Output, GroupInv
  <2>9. i \notin InHand(completed, {"record"}) BY <2>4 DEF InHand
  <2> QED BY <2>8, <2>9 DEF LostInMemory
<1> QED BY <1>0, <1>8, <1>9, <1>11, LostStays

-----------------------------------------------------------------------------
(* The verdicts themselves.                                                 *)

(* Where a round decides nothing, and the process goes on, none is lost.    *)
LEMMA ContinueLost ==
  ASSUME GroupInv, LostInv, At("judge"), Continue, Output(current) \cap Decisive = {}
  PROVE  LostInv'
<1>1. /\ phase = "judge" /\ completed' = completed /\ runs' = runs /\ file' = file
      /\ kills' = kills /\ inPlace' = inPlace
      /\ phase' = "drive" \/ (phase' = "persist" /\ ~inPlace)
  BY DEF Continue, Write, At, Go, diskVars
<1>2. LostInMemory' \subseteq LostInMemory
  BY <1>1, SameUnheard DEF LostInMemory, InHand
<1>3. inPlace => Len(file.entries) \notin Unheard(file.entries)
  <2> SUFFICES ASSUME inPlace, Len(file.entries) \in Unheard(file.entries) PROVE FALSE
    OBVIOUS
  <2>1. Len(completed) = Len(file.entries) /\ current = completed[Len(completed)].run
    BY <1>1, Lengths DEF GroupInv, MemoryInv, Resumed, At
  <2>2. Len(file.entries) \in 1..Len(file.entries)
    BY Lengths DEF Unheard, GroupInv
  <2>3. file.entries[Len(file.entries)].run = current
    BY <1>1, <2>1, <2>2 DEF GroupInv, OrderInv, At
  <2> QED BY <2>3 DEF Unheard
<1>4. LostOnFile' \subseteq LostOnFile
  BY <1>1, <1>3, SameUnheard DEF LostOnFile, InHand
<1> QED BY <1>1, <1>2, <1>4, SameUnheard, LostStays DEF LostInv

LEMMA LoopJudgesLost ==
  ASSUME GroupInv, FeedInv, LostInv, LoopJudges PROVE LostInv'
<1> DEFINE verdict == IterationVerdict(current)
<1>0. Is("loop") /\ At("judge") /\ Judge(verdict) BY DEF LoopJudges
<1>1. verdict = "none" => Output(current) \cap Decisive = {}
  <2>1. spec \in Specs /\ ~spec.reject
    BY <1>0, RejectAssumption DEF GroupInv, GroupTypeOK, Is
  <2>2. Offers \subseteq {"feedback", "done"} BY <1>0, <2>1 DEF Offers, Is
  <2>3. Output(current) \subseteq {"feedback", "done"} BY <1>0, <2>2, Judged
  <2> QED BY <2>3 DEF IterationVerdict, Decisive
<1> HIDE DEF verdict
<1>2. CASE verdict = "none" /\ Continue BY <1>0, <1>1, <1>2, ContinueLost
<1>3. CASE Stop(verdict) BY <1>0, <1>3, StopLost DEF At
<1> QED BY <1>0, <1>2, <1>3 DEF Judge

LEMMA VerifyJudgesLost ==
  ASSUME GroupInv, FeedInv, LostInv, VerifyJudges PROVE LostInv'
<1> DEFINE verdict == VerificationVerdict(current)
<1>0. Is("verify") /\ At("judge") /\ Judge(verdict) BY DEF VerifyJudges
<1>1. verdict = "none" => Output(current) \cap Decisive = {}
  <2>1. Offers \subseteq {"feedback", "reject", "accept"} BY <1>0 DEF Offers, Is
  <2>2. Output(current) \subseteq {"feedback", "reject", "accept"} BY <1>0, <2>1, Judged
  <2> QED BY <2>2 DEF VerificationVerdict, Decisive
<1> HIDE DEF verdict
<1>2. CASE verdict = "none" /\ Continue BY <1>0, <1>1, <1>2, ContinueLost
<1>3. CASE Stop(verdict) BY <1>0, <1>3, StopLost DEF At
<1> QED BY <1>0, <1>2, <1>3 DEF Judge

(* A tournament asks for winners only.                                      *)
LEMMA RoundWonLost ==
  ASSUME GroupInv, FeedInv, LostInv, RoundWon PROVE LostInv'
<1> DEFINE n == Len(completed)
           round == [completed[n] EXCEPT !.promoted = RoundWinner(current)]
<1>0. /\ Is("tournament") /\ At("judge") /\ phase = "judge" /\ phase' \in {"drive", "persist"}
      /\ file' = file /\ runs' = runs /\ kills' = kills
      /\ completed' = [completed EXCEPT ![n] = round]
  BY DEF RoundWon, Write, diskVars, Go, At
<1>1. spec \in Specs /\ ~spec.reject
  BY <1>0, RejectAssumption DEF GroupInv, GroupTypeOK, Is
<1>2. Offers \cap Decisive = {} BY <1>0, <1>1 DEF Offers, Is, Decisive
<1>3. \A r \in RunNumbers : Output(r) \cap Decisive = {}
  BY <1>2, Elements DEF GroupInv, RunShape, Output
<1>4. Unheard(file.entries) = {}
  BY <1>3, Lengths, Elements DEF Unheard, GroupInv
<1>5. LostOnFile' \subseteq LostOnFile BY <1>0, <1>4, SameUnheard DEF LostOnFile
<1>6. n \in 1..n /\ completed[n] \in RoundShape /\ completed[n].run = current
  BY <1>0, Judged, Lengths, Elements DEF GroupInv
<1>7. RoundWinner(current) \in {0} \cup RunNumbers
  BY <1>6 DEF RoundWinner, RoundShape
<1>8. round \in RoundShape BY <1>6, <1>7 DEF RoundShape
<1> HIDE DEF round
<1>9. completed \in Seq(RoundShape) BY DEF GroupInv, GroupTypeOK
<1>10. completed' \in Seq(RoundShape) BY <1>0, <1>6, <1>8, <1>9, ExceptSeq
<1>11. \A i \in DOMAIN completed' : completed'[i].run \in RunNumbers
  <2>1. DOMAIN completed' = 1..Len(completed') BY <1>10, LenProperties
  <2>2. \A i \in 1..Len(completed') : completed'[i] \in RoundShape BY <1>10, ElementOfSeq
  <2> QED BY <2>1, <2>2 DEF RoundShape
<1>12. Unheard(completed)' = {} BY <1>0, <1>3, <1>11 DEF Unheard, Output
<1>13. LostInMemory' = {} BY <1>12 DEF LostInMemory
<1> QED BY <1>0, <1>5, <1>13, SameUnheard, LostStays DEF LostInv

-----------------------------------------------------------------------------
(* The controllers' own steps are those above.                              *)

LEMMA ControllersLost ==
  ASSUME GroupInv, FeedInv, LostInv,
         \/ Begin \/ \E final : Reload(final) \/ \E value : GoOn(value)
         \/ \E promoted : Materialize(promoted) \/ Refuse(promoted)
         \/ \E status : CapReached(status)
         \/ LoopJudges \/ VerifyJudges \/ RoundLost \/ RoundWon \/ TournamentReturns
  PROVE  LostInv'
<1>1. CASE Begin
  BY <1>1, QuietLost DEF Begin, At, Go, diskVars, memoryVars
<1>2. CASE \E final : Reload(final) BY <1>2, ReloadLost
<1>3. CASE \E value : GoOn(value) BY <1>3, QuietLost DEF GoOn, At, Go, diskVars
<1>4. CASE \E promoted : Materialize(promoted) BY <1>4, MaterializeLost
<1>5. CASE \E promoted : Refuse(promoted) BY <1>5, LeaveLost DEF Refuse, diskVars
<1>6. CASE \E status : CapReached(status) BY <1>6, StopLost DEF CapReached, At
<1>7. CASE LoopJudges BY <1>7, LoopJudgesLost
<1>8. CASE VerifyJudges BY <1>8, VerifyJudgesLost
<1>9. CASE RoundLost BY <1>9, StopLost DEF RoundLost, At
<1>10. CASE RoundWon BY <1>10, RoundWonLost
<1>11. CASE TournamentReturns BY <1>11, LeaveLost DEF TournamentReturns, diskVars
<1> QED BY <1>1, <1>2, <1>3, <1>4, <1>5, <1>6, <1>7, <1>8, <1>9, <1>10, <1>11

LEMMA LostStep ==
  ASSUME GroupInv, FeedInv, VerdictInv, LostInv, [GroupNext]_groupVars PROVE LostInv'
<1>1. CASE Drive
  <2>1. CASE LoopDrive
    BY <2>1, ControllersLost
       DEF LoopDrive, LoopRound, LoopRefuses, LoopExhausts, LoopGoesOn
  <2>2. CASE VerifyDrive
    BY <2>2, ControllersLost
       DEF VerifyDrive, VerifyRound, VerifyRefuses, VerifyExhausts, VerifyGoesOn
  <2>3. CASE TournamentDrive
    BY <2>3, ControllersLost
       DEF TournamentDrive, TournamentRound, TournamentRefuses, TournamentGoesOn
  <2>4. CASE ResumeLast BY <2>4, ResumeLastLost
  <2>5. CASE Record BY <2>5, RecordLost
  <2>6. CASE Persist BY <2>6, PersistLost
  <2> QED BY <1>1, <2>1, <2>2, <2>3, <2>4, <2>5, <2>6 DEF Drive
<1>2. CASE RunEnds BY <1>2, RunSucceedsLost, RunFallsShortLost DEF RunEnds
<1>3. CASE Invoke
  BY <1>3, ControllersLost
     DEF Invoke, ResumeGroup, RunLoop, RunVerification, RunTournament,
         ResumeLoop, ResumeVerification, ResumeTournament
<1>4. CASE KillDrive \/ KillWrite BY <1>4, KillLost
<1>5. CASE RunRaises BY <1>5, RunRaisesLost
<1>6. CASE UNCHANGED groupVars
  BY <1>6, LostStays
     DEF groupVars, diskVars, memoryVars, LostInv, LostInMemory, LostOnFile, InHand, Unheard,
         Output, OutputsEarned, RunNumbers
<1> QED BY <1>1, <1>2, <1>3, <1>4, <1>5, <1>6 DEF GroupNext, Dying, GroupAtRest

(* No more verdicts are lost than the controller was killed, whatever the   *)
(* specs: in memory, and on record once nobody is about to write them.      *)
THEOREM LostInvHolds == GroupSafety => []LostInv
<1>1. GroupInit => LostInv
  <2> SUFFICES ASSUME GroupInit PROVE LostInv OBVIOUS
  <2>1. /\ runs = <<>> /\ completed = <<>> /\ file.entries = <<>> /\ kills = 0
    BY DEF GroupInit, NoFile
  <2>2. Unheard(completed) = {} /\ Unheard(file.entries) = {} BY <2>1 DEF Unheard
  <2>3. LostInMemory = {} /\ LostOnFile = {} BY <2>2 DEF LostInMemory, LostOnFile
  <2>4. OutputsEarned BY <2>1 DEF OutputsEarned, RunNumbers
  <2> QED BY <2>1, <2>3, <2>4, FS_EmptySet DEF LostInv
<1>2. GroupInv /\ FeedInv /\ VerdictInv /\ LostInv /\ [GroupNext]_groupVars => LostInv'
  BY LostStep
<1> QED BY <1>1, <1>2, GroupInvHolds, FeedInvHolds, VerdictInvHolds, PTL DEF GroupSafety

(* A loop or a verification goes past a round, and comes to its cap with    *)
(* one, only if its output decides nothing or a kill has cost its verdict,  *)
(* one kill for each; and a final status is that of the last round.  This   *)
(* is for all specs, caps and numbers of kills: a group that nobody kills   *)
(* heeds every verdict, and one that is killed may pass some over.          *)
THEOREM VerdictHeededHolds == GroupSafety => []VerdictHeeded
<1>1. GroupInv /\ VerdictInv /\ LostInv => VerdictHeeded
  <2> SUFFICES ASSUME GroupInv, VerdictInv, LostInv PROVE VerdictHeeded
    OBVIOUS
  <2> DEFINE Passed == {i \in Unheard(file.entries) : i < Len(file.entries) \/ Settled}
  <2>1. Settled => phase \in {"idle", "drive"} BY DEF GroupInv, MemoryInv, At
  <2>2. Passed \subseteq LostOnFile
    BY <2>1, Lengths DEF LostOnFile, InHand, GroupInv
  <2>3. Cardinality(Passed) <= Cardinality(LostOnFile) BY <2>2, LostFinite, FS_Subset
  <2>4. IsFiniteSet(Passed) /\ Cardinality(Passed) \in Nat
    BY <2>2, LostFinite, FS_Subset, FS_CardinalityType
  <2>5. Cardinality(Passed) <= kills
    BY <2>3, <2>4, LostFinite, Lengths DEF LostInv, GroupInv
  <2> HIDE DEF Passed
  <2>6. /\ Heeded(file.entries) /\ Justified(file.status, file.entries, file.winner)
    BY DEF VerdictInv
  <2> QED BY <2>5, <2>6 DEF Heeded, Justified, Decides, VerdictHeeded, Passed, Decisive
<1> QED BY <1>1, GroupInvHolds, VerdictInvHolds, LostInvHolds, PTL


(* A group that was never killed or interrupted passes over no verdict: the *)
(* cap settles it only over rounds that were neither done nor accepted, as  *)
(* controller.py says of "exhausted" and "rejected".                        *)
THEOREM CapWithoutVerdictUnlessKilled ==
  GroupSafety => [](kills = 0 => CapWithoutVerdict)
<1>1. GroupInv /\ VerdictInv /\ LostInv => (kills = 0 => CapWithoutVerdict)
  <2> SUFFICES ASSUME GroupInv, VerdictInv, LostInv, kills = 0,
                      file.status \in {"exhausted", "rejected"},
                      NEW i \in DOMAIN file.entries
               PROVE  /\ file.status = "exhausted" => "done" \notin Output(file.entries[i].run)
                      /\ file.status = "rejected" => "accept" \notin Output(file.entries[i].run)
    BY DEF CapWithoutVerdict
  <2>1. phase \in {"idle", "drive"} /\ ~Is("tournament")
    BY DEF GroupInv, MemoryInv, FileInv, Fitting, Settled, At, Is
  <2>2. LostOnFile = {}
    <3>1. Cardinality(LostOnFile) = 0 BY LostFinite DEF LostInv
    <3> QED BY <3>1, LostFinite, FS_EmptySet
  <2>3. i \notin Unheard(file.entries) BY <2>1, <2>2 DEF LostOnFile, InHand
  <2>4. CASE Decides(file.entries[i])
    <3>1. Len(file.entries) \in Nat /\ i \in 1..Len(file.entries) BY Lengths DEF GroupInv
    <3>2. i = Len(file.entries)
      <4>1. i \notin 1..(Len(file.entries) - 1) BY <2>1, <2>4 DEF VerdictInv, Heeded
      <4> QED BY <3>1, <4>1
    <3> QED BY <2>4, <3>2 DEF VerdictInv, Justified
  <2>5. CASE ~Decides(file.entries[i])
    <3>1. Output(file.entries[i].run) \cap {"done", "accept", "reject"} = {}
      BY <2>3, <2>5 DEF Decides, Unheard, Decisive
    <3> QED BY <3>1
  <2> QED BY <2>4, <2>5
<1> QED BY <1>1, GroupInvHolds, VerdictInvHolds, LostInvHolds, PTL
=============================================================================
