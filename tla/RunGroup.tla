------------------------------- MODULE RunGroup -------------------------------
(***************************************************************************)
(* What the Pattern Controllers of src/caw/controller.py share: a Run Group *)
(* is a group.json and the iteration Runs made for it.  A controller       *)
(* executes one Run per round, writes the Run's membership row, judges the *)
(* round's output, and rewrites group.json; a resume starts from that file.*)
(* The controllers themselves (LoopUntilDone, AdversarialVerification,     *)
(* Tournament) add their verdicts to the operators of this module.         *)
(*                                                                         *)
(* Simplifications.  A Run is its outcome (the Run module has its life):   *)
(* `caw resume` finds no iteration Run (ADR 0009), so nobody decides on a  *)
(* gate in one, and a Run that parked once can only park again.  The       *)
(* output of the Node a verdict reads is the set of what it offers: the    *)
(* predicates that hold over it, and the fields it has.  A value fed       *)
(* forward is known by the Run it came from, 0 standing for None.  Spec    *)
(* files that do not load, and refused resumes, change nothing.            *)
(***************************************************************************)
EXTENDS Integers, Sequences, FiniteSets

CONSTANTS
  Specs,     \* the controller specs considered
  MaxKills   \* bounds how often a controller is killed or interrupted

VARIABLES
  spec,       \* the controller spec; group.json carries it through resumes
  file,       \* group.json
  runs,       \* every Run under iterations/, in the order they were made
  phase,      \* where the controller is; "idle" when no process works
  completed,  \* the rounds the controller knows of
  feedback,   \* the Run whose value is fed to the next round, or 0
  current,    \* the Run being executed or judged, or 0
  inPlace,    \* whether that Run was resumed rather than made
  pending,    \* the status about to be written to group.json
  returned,   \* what the last drive that ended returned
  kills       \* kills and interrupts so far (counts up to MaxKills)

diskVars == <<file, runs>>
memoryVars == <<completed, feedback, current, inPlace, pending>>
groupVars == <<spec, diskVars, phase, memoryVars, returned, kills>>

Controllers == {"loop", "verify", "tournament"}

(* The specs: `feedback`, `reject` and `promote` say whether the optional   *)
(* part is declared, `has` which of the Nodes that the spec names are in    *)
(* the workflow: the one whose output is judged, and the targets.           *)
SpecShape ==
  [controller : Controllers, cap : Nat \ {0},
   feedback : BOOLEAN, reject : BOOLEAN, promote : BOOLEAN, has : SUBSET {"judged", "feedback", "promote"}]

ASSUME SpecsAssumption == Specs \subseteq SpecShape
ASSUME KillsAssumption == MaxKills \in Nat
(* Only a verification spec has a reject predicate.                         *)
ASSUME RejectAssumption == \A s \in Specs : s.reject => s.controller = "verify"

GroupPhases == {"idle", "load", "drive", "execute", "record", "judge", "persist"}
IterationStatus == {"running", "succeeded", "failed", "parked", "errored"}

At(p) == phase = p
Go(p) == phase' = p
Is(controller) == spec.controller = controller

(* What the verdict Node of a round can offer that the spec asks for.       *)
Offers ==
  (IF spec.feedback THEN {"feedback"} ELSE {}) \cup
  (IF spec.reject THEN {"reject"} ELSE {}) \cup
  CASE Is("loop") -> {"done"} [] Is("verify") -> {"accept"} [] Is("tournament") -> {"winner"}

LastRound == completed[Len(completed)]
(* A process that ends takes its memory with it.                            *)
Leave ==
  /\ Go("idle")
  /\ completed' = <<>> /\ feedback' = 0 /\ current' = 0 /\ inPlace' = FALSE
  /\ pending' = "none"

NoResult == [status |-> "none", winner |-> 0]
NoFile == [status |-> "absent", entries |-> <<>>, winner |-> 0]
Torn == [NoFile EXCEPT !.status = "torn"]
Readable == file.status \notin {"absent", "torn"}

(* The last winner that any round named.                                    *)
LastNamed(entries) ==
  IF \E i \in DOMAIN entries : entries[i].promoted # 0
    THEN entries[CHOOSE i \in DOMAIN entries :
                   /\ entries[i].promoted # 0
                   /\ \A j \in DOMAIN entries : j > i => entries[j].promoted = 0].promoted
    ELSE 0

-----------------------------------------------------------------------------
(* What the verdict Node of a finished Run offers, and what is fed forward. *)

Output(r) == runs[r].offers
FeedbackValue(r) == IF "feedback" \in Output(r) THEN r ELSE 0

(* As if a parked Run counted as finished.                                  *)
BugIncomplete(r) == runs[r].status \in {"running", "failed", "errored"}

(* Resume Eligibility of an iteration Run: one that succeeded is kept.      *)
Incomplete(r) == runs[r].status # "succeeded"

-----------------------------------------------------------------------------
(* run_...: a new group, with a directory and no file yet.                  *)
Begin ==
  /\ At("idle") /\ file = NoFile /\ runs = <<>>
  /\ Go("drive")
  /\ UNCHANGED <<spec, diskVars, memoryVars, returned, kills>>

(* resume_...: what it reads from group.json, unless its status is final.   *)
Reload(final) ==
  /\ At("idle") /\ Readable /\ file.status \notin final
  /\ completed' = file.entries
  /\ current' = file.entries[Len(file.entries)].run
  /\ returned' = NoResult
  /\ Go("load")
  /\ UNCHANGED <<spec, diskVars, feedback, inPlace, pending, kills>>

(* The last recorded Run did not succeed: resume_run, in place.             *)
ResumeLast ==
  /\ At("load") /\ Incomplete(current)
  /\ runs' = [runs EXCEPT ![current].status = "running"]
  /\ inPlace' = TRUE
  /\ Go("execute")
  /\ UNCHANGED <<spec, file, completed, feedback, current, pending, returned, kills>>

(* It did: the drive goes on behind it, with the given feedback.            *)
GoOn(value) ==
  /\ At("load") /\ ~Incomplete(current)
  /\ feedback' = value
  /\ Go("drive")
  /\ UNCHANGED <<spec, diskVars, completed, current, inPlace, pending, returned, kills>>

(* One more round than the cap allows.                                      *)
BugUnderCap == Len(completed) <= spec.cap
UnderCap == Len(completed) < spec.cap

(* A substitution without a target in the workflow refuses the round, and   *)
(* so does a workflow without the Node to judge.                            *)
Fits(promoted) ==
  /\ feedback # 0 => "feedback" \in spec.has
  /\ promoted # 0 => "promote" \in spec.has
  /\ "judged" \in spec.has

(* The next round: the substitutions go into its workflow, and execute_run  *)
(* makes its Run.                                                           *)
Materialize(promoted) ==
  /\ At("drive") /\ UnderCap
  /\ Fits(promoted)
  /\ runs' = Append(runs, [status |-> "running", offers |-> {}, fed |-> feedback,
                           promoted |-> promoted, position |-> 0, held |-> FALSE])
  /\ current' = Len(runs')
  /\ inPlace' = FALSE
  /\ Go("execute")
  /\ UNCHANGED <<spec, file, completed, feedback, pending, returned, kills>>

Refuse(promoted) ==
  /\ At("drive") /\ UnderCap
  /\ ~Fits(promoted)
  /\ Leave
  /\ UNCHANGED <<spec, diskVars, returned, kills>>

(* execute_run or resume_run returns.                                       *)
RunSucceeds ==
  /\ At("execute") /\ ~runs[current].held
  /\ \E offers \in SUBSET Offers :
       runs' = [runs EXCEPT ![current].status = "succeeded", ![current].offers = offers]
  /\ Go("record")
  /\ UNCHANGED <<spec, file, memoryVars, returned, kills>>

RunFallsShort ==
  /\ At("execute")
  /\ \/ runs' = [runs EXCEPT ![current].status = "parked", ![current].held = TRUE]
     \/ ~runs[current].held /\ runs' = [runs EXCEPT ![current].status = "failed"]
  /\ Go("record")
  /\ UNCHANGED <<spec, file, memoryVars, returned, kills>>

(* The membership row in the Run's own State, written over by a resume.     *)
RecordMembership(r, position) == [runs EXCEPT ![r].position = position]

(* As if a resumed round were recorded once more, behind itself.            *)
BugRecord ==
  /\ At("record")
  /\ LET round == [run |-> current, ok |-> runs[current].status = "succeeded", promoted |-> 0]
     IN completed' = Append(completed, round)
  /\ runs' = RecordMembership(current, Len(completed'))
  /\ Go("judge")
  /\ UNCHANGED <<spec, file, feedback, current, inPlace, pending, returned, kills>>

(* The Run says which round it is, and the round is known.                  *)
Record ==
  /\ At("record")
  /\ LET round == [run |-> current, ok |-> runs[current].status = "succeeded", promoted |-> 0]
     IN completed' = IF inPlace THEN [completed EXCEPT ![Len(completed)] = round]
                                ELSE Append(completed, round)
  /\ runs' = RecordMembership(current, Len(completed'))
  /\ Go("judge")
  /\ UNCHANGED <<spec, file, feedback, current, inPlace, pending, returned, kills>>

-----------------------------------------------------------------------------
(* After the verdict on a round: write it down and stop, or go on.  Between *)
(* two rounds a fresh drive writes "running" and a resume writes nothing.   *)

Write(status) ==
  /\ pending' = status
  /\ Go("persist")
  /\ UNCHANGED <<spec, diskVars, current, inPlace, returned, kills>>

Stop(status) == Write(status) /\ UNCHANGED <<completed, feedback>>

Continue ==
  /\ feedback' = FeedbackValue(current)
  /\ UNCHANGED completed
  /\ \/ ~inPlace /\ Write("running")
     \/ /\ inPlace
        /\ Go("drive")
        /\ UNCHANGED <<spec, diskVars, current, inPlace, pending, returned, kills>>

(* The verdict of a loop or a verification: a status to stop with, or "none".*)
Judge(verdict) ==
  /\ At("judge")
  /\ \/ verdict = "none" /\ Continue
     \/ verdict # "none" /\ Stop(verdict)

CapReached(status) == At("drive") /\ ~UnderCap /\ Stop(status)

(* As if the rounds were written without the one just judged.               *)
BugDocument ==
  [status |-> pending, winner |-> LastNamed(completed),
   entries |-> IF pending = "running" /\ Len(completed) > 1
                 THEN SubSeq(completed, 1, Len(completed) - 1) ELSE completed]

Document == [status |-> pending, entries |-> completed, winner |-> LastNamed(completed)]

(* group.json is rewritten.  A tournament that wrote "complete" is still in *)
(* its loop; every other status but "running" is returned at once.          *)
Persist ==
  /\ At("persist")
  /\ file' = Document
  /\ IF pending \in {"running", "complete"}
       THEN Go("drive") /\ UNCHANGED <<memoryVars, returned>>
       ELSE Leave /\ returned' = [status |-> pending, winner |-> 0]
  /\ UNCHANGED <<spec, runs, kills>>

-----------------------------------------------------------------------------
(* The process dies between any two steps, or, as write_text truncates the  *)
(* file it rewrites, in the middle of the write.                            *)
Dies == kills < MaxKills /\ kills' = kills + 1 /\ Leave

KillDrive ==
  /\ ~At("idle") /\ Dies
  /\ UNCHANGED <<spec, diskVars, returned>>

KillWrite ==
  /\ At("persist") /\ Dies
  /\ file' = Torn
  /\ UNCHANGED <<spec, runs, returned>>

(* An interrupt, or a spawn failure, is recorded by execute_run and raised  *)
(* through the controller.                                                  *)
RunRaises ==
  /\ At("execute") /\ Dies
  /\ runs' = [runs EXCEPT ![current].status = "errored"]
  /\ UNCHANGED <<spec, file, returned>>

GroupInit ==
  /\ spec \in Specs
  /\ file = NoFile
  /\ runs = <<>>
  /\ phase = "idle"
  /\ completed = <<>>
  /\ feedback = 0
  /\ current = 0
  /\ inPlace = FALSE
  /\ pending = "none"
  /\ returned = NoResult
  /\ kills = 0
=============================================================================
