---------------------------- MODULE GroupLifecycle ----------------------------
(***************************************************************************)
(* What `caw loop`, `caw verify` and `caw tournament` promise of a Run     *)
(* Group, without controllers, Runs or resumes: rounds are put on record   *)
(* one at a time and never beyond the cap, a group that failed can have    *)
(* its last round judged again, and a settled group is final.  A write     *)
(* that is cut short loses the record for good.                            *)
(***************************************************************************)
EXTENDS Integers

CONSTANT Caps

VARIABLES
  cap,       \* the cap on rounds
  standing,  \* where the group stands
  rounds     \* rounds on record

Init ==
  /\ cap \in Caps
  /\ standing = "absent"
  /\ rounds = 0

Unsettled == {"absent", "open", "failed"}

PutOnRecord ==
  /\ standing \in Unsettled /\ rounds < cap
  /\ rounds' = rounds + 1
  /\ standing' \in {"open", "failed", "settled"}
  /\ UNCHANGED cap

(* The last round, resumed, is judged again.                                *)
JudgeAgain ==
  /\ standing \in {"open", "failed"}
  /\ standing' \in {"failed", "settled"}
  /\ UNCHANGED <<cap, rounds>>

Lose ==
  /\ standing \in Unsettled
  /\ standing' = "lost"
  /\ rounds' = 0
  /\ UNCHANGED cap

Next == PutOnRecord \/ JudgeAgain \/ Lose

Spec == Init /\ [][Next]_<<cap, standing, rounds>>
=============================================================================
