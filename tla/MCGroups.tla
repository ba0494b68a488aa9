------------------------------- MODULE MCGroups -------------------------------
(* PatternControllers over a spec of each kind, with and without their      *)
(* optional parts.                                                          *)
EXTENDS PatternControllers

Authored(kind, rounds, parts, missing) ==
  [controller |-> kind, cap |-> rounds, feedback |-> "feedback" \in parts,
   reject |-> "reject" \in parts, promote |-> "promote" \in parts,
   has |-> {"judged", "feedback", "promote"} \ missing]

MCSpecs ==
  {Authored("loop", 3, {"feedback"}, {}), Authored("loop", 2, {"feedback"}, {"feedback"}),
   Authored("loop", 1, {}, {}), Authored("loop", 2, {}, {"judged"}),
   Authored("verify", 2, {"feedback", "reject"}, {}), Authored("verify", 3, {}, {}),
   Authored("verify", 2, {"feedback"}, {"feedback"}),
   Authored("tournament", 3, {"promote"}, {}), Authored("tournament", 2, {"feedback", "promote"}, {}),
   Authored("tournament", 2, {"feedback", "promote"}, {"feedback"}),
   Authored("tournament", 2, {"promote"}, {"promote"})}

Capped == {s \in MCSpecs : s.controller # "tournament"}
Tournaments == {s \in MCSpecs : s.controller = "tournament"}
=============================================================================
