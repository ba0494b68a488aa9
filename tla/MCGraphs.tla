------------------------------ MODULE MCGraphs -------------------------------
(***************************************************************************)
(* Small Workflows for the model checker.  A graph is given by its         *)
(* execution order and, per Node, what the author of the Workflow wrote;   *)
(* the derived constants follow from these.                                *)
(***************************************************************************)
EXTENDS Naturals, Sequences, FiniteSets

Elements(s) == {s[i] : i \in 1..Len(s)}

PositionIn(order) == [n \in Elements(order) |-> CHOOSE i \in 1..Len(order) : order[i] = n]

DependentsIn(order, needs) ==
  [n \in Elements(order) |-> SelectSeq(order, LAMBDA d : n \in needs[d])]

Reads(m) == {[ref |-> m, expect |-> TRUE]}
ReadsNot(m) == {[ref |-> m, expect |-> FALSE]}

(* Retries, conditions and joins under a limit: three roots on two slots, s *)
(* and f of which may fail once and be tried again, and a gate behind s and *)
(* the third; w runs if s says so, z joins it with f if f does not, x       *)
(* tolerates the loss of z, and y the loss of either, but not of both.      *)
SessionOrder == <<"s", "w", "f", "b", "z", "g", "x", "y">>
SessionNodes == Elements(SessionOrder)
SessionNeeds ==
  [s |-> {}, f |-> {}, b |-> {}, w |-> {"s"}, z |-> {"w", "f"}, x |-> {"z", "s"},
   y |-> {"w", "z"}, g |-> {"s", "b"}]
SessionPosition == PositionIn(SessionOrder)
SessionDependents == DependentsIn(SessionOrder, SessionNeeds)
SessionGates == {"g"}
SessionJoinAny == {"x", "y"}
SessionWhen ==
  [n \in SessionNodes |-> CASE n = "w" -> Reads("s") [] n = "z" -> ReadsNot("f") [] OTHER -> {}]
SessionRetries == [n \in SessionNodes |-> IF n \in {"s", "f"} THEN 1 ELSE 0]

(* Two gates in sequence, g then h if y says so, with work beside them: the *)
(* approval of g lets f run, which may fail under the tolerant sink s that  *)
(* has succeeded, and c runs behind whichever gate was passed.              *)
GateOrder == <<"y", "g", "f", "z", "h", "d", "c", "s">>
GateNodes == Elements(GateOrder)
GateNeeds ==
  [y |-> {}, g |-> {}, f |-> {"g"}, z |-> {"y"}, h |-> {"f", "y"}, d |-> {"z", "f"},
   c |-> {"g", "h"}, s |-> {"d", "y"}]
GatePosition == PositionIn(GateOrder)
GateDependents == DependentsIn(GateOrder, GateNeeds)
GateGates == {"g", "h"}
GateJoinAny == {"c", "s"}
GateWhen == [n \in GateNodes |-> IF n \in {"z", "h"} THEN Reads("y") ELSE {}]
GateRetries == [n \in GateNodes |-> 0]

(* For crashes at every step: a may be tried twice and says whether b runs  *)
(* or the gate is asked; c, behind both, runs unless b says otherwise.      *)
RecoverOrder == <<"a", "b", "g", "c">>
RecoverNodes == Elements(RecoverOrder)
RecoverNeeds == [a |-> {}, b |-> {"a"}, g |-> {"a"}, c |-> {"b", "g"}]
RecoverPosition == PositionIn(RecoverOrder)
RecoverDependents == DependentsIn(RecoverOrder, RecoverNeeds)
RecoverGates == {"g"}
RecoverJoinAny == {"c"}
RecoverWhen ==
  [n \in RecoverNodes |-> CASE n = "b" -> Reads("a") [] n = "g" -> ReadsNot("a")
                            [] n = "c" -> ReadsNot("b") [] n = "a" -> {}]
RecoverRetries == [n \in RecoverNodes |-> IF n = "a" THEN 1 ELSE 0]
=============================================================================
