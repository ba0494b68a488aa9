----------------------------- MODULE MCAuthoring -----------------------------
(* WorkflowDefinition over hand-written graphs of three Nodes with every    *)
(* list of at most two needs (in either order, unknown and own ids          *)
(* included), all graphs of four Nodes, two Nodes with every combination of *)
(* kinds, `when`, retries and timeouts, pattern blocks of every type with   *)
(* one to three branches, well-formed or not, and such whose ids clash      *)
(* between the slots.                                                       *)
EXTENDS WorkflowDefinition

MCIds == {"a", "b", "c", "d", "z"}

AuthoredNode(id, kind, needs, refs, retries, keys) ==
  [id |-> id, kind |-> kind, needs |-> needs, refs |-> refs, retries |-> retries,
   keys |-> keys \cup (IF needs # << >> THEN {"needs"} ELSE {})
                 \cup (IF refs # {} THEN {"when"} ELSE {})]
Plain(id, needs) == AuthoredNode(id, "shell", needs, {}, 0, {})

NoPattern == [type |-> "none", head |-> << >>, branches |-> << >>, join |-> << >>]
HandWritten(list) == [declares |-> {"nodes"}, nodes |-> list, pattern |-> NoPattern]
Patterned(pattern) == [declares |-> {"pattern"}, nodes |-> << >>, pattern |-> pattern]

Lists == UNION {{list \in [1..n -> {"a", "b", "c", "z"}] : n = 2 => list[1] # "z"} : n \in 0..2}
ThreeNodes ==
  {<<Plain("a", f), Plain("b", g), Plain("c", h)>> : f, g, h \in Lists}

Listed(ids) == SelectSeq(<<"d", "a", "b", "c">>, LAMBDA id : id \in ids)
FourNodes ==
  {<<Plain("c", Listed(f)), Plain("a", Listed(g)), Plain("d", Listed(h)), Plain("b", Listed(k))>> :
     f \in SUBSET {"a", "b", "d"}, g \in SUBSET {"b", "c", "d"},
     h \in SUBSET {"a", "b", "c"}, k \in SUBSET {"a", "c", "d"}}

TwoKinds ==
  {<<AuthoredNode("b", kind1, needs, refs, retries, keys),
     AuthoredNode("a", kind2, << >>, {}, retries, {})>> :
     kind1, kind2 \in Kinds, keys \in {{}, {"timeout"}}, needs \in {<< >>, <<"a">>}, retries \in 0..1,
     refs \in {{}} \cup {{[node |-> id, field |-> field]} : id \in {"a", "b"}, field \in Fields}}

(* The parts of a pattern: ids may clash, an edge may be declared, a branch *)
(* may route on the classifier "d" and a join may state its policy.         *)
Parts(ids) ==
  {AuthoredNode(id, kind, << >>, refs, 0, keys) :
     id \in ids, kind \in {"shell", "agent"}, keys \in {{}, {"join"}, {"needs"}},
     refs \in {{}, {[node |-> "d", field |-> "structured_output"]}}}
Slot(choices) == {<< >>} \cup {<<node>> : node \in choices}

Steps == {<<AuthoredNode("a", "agent", << >>, {}, 0, {})>>} \cup
         {<<AuthoredNode(x, k, << >>, r, 0, {}), AuthoredNode(y, "agent", << >>, r, 0, {})>> :
            x, y \in {"a", "b"}, k \in {"shell", "agent"},
            r \in {{}, {[node |-> "d", field |-> "structured_output"]}}} \cup
         {<<AuthoredNode(x, "agent", << >>, r, 0, {}), AuthoredNode("b", "agent", << >>, r, 0, {}),
            AuthoredNode(y, "agent", << >>, r, 0, keys)>> :
            x, y \in {"a", "c"}, keys \in {{}, {"needs"}},
            r \in {{}, {[node |-> "d", field |-> "structured_output"]}}}

Patterns ==
  {[type |-> type, head |-> head, branches |-> steps, join |-> join] :
     type \in Types \cup {"unknown"}, head \in Slot(Parts({"d"})),
     steps \in Steps \cup {<< >>}, join \in Slot(Parts({"z"}))}

(* Nothing refuses ids that clash between the slots but the validators.     *)
AcrossSlots ==
  {[type |-> type, head |-> head, join |-> <<AuthoredNode(z, "agent", << >>, {}, 0, {"join"})>>,
    branches |-> <<AuthoredNode(x, "agent", << >>, refs, 0, {}), AuthoredNode("b", "agent", << >>, refs, 0, {})>>] :
     type \in Types, x, z \in {"a", "d", "z"},
     head \in Slot({AuthoredNode(y, "agent", << >>, {}, 0, {}) : y \in {"b", "d", "z"}}),
     refs \in {{}, {[node |-> "d", field |-> "structured_output"]}}}

Misdeclared ==
  {[declares |-> d, nodes |-> <<Plain("a", << >>)>>, pattern |-> p] :
     d \in {{}, {"nodes", "pattern"}},
     p \in {[type |-> "pipeline", head |-> << >>, join |-> << >>,
             branches |-> <<Plain("a", << >>)>>]}}

MCDefinitions ==
  {HandWritten(list) : list \in {<< >>} \cup ThreeNodes \cup FourNodes \cup TwoKinds}
    \cup {Patterned(pattern) : pattern \in Patterns \cup AcrossSlots} \cup Misdeclared
=============================================================================
