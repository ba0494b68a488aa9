--------------------------- MODULE PatternExpanders ---------------------------
(***************************************************************************)
(* The Pattern Expanders (src/caw/patterns.py): a `pattern:` block is       *)
(* compiled into the plain Nodes of an ordinary Workflow before anything   *)
(* else looks at the definition.                                           *)
(*                                                                         *)
(* A Node as authored is a record: its id, its kind, the `needs` it lists, *)
(* the dependencies' fields its `when` reads, its retries, and which of    *)
(* the keys `needs`, `when`, `join` and `timeout` the author wrote at all.  *)
(* Every Node has an id; inputs, names and values are left out.            *)
(***************************************************************************)
EXTENDS Integers, Sequences, SequencesExt

CONSTANTS Ids  \* the Node ids an author may write, in needs and refs too

Kinds == {"shell", "agent", "human_gate"}
Fields == {"stdout", "structured_output"}
Refs == [node : Ids, field : Fields]
Keys == {"needs", "when", "join", "timeout"}
NodeDicts ==
  [id : Ids, kind : Kinds, needs : Seq(Ids), refs : SUBSET Refs, retries : Nat, keys : SUBSET Keys]

(* A pattern block has up to three slots: the classifier, the steps /       *)
(* branches / generators / workers, and the join / filter / synthesize      *)
(* Node; a slot of one Node is a sequence of at most one.                   *)
Types == {"pipeline", "parallel", "classify-and-act", "generate-and-filter", "fan-out-synthesis"}

Classifying == {"classify-and-act"}
MayJoin == Types \ {"pipeline"}
MustJoin == {"generate-and-filter", "fan-out-synthesis"}

NodesIn(nodes) == {nodes[i] : i \in DOMAIN nodes}
Authored(pattern) == NodesIn(pattern.head \o pattern.branches \o pattern.join)
Declares(node, key) == key \in node.keys

(* The fields of the params models: which slots there are (extra ones are   *)
(* forbidden), and that the main one is not empty.                          *)
SlotsFilled(pattern) ==
  /\ pattern.branches # << >>
  /\ (pattern.head # << >>) = (pattern.type \in Classifying)
  /\ pattern.join # << >> => pattern.type \in MayJoin
  /\ pattern.type \in MustJoin => pattern.join # << >>

(* _reject_declared_needs: the expander owns the edges.                     *)
NoDeclaredNeeds(pattern) == \A node \in Authored(pattern) : ~Declares(node, "needs")

(* _require_when, _require_join_policy: a branch routes on the classifier,  *)
(* and a join over branches of which most will skip says what it tolerates. *)
Routed(pattern) ==
  pattern.type \in Classifying =>
    /\ \A branch \in NodesIn(pattern.branches) : Declares(branch, "when")
    /\ \A node \in NodesIn(pattern.join) : Declares(node, "join")

(* _require_agent_kind.                                                     *)
AllAgents(pattern) ==
  pattern.type = "fan-out-synthesis" => \A node \in Authored(pattern) : node.kind = "agent"

(* expand_pattern: the type is registered and its params validate.          *)
Expandable(pattern) ==
  /\ pattern.type \in Types
  /\ SlotsFilled(pattern) /\ NoDeclaredNeeds(pattern) /\ Routed(pattern) /\ AllAgents(pattern)

Needing(node, ids) == [node EXCEPT !.needs = ids]
IdsOf(nodes) == [i \in DOMAIN nodes |-> nodes[i].id]

BugFanIn(branches, node) == Needing(node, <<branches[1].id>>)

(* _fan_in, and the same injection in _expand_parallel.                     *)
FanIn(branches, node) == Needing(node, IdsOf(branches))

(* The five expand functions: steps are chained, branches of a classifier   *)
(* need it, all other branches are independent; a join needs every branch.  *)
BranchNeeds(pattern, i) ==
  CASE pattern.type = "pipeline" /\ i > 1 -> <<pattern.branches[i - 1].id>>
    [] pattern.type \in Classifying -> <<pattern.head[1].id>>
    [] OTHER -> << >>

Expand(pattern) ==
  LET branches == [i \in DOMAIN pattern.branches |->
                     Needing(pattern.branches[i], BranchNeeds(pattern, i))]
      joins == [i \in DOMAIN pattern.join |-> FanIn(branches, pattern.join[i])]
  IN  pattern.head \o branches \o joins
=============================================================================
