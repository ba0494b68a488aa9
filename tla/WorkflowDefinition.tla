-------------------------- MODULE WorkflowDefinition --------------------------
(***************************************************************************)
(* From an authored definition to the Workflow IR (src/caw/model.py):      *)
(* normalize_workflow expands a pattern, the validators accept or refuse   *)
(* the Nodes, and Kahn's algorithm yields the execution order, or a cycle  *)
(* to report.  WorkflowGraph assumes of its constants what this module     *)
(* shows of every definition that gets through.                            *)
(*                                                                         *)
(* A Node is identified by its place in the declaration.  The heap of      *)
(* ready Nodes is the set of its entries, of which the least is popped.    *)
(***************************************************************************)
EXTENDS PatternExpanders, FiniteSets

CONSTANTS Definitions  \* the authored definitions considered

(* Lists of Nodes; a slot of one Node holds at most one; and a Node whose   *)
(* author wrote no `needs` has none.                                        *)
ASSUME DefinitionsAssumption ==
  \A d \in Definitions :
    /\ d.declares \subseteq {"pattern", "nodes"}
    /\ {d.nodes, d.pattern.head, d.pattern.branches, d.pattern.join} \subseteq Seq(NodeDicts)
    /\ Len(d.pattern.head) <= 1 /\ Len(d.pattern.join) <= 1
    /\ \A node \in Authored(d.pattern) : ~Declares(node, "needs") => node.needs = << >>

VARIABLES
  source,    \* the authored definition
  stage,     \* how far it got
  nodes,     \* the Nodes, in declaration order
  indegree,  \* indegree[i]: needs of Node i that were not peeled yet
  ready,     \* the heap: Nodes whose needs are all peeled
  ordered,   \* the Nodes peeled so far
  path       \* the walk over unpeelable Nodes that looks for a cycle

irVars == <<source, stage, nodes, indegree, ready, ordered, path>>

At(s) == stage = s
Index == DOMAIN nodes
Known == {nodes[i].id : i \in Index}
Place(id) == CHOOSE i \in Index : nodes[i].id = id
Need(i) == {Place(id) : id \in NodesIn(nodes[i].needs)}

IRInit ==
  /\ source \in Definitions
  /\ stage = "authored"
  /\ nodes = << >> /\ indegree = << >> /\ ready = {} /\ ordered = << >> /\ path = << >>

(* expand_pattern: `pattern:` or `nodes:`, never both; a pattern block that *)
(* does not validate refuses the definition.                                *)
ExpandPattern ==
  /\ At("authored")
  /\ \/ /\ source.declares = {"nodes"}
        /\ stage' = "expanded" /\ nodes' = source.nodes
     \/ /\ source.declares = {"pattern"} /\ Expandable(source.pattern)
        /\ stage' = "expanded" /\ nodes' = Expand(source.pattern)
     \/ /\ source.declares = {"pattern"} => ~Expandable(source.pattern)
        /\ source.declares # {"nodes"}
        /\ stage' = "refused" /\ UNCHANGED nodes
  /\ UNCHANGED <<source, indegree, ready, ordered, path>>

-----------------------------------------------------------------------------
(* The validators.                                                          *)

(* Node: unique needs, none of them the Node itself; `when` reads only      *)
(* dependencies; a gate runs no process to retry or to time out.            *)
NodeValid(node) ==
  /\ Cardinality(NodesIn(node.needs)) = Len(node.needs)
  /\ node.id \notin NodesIn(node.needs)
  /\ \A ref \in node.refs : ref.node \in NodesIn(node.needs)
  /\ node.kind = "human_gate" => node.retries = 0 /\ ~Declares(node, "timeout")

BugProducible(kind) == IF kind = "agent" THEN Fields ELSE {"stdout"}

(* _PRODUCIBLE_FIELDS_FOR_KIND.                                             *)
Producible(kind) ==
  CASE kind = "shell" -> {"stdout"}
    [] kind = "agent" -> Fields
    [] OTHER -> {}

(* Workflow: at least one Node, unique ids, no dangling need, and a `when`  *)
(* reads no field that the kind of the dependency cannot produce.           *)
NodesValid ==
  /\ nodes # << >>
  /\ Cardinality(Known) = Len(nodes)
  /\ \A i \in Index : NodesIn(nodes[i].needs) \subseteq Known
  /\ \A i \in Index : \A ref \in nodes[i].refs :
       ref.field \in Producible(nodes[Place(ref.node)].kind)

(* The Nodes that pass go on to the acyclicity validator, which starts the  *)
(* peel: in-degrees counted once, the heap filled with the roots.           *)
Validate ==
  /\ At("expanded")
  /\ \/ /\ (\A i \in Index : NodeValid(nodes[i])) /\ NodesValid
        /\ stage' = "peel"
        /\ indegree' = [i \in Index |-> Len(nodes[i].needs)]
        /\ ready' = {i \in Index : nodes[i].needs = << >>}
     \/ /\ ~((\A i \in Index : NodeValid(nodes[i])) /\ NodesValid)
        /\ stage' = "refused" /\ UNCHANGED <<indegree, ready>>
  /\ UNCHANGED <<source, nodes, ordered, path>>

-----------------------------------------------------------------------------
(* _peel_in_declaration_order, one round of its loop a step.                *)

Least(entries) == CHOOSE i \in entries : \A j \in entries : i <= j
Peeled == NodesIn(ordered)

BugPopReady(i) == i \in ready

PopReady(i) == i = Least(ready)

Peel ==
  /\ At("peel")
  /\ \E i \in ready :
       /\ PopReady(i)
       /\ ordered' = Append(ordered, i)
       /\ indegree' = [d \in Index |-> indegree[d] - (IF i \in Need(d) THEN 1 ELSE 0)]
       /\ ready' = (ready \ {i}) \cup {d \in Index : i \in Need(d) /\ indegree'[d] = 0}
  /\ UNCHANGED <<source, stage, nodes, path>>

(* Nothing is ready: the order is complete, or the rest is unorderable and  *)
(* _find_cycle starts from its first Node.                                  *)
PeelDone ==
  /\ At("peel") /\ ready = {}
  /\ IF Peeled = Index
       THEN stage' = "accepted" /\ UNCHANGED path
       ELSE stage' = "walk" /\ path' = <<Least(Index \ Peeled)>>
  /\ UNCHANGED <<source, nodes, indegree, ready, ordered>>

(* The first need, as listed, that is unpeeled too.                         *)
Successor(i) ==
  LET listed == {k \in DOMAIN nodes[i].needs : Place(nodes[i].needs[k]) \notin Peeled}
  IN  Place(nodes[i].needs[Least(listed)])

(* _find_cycle: follow needs until a Node repeats; the walk from its first  *)
(* visit, reversed, is the cycle that the refusal names.                    *)
WalkOn ==
  /\ At("walk")
  /\ LET next == Successor(path[Len(path)])
         first == CHOOSE k \in DOMAIN path : path[k] = next
     IN  IF next \in NodesIn(path)
           THEN /\ stage' = "cyclic"
                /\ path' = Reverse(Append(SubSeq(path, first, Len(path)), next))
           ELSE path' = Append(path, next) /\ UNCHANGED stage
  /\ UNCHANGED <<source, nodes, indegree, ready, ordered>>

IRNext == ExpandPattern \/ Validate \/ Peel \/ PeelDone \/ WalkOn
IRSpec == IRInit /\ [][IRNext]_irVars

-----------------------------------------------------------------------------
(* The peel is exact: counters and heap yield, at every place, the earliest *)
(* declared Node whose needs all come before it, so the order of a Run is a *)
(* function of its definition; and a definition with valid Nodes is refused *)
(* only over a cycle it has, which the refusal names in execution order.    *)
Before(k) == {ordered[m] : m \in 1..(k - 1)}

OrderOrCycle ==
  /\ \A k \in DOMAIN ordered :
       LET eligible == {i \in Index \ Before(k) : Need(i) \subseteq Before(k)}
       IN  ordered[k] \in eligible /\ \A i \in eligible : ordered[k] <= i
  /\ At("accepted") => Peeled = Index
  /\ At("cyclic") =>
       /\ Len(path) > 1 /\ path[1] = path[Len(path)]
       /\ \A k \in 1..(Len(path) - 1) : path[k] \in Need(path[k + 1])

(* What is accepted is a graph as WorkflowGraph assumes it: the order       *)
(* extends the needs, a `when` reads a dependency that is no gate and the   *)
(* field it reads exists for that kind, and gates have no retries.          *)
Position(i) == CHOOSE k \in DOMAIN ordered : ordered[k] = i

AcceptedIsGraph ==
  At("accepted") =>
    \A i \in Index :
      /\ \A j \in Need(i) : Position(j) < Position(i)
      /\ \A ref \in nodes[i].refs :
           \E j \in Need(i) :
             /\ nodes[j].id = ref.node /\ nodes[j].kind # "human_gate"
             /\ ref.field = "structured_output" => nodes[j].kind = "agent"
      /\ nodes[i].kind = "human_gate" => nodes[i].retries = 0

(* The graph has the shape its pattern promises, told by which Nodes may    *)
(* run at the same time: the steps of a pipeline never, branches always;    *)
(* a classifier runs before every branch and a join after all of them; and  *)
(* a pattern whose parts have distinct ids is never refused over a cycle.   *)
Upstream(i) ==
  {j \in Index : \A S \in SUBSET Index :
     (Need(i) \subseteq S /\ \A k \in S : Need(k) \subseteq S) => j \in S}

PatternShape ==
  source.declares = {"pattern"} =>
    /\ stage # "cyclic"
    /\ At("accepted") =>
         LET heads == DOMAIN source.pattern.head
             branches == {Len(source.pattern.head) + i : i \in DOMAIN source.pattern.branches}
             joins == Index \ (heads \cup branches)
             Apart(i, j) == i \notin Upstream(j) /\ j \notin Upstream(i)
         IN  /\ \A i, j \in branches : i # j => (Apart(i, j) <=> source.pattern.type # "pipeline")
             /\ \A i \in branches : heads \subseteq Upstream(i)
             /\ \A i \in joins : branches \subseteq Upstream(i)
=============================================================================
