---------------------------- MODULE WorkflowGraph ----------------------------
(***************************************************************************)
(* The normalized Workflow IR (src/caw/model.py) as the executor sees it:  *)
(* an acyclic graph of Nodes, each with the Nodes it `needs`, its join     *)
(* policy, its `when` predicate and its retry budget, and the Workflow's   *)
(* concurrency limit.  Every module of the executor is parameterised by    *)
(* these constants; what the pydantic validators guarantee about a         *)
(* Workflow is stated as named assumptions.                                *)
(*                                                                         *)
(* A `when` predicate is kept as a conjunction of leaves.  A leaf compares *)
(* one field of an upstream output with a value; all the scheduler can see *)
(* of that comparison is its truth value, so an Attempt's output is one    *)
(* bit (does the leaf over it hold?) and a leaf is the bit it expects:     *)
(* `expect` is FALSE for a leaf under `not`.                               *)
(***************************************************************************)
EXTENDS Naturals, FiniteSets, Sequences

CONSTANTS
  Nodes,        \* the Node ids of the Workflow
  NoNode,       \* "no Node": the absent blocker of a skip that has none
  Needs,        \* Needs[n]: the Nodes n depends on
  Position,     \* Position[n]: the place of n in execution_order
  Dependents,   \* Dependents[n]: the Nodes that need n, in execution order
  Gates,        \* the Nodes of kind human_gate
  JoinAny,      \* the Nodes with `join: any`
  When,         \* When[n]: the leaves of n's `when`; empty when n has none
  Retries,      \* Retries[n]: the Attempts n may make after its first
  Concurrency   \* the Workflow's concurrency limit

Leaves == [ref : Nodes, expect : BOOLEAN]

ASSUME NodesAssumption ==
  /\ IsFiniteSet(Nodes)
  /\ Nodes # {}
  /\ NoNode \notin Nodes

(* execution_order is a linear extension of the dependency order; that it   *)
(* exists is what the acyclicity validator accepts.                         *)
ASSUME OrderAssumption ==
  /\ Needs \in [Nodes -> SUBSET Nodes]
  /\ Position \in [Nodes -> Nat]
  /\ \A m, n \in Nodes : m # n => Position[m] # Position[n]
  /\ \A n \in Nodes : \A m \in Needs[n] : Position[m] < Position[n]

ASSUME DependentsAssumption ==
  /\ Dependents \in [Nodes -> Seq(Nodes)]
  /\ \A n \in Nodes :
       /\ {Dependents[n][i] : i \in 1..Len(Dependents[n])} = {d \in Nodes : n \in Needs[d]}
       /\ \A i, j \in 1..Len(Dependents[n]) :
            i < j => Position[Dependents[n][i]] < Position[Dependents[n][j]]

(* `when` refs must be dependencies and can never name a gate; a gate has   *)
(* no retries.                                                              *)
ASSUME PolicyAssumption ==
  /\ Gates \subseteq Nodes
  /\ JoinAny \subseteq Nodes
  /\ When \in [Nodes -> SUBSET Leaves]
  /\ \A n \in Nodes : \A leaf \in When[n] : leaf.ref \in Needs[n] \ Gates
  /\ Retries \in [Nodes -> Nat]
  /\ \A g \in Gates : Retries[g] = 0

ASSUME ConcurrencyAssumption == Concurrency \in Nat \ {0}

(* The Nodes some `when` reads: only their output bit can matter.           *)
Referenced == {n \in Nodes : \E d \in Nodes : \E leaf \in When[d] : leaf.ref = n}

(* The transitive dependencies of n, as the least set closed under Needs.   *)
AncestorsOf ==
  [n \in Nodes |->
     {m \in Nodes : \A S \in SUBSET Nodes :
        (Needs[n] \subseteq S /\ \A k \in S : Needs[k] \subseteq S) => m \in S}]
Ancestors(n) == AncestorsOf[n]
=============================================================================
