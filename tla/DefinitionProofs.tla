--------------------------- MODULE DefinitionProofs ---------------------------
(***************************************************************************)
(* Proofs that whatever the validators let through is what the Scheduler   *)
(* takes it for, for every definition: any number of Nodes, any needs, any *)
(* pattern block.                                                          *)
(*                                                                         *)
(* IRInv is inductive.  The validators make ids unique, so places and ids  *)
(* stand for each other (NeedIs) and the in-degree of a Node counts        *)
(* exactly its needs that were not peeled yet; then the heap holds exactly *)
(* the Nodes that the order may go on with, the least of them is next, and *)
(* where it is empty every Node left needs another one left, so the walk   *)
(* cannot end but in a cycle.  The shape of a pattern is read off the      *)
(* edges its expander writes, place by place (PatternNeeds).               *)
(***************************************************************************)
EXTENDS WorkflowDefinition, FiniteSetTheorems, SequenceTheorems, NaturalBounds

USE DEF At

(* The validators let the definition through.                               *)
Checked == stage \in {"peel", "accepted", "walk", "cyclic"}
Stages == {"authored", "expanded", "refused", "peel", "accepted", "walk", "cyclic"}

(* Before the peel there is no order, and no walk before it got stuck.      *)
IRTypeOK ==
  /\ source \in Definitions
  /\ stage \in Stages
  /\ nodes \in Seq(NodeDicts)
  /\ ordered \in Seq(Index)
  /\ path \in Seq(Index)
  /\ ~Checked => ordered = << >>
  /\ ~(stage \in {"walk", "cyclic"}) => path = << >>

(* The Nodes of a pattern are those its expander emits.                     *)
ExpandedInv ==
  source.declares = {"pattern"} /\ (Checked \/ At("expanded")) =>
    Expandable(source.pattern) /\ nodes = Expand(source.pattern)

(* What the validators let through.                                         *)
ValidInv == Checked => NodesValid /\ \A i \in Index : NodeValid(nodes[i])

(* The Nodes that may stand at place k of the order.                        *)
Eligible(k) == {i \in Index \ Before(k) : Need(i) \subseteq Before(k)}

(* Counters and heap of the peel say what is left to do.                    *)
CountersInv ==
  Checked =>
    /\ indegree \in [Index -> Int]
    /\ \A i \in Index : indegree[i] = Cardinality(Need(i) \ Peeled)
    /\ ready = {i \in Index \ Peeled : Need(i) \subseteq Peeled}

(* Each place was given to the earliest declared of them.                   *)
LeastFirst ==
  \A k \in DOMAIN ordered : ordered[k] \in Eligible(k) /\ \A i \in Eligible(k) : ordered[k] <= i

(* The walk starts where the peel is stuck, and stays on unpeeled Nodes.    *)
WalkInv ==
  /\ At("accepted") => Peeled = Index
  /\ stage \in {"walk", "cyclic"} => ready = {} /\ Peeled # Index
  /\ At("walk") =>
       /\ path # << >>
       /\ \A k \in DOMAIN path : path[k] \notin Peeled
       /\ \A k \in 1..(Len(path) - 1) : path[k + 1] \in Need(path[k])
  /\ At("cyclic") =>
       /\ Len(path) > 1 /\ path[1] = path[Len(path)]
       /\ \A k \in 1..(Len(path) - 1) : path[k] \in Need(path[k + 1])

IRInv == IRTypeOK /\ ExpandedInv /\ ValidInv /\ CountersInv /\ LeastFirst /\ WalkInv

-----------------------------------------------------------------------------
(* The least of a set of places.                                            *)
LEMMA LeastIs ==
  ASSUME NEW S \in SUBSET Nat, S # {}
  PROVE  Least(S) \in S /\ \A j \in S : Least(S) <= j
<1>1. \E i \in S : \A j \in S : i <= j
  BY NaturalLeast
<1> QED BY <1>1 DEF Least

LEMMA FunctionIsSeq ==
  ASSUME NEW S, NEW n \in Nat, NEW f \in [1..n -> S]
  PROVE  f \in Seq(S) /\ Len(f) = n
OBVIOUS

(* The elements of three sequences put one after the other.                 *)
LEMMA ConcatThree ==
  ASSUME NEW S, NEW s \in Seq(S), NEW t \in Seq(S), NEW u \in Seq(S)
  PROVE  /\ s \o t \o u \in Seq(S)
         /\ Len(s \o t \o u) = Len(s) + Len(t) + Len(u)
         /\ \A k \in 1..Len(s) : (s \o t \o u)[k] = s[k]
         /\ \A k \in 1..Len(t) : (s \o t \o u)[Len(s) + k] = t[k]
         /\ \A k \in 1..Len(u) : (s \o t \o u)[Len(s) + Len(t) + k] = u[k]
<1>0. Len(s) \in Nat /\ Len(t) \in Nat /\ Len(u) \in Nat
  OBVIOUS
<1>1. /\ s \o t \in Seq(S) /\ Len(s \o t) = Len(s) + Len(t)
      /\ \A k \in 1..Len(s) : (s \o t)[k] = s[k]
      /\ \A k \in 1..Len(t) : (s \o t)[Len(s) + k] = t[k]
  BY <1>0, ConcatProperties
<1> DEFINE st == s \o t
<1>2. /\ st \in Seq(S) /\ Len(st) = Len(s) + Len(t)
      /\ \A k \in 1..Len(s) : st[k] = s[k]
      /\ \A k \in 1..Len(t) : st[Len(s) + k] = t[k]
  BY <1>1
<1> HIDE DEF st
<1>3. /\ st \o u \in Seq(S) /\ Len(st \o u) = Len(st) + Len(u)
      /\ \A k \in 1..Len(st) : (st \o u)[k] = st[k]
      /\ \A k \in 1..Len(u) : (st \o u)[Len(st) + k] = u[k]
  <2>1. st \in Seq(S) /\ Len(st) \in Nat
    BY <1>2
  <2> QED BY <1>0, <2>1, ConcatProperties
<1>4. \A k \in 1..Len(s) : (st \o u)[k] = s[k]
  BY <1>0, <1>2, <1>3
<1>5. \A k \in 1..Len(t) : (st \o u)[Len(s) + k] = t[k]
  BY <1>0, <1>2, <1>3
<1> QED BY <1>2, <1>3, <1>4, <1>5 DEF st

(* Places and ids.                                                          *)
LEMMA IndexIs ==
  ASSUME nodes \in Seq(NodeDicts)
  PROVE  /\ Len(nodes) \in Nat /\ Index = 1..Len(nodes)
         /\ Index \subseteq Nat
         /\ IsFiniteSet(Index) /\ Cardinality(Index) = Len(nodes)
         /\ \A i \in Index : nodes[i] \in NodeDicts
<1>1. Len(nodes) \in Nat /\ Index = 1..Len(nodes)
  BY DEF Index
<1>2. IsFiniteSet(Index) /\ Cardinality(Index) = Len(nodes)
  <2>1. IsFiniteSet(1..Len(nodes)) /\ Cardinality(1..Len(nodes)) = IF 1 > Len(nodes) THEN 0 ELSE Len(nodes) - 1 + 1
    BY <1>1, FS_Interval
  <2> QED BY <1>1, <2>1
<1>3. \A i \in Index : nodes[i] \in NodeDicts
  BY <1>1
<1> QED BY <1>1, <1>2, <1>3

LEMMA NodeFields ==
  ASSUME NEW node \in NodeDicts
  PROVE  /\ node.id \in Ids /\ node.kind \in Kinds /\ node.needs \in Seq(Ids)
         /\ node.refs \in SUBSET Refs /\ node.retries \in Nat
         /\ Len(node.needs) \in Nat /\ DOMAIN node.needs = 1..Len(node.needs)
         /\ NodesIn(node.needs) \subseteq Ids
<1>1. /\ node.id \in Ids /\ node.kind \in Kinds /\ node.needs \in Seq(Ids)
      /\ node.refs \in SUBSET Refs /\ node.retries \in Nat
  BY DEF NodeDicts
<1>2. Len(node.needs) \in Nat /\ DOMAIN node.needs = 1..Len(node.needs)
  BY <1>1
<1>3. NodesIn(node.needs) \subseteq Ids
  BY <1>1, <1>2 DEF NodesIn
<1> QED BY <1>1, <1>2, <1>3

LEMMA PlaceOf ==
  ASSUME NEW id \in Known
  PROVE  Place(id) \in Index /\ nodes[Place(id)].id = id
<1>1. \E i \in Index : nodes[i].id = id
  BY DEF Known
<1> QED BY <1>1 DEF Place

LEMMA IdsUnique ==
  ASSUME nodes \in Seq(NodeDicts), NodesValid
  PROVE  /\ \A i, j \in Index : nodes[i].id = nodes[j].id => i = j
         /\ \A i \in Index : Place(nodes[i].id) = i
<1> DEFINE f == [i \in Index |-> nodes[i].id]
<1>1. f \in Surjection(Index, Known)
  BY DEF Surjection, Known
<1>2. IsFiniteSet(Index) /\ Cardinality(Index) = Len(nodes)
  BY IndexIs
<1>3. IsFiniteSet(Known) /\ Cardinality(Known) = Cardinality(Index)
  BY <1>1, <1>2, FS_Surjection DEF NodesValid
<1>4. f \in Injection(Index, Known)
  BY <1>1, <1>2, <1>3, FS_SurjSameCardinalityImpliesInj
<1>5. \A i, j \in Index : nodes[i].id = nodes[j].id => i = j
  BY <1>4 DEF Injection, IsInjective
<1>6. ASSUME NEW i \in Index PROVE Place(nodes[i].id) = i
  <2>1. nodes[i].id \in Known
    BY DEF Known
  <2> QED BY <1>5, <2>1, PlaceOf
<1> QED BY <1>5, <1>6

(* Of a valid Node the needs are other Nodes, one for each entry.           *)
LEMMA NeedIs ==
  ASSUME nodes \in Seq(NodeDicts), NodesValid, NEW i \in Index, NodeValid(nodes[i])
  PROVE  /\ Need(i) \subseteq Index \ {i}
         /\ IsFiniteSet(Need(i)) /\ Cardinality(Need(i)) = Len(nodes[i].needs)
<1> DEFINE ids == NodesIn(nodes[i].needs)
           f == [id \in ids |-> Place(id)]
<1>0. nodes[i] \in NodeDicts
  BY IndexIs
<1>1. ids \subseteq Known
  BY DEF NodesValid
<1>2. \A id \in ids : Place(id) \in Index /\ nodes[Place(id)].id = id
  BY <1>1, PlaceOf
<1>3. Need(i) \subseteq Index \ {i}
  BY <1>2 DEF Need, NodeValid
<1>4. IsFiniteSet(ids)
  <2>1. IsFiniteSet(1..Len(nodes[i].needs))
    <3>1. Len(nodes[i].needs) \in Nat
      BY <1>0, NodeFields
    <3>2. 1 \in Int /\ Len(nodes[i].needs) \in Int
      BY <3>1
    <3> QED BY <3>2, FS_Interval
  <2>2. DOMAIN nodes[i].needs = 1..Len(nodes[i].needs)
    BY <1>0, NodeFields
  <2>3. [k \in DOMAIN nodes[i].needs |-> nodes[i].needs[k]] \in Surjection(DOMAIN nodes[i].needs, ids)
    BY DEF Surjection, NodesIn
  <2> QED BY <2>1, <2>2, <2>3, FS_Surjection
<1>5. f \in Surjection(ids, Need(i)) /\ f \in Injection(ids, Need(i))
  <2>1. f \in Surjection(ids, Need(i))
    BY DEF Surjection, Need
  <2>2. f \in Injection(ids, Need(i))
    BY <1>2, <2>1 DEF Injection, IsInjective, Surjection
  <2> QED BY <2>1, <2>2
<1>6. IsFiniteSet(Need(i)) /\ Cardinality(Need(i)) = Cardinality(ids)
  BY <1>4, <1>5, FS_Surjection
<1> QED BY <1>3, <1>6 DEF NodeValid

LEMMA NodesKept ==
  ASSUME UNCHANGED nodes
  PROVE  /\ Index' = Index /\ (NodesValid <=> NodesValid')
         /\ \A i : Need(i)' = Need(i)
         /\ \A i : NodeValid(nodes[i])' <=> NodeValid(nodes[i])
<1>1. Index' = Index /\ Known' = Known
  BY DEF Index, Known
<1>2. \A id : Place(id)' = Place(id)
  BY <1>1 DEF Place
<1>3. \A i : Need(i)' = Need(i)
  BY <1>2 DEF Need
<1>4. NodesValid <=> NodesValid'
  BY <1>1, <1>2 DEF NodesValid
<1>5. \A i : NodeValid(nodes[i])' <=> NodeValid(nodes[i])
  OBVIOUS
<1> QED BY <1>1, <1>3, <1>4, <1>5

LEMMA OrderKept ==
  ASSUME UNCHANGED <<nodes, ordered>>
  PROVE  /\ Peeled' = Peeled
         /\ LeastFirst => LeastFirst'
<1>1. Peeled' = Peeled
  BY DEF Peeled
<1>2. \A k : Before(k)' = Before(k)
  BY DEF Before
<1>3. \A k : Eligible(k)' = Eligible(k)
  BY <1>2, NodesKept DEF Eligible
<1> QED BY <1>1, <1>3 DEF LeastFirst

LEMMA PeeledIs ==
  ASSUME IRTypeOK
  PROVE  /\ Len(ordered) \in Nat /\ DOMAIN ordered = 1..Len(ordered)
         /\ Peeled \subseteq Index
         /\ Before(Len(ordered) + 1) = Peeled
         /\ \A k \in Nat : k <= Len(ordered) + 1 => Before(k) \subseteq Peeled
         /\ ordered = << >> => Peeled = {}
<1>1. Len(ordered) \in Nat /\ DOMAIN ordered = 1..Len(ordered)
  BY DEF IRTypeOK
<1>2. Peeled = {ordered[m] : m \in 1..Len(ordered)}
  BY <1>1 DEF Peeled, NodesIn
<1>3. Peeled \subseteq Index
  BY <1>1, <1>2 DEF IRTypeOK
<1>4. Before(Len(ordered) + 1) = Peeled
  BY <1>1, <1>2 DEF Before
<1>5. \A k \in Nat : k <= Len(ordered) + 1 => Before(k) \subseteq Peeled
  BY <1>1, <1>2 DEF Before
<1>6. ordered = << >> => Peeled = {}
  BY <1>1, <1>2
<1> QED BY <1>1, <1>3, <1>4, <1>5, <1>6

(* What was peeled had its needs peeled before it.                          *)
LEMMA PeeledClosed ==
  ASSUME IRTypeOK, LeastFirst, NEW i \in Peeled
  PROVE  Need(i) \subseteq Peeled
<1>1. PICK k \in 1..Len(ordered) : i = ordered[k]
  BY PeeledIs DEF Peeled, NodesIn
<1>2. Need(i) \subseteq Before(k)
  BY <1>1, PeeledIs DEF LeastFirst, Eligible
<1> QED BY <1>2, PeeledIs

-----------------------------------------------------------------------------
LEMMA IRInitInv == IRInit => IRInv
<1> SUFFICES ASSUME IRInit PROVE IRInv
  OBVIOUS
<1>1. IRTypeOK
  BY DEF IRInit, IRTypeOK, Stages, Checked, Index
<1>2. LeastFirst
  BY DEF IRInit, LeastFirst
<1> QED BY <1>1, <1>2 DEF IRInit, IRInv, ExpandedInv, ValidInv, CountersInv, WalkInv, Checked

(* Every Node an expander emits is a Node.                                  *)
LEMMA NeedingType ==
  ASSUME NEW node \in NodeDicts, NEW ids \in Seq(Ids)
  PROVE  /\ Needing(node, ids) \in NodeDicts
         /\ Needing(node, ids).id = node.id /\ Needing(node, ids).needs = ids
BY DEF Needing, NodeDicts

LEMMA SlotsAre ==
  ASSUME NEW d \in Definitions
  PROVE  /\ d.nodes \in Seq(NodeDicts)
         /\ d.pattern.head \in Seq(NodeDicts)
         /\ d.pattern.branches \in Seq(NodeDicts)
         /\ d.pattern.join \in Seq(NodeDicts)
         /\ Len(d.pattern.head) <= 1
         /\ \A node \in Authored(d.pattern) : ~Declares(node, "needs") => node.needs = << >>
BY DefinitionsAssumption

LEMMA BranchNeedsType ==
  ASSUME NEW d \in Definitions, Expandable(d.pattern), NEW i \in DOMAIN d.pattern.branches
  PROVE  BranchNeeds(d.pattern, i) \in Seq(Ids)
<1> DEFINE p == d.pattern
<1>1. p.head \in Seq(NodeDicts) /\ p.branches \in Seq(NodeDicts)
  BY SlotsAre
<1>2. i \in 1..Len(p.branches)
  BY <1>1
<1>3. \A k \in 1..Len(p.branches) : p.branches[k] \in NodeDicts
  BY <1>1
<1>4. \A k \in 1..Len(p.branches) : p.branches[k].id \in Ids
  BY <1>3, NodeFields
<1>5. CASE p.type = "pipeline" /\ i > 1
  <2>1. i - 1 \in 1..Len(p.branches)
    BY <1>1, <1>2, <1>5
  <2>2. BranchNeeds(p, i) = <<p.branches[i - 1].id>>
    BY <1>5 DEF BranchNeeds, Classifying
  <2> QED BY <1>4, <2>1, <2>2
<1>6. CASE p.type \in Classifying
  <2>1. p.head # << >>
    BY <1>6 DEF Expandable, SlotsFilled
  <2>2. p.head[1] \in NodeDicts
    BY <1>1, <2>1
  <2>3. p.head[1].id \in Ids
    BY <2>2, NodeFields
  <2>4. BranchNeeds(p, i) = <<p.head[1].id>>
    BY <1>6 DEF BranchNeeds, Classifying
  <2> QED BY <2>3, <2>4
<1>7. CASE ~(p.type = "pipeline" /\ i > 1) /\ p.type \notin Classifying
  <2>1. BranchNeeds(p, i) = << >>
    BY <1>7 DEF BranchNeeds
  <2> QED BY <2>1
<1> QED BY <1>5, <1>6, <1>7

(* The Nodes of an expanded pattern: its slots one after the other, the    *)
(* branches with the edges of the pattern, a join needing every branch.     *)
LEMMA ExpandIs ==
  ASSUME NEW d \in Definitions, Expandable(d.pattern)
  PROVE  LET p == d.pattern
             h == Len(p.head)
             b == Len(p.branches)
             e == Expand(p)
         IN  /\ h \in Nat /\ b \in Nat /\ e \in Seq(NodeDicts) /\ h + b <= Len(e)
             /\ \A k \in 1..h : e[k] = p.head[k]
             /\ \A k \in 1..b : /\ e[h + k].id = p.branches[k].id
                                /\ e[h + k].needs = BranchNeeds(p, k)
             /\ \A k \in 1..Len(e) : k > h + b =>
                  e[k].needs = [m \in 1..b |-> p.branches[m].id]
<1> DEFINE p == d.pattern
           h == Len(p.head)
           b == Len(p.branches)
           j == Len(p.join)
           branches == [i \in DOMAIN p.branches |-> Needing(p.branches[i], BranchNeeds(p, i))]
           joins == [i \in DOMAIN p.join |-> FanIn(branches, p.join[i])]
           e == Expand(p)
<1>1. /\ p.head \in Seq(NodeDicts) /\ p.branches \in Seq(NodeDicts) /\ p.join \in Seq(NodeDicts)
      /\ h \in Nat /\ b \in Nat /\ j \in Nat
      /\ DOMAIN p.branches = 1..b /\ DOMAIN p.join = 1..j
  BY SlotsAre
<1>2. \A k \in 1..b : p.branches[k] \in NodeDicts
  BY <1>1
<1>3. \A k \in 1..b :
        /\ branches[k] \in NodeDicts
        /\ branches[k].id = p.branches[k].id /\ branches[k].needs = BranchNeeds(p, k)
  BY <1>1, <1>2, BranchNeedsType, NeedingType
<1>4. IdsOf(branches) = [m \in 1..b |-> p.branches[m].id]
  BY <1>1, <1>3 DEF IdsOf
<1>5. IdsOf(branches) \in Seq(Ids)
  <2>1. \A m \in 1..b : p.branches[m].id \in Ids
    BY <1>2, NodeFields
  <2>2. IdsOf(branches) \in [1..b -> Ids]
    BY <1>4, <2>1
  <2> QED BY <1>1, <2>2, FunctionIsSeq
<1>6. ASSUME NEW k \in 1..j
      PROVE  joins[k] \in NodeDicts /\ joins[k].needs = [m \in 1..b |-> p.branches[m].id]
  <2>1. p.join[k] \in NodeDicts
    BY <1>1
  <2>2. joins[k] = Needing(p.join[k], IdsOf(branches))
    BY <1>1 DEF FanIn
  <2> DEFINE node == p.join[k]
             ids == IdsOf(branches)
  <2>3. Needing(node, ids) \in NodeDicts /\ Needing(node, ids).needs = ids
    <3>1. node \in NodeDicts /\ ids \in Seq(Ids)
      BY <1>5, <2>1
    <3> HIDE DEF node, ids
    <3> QED BY <3>1, NeedingType
  <2> HIDE DEF joins, branches
  <2> QED BY <1>4, <2>2, <2>3
<1>7. branches \in Seq(NodeDicts) /\ Len(branches) = b
  <2>1. branches \in [1..b -> NodeDicts]
    <3>1. DOMAIN branches = 1..b
      BY <1>1
    <3>2. branches = [i \in 1..b |-> branches[i]]
      BY <1>1
    <3> QED BY <1>3, <3>2
  <2> QED BY <1>1, <2>1, FunctionIsSeq
<1>8. joins \in Seq(NodeDicts) /\ Len(joins) = j
  <2>1. joins \in [1..j -> NodeDicts]
    <3>1. joins = [i \in 1..j |-> joins[i]]
      BY <1>1
    <3> QED BY <1>6, <3>1
  <2> QED BY <1>1, <2>1, FunctionIsSeq
<1>9. e = p.head \o branches \o joins
  BY DEF Expand
<1> HIDE DEF branches, joins
<1>10. /\ e \in Seq(NodeDicts) /\ Len(e) = h + b + j
       /\ \A k \in 1..h : e[k] = p.head[k]
       /\ \A k \in 1..b : e[h + k] = branches[k]
       /\ \A k \in 1..j : e[h + b + k] = joins[k]
  <2>1. /\ e \in Seq(NodeDicts) /\ Len(e) = Len(p.head) + Len(branches) + Len(joins)
        /\ \A k \in 1..Len(p.head) : e[k] = p.head[k]
        /\ \A k \in 1..Len(branches) : e[Len(p.head) + k] = branches[k]
        /\ \A k \in 1..Len(joins) : e[Len(p.head) + Len(branches) + k] = joins[k]
    <3> HIDE DEF p, e
    <3>1. p.head \in Seq(NodeDicts) /\ branches \in Seq(NodeDicts) /\ joins \in Seq(NodeDicts)
      BY <1>1, <1>7, <1>8
    <3> HIDE DEF h, b, j
    <3>2. /\ p.head \o branches \o joins \in Seq(NodeDicts)
          /\ Len(p.head \o branches \o joins) = Len(p.head) + Len(branches) + Len(joins)
          /\ \A k \in 1..Len(p.head) : (p.head \o branches \o joins)[k] = p.head[k]
          /\ \A k \in 1..Len(branches) :
               (p.head \o branches \o joins)[Len(p.head) + k] = branches[k]
          /\ \A k \in 1..Len(joins) :
               (p.head \o branches \o joins)[Len(p.head) + Len(branches) + k] = joins[k]
      BY <3>1, ConcatThree
    <3> QED BY <1>9, <3>2
  <2> QED BY <1>7, <1>8, <2>1
<1> HIDE DEF p, h, b, j, e
<1>11. ASSUME NEW k \in 1..Len(e), k > h + b
       PROVE  e[k].needs = [m \in 1..b |-> p.branches[m].id]
  <2>1. k - (h + b) \in 1..j /\ k = h + b + (k - (h + b))
    BY <1>1, <1>10, <1>11
  <2> QED BY <1>6, <1>10, <2>1
<1>12. \A k \in 1..b : e[h + k].id = p.branches[k].id /\ e[h + k].needs = BranchNeeds(p, k)
  BY <1>3, <1>10
<1>13. h + b <= Len(e)
  BY <1>1, <1>10
<1> QED BY <1>1, <1>10, <1>11, <1>12, <1>13 DEF p, h, b, e

-----------------------------------------------------------------------------
LEMMA ExpandStep == IRInv /\ ExpandPattern => IRInv'
<1> SUFFICES ASSUME IRInv, ExpandPattern PROVE IRInv'
  OBVIOUS
<1>0. /\ source \in Definitions /\ source' = source
      /\ ordered' = << >> /\ path' = << >>
      /\ stage' \in {"expanded", "refused"} /\ ~Checked'
      /\ nodes \in Seq(NodeDicts)
  BY DEF IRInv, IRTypeOK, ExpandPattern, Checked
<1>1. nodes' \in Seq(NodeDicts)
  <2>1. CASE nodes' = source.nodes
    BY <1>0, <2>1, SlotsAre
  <2>2. CASE nodes' = Expand(source.pattern) /\ Expandable(source.pattern)
    BY <1>0, <2>2, ExpandIs
  <2>3. CASE nodes' = nodes
    BY <1>0, <2>3
  <2> QED BY <2>1, <2>2, <2>3 DEF ExpandPattern
<1>2. IRTypeOK'
  BY <1>0, <1>1 DEF IRTypeOK, Stages
<1>3. ExpandedInv'
  BY <1>0 DEF ExpandedInv, ExpandPattern
<1>4. LeastFirst'
  BY <1>0 DEF LeastFirst
<1> QED BY <1>0, <1>2, <1>3, <1>4 DEF IRInv, ValidInv, CountersInv, WalkInv, Checked

LEMMA ValidateStep == IRInv /\ Validate => IRInv'
<1> SUFFICES ASSUME IRInv, Validate PROVE IRInv'
  OBVIOUS
<1>0. /\ IRTypeOK /\ nodes \in Seq(NodeDicts)
      /\ UNCHANGED <<source, nodes, ordered, path>>
      /\ ordered = << >> /\ path = << >> /\ stage' \in {"peel", "refused"}
      /\ Checked' <=> stage' = "peel"
  BY DEF IRInv, IRTypeOK, Validate, Checked
<1>1. /\ Peeled = {} /\ Peeled' = {} /\ Index' = Index
      /\ \A i : Need(i)' = Need(i)
  BY <1>0, PeeledIs, NodesKept, OrderKept
<1>2. IRTypeOK'
  BY <1>0, <1>1 DEF IRTypeOK, Stages
<1>3. ExpandedInv'
  BY <1>0 DEF IRInv, ExpandedInv, Validate
<1>4. ValidInv'
  BY <1>0, <1>1, NodesKept DEF ValidInv, Validate
<1>5. LeastFirst'
  BY <1>0, OrderKept DEF IRInv
<1>6. CountersInv'
  <2> SUFFICES ASSUME Checked' PROVE CountersInv'
    BY DEF CountersInv
  <2>1. NodesValid /\ \A i \in Index : NodeValid(nodes[i])
    BY <1>0 DEF Validate
  <2>2. indegree' = [i \in Index |-> Len(nodes[i].needs)] /\ ready' = {i \in Index : nodes[i].needs = << >>}
    BY <1>0 DEF Validate
  <2>3. \A i \in Index : Len(nodes[i].needs) \in Nat
    BY <1>0, IndexIs, NodeFields
  <2>4. \A i \in Index : indegree'[i] = Cardinality(Need(i) \ Peeled)
    BY <1>0, <1>1, <2>1, <2>2, NeedIs
  <2>5. \A i \in Index : nodes[i].needs = << >> <=> Need(i) = {}
    <3> TAKE i \in Index
    <3>1. nodes[i].needs \in Seq(Ids)
      BY <1>0, IndexIs, NodeFields
    <3>2. nodes[i].needs = << >> <=> Len(nodes[i].needs) = 0
      BY <3>1
    <3> QED BY <1>0, <2>1, <3>2, NeedIs, FS_EmptySet
  <2> QED BY <1>1, <2>2, <2>3, <2>4, <2>5 DEF CountersInv
<1>7. WalkInv'
  BY <1>0 DEF WalkInv
<1> QED BY <1>2, <1>3, <1>4, <1>5, <1>6, <1>7 DEF IRInv

(* The heap holds what the order may go on with.                            *)
LEMMA ReadyIs ==
  ASSUME IRInv, At("peel")
  PROVE  /\ ready = Eligible(Len(ordered) + 1) /\ ready \subseteq Index
         /\ ready \subseteq Nat
BY PeeledIs, IndexIs DEF IRInv, IRTypeOK, CountersInv, Checked, Eligible

LEMMA PeelStep == IRInv /\ Peel => IRInv'
<1> SUFFICES ASSUME IRInv, Peel PROVE IRInv'
  OBVIOUS
<1>0. /\ IRTypeOK /\ nodes \in Seq(NodeDicts) /\ At("peel") /\ Checked
      /\ UNCHANGED <<source, stage, nodes, path>>
      /\ NodesValid /\ \A i \in Index : NodeValid(nodes[i])
      /\ LeastFirst
  BY DEF IRInv, IRTypeOK, ValidInv, Peel, Checked
<1>1. PICK i \in ready :
        /\ i = Least(ready)
        /\ ordered' = Append(ordered, i)
        /\ indegree' = [d \in Index |-> indegree[d] - (IF i \in Need(d) THEN 1 ELSE 0)]
        /\ ready' = (ready \ {i}) \cup {d \in Index : i \in Need(d) /\ indegree'[d] = 0}
  BY DEF Peel, PopReady
<1>2. /\ i \in Index \ Peeled /\ Need(i) \subseteq Peeled
      /\ indegree \in [Index -> Int]
      /\ \A d \in Index : indegree[d] = Cardinality(Need(d) \ Peeled)
      /\ ready = {d \in Index \ Peeled : Need(d) \subseteq Peeled}
  BY <1>0 DEF IRInv, CountersInv
<1>3. /\ Len(ordered) \in Nat /\ ordered' \in Seq(Index) /\ Len(ordered') = Len(ordered) + 1
      /\ \A k \in 1..Len(ordered) : ordered'[k] = ordered[k]
      /\ ordered'[Len(ordered) + 1] = i
  BY <1>0, <1>1, <1>2, AppendProperties, LenProperties DEF IRTypeOK
<1>4. Index' = Index /\ \A d : Need(d)' = Need(d)
  BY <1>0, NodesKept
<1>5. Peeled' = Peeled \cup {i}
  <2>1. Peeled = {ordered[m] : m \in 1..Len(ordered)}
    BY <1>0, PeeledIs DEF Peeled, NodesIn
  <2>2. Peeled' = {ordered'[m] : m \in 1..(Len(ordered) + 1)}
    BY <1>3 DEF Peeled, NodesIn
  <2>3. Peeled' \subseteq Peeled \cup {i}
    BY <1>3, <2>1, <2>2
  <2>4. Peeled \cup {i} \subseteq Peeled'
    BY <1>3, <2>1, <2>2
  <2> QED BY <2>3, <2>4
<1>6. IRTypeOK'
  BY <1>0, <1>3, <1>4 DEF IRTypeOK, Checked
<1>7. ExpandedInv'
  BY <1>0 DEF IRInv, ExpandedInv, Checked
<1>8. ValidInv'
  BY <1>0, <1>4, NodesKept DEF ValidInv, Checked
<1>9. LeastFirst'
  <2> SUFFICES ASSUME NEW k \in 1..(Len(ordered) + 1)
               PROVE  ordered'[k] \in Eligible(k)' /\ \A d \in Eligible(k)' : ordered'[k] <= d
    BY <1>3 DEF LeastFirst
  <2>1. Before(k)' = Before(k)
    BY <1>3 DEF Before
  <2>2. Eligible(k)' = Eligible(k)
    BY <1>4, <2>1 DEF Eligible
  <2>3. CASE k \in 1..Len(ordered)
    BY <1>0, <1>3, <2>2, <2>3, PeeledIs DEF LeastFirst
  <2>4. CASE k = Len(ordered) + 1
    <3>1. Eligible(k) = ready /\ ready \subseteq Nat
      BY <1>0, <2>4, ReadyIs
    <3>2. \A d \in ready : i <= d
      BY <1>1, <3>1, LeastIs
    <3> QED BY <1>1, <1>3, <2>2, <2>4, <3>1, <3>2
  <2> QED BY <1>3, <2>3, <2>4
<1>10. CountersInv'
  <2>1. ASSUME NEW d \in Index
        PROVE  /\ indegree'[d] \in Nat
               /\ indegree'[d] = Cardinality(Need(d) \ Peeled')
               /\ indegree'[d] = 0 <=> Need(d) \subseteq Peeled'
    <3>1. IsFiniteSet(Need(d) \ Peeled)
      BY <1>0, NeedIs, FS_Difference
    <3>2. Need(d) \ Peeled' = (Need(d) \ Peeled) \ {i}
      BY <1>5
    <3>3. /\ IsFiniteSet(Need(d) \ Peeled')
          /\ Cardinality(Need(d) \ Peeled') =
               IF i \in Need(d) \ Peeled THEN Cardinality(Need(d) \ Peeled) - 1
                                         ELSE Cardinality(Need(d) \ Peeled)
      <4> DEFINE open == Need(d) \ Peeled
      <4> HIDE DEF open
      <4>1. IsFiniteSet(open)
        BY <3>1 DEF open
      <4>2. /\ IsFiniteSet(open \ {i})
            /\ Cardinality(open \ {i}) = IF i \in open THEN Cardinality(open) - 1 ELSE Cardinality(open)
        BY <4>1, FS_RemoveElement
      <4> QED BY <3>2, <4>2 DEF open
    <3>4. i \in Need(d) \ Peeled <=> i \in Need(d)
      BY <1>2
    <3>5. Cardinality(Need(d) \ Peeled) \in Nat /\ Cardinality(Need(d) \ Peeled') \in Nat
      BY <3>1, <3>3, FS_CardinalityType
    <3>6. indegree'[d] = Cardinality(Need(d) \ Peeled')
      BY <1>1, <1>2, <3>3, <3>4, <3>5
    <3>7. indegree'[d] = 0 <=> Need(d) \ Peeled' = {}
      BY <3>3, <3>6, FS_EmptySet
    <3> QED BY <3>5, <3>6, <3>7
  <2>2. ASSUME NEW d \in Index
        PROVE  d \in ready' <=> d \in Index \ Peeled' /\ Need(d) \subseteq Peeled'
    <3>1. i \in Need(d) => d # i /\ d \notin Peeled
      BY <1>0, <1>2, NeedIs, PeeledClosed
    <3>2. d \in ready' <=> \/ d # i /\ d \notin Peeled /\ Need(d) \subseteq Peeled
                           \/ i \in Need(d) /\ Need(d) \subseteq Peeled'
      BY <1>1, <1>2, <2>1
    <3> QED BY <1>5, <3>1, <3>2
  <2>3. ready' \subseteq Index
    BY <1>1, <1>2
  <2>4. ready' = {d \in Index \ Peeled' : Need(d) \subseteq Peeled'}
    BY <2>2, <2>3
  <2>5. indegree' \in [Index -> Int]
    BY <1>1, <1>2
  <2> QED BY <1>4, <2>1, <2>4, <2>5 DEF CountersInv
<1>11. WalkInv'
  BY <1>0 DEF WalkInv
<1> QED BY <1>6, <1>7, <1>8, <1>9, <1>10, <1>11 DEF IRInv

LEMMA PeelDoneStep == IRInv /\ PeelDone => IRInv'
<1> SUFFICES ASSUME IRInv, PeelDone PROVE IRInv'
  OBVIOUS
<1>0. /\ IRTypeOK /\ nodes \in Seq(NodeDicts) /\ At("peel") /\ Checked
      /\ UNCHANGED <<source, nodes, indegree, ready, ordered>>
      /\ ready = {} /\ stage' \in {"accepted", "walk"} /\ Checked'
      /\ path = << >>
  BY DEF IRInv, IRTypeOK, PeelDone, Checked
<1>1. Index' = Index /\ (\A i : Need(i)' = Need(i)) /\ Peeled' = Peeled
  BY <1>0, NodesKept, OrderKept
<1>2. stage' = "walk" => /\ path' = <<Least(Index \ Peeled)>>
                         /\ Least(Index \ Peeled) \in Index \ Peeled
                         /\ Peeled # Index
  <2> SUFFICES ASSUME stage' = "walk"
               PROVE  /\ path' = <<Least(Index \ Peeled)>>
                      /\ Least(Index \ Peeled) \in Index \ Peeled
                      /\ Peeled # Index
    OBVIOUS
  <2>1. path' = <<Least(Index \ Peeled)>> /\ Peeled # Index
    BY DEF PeelDone
  <2>2. Index \ Peeled \in SUBSET Nat /\ Index \ Peeled # {}
    BY <1>0, <2>1, IndexIs, PeeledIs
  <2> QED BY <2>1, <2>2, LeastIs
<1>3. stage' = "accepted" => path' = << >> /\ Peeled = Index
  BY <1>0 DEF PeelDone
<1>4. IRTypeOK'
  <2>1. path' \in Seq(Index)
    <3>1. CASE stage' = "walk"
      <4>1. PICK i \in Index : path' = <<i>>
        BY <1>2, <3>1
      <4> QED BY <4>1
    <3>2. CASE stage' = "accepted"
      BY <1>3, <3>2
    <3> QED BY <1>0, <3>1, <3>2
  <2> QED BY <1>0, <1>1, <1>3, <2>1 DEF IRTypeOK, Stages
<1>5. ExpandedInv'
  BY <1>0 DEF IRInv, ExpandedInv
<1>6. ValidInv' /\ LeastFirst' /\ CountersInv'
  BY <1>0, <1>1, NodesKept, OrderKept DEF IRInv, ValidInv, CountersInv
<1>7. WalkInv'
  <2>1. CASE stage' = "walk"
    <3>1. path' # << >> /\ Len(path') = 1 /\ DOMAIN path' = 1..1 /\ path'[1] = Least(Index \ Peeled)
      BY <1>2, <2>1
    <3> QED BY <1>0, <1>1, <1>2, <2>1, <3>1 DEF WalkInv
  <2>2. CASE stage' = "accepted"
    BY <1>1, <1>3, <2>2 DEF WalkInv
  <2> QED BY <1>0, <2>1, <2>2
<1> QED BY <1>4, <1>5, <1>6, <1>7 DEF IRInv

(* Where the peel is stuck every unpeeled Node has an unpeeled need, so the *)
(* walk never runs out of Nodes.                                            *)
LEMMA SuccessorIs ==
  ASSUME IRInv, Checked, ready = {}, NEW i \in Index \ Peeled
  PROVE  Successor(i) \in Need(i) /\ Successor(i) \in Index \ Peeled
<1> DEFINE listed == {k \in DOMAIN nodes[i].needs : Place(nodes[i].needs[k]) \notin Peeled}
<1>0. /\ IRTypeOK /\ nodes \in Seq(NodeDicts) /\ NodesValid /\ NodeValid(nodes[i])
      /\ ~(Need(i) \subseteq Peeled)
  BY DEF IRInv, IRTypeOK, ValidInv, CountersInv
<1>1. PICK j \in Need(i) : j \notin Peeled
  BY <1>0
<1>2. PICK k \in DOMAIN nodes[i].needs : j = Place(nodes[i].needs[k])
  BY <1>1 DEF Need, NodesIn
<1>3. listed \in SUBSET Nat /\ listed # {}
  <2>1. DOMAIN nodes[i].needs \subseteq Nat
    BY <1>0, IndexIs, NodeFields
  <2> QED BY <1>1, <1>2, <2>1
<1>4. Least(listed) \in listed
  BY <1>3, LeastIs
<1>5. Successor(i) = Place(nodes[i].needs[Least(listed)])
  BY DEF Successor
<1>6. Successor(i) \in Need(i) /\ Successor(i) \notin Peeled
  BY <1>4, <1>5 DEF Need, NodesIn
<1> QED BY <1>0, <1>6, NeedIs

(* A walk back to its first visit of a Node, reversed, is a cycle in        *)
(* execution order.                                                         *)
LEMMA WalkedCycle ==
  ASSUME path \in Seq(Index), path # << >>,
         \A k \in 1..(Len(path) - 1) : path[k + 1] \in Need(path[k]),
         NEW first \in 1..Len(path), NEW next \in Index, path[first] = next,
         next \in Need(path[Len(path)]),
         NEW cycle, cycle = Reverse(Append(SubSeq(path, first, Len(path)), next))
  PROVE  /\ cycle \in Seq(Index) /\ Len(cycle) > 1 /\ cycle[1] = cycle[Len(cycle)]
         /\ \A k \in 1..(Len(cycle) - 1) : cycle[k] \in Need(cycle[k + 1])
<1>1. Len(path) \in Nat /\ \A k \in 1..Len(path) : path[k] \in Index
  OBVIOUS
<1>2. PICK m \in Nat \ {0} : m = Len(path) - first + 1
  <2>1. Len(path) - first + 1 \in Nat \ {0}
    BY <1>1
  <2> QED BY <2>1
<1> DEFINE cut == SubSeq(path, first, Len(path))
<1>3. cut \in Seq(Index) /\ Len(cut) = m /\ \A k \in 1..m : cut[k] = path[first + k - 1]
  BY <1>1, <1>2, SubSeqProperties
<1> HIDE DEF cut
<1> DEFINE closed == Append(cut, next)
<1>4. /\ closed \in Seq(Index) /\ Len(closed) = m + 1
      /\ \A k \in 1..m : closed[k] = path[first + k - 1]
      /\ closed[m + 1] = next
  <2>1. /\ closed \in Seq(Index) /\ Len(closed) = Len(cut) + 1
        /\ \A k \in 1..Len(cut) : closed[k] = cut[k]
        /\ closed[Len(cut) + 1] = next
    BY <1>3, AppendProperties
  <2> HIDE DEF closed
  <2> QED BY <1>3, <2>1
<1>5. cycle = Reverse(closed)
  BY DEF cut
<1> HIDE DEF closed
<1>6. cycle = [k \in 1..(m + 1) |-> closed[m + 2 - k]]
  <2>1. cycle = [k \in 1..(m + 1) |-> closed[((m + 1) - k) + 1]]
    BY <1>4, <1>5 DEF Reverse
  <2>2. \A k \in 1..(m + 1) : ((m + 1) - k) + 1 = m + 2 - k
    BY <1>2
  <2> QED BY <2>1, <2>2
<1>7. cycle \in Seq(Index) /\ Len(cycle) = m + 1
  <2>1. \A k \in 1..(m + 1) : closed[m + 2 - k] \in Index
    BY <1>2, <1>4
  <2>2. cycle \in [1..(m + 1) -> Index]
    BY <1>6, <2>1
  <2>3. m + 1 \in Nat
    BY <1>2
  <2> QED BY <2>2, <2>3, FunctionIsSeq
<1>8. cycle[1] = next /\ cycle[m + 1] = next
  <2>1. /\ 1 \in 1..(m + 1) /\ m + 1 \in 1..(m + 1)
        /\ m + 2 - 1 = m + 1 /\ m + 2 - (m + 1) = 1 /\ first + 1 - 1 = first /\ 1 \in 1..m
    BY <1>2
  <2>2. cycle[1] = closed[m + 1] /\ cycle[m + 1] = closed[1]
    BY <1>6, <2>1
  <2>3. closed[1] = path[first]
    BY <1>4, <2>1
  <2> QED BY <1>4, <2>2, <2>3
<1>9. \A k \in 1..m : closed[k + 1] \in Need(closed[k])
  <2> TAKE k \in 1..m
  <2>1. CASE k = m
    <3>1. first + k - 1 = Len(path)
      BY <1>1, <1>2, <2>1
    <3> QED BY <1>4, <2>1, <3>1
  <2>2. CASE k < m
    <3>1. /\ first + k - 1 \in 1..(Len(path) - 1) /\ k + 1 \in 1..m
          /\ (first + k - 1) + 1 = first + (k + 1) - 1
      BY <1>1, <1>2, <2>2
    <3>2. closed[k] = path[first + k - 1] /\ closed[k + 1] = path[(first + k - 1) + 1]
      BY <1>4, <3>1
    <3> QED BY <3>1, <3>2
  <2>3. k = m \/ k < m
    BY <1>2
  <2> QED BY <2>1, <2>2, <2>3
<1>10. \A k \in 1..m : cycle[k] \in Need(cycle[k + 1])
  <2> TAKE k \in 1..m
  <2>1. /\ k \in 1..(m + 1) /\ k + 1 \in 1..(m + 1) /\ m + 1 - k \in 1..m
        /\ m + 2 - k = (m + 1 - k) + 1 /\ m + 2 - (k + 1) = m + 1 - k
    BY <1>2
  <2>2. cycle[k] = closed[(m + 1 - k) + 1] /\ cycle[k + 1] = closed[m + 1 - k]
    BY <1>6, <2>1
  <2> QED BY <1>9, <2>1, <2>2
<1> QED BY <1>2, <1>7, <1>8, <1>10

LEMMA WalkStep == IRInv /\ WalkOn => IRInv'
<1> SUFFICES ASSUME IRInv, WalkOn PROVE IRInv'
  OBVIOUS
<1> DEFINE last == path[Len(path)]
           next == Successor(last)
           first == CHOOSE k \in DOMAIN path : path[k] = next
<1>0. /\ IRTypeOK /\ nodes \in Seq(NodeDicts) /\ At("walk") /\ Checked
      /\ UNCHANGED <<source, nodes, indegree, ready, ordered>>
      /\ ready = {} /\ Peeled # Index /\ stage' \in {"walk", "cyclic"} /\ Checked'
      /\ path \in Seq(Index) /\ path # << >>
      /\ \A k \in DOMAIN path : path[k] \notin Peeled
      /\ \A k \in 1..(Len(path) - 1) : path[k + 1] \in Need(path[k])
  BY DEF IRInv, IRTypeOK, WalkInv, WalkOn, Checked
<1>1. Index' = Index /\ (\A i : Need(i)' = Need(i)) /\ Peeled' = Peeled
  BY <1>0, NodesKept, OrderKept
<1>2. Len(path) \in Nat \ {0} /\ DOMAIN path = 1..Len(path) /\ last \in Index \ Peeled
  BY <1>0
<1>3. next \in Need(last) /\ next \in Index \ Peeled
  BY <1>0, <1>2, SuccessorIs
<1>4. ASSUME next \in NodesIn(path) PROVE WalkInv'
  <2>1. stage' = "cyclic" /\ path' = Reverse(Append(SubSeq(path, first, Len(path)), next))
    BY <1>4 DEF WalkOn
  <2>2. first \in 1..Len(path) /\ path[first] = next
    BY <1>2, <1>4 DEF NodesIn
  <2> HIDE DEF first, next, last
  <2>3. /\ path' \in Seq(Index) /\ Len(path') > 1 /\ path'[1] = path'[Len(path')]
        /\ \A k \in 1..(Len(path') - 1) : path'[k] \in Need(path'[k + 1])
    <3>1. next \in Need(path[Len(path)])
      BY <1>3 DEF last
    <3> QED BY <1>0, <1>3, <2>1, <2>2, <3>1, WalkedCycle
  <2> QED BY <1>0, <1>1, <2>1, <2>3 DEF WalkInv
<1>5. ASSUME next \notin NodesIn(path) PROVE WalkInv'
  <2>1. path' = Append(path, next) /\ stage' = "walk"
    BY <1>0, <1>5 DEF WalkOn
  <2> HIDE DEF next
  <2>2. /\ path' \in Seq(Index) /\ path' # << >> /\ Len(path') = Len(path) + 1
        /\ \A k \in 1..Len(path) : path'[k] = path[k]
        /\ path'[Len(path) + 1] = next
    BY <1>0, <1>3, <2>1, AppendProperties
  <2>3. \A k \in DOMAIN path' : path'[k] \notin Peeled
    BY <1>0, <1>2, <1>3, <2>2
  <2>4. \A k \in 1..(Len(path') - 1) : path'[k + 1] \in Need(path'[k])
    <3> TAKE k \in 1..(Len(path') - 1)
    <3>1. CASE k = Len(path)
      BY <1>2, <1>3, <2>2, <3>1
    <3>2. CASE k < Len(path)
      BY <1>0, <1>2, <2>2, <3>2
    <3>3. k \in 1..Len(path)
      BY <1>2, <2>2
    <3>4. k = Len(path) \/ k < Len(path)
      <4>1. Len(path) \in Nat
        BY <1>2
      <4> QED BY <3>3, <4>1
    <3> QED BY <3>1, <3>2, <3>4
  <2> QED BY <1>0, <1>1, <2>1, <2>2, <2>3, <2>4 DEF WalkInv
<1>6. path' \in Seq(Index)
  <2>1. CASE next \in NodesIn(path)
    <3>1. first \in 1..Len(path) /\ path[first] = next
      BY <1>2, <2>1 DEF NodesIn
    <3>2. path' = Reverse(Append(SubSeq(path, first, Len(path)), next))
      BY <2>1 DEF WalkOn
    <3>3. next \in Need(path[Len(path)])
      BY <1>3
    <3> HIDE DEF first, next, last
    <3> QED BY <1>0, <1>3, <3>1, <3>2, <3>3, WalkedCycle
  <2>2. CASE next \notin NodesIn(path)
    <3>1. path' = Append(path, next)
      BY <2>2 DEF WalkOn
    <3> HIDE DEF next
    <3> QED BY <1>0, <1>3, <3>1, AppendProperties
  <2> QED BY <2>1, <2>2
<1>7. IRTypeOK'
  BY <1>0, <1>1, <1>6 DEF IRTypeOK, Stages
<1>8. ExpandedInv'
  BY <1>0 DEF IRInv, ExpandedInv
<1>9. ValidInv' /\ LeastFirst' /\ CountersInv'
  BY <1>0, <1>1, NodesKept, OrderKept DEF IRInv, ValidInv, CountersInv
<1> QED BY <1>4, <1>5, <1>7, <1>8, <1>9 DEF IRInv

-----------------------------------------------------------------------------
LEMMA IRStutter == IRInv /\ UNCHANGED irVars => IRInv'
<1> SUFFICES ASSUME IRInv, UNCHANGED irVars PROVE IRInv'
  OBVIOUS
<1>1. UNCHANGED <<source, stage, nodes, indegree, ready, ordered, path>>
  BY DEF irVars
<1>2. Index' = Index /\ (\A i : Need(i)' = Need(i)) /\ Peeled' = Peeled
  BY <1>1, NodesKept, OrderKept
<1>3. ValidInv' /\ LeastFirst' /\ CountersInv'
  BY <1>1, <1>2, NodesKept, OrderKept DEF IRInv, ValidInv, CountersInv, Checked
<1>4. IRTypeOK'
  BY <1>1, <1>2 DEF IRInv, IRTypeOK, Checked
<1>5. ExpandedInv'
  BY <1>1 DEF IRInv, ExpandedInv, Checked
<1>6. WalkInv'
  BY <1>1, <1>2 DEF IRInv, WalkInv
<1> QED BY <1>3, <1>4, <1>5, <1>6 DEF IRInv

(* normalize_workflow: types, the counters and the heap of the peel, the    *)
(* order so far and the walk stay what they are for, at every step of the   *)
(* expansion, the validators, the peel and the search for a cycle.          *)
THEOREM DefinitionInvariant == IRSpec => []IRInv
<1>1. IRInit => IRInv
  BY IRInitInv
<1>2. IRInv /\ [IRNext]_irVars => IRInv'
  BY ExpandStep, ValidateStep, PeelStep, PeelDoneStep, WalkStep, IRStutter DEF IRNext
<1> QED BY <1>1, <1>2, PTL DEF IRSpec

(* _peel_in_declaration_order and _find_cycle: every place of the order is  *)
(* given to the earliest declared Node that may stand there, an accepted    *)
(* definition is ordered as a whole, and one refused over a cycle has it.   *)
THEOREM OrderOrCycleHolds == IRSpec => []OrderOrCycle
<1>1. IRInv => OrderOrCycle
  BY DEF IRInv, LeastFirst, Eligible, WalkInv, OrderOrCycle
<1> QED BY <1>1, DefinitionInvariant, PTL

LEMMA Positions ==
  ASSUME IRInv, At("accepted"), NEW i \in Index
  PROVE  /\ Position(i) \in 1..Len(ordered) /\ ordered[Position(i)] = i
         /\ \A k \in 1..Len(ordered) : ordered[k] = i => k = Position(i)
<1>1. /\ Peeled = Index /\ Len(ordered) \in Nat /\ DOMAIN ordered = 1..Len(ordered)
      /\ \A k \in 1..Len(ordered) : ordered[k] \notin Before(k)
  BY PeeledIs DEF IRInv, WalkInv, LeastFirst, Eligible
<1>2. PICK k \in 1..Len(ordered) : ordered[k] = i
  BY <1>1 DEF Peeled, NodesIn
<1>3. Position(i) \in 1..Len(ordered) /\ ordered[Position(i)] = i
  BY <1>1, <1>2 DEF Position
<1>4. ASSUME NEW k1 \in 1..Len(ordered), NEW k2 \in 1..Len(ordered), k1 < k2
      PROVE  ordered[k1] # ordered[k2]
  <2>1. k1 \in 1..(k2 - 1)
    BY <1>1, <1>4
  <2>2. ordered[k1] \in Before(k2)
    BY <2>1 DEF Before
  <2> QED BY <1>1, <2>2
<1>5. ASSUME NEW m \in 1..Len(ordered), ordered[m] = i PROVE m = Position(i)
  <2>1. m < Position(i) \/ m = Position(i) \/ Position(i) < m
    BY <1>1, <1>3
  <2> QED BY <1>3, <1>4, <1>5, <2>1
<1> QED BY <1>3, <1>5

(* The Node and Workflow validators: what they let through, in the order    *)
(* the peel gave it, is a graph as the Scheduler assumes it.                *)
THEOREM AcceptedIsGraphHolds == IRSpec => []AcceptedIsGraph
<1>1. ASSUME IRInv, At("accepted"), NEW i \in Index
      PROVE  /\ \A j \in Need(i) : Position(j) < Position(i)
             /\ \A ref \in nodes[i].refs :
                  \E j \in Need(i) :
                    /\ nodes[j].id = ref.node /\ nodes[j].kind # "human_gate"
                    /\ ref.field = "structured_output" => nodes[j].kind = "agent"
             /\ nodes[i].kind = "human_gate" => nodes[i].retries = 0
  <2>0. /\ IRTypeOK /\ nodes \in Seq(NodeDicts) /\ NodesValid /\ NodeValid(nodes[i])
        /\ nodes[i] \in NodeDicts
    BY <1>1, IndexIs DEF IRInv, IRTypeOK, ValidInv, Checked
  <2>1. ASSUME NEW j \in Need(i) PROVE Position(j) < Position(i)
    <3>1. j \in Index
      BY <2>0, NeedIs
    <3>2. Position(i) \in 1..Len(ordered) /\ ordered[Position(i)] = i
      BY <1>1, Positions
    <3>3. j \in Before(Position(i))
      BY <1>1, <2>0, <3>2, PeeledIs DEF IRInv, LeastFirst, Eligible
    <3>4. PICK m \in 1..(Position(i) - 1) : ordered[m] = j
      BY <3>3 DEF Before
    <3>5. m \in 1..Len(ordered) /\ m < Position(i)
      BY <2>0, <3>2, <3>4, PeeledIs
    <3> QED BY <1>1, <3>1, <3>4, <3>5, Positions
  <2>2. ASSUME NEW ref \in nodes[i].refs
        PROVE  \E j \in Need(i) :
                 /\ nodes[j].id = ref.node /\ nodes[j].kind # "human_gate"
                 /\ ref.field = "structured_output" => nodes[j].kind = "agent"
    <3>1. ref.node \in NodesIn(nodes[i].needs)
      BY <2>0 DEF NodeValid
    <3>2. Place(ref.node) \in Need(i) /\ nodes[Place(ref.node)].id = ref.node
      BY <2>0, <3>1, PlaceOf DEF Need, NodesValid
    <3>3. ref.field \in Producible(nodes[Place(ref.node)].kind)
      BY <2>0 DEF NodesValid
    <3>4. /\ nodes[Place(ref.node)].kind # "human_gate"
          /\ ref.field = "structured_output" => nodes[Place(ref.node)].kind = "agent"
      BY <3>3 DEF Producible
    <3> QED BY <3>2, <3>4
  <2>3. nodes[i].kind = "human_gate" => nodes[i].retries = 0
    BY <2>0 DEF NodeValid
  <2> QED BY <2>1, <2>2, <2>3
<1>2. IRInv => AcceptedIsGraph
  BY <1>1 DEF AcceptedIsGraph
<1> QED BY <1>2, DefinitionInvariant, PTL

(* The constants that WorkflowGraph makes of an accepted Workflow, a Node   *)
(* standing at its place, as its assumptions want them.                     *)
GraphAssumed ==
  At("accepted") =>
    /\ IsFiniteSet(Index) /\ Index # {}
    /\ \A i, j \in Index : nodes[i].id = nodes[j].id => i = j
    /\ [i \in Index |-> Need(i)] \in [Index -> SUBSET Index]
    /\ [i \in Index |-> Position(i)] \in [Index -> Nat]
    /\ \A i, j \in Index : i # j => Position(i) # Position(j)
    /\ \A i \in Index : \A j \in Need(i) : Position(j) < Position(i)
    /\ \A i \in Index : \A ref \in nodes[i].refs :
         Place(ref.node) \in Need(i) \ {g \in Index : nodes[g].kind = "human_gate"}
    /\ \A i \in Index : nodes[i].retries \in Nat /\ (nodes[i].kind = "human_gate" => nodes[i].retries = 0)

(* Every Workflow that normalize_workflow lets through meets what the       *)
(* proofs about the executor assume of a Workflow (NodesAssumption,         *)
(* OrderAssumption, PolicyAssumption): they hold of whatever caw runs.  The *)
(* lists of dependents are the executor's own (_Scheduler.__init__).        *)
THEOREM AcceptedMeetsAssumptions == IRSpec => []GraphAssumed
<1>1. ASSUME IRInv, AcceptedIsGraph, At("accepted") PROVE GraphAssumed
  <2>1. /\ nodes \in Seq(NodeDicts) /\ NodesValid /\ \A i \in Index : NodeValid(nodes[i])
    BY <1>1 DEF IRInv, IRTypeOK, ValidInv, Checked
  <2>2. /\ IsFiniteSet(Index) /\ Index # {}
        /\ \A i, j \in Index : nodes[i].id = nodes[j].id => i = j
    <3>1. Len(nodes) # 0
      BY <2>1 DEF NodesValid
    <3> QED BY <2>1, <3>1, IndexIs, IdsUnique
  <2>3. \A i \in Index : Need(i) \in SUBSET Index
    BY <2>1, NeedIs
  <2>4. \A i \in Index : Position(i) \in Nat /\ ordered[Position(i)] = i
    BY <1>1, Positions
  <2>5. \A i \in Index : \A j \in Need(i) : Position(j) < Position(i)
    BY <1>1 DEF AcceptedIsGraph
  <2>6. ASSUME NEW i \in Index, NEW ref \in nodes[i].refs
        PROVE  Place(ref.node) \in Need(i) \ {g \in Index : nodes[g].kind = "human_gate"}
    <3>1. PICK j \in Need(i) : nodes[j].id = ref.node /\ nodes[j].kind # "human_gate"
      BY <1>1, <2>6 DEF AcceptedIsGraph
    <3>2. Place(nodes[j].id) = j
      BY <2>1, <2>3, <3>1, IdsUnique
    <3> QED BY <3>1, <3>2
  <2>7. \A i \in Index : nodes[i].retries \in Nat /\ (nodes[i].kind = "human_gate" => nodes[i].retries = 0)
    BY <2>1, IndexIs, NodeFields DEF NodeValid
  <2> QED BY <2>2, <2>3, <2>4, <2>5, <2>6, <2>7 DEF GraphAssumed
<1>2. IRInv /\ AcceptedIsGraph => GraphAssumed
  BY <1>1 DEF GraphAssumed
<1> QED BY <1>2, DefinitionInvariant, AcceptedIsGraphHolds, PTL

-----------------------------------------------------------------------------
(* Where every need is declared before the Node, nothing is unorderable:    *)
(* the first unpeeled Node would be ready.                                  *)
LEMMA BackwardNeedsPeel ==
  ASSUME IRInv, Checked, \A i \in Index : \A j \in Need(i) : j < i
  PROVE  stage \notin {"walk", "cyclic"}
<1> SUFFICES ASSUME ready = {}, Peeled # Index PROVE FALSE
  BY DEF IRInv, WalkInv
<1>0. IRTypeOK /\ nodes \in Seq(NodeDicts) /\ NodesValid /\ \A i \in Index : NodeValid(nodes[i])
  BY DEF IRInv, IRTypeOK, ValidInv
<1>1. Index \ Peeled \in SUBSET Nat /\ Index \ Peeled # {}
  BY <1>0, IndexIs, PeeledIs
<1>2. PICK i \in Index \ Peeled : \A j \in Index \ Peeled : i <= j
  BY <1>1, NaturalLeast
<1>3. \A j \in Need(i) : j \in Index /\ j \in Nat /\ i \in Nat /\ j < i
  BY <1>0, <1>1, NeedIs, IndexIs
<1>4. Need(i) \subseteq Peeled
  BY <1>2, <1>3
<1> QED BY <1>4 DEF IRInv, CountersInv

LEMMA HeadAuthored ==
  ASSUME NEW S, NEW s \in Seq(S), NEW t \in Seq(S), NEW u \in Seq(S), NEW i \in 1..Len(s)
  PROVE  s[i] \in NodesIn(s \o t \o u)
<1> DEFINE all == s \o t \o u
<1>1. /\ all \in Seq(S) /\ Len(all) = Len(s) + Len(t) + Len(u)
      /\ all[i] = s[i]
  BY ConcatThree
<1> HIDE DEF all
<1>2. Len(s) \in Nat /\ Len(t) \in Nat /\ Len(u) \in Nat
  OBVIOUS
<1>3. i \in 1..Len(all)
  BY <1>1, <1>2
<1>4. i \in DOMAIN all
  BY <1>1, <1>3
<1>5. s[i] \in NodesIn(all)
  BY <1>1, <1>4 DEF NodesIn
<1> QED BY <1>5 DEF all

(* The edges of an expanded pattern, place by place.                        *)
LEMMA PatternNeeds ==
  ASSUME IRInv, Checked, source.declares = {"pattern"}
  PROVE  LET p == source.pattern
             h == Len(p.head)
             b == Len(p.branches)
         IN  /\ h \in Nat /\ b \in Nat /\ h <= 1 /\ h + b <= Len(nodes)
             /\ p.type = "pipeline" => h = 0
             /\ h = 1 <=> p.type \in Classifying
             /\ \A i \in 1..h : Need(i) = {}
             /\ \A k \in 1..b :
                  Need(h + k) = CASE p.type = "pipeline" /\ k > 1 -> {h + k - 1}
                                  [] p.type \in Classifying -> {1}
                                  [] OTHER -> {}
             /\ \A i \in Index : i > h + b => Need(i) = (h + 1)..(h + b)
<1> DEFINE p == source.pattern
           h == Len(p.head)
           b == Len(p.branches)
<1>0. /\ source \in Definitions /\ nodes \in Seq(NodeDicts) /\ NodesValid
      /\ Expandable(p) /\ nodes = Expand(p)
  BY DEF IRInv, IRTypeOK, ExpandedInv, ValidInv
<1>1. /\ h \in Nat /\ b \in Nat /\ h + b <= Len(nodes)
      /\ \A k \in 1..h : nodes[k] = p.head[k]
      /\ \A k \in 1..b : /\ nodes[h + k].id = p.branches[k].id
                         /\ nodes[h + k].needs = BranchNeeds(p, k)
      /\ \A i \in 1..Len(nodes) : i > h + b =>
           nodes[i].needs = [m \in 1..b |-> p.branches[m].id]
  BY <1>0, ExpandIs
<1>2. /\ h <= 1 /\ p.head \in Seq(NodeDicts) /\ p.join \in Seq(NodeDicts)
      /\ p.branches \in Seq(NodeDicts) /\ DOMAIN p.branches = 1..b /\ DOMAIN p.head = 1..h
      /\ \A node \in Authored(p) : ~Declares(node, "needs") => node.needs = << >>
  BY <1>0, SlotsAre
<1>3. /\ p.head # << >> <=> p.type \in Classifying
      /\ p.head = << >> <=> h = 0
  BY <1>0, <1>2 DEF Expandable, SlotsFilled
<1>4. Index = 1..Len(nodes) /\ Len(nodes) \in Nat
  BY <1>0, IndexIs
<1> HIDE DEF p, h, b
<1>5. \A i \in Index : Place(nodes[i].id) = i
  BY <1>0, IdsUnique
<1>6. ASSUME NEW i \in 1..h PROVE Need(i) = {}
  <2>1. p.head[i] \in Authored(p)
    BY <1>2, HeadAuthored DEF Authored, h
  <2>2. p.head[i].needs = << >>
    BY <1>0, <1>2, <2>1 DEF Expandable, NoDeclaredNeeds
  <2>3. nodes[i].needs = << >>
    BY <1>1, <2>2
  <2> QED BY <2>3 DEF Need, NodesIn
<1>7. \A k \in 1..b : h + k \in Index /\ Place(p.branches[k].id) = h + k
  BY <1>1, <1>4, <1>5
<1>8. ASSUME NEW k \in 1..b
      PROVE  Need(h + k) = CASE p.type = "pipeline" /\ k > 1 -> {h + k - 1}
                             [] p.type \in Classifying -> {1}
                             [] OTHER -> {}
  <2>1. CASE p.type = "pipeline" /\ k > 1
    <3>1. nodes[h + k].needs = <<p.branches[k - 1].id>>
      BY <1>1, <2>1 DEF BranchNeeds, Classifying
    <3>2. k - 1 \in 1..b /\ h + (k - 1) = h + k - 1
      BY <1>1, <2>1
    <3>3. Need(h + k) = {Place(p.branches[k - 1].id)}
      BY <3>1 DEF Need, NodesIn
    <3> QED BY <1>7, <2>1, <3>2, <3>3 DEF Classifying
  <2>2. CASE p.type \in Classifying
    <3>1. nodes[h + k].needs = <<p.head[1].id>>
      BY <1>1, <2>2 DEF BranchNeeds, Classifying
    <3>2. h = 1 /\ nodes[1] = p.head[1] /\ 1 \in Index
      BY <1>1, <1>2, <1>3, <1>4, <2>2
    <3>3. Need(h + k) = {Place(p.head[1].id)}
      BY <3>1 DEF Need, NodesIn
    <3> QED BY <1>5, <2>2, <3>2, <3>3 DEF Classifying
  <2>3. CASE ~(p.type = "pipeline" /\ k > 1) /\ p.type \notin Classifying
    <3>1. nodes[h + k].needs = << >>
      BY <1>1, <2>3 DEF BranchNeeds
    <3>2. Need(h + k) = {}
      BY <3>1 DEF Need, NodesIn
    <3> QED BY <2>3, <3>2
  <2> QED BY <2>1, <2>2, <2>3
<1>9. ASSUME NEW i \in Index, i > h + b PROVE Need(i) = (h + 1)..(h + b)
  <2>1. nodes[i].needs = [m \in 1..b |-> p.branches[m].id]
    BY <1>1, <1>4, <1>9
  <2>2. Need(i) = {Place(p.branches[m].id) : m \in 1..b}
    BY <2>1 DEF Need, NodesIn
  <2>3. Need(i) = {h + m : m \in 1..b}
    BY <1>7, <2>2
  <2>4. \A j \in (h + 1)..(h + b) : j - h \in 1..b /\ j = h + (j - h)
    BY <1>1
  <2>5. \A m \in 1..b : h + m \in (h + 1)..(h + b)
    BY <1>1
  <2> QED BY <2>3, <2>4, <2>5
<1>10. (p.type = "pipeline" => h = 0) /\ (h = 1 <=> p.type \in Classifying)
  BY <1>1, <1>2, <1>3 DEF Classifying
<1> QED BY <1>1, <1>2, <1>6, <1>8, <1>9, <1>10 DEF p, h, b

(* What is upstream of a Node: its needs, theirs, and so on.                *)
Closed(S) == \A k \in S : Need(k) \subseteq S

LEMMA NeedsAreUpstream ==
  ASSUME NEW i \in Index, NEW j \in Need(i), j \in Index
  PROVE  j \in Upstream(i)
BY DEF Upstream

LEMMA NotUpstream ==
  ASSUME NEW i, NEW j, NEW S \in SUBSET Index, Need(i) \subseteq S, Closed(S), j \notin S
  PROVE  j \notin Upstream(i)
BY DEF Upstream, Closed

(* A chain reaches back to its first link: the last Node between two of     *)
(* them that a closed set lacks would be needed by one that it has.         *)
LEMMA ChainUpstream ==
  ASSUME Index \subseteq Nat, NEW n \in Nat, 1..n \subseteq Index,
         \A k \in 1..n : k > 1 => Need(k) = {k - 1},
         NEW i \in 1..n, NEW j \in 1..n, i < j
  PROVE  i \in Upstream(j)
<1> SUFFICES ASSUME NEW S \in SUBSET Index, Need(j) \subseteq S, Closed(S), i \notin S
             PROVE  FALSE
  BY DEF Upstream, Closed
<1> DEFINE missing == {k \in 1..(j - 1) : k \notin S}
<1>1. j - 1 \in Nat /\ missing \in SUBSET (1..(j - 1)) /\ i \in missing
  OBVIOUS
<1>2. PICK m \in missing : \A k \in missing : k <= m
  BY <1>1, BoundedGreatest
<1>3. m \in 1..(j - 1) /\ m \notin S /\ m \in 1..n /\ m + 1 \in 1..n /\ m + 1 > 1
  BY <1>2
<1>4. Need(m + 1) = {m}
  BY <1>3
<1>5. CASE m + 1 = j
  BY <1>3, <1>4, <1>5
<1>6. CASE m + 1 < j
  <2>1. m + 1 \in 1..(j - 1) /\ ~(m + 1 <= m)
    BY <1>3, <1>6
  <2>2. m + 1 \in S
    BY <1>2, <2>1
  <2> QED BY <1>3, <1>4, <2>2 DEF Closed
<1> QED BY <1>3, <1>5, <1>6

(* The expand functions: no pattern is refused over a cycle, and the graph  *)
(* that is accepted runs the Nodes of each slot in the order, or in the     *)
(* freedom, that the pattern's type promises, whatever its size.            *)
THEOREM PatternShapeHolds == IRSpec => []PatternShape
<1>1. ASSUME IRInv, source.declares = {"pattern"} PROVE stage # "cyclic"
  <2> SUFFICES ASSUME At("cyclic") PROVE FALSE
    OBVIOUS
  <2> DEFINE p == source.pattern
             h == Len(p.head)
             b == Len(p.branches)
  <2>0. Checked /\ nodes \in Seq(NodeDicts)
    BY <1>1 DEF IRInv, IRTypeOK, Checked
  <2>1. /\ h \in Nat /\ b \in Nat /\ h <= 1 /\ h + b <= Len(nodes)
        /\ p.type = "pipeline" => h = 0
        /\ h = 1 <=> p.type \in Classifying
        /\ \A i \in 1..h : Need(i) = {}
        /\ \A k \in 1..b :
             Need(h + k) = CASE p.type = "pipeline" /\ k > 1 -> {h + k - 1}
                             [] p.type \in Classifying -> {1}
                             [] OTHER -> {}
        /\ \A i \in Index : i > h + b => Need(i) = (h + 1)..(h + b)
    BY <1>1, <2>0, PatternNeeds
  <2>2. p.type \in Classifying => h = 1
    BY <2>1
  <2> HIDE DEF p, h, b
  <2>3. Index = 1..Len(nodes) /\ Len(nodes) \in Nat
    BY <2>0, IndexIs
  <2>4. ASSUME NEW i \in Index, NEW j \in Need(i) PROVE j < i
    <3>1. CASE i \in 1..h
      BY <2>1, <2>4, <3>1
    <3>2. CASE i > h + b
      BY <2>1, <2>3, <2>4, <3>2
    <3>3. CASE i > h /\ i <= h + b
      <4>1. PICK k \in 1..b : i = h + k
        <5>1. i - h \in 1..b /\ i = h + (i - h)
          BY <2>1, <2>3, <3>3
        <5> QED BY <5>1
      <4>2. CASE p.type = "pipeline" /\ k > 1
        <5>1. Need(i) = {h + k - 1}
          BY <2>1, <4>1, <4>2 DEF Classifying
        <5> QED BY <2>1, <2>4, <4>1, <5>1
      <4>3. CASE p.type \in Classifying
        <5>1. Need(i) = {1}
          BY <2>1, <4>1, <4>3 DEF Classifying
        <5> QED BY <2>1, <2>2, <2>4, <4>1, <4>3, <5>1
      <4>4. CASE ~(p.type = "pipeline" /\ k > 1) /\ p.type \notin Classifying
        <5>1. Need(i) = {}
          BY <2>1, <4>1, <4>4
        <5> QED BY <2>4, <5>1
      <4> QED BY <4>2, <4>3, <4>4
    <3> QED BY <2>1, <2>3, <3>1, <3>2, <3>3
  <2>5. stage \notin {"walk", "cyclic"}
    BY <1>1, <2>0, <2>4, BackwardNeedsPeel
  <2> QED BY <2>5
<1>2. ASSUME IRInv, source.declares = {"pattern"}, At("accepted")
      PROVE  LET heads == DOMAIN source.pattern.head
                 branches == {Len(source.pattern.head) + i : i \in DOMAIN source.pattern.branches}
                 joins == Index \ (heads \cup branches)
                 Apart(i, j) == i \notin Upstream(j) /\ j \notin Upstream(i)
             IN  /\ \A i, j \in branches : i # j => (Apart(i, j) <=> source.pattern.type # "pipeline")
                 /\ \A i \in branches : heads \subseteq Upstream(i)
                 /\ \A i \in joins : branches \subseteq Upstream(i)
  <2> DEFINE p == source.pattern
             h == Len(p.head)
             b == Len(p.branches)
             heads == DOMAIN p.head
             branches == {h + i : i \in DOMAIN p.branches}
             joins == Index \ (heads \cup branches)
  <2>0. Checked /\ nodes \in Seq(NodeDicts) /\ source \in Definitions
    BY <1>2 DEF IRInv, IRTypeOK, Checked
  <2>1. /\ h \in Nat /\ b \in Nat /\ h <= 1 /\ h + b <= Len(nodes)
        /\ p.type = "pipeline" => h = 0
        /\ h = 1 <=> p.type \in Classifying
        /\ \A i \in 1..h : Need(i) = {}
        /\ \A k \in 1..b :
             Need(h + k) = CASE p.type = "pipeline" /\ k > 1 -> {h + k - 1}
                             [] p.type \in Classifying -> {1}
                             [] OTHER -> {}
        /\ \A i \in Index : i > h + b => Need(i) = (h + 1)..(h + b)
    BY <1>2, <2>0, PatternNeeds
  <2>2. p.type \in Classifying => h = 1
    BY <2>1
  <2>3. heads = 1..h /\ DOMAIN p.branches = 1..b
    BY <2>0, SlotsAre
  <2>4. branches = {h + k : k \in 1..b}
    BY <2>3
  <2> HIDE DEF p, h, b, heads, branches
  <2>5. Index = 1..Len(nodes) /\ Len(nodes) \in Nat /\ Index \subseteq Nat
    BY <2>0, IndexIs
  <2>6. heads \subseteq Index /\ branches \subseteq Index /\ \A i \in branches : i > h /\ i <= h + b
    BY <2>1, <2>3, <2>4, <2>5
  <2>7. \A k \in 1..b : p.type # "pipeline" => Need(h + k) \subseteq heads
    <3> SUFFICES ASSUME NEW k \in 1..b, p.type # "pipeline" PROVE Need(h + k) \subseteq heads
      OBVIOUS
    <3>1. CASE p.type \in Classifying
      BY <2>1, <2>2, <2>3, <3>1
    <3>2. CASE p.type \notin Classifying
      <4>1. Need(h + k) = {}
        BY <2>1, <3>2
      <4> QED BY <4>1
    <3> QED BY <3>1, <3>2
  <2>8. Closed(heads)
    BY <2>1, <2>3 DEF Closed
  <2>9. ASSUME NEW i \in branches, NEW j \in branches, i # j, p.type # "pipeline"
        PROVE  i \notin Upstream(j)
    <3>1. Need(j) \subseteq heads /\ i \notin heads
      BY <2>1, <2>3, <2>4, <2>6, <2>7, <2>9
    <3> QED BY <2>6, <2>8, <3>1, NotUpstream
  <2>10. ASSUME NEW i \in branches, NEW j \in branches, i < j, p.type = "pipeline"
         PROVE  i \in Upstream(j)
    <3>1. h = 0 /\ i \in 1..b /\ j \in 1..b /\ 1..b \subseteq Index
      BY <2>1, <2>5, <2>6, <2>10
    <3>2. \A k \in 1..b : k > 1 => Need(k) = {k - 1}
      <4> SUFFICES ASSUME NEW k \in 1..b, k > 1 PROVE Need(k) = {k - 1}
        OBVIOUS
      <4>1. h + k = k /\ h + k - 1 = k - 1
        BY <3>1
      <4>2. Need(h + k) = {h + k - 1}
        BY <2>1, <2>10 DEF Classifying
      <4> QED BY <4>1, <4>2
    <3> QED BY <2>1, <2>5, <2>10, <3>1, <3>2, ChainUpstream
  <2>11. ASSUME NEW i \in branches, NEW j \in branches, i # j
         PROVE  (i \notin Upstream(j) /\ j \notin Upstream(i)) <=> p.type # "pipeline"
    <3>1. i < j \/ j < i
      BY <2>5, <2>6, <2>11
    <3> QED BY <2>9, <2>10, <2>11, <3>1
  <2>12. ASSUME NEW i \in branches PROVE heads \subseteq Upstream(i)
    <3> SUFFICES ASSUME NEW j \in heads PROVE j \in Upstream(i)
      OBVIOUS
    <3>1. h = 1 /\ j = 1 /\ p.type \in Classifying
      BY <2>1, <2>3
    <3>2. PICK k \in 1..b : i = h + k
      BY <2>4
    <3>3. Need(i) = {1}
      BY <2>1, <3>1, <3>2 DEF Classifying
    <3> QED BY <2>6, <3>1, <3>3, NeedsAreUpstream
  <2>13. ASSUME NEW i \in joins PROVE branches \subseteq Upstream(i)
    <3> SUFFICES ASSUME NEW j \in branches PROVE j \in Upstream(i)
      OBVIOUS
    <3>1. i \in Index /\ i \notin heads /\ i \notin branches
      OBVIOUS
    <3>2. i > h + b
      <4>1. i \in Nat /\ i >= 1 /\ ~(i <= h)
        BY <2>1, <2>3, <2>5, <3>1
      <4>2. ASSUME i <= h + b PROVE FALSE
        <5>1. i - h \in 1..b /\ i = h + (i - h)
          BY <2>1, <4>1, <4>2
        <5>2. i \in branches
          BY <2>4, <5>1
        <5> QED BY <3>1, <5>2
      <4> QED BY <2>1, <4>1, <4>2
    <3>3. j \in Need(i)
      BY <2>1, <2>5, <2>6, <3>1, <3>2
    <3> QED BY <2>6, <3>1, <3>3, NeedsAreUpstream
  <2> QED BY <2>11, <2>12, <2>13 DEF p, h, heads, branches
<1>3. IRInv => PatternShape
  BY <1>1, <1>2 DEF PatternShape
<1> QED BY <1>3, DefinitionInvariant, PTL
=============================================================================
