--------------------------- MODULE SessionOutcome ---------------------------
(***************************************************************************)
(* Proofs of how a session of a fresh Run ends, for every Workflow: what   *)
(* its Run's status and its trace tell is what happened to its Nodes, no   *)
(* Node is forgotten, no retry is lost and no skip is without its reason.  *)
(*                                                                         *)
(* Three invariants carry the argument, each inductive together with       *)
(* SessionInv.  StoryInv ties every row, and the Event last told of its    *)
(* Node, to the Node's fate.  BudgetInv ties the attempt table to the      *)
(* Attempt counters.  ReasonInv ties the cause of every skip to the graph, *)
(* through the queue of the walk that makes it.                            *)
(***************************************************************************)
EXTENDS SessionInvariant, NaturalBounds

USE DEF At, Go

(* What the trace tells of a Node and of the Run, counting the Event that  *)
(* is owed.                                                                 *)
Told(n) == IF n \in owed.nodes THEN owed.type ELSE traced[n]
RunTold == IF owed.type \in RunEvents THEN owed.type ELSE runTraced

(* A raise or an interrupt ended the loop: the drain settles without retry. *)
Crashing == phase \in {"drain", "drained", "finalize"} \/ (phase = "idle" /\ runStatus = "errored")

(* The finalization has dealt with a Node it found in flight.               *)
Cleared(n) == phase = "idle" \/ (phase = "finalize" /\ n \notin batch)

(* Not taken up, or waiting to be launched again.                           *)
Undecided(n) == n \notin InFlight \cup Resulted \cup skipped \cup awaiting

(* The row of a Node and what is told of it follow from its fate.           *)
StoryOf(n) ==
  /\ n \in Resulted => n \in started /\ rows[n] = results[n].status /\ Told(n) = "node_finished"
  /\ n \in skipped => rows[n] = "skipped" /\ Told(n) = "node_skipped"
  /\ n \in awaiting => rows[n] = "awaiting" /\ Told(n) = "gate_awaiting"
  /\ n \in InFlight =>
       /\ n \in started
       /\ rows[n] = IF Cleared(n) THEN "errored" ELSE "running"
       /\ Told(n) = IF n = current THEN "node_finished"
                    ELSE IF phase = "idle" THEN "run_errored" ELSE "node_started"
  /\ Undecided(n) =>
       IF n \in started THEN rows[n] = "running" /\ Told(n) = "node_retrying"
                        ELSE rows[n] = "absent" /\ Told(n) = "none"

(* No Node was forgotten when the loop returned.                            *)
Accounted ==
  \A n \in Nodes : n \in Resulted \cup skipped \cup awaiting \cup satisfied
                 \/ Ancestors(n) \cap awaiting # {}

(* The Run's own row and Event, and what held when the loop returned.       *)
RunStory ==
  /\ awaitingSeed = {}
  /\ phase = "finalize" => batch \subseteq InFlight
  /\ phase # "idle" => runStatus = "running" /\ RunTold = "run_started"
  /\ phase = "finish" => InFlight = {} /\ Accounted
  /\ phase = "idle" =>
       \/ runStatus = "errored" /\ RunTold = "run_errored"
       \/ /\ InFlight = {} /\ Accounted
          /\ IF awaiting # {} THEN runStatus = "parked" /\ RunTold = "run_started"
                              ELSE runStatus = RunOutcome /\ RunTold = "run_finished"

StoryInv == RunStory /\ \A n \in Nodes : StoryOf(n)

-----------------------------------------------------------------------------
(* The Attempts on record are those the Attempt counter accounts for, and a *)
(* Node that was tried again failed in a retryable way each time before.    *)

Made(n) == IF n = current \/ n \in Resulted THEN nextAttempt[n] ELSE nextAttempt[n] - 1
Ending(n) == IF n \in Resulted THEN results[n].status ELSE task[n].status

BudgetOf(n) ==
  /\ nextAttempt[n] \in 1..(Retries[n] + 1)
  /\ Numbers(n) = 1..Made(n)
  /\ \A a \in attempts : a.node = n =>
       IF a.attempt < nextAttempt[n] THEN Retryable(a) ELSE a.status = Ending(n)
  /\ n \in Resulted /\ Retryable(results[n]) /\ ~Crashing => nextAttempt[n] = Retries[n] + 1

BudgetInv == \A n \in Nodes : BudgetOf(n)

-----------------------------------------------------------------------------
(* A walk carries the reason of the skips it is going to make: the failure  *)
(* it started from, or the skipped need that orphans the dependent.         *)

OrphanedBy(d, by) ==
  IF origin = NoNode THEN by \in skipped \cap Needs[d] ELSE origin \in Failed \cap Ancestors(d)

Pairs(q) == {q[i] : i \in 1..Len(q)}

WalkReasons ==
  phase = "walk" =>
    /\ origin = NoNode \/ origin \in Failed
    /\ \A e \in Pairs(queue) : OrphanedBy(e[1], e[2])

ReasonInv == SkipsJustified /\ WalkReasons

-----------------------------------------------------------------------------
(* Ancestors.                                                               *)

LEMMA NeedIsAncestor ==
  ASSUME NEW n \in Nodes, NEW m \in Needs[n] PROVE m \in Ancestors(n)
BY OrderAssumption DEF Ancestors, AncestorsOf

LEMMA AncestorOfNeed ==
  ASSUME NEW n \in Nodes, NEW k \in Needs[n] PROVE Ancestors(k) \subseteq Ancestors(n)
<1>1. k \in Nodes
  BY OrderAssumption
<1>2. SUFFICES ASSUME NEW m \in AncestorsOf[k] PROVE m \in AncestorsOf[n]
  BY DEF Ancestors
<1>3. m \in Nodes /\ \A S \in SUBSET Nodes :
        Needs[k] \subseteq S /\ (\A j \in S : Needs[j] \subseteq S) => m \in S
  BY <1>1 DEF AncestorsOf
<1>4. SUFFICES ASSUME NEW S \in SUBSET Nodes,
                      Needs[n] \subseteq S, \A j \in S : Needs[j] \subseteq S
               PROVE  m \in S
  BY <1>3 DEF AncestorsOf
<1> QED BY <1>3, <1>4

-----------------------------------------------------------------------------
(* The readiness loop returns only when every Node has its fate or waits    *)
(* behind a gate: the first Node in execution order that had neither would  *)
(* be ready, and with no Attempt in flight a slot is free for it.           *)

LEMMA SomeReadyIsConsidered ==
  ASSUME InFlight = {}, NEW r \in Ready PROVE \E n \in Nodes : MayConsider(n)
<1>1. {Position[n] : n \in Ready} \in SUBSET Nat /\ {Position[n] : n \in Ready} # {}
  BY OrderAssumption DEF Ready
<1>2. PICK p \in {Position[n] : n \in Ready} : \A q \in {Position[n] : n \in Ready} : p <= q
  BY <1>1, NaturalLeast
<1>3. PICK n \in Ready : p = Position[n]
  BY <1>2
<1>4. FirstReady(n)
  BY <1>2, <1>3 DEF FirstReady
<1>5. SlotFree
  BY FS_EmptySet, ConcurrencyAssumption DEF SlotFree
<1> QED BY <1>3, <1>4, <1>5 DEF MayConsider, Ready

LEMMA NobodyForgotten ==
  ASSUME SessionTypeOK, IndegreeExact, WalkSound, phase = "launch", InFlight = {},
         \A n \in Nodes : ~MayConsider(n)
  PROVE  Accounted
<1> DEFINE Fated == Resulted \cup skipped \cup awaiting \cup satisfied
           Stuck == {n \in Nodes : n \notin Fated /\ Ancestors(n) \cap awaiting = {}}
<1> SUFFICES ASSUME Stuck # {} PROVE FALSE
  BY DEF Accounted
<1>1. {Position[n] : n \in Stuck} \in SUBSET Nat /\ {Position[n] : n \in Stuck} # {}
  BY OrderAssumption
<1>2. PICK p \in {Position[n] : n \in Stuck} : \A q \in {Position[n] : n \in Stuck} : p <= q
  BY <1>1, NaturalLeast
<1>3. PICK n \in Stuck : p = Position[n]
  BY <1>2
<1>4. n \in Nodes /\ n \notin Fated /\ Ancestors(n) \cap awaiting = {}
  BY <1>3
<1>5. Needs[n] \subseteq Nodes \ Stuck
  <2> SUFFICES ASSUME NEW m \in Needs[n], m \in Stuck PROVE FALSE
    BY <1>4, OrderAssumption
  <2>1. Position[m] < Position[n] /\ Position[n] <= Position[m]
    BY <1>2, <1>3, <1>4, OrderAssumption
  <2> QED BY <2>1, <1>4, OrderAssumption
<1>6. Needs[n] \subseteq Resulted \cup skipped \cup satisfied
  <2> SUFFICES ASSUME NEW m \in Needs[n], m \notin Resulted \cup skipped \cup satisfied PROVE FALSE
    OBVIOUS
  <2>1. m \in Ancestors(n) /\ Ancestors(m) \subseteq Ancestors(n)
    BY <1>4, NeedIsAncestor, AncestorOfNeed
  <2>2. m \in awaiting \/ Ancestors(m) \cap awaiting # {}
    BY <1>5
  <2> QED BY <2>1, <2>2, <1>4
<1>7. ~Orphaned(n)
  BY <1>4 DEF WalkSound, Looping
<1>8. Needs[n] \subseteq Settled
  BY <1>6, <1>7 DEF Orphaned, Failed, Settled
<1>9. indegree[n] = 0
  <2>1. Needs[n] \ Settled = {}
    BY <1>8
  <2> QED BY <2>1, <1>4, FS_EmptySet DEF IndegreeExact, Looping
<1>10. n \in Ready
  BY <1>4, <1>9 DEF Ready
<1> QED BY <1>10, SomeReadyIsConsidered
-----------------------------------------------------------------------------
(* What the trace tells, counting the Event that is owed.                   *)

LEMMA ToldKept ==
  ASSUME UNCHANGED traceVars
  PROVE  RunTold' = RunTold /\ \A n \in Nodes : Told(n)' = Told(n)
BY DEF traceVars, RunTold, Told

LEMMA ToldOwed ==
  ASSUME owed = NoEvent, NEW type \in NodeEvents \cup RunEvents, NEW S, Owe(type, S)
  PROVE  /\ RunTold' = IF type \in RunEvents THEN type ELSE RunTold
         /\ \A n \in Nodes : Told(n)' = IF n \in S THEN type ELSE Told(n)
BY DEF Owe, NoEvent, RunEvents, RunTold, Told

LEMMA ToldWritten ==
  ASSUME TraceTypeOK, AppendEvent
  PROVE  RunTold' = RunTold /\ \A n \in Nodes : Told(n)' = Told(n)
BY DEF TraceTypeOK, AppendEvent, NoEvent, RunEvents, RunTold, Told

-----------------------------------------------------------------------------
(* The story of a Node is kept by a step that leaves its fate, its row and  *)
(* what is told of it.                                                      *)

SameFate(n) ==
  /\ n \in InFlight' <=> n \in InFlight
  /\ n \in Resulted' <=> n \in Resulted
  /\ n \in skipped' <=> n \in skipped
  /\ n \in awaiting' <=> n \in awaiting
  /\ n \in started' <=> n \in started
  /\ results'[n] = results[n]

LEMMA StoryKept ==
  ASSUME NEW n \in Nodes, StoryOf(n), SameFate(n), rows'[n] = rows[n], Told(n)' = Told(n),
         n \in InFlight =>
           /\ Cleared(n)' <=> Cleared(n)
           /\ n = current' <=> n = current
           /\ phase' = "idle" <=> phase = "idle"
  PROVE  StoryOf(n)'
BY DEF StoryOf, SameFate, Undecided

(* Another Node took the step, between the await and the end of the         *)
(* session.                                                                 *)
Afoot == phase \in {"launch", "handle", "settle", "walk", "drain", "drained"}

LEMMA StoryOfOthers ==
  ASSUME NEW n \in Nodes, StoryOf(n), SameFate(n), rows'[n] = rows[n], Told(n)' = Told(n),
         Afoot, Afoot', n # current, n # current'
  PROVE  StoryOf(n)'
BY StoryKept DEF Afoot, Cleared

(* The steps that move no Node and commit nothing of one.                   *)
LEMMA QuietStory ==
  ASSUME SessionInv, StoryInv, NEW n \in Nodes,
         \/ WriteEvent \/ LaunchReturn \/ WaitReturns \/ BatchDone \/ WalkPasses \/ WalkDone
         \/ DrainDone \/ Interrupt \/ Ended \/ UNCHANGED vars
         \/ \E m \in Nodes : AttemptEnds(m) \/ HandleRaised(m)
  PROVE  StoryOf(n)'
<1>1. SessionTypeOK /\ HandlingSound /\ WalkSound /\ TraceTypeOK /\ StoryOf(n) /\ RunStory
  BY DEF SessionInv, SessionTypeOK, StoryInv
<1>2. UNCHANGED <<InFlight, Resulted, skipped, awaiting>>
  BY <1>1, QuietActions
<1>3. UNCHANGED <<rows, results, started, current>>
  BY DEF WriteEvent, LaunchReturn, WaitReturns, BatchDone, WalkPasses, WalkDone, DrainDone,
    Interrupt, Ended, AttemptEnds, HandleRaised, vars, storeVars, fateVars, loopVars
<1>4. Told(n)' = Told(n)
  <2>1. CASE WriteEvent
    BY <1>1, <2>1, ToldWritten DEF WriteEvent
  <2>2. CASE ~WriteEvent
    BY <2>2, ToldKept DEF LaunchReturn, WaitReturns, BatchDone, WalkPasses, WalkDone, DrainDone,
      Interrupt, Ended, AttemptEnds, HandleRaised, vars
  <2> QED BY <2>1, <2>2
<1>5. phase' = "idle" <=> phase = "idle"
  BY DEF WriteEvent, LaunchReturn, WaitReturns, BatchDone, WalkPasses, WalkDone, DrainDone,
    Interrupt, Ended, AttemptEnds, HandleRaised, vars
<1>6. n \in InFlight => (Cleared(n)' <=> Cleared(n))
  <2>1. CASE DrainDone
    BY <2>1 DEF DrainDone, Cleared
  <2>2. CASE LaunchReturn \/ WaitReturns \/ BatchDone \/ WalkPasses \/ WalkDone \/ Interrupt
             \/ \E m \in Nodes : AttemptEnds(m) \/ HandleRaised(m)
    BY <2>2 DEF LaunchReturn, WaitReturns, BatchDone, WalkPasses, WalkDone, Interrupt, AttemptEnds,
      HandleRaised, Cleared
  <2>3. CASE WriteEvent \/ Ended \/ UNCHANGED vars
    BY <2>3 DEF WriteEvent, Ended, vars, loopVars, Cleared
  <2> QED BY <2>1, <2>2, <2>3
<1>7. SameFate(n)
  BY <1>2, <1>3 DEF SameFate
<1> QED BY <1>1, <1>3, <1>4, <1>5, <1>6, <1>7, StoryKept

-----------------------------------------------------------------------------
(* The steps that move a Node or commit something of it.                    *)

LEMMA SkipStory ==
  ASSUME SessionInv, StoryInv, NEW n \in Nodes, NEW cause, NEW by, Unfated(n), owed = NoEvent,
         RecordSkip(n, cause, by), Afoot, Afoot', current' = current, current # n,
         NEW m \in Nodes
  PROVE  StoryOf(m)'
<1>1. StoryOf(m) /\ StoryOf(n) /\ rows \in [Nodes -> NodeStatus \cup {"absent"}]
  BY DEF StoryInv, SessionInv, SessionTypeOK, StoreTypeOK
<1>2. UNCHANGED <<InFlight, Resulted, results, awaiting>>
  BY SetsKept DEF RecordSkip
<1>3. Told(m)' = IF m = n THEN "node_skipped" ELSE Told(m)
  BY ToldOwed DEF RecordSkip, NodeEvents
<1>4. skipped' = skipped \cup {n} /\ started' = started \cup {n}
  BY DEF RecordSkip
<1>5. rows'[m] = IF m = n THEN "skipped" ELSE rows[m]
  <2>1. CASE n \in started
    <3>1. rows[n] = "running"
      BY <2>1, <1>1 DEF StoryOf, Undecided, Unfated
    <3> QED BY <2>1, <3>1, <1>1 DEF RecordSkip, RecordNodeFinished
  <2>2. CASE n \notin started
    BY <2>2, <1>1 DEF RecordSkip, RecordNodeSkipped
  <2> QED BY <2>1, <2>2
<1>6. CASE m = n
  BY <1>2, <1>3, <1>4, <1>5, <1>6 DEF StoryOf, Undecided, Unfated
<1>7. CASE m # n
  <2>1. SameFate(m)
    BY <1>2, <1>4, <1>7 DEF SameFate
  <2>2. CASE m # current
    BY <1>1, <1>3, <1>5, <1>7, <2>1, <2>2, StoryOfOthers
  <2>3. CASE m = current
    BY <1>1, <1>3, <1>5, <1>7, <2>1, <2>3, StoryKept DEF Cleared, Afoot
  <2> QED BY <2>2, <2>3
<1> QED BY <1>6, <1>7
LEMMA ParkStory ==
  ASSUME SessionInv, StoryInv, NEW n \in Nodes, LaunchPark(n), NEW m \in Nodes
  PROVE  StoryOf(m)'
<1>1. StoryOf(m) /\ StoryOf(n) /\ rows \in [Nodes -> NodeStatus \cup {"absent"}] /\ current = NoNode
      /\ awaitingSeed = {}
  BY DEF StoryInv, RunStory, SessionInv, SessionTypeOK, StoreTypeOK, HandlingSound, LaunchPark
<1>2. UNCHANGED <<InFlight, Resulted, results, skipped, started, current, phase>>
  BY SetsKept DEF LaunchPark, loopVars
<1>3. Told(m)' = IF m = n THEN "gate_awaiting" ELSE Told(m)
  BY <1>1, ToldOwed DEF LaunchPark, NodeEvents
<1>4. awaiting' = awaiting \cup {n} /\ rows'[m] = IF m = n THEN "awaiting" ELSE rows[m]
  BY <1>1 DEF LaunchPark, RecordNodeAwaiting
<1>5. n \in Ready
  BY DEF LaunchPark, MayConsider, FirstReady
<1>6. CASE m = n
  BY <1>2, <1>3, <1>4, <1>5, <1>6 DEF StoryOf, Undecided, Ready
<1>7. CASE m # n
  <2>1. SameFate(m)
    BY <1>2, <1>4, <1>7 DEF SameFate
  <2> QED BY <1>1, <1>2, <1>3, <1>4, <1>7, <2>1, StoryKept DEF Cleared, LaunchPark
<1> QED BY <1>6, <1>7

LEMMA StartStory ==
  ASSUME SessionInv, StoryInv, NEW n \in Nodes, LaunchStart(n), NEW m \in Nodes
  PROVE  StoryOf(m)'
<1>1. StoryOf(m) /\ rows \in [Nodes -> NodeStatus \cup {"absent"}] /\ current = NoNode
      /\ task \in [Nodes -> TaskStates]
  BY DEF StoryInv, SessionInv, SessionTypeOK, StoreTypeOK, FateTypeOK, HandlingSound, LaunchStart
<1>2. UNCHANGED <<Resulted, results, skipped, awaiting, current, phase>>
  BY DEF LaunchStart, loopVars, Resulted
<1>3. Told(m)' = IF m = n THEN "node_started" ELSE Told(m)
  BY ToldOwed DEF LaunchStart, NodeEvents
<1>4. started' = started \cup {n} /\ rows'[m] = IF m = n THEN "running" ELSE rows[m]
  BY <1>1 DEF LaunchStart, RecordNodeRunning, RecordNodeStarted
<1>5. InFlight' = InFlight \cup {n}
  BY <1>1 DEF LaunchStart, InFlight, InFlightResult, NoResult
<1>6. n \in Ready /\ phase = "launch"
  BY DEF LaunchStart, MayConsider, FirstReady
<1>7. CASE m = n
  BY <1>1, <1>2, <1>3, <1>4, <1>5, <1>6, <1>7, NodesAssumption DEF StoryOf, Undecided, Ready, Cleared
<1>8. CASE m # n
  <2>1. SameFate(m)
    BY <1>2, <1>4, <1>5, <1>8 DEF SameFate
  <2> QED BY <1>1, <1>2, <1>3, <1>4, <1>6, <1>8, <2>1, StoryKept DEF Cleared
<1> QED BY <1>7, <1>8

LEMMA AttemptStory ==
  ASSUME SessionInv, StoryInv, NEW n \in Nodes, HandleAttempt(n) \/ DrainAttempt(n), NEW m \in Nodes
  PROVE  StoryOf(m)'
<1>1. StoryOf(m) /\ current = NoNode
  BY DEF StoryInv, SessionInv, HandlingSound, HandleAttempt, DrainAttempt
<1>2. UNCHANGED <<InFlight, Resulted, results, skipped, awaiting, started, rows>>
  BY SetsKept DEF HandleAttempt, DrainAttempt, RecordAttempt, fateVars
<1>3. Told(m)' = IF m = n THEN "node_finished" ELSE Told(m)
  BY ToldOwed DEF HandleAttempt, DrainAttempt, NodeEvents
<1>4. current' = n /\ Afoot /\ Afoot'
  BY DEF HandleAttempt, DrainAttempt, Afoot
<1>5. n \in InFlight
  BY DEF HandleAttempt, DrainAttempt, SessionInv, HandlingSound, HandlingBatch, Drainable, Finished
<1>6. CASE m = n
  <2>1. n \notin Resulted \cup skipped \cup awaiting
    BY <1>5 DEF SessionInv, OneFate
  <2> QED BY <1>1, <1>2, <1>3, <1>4, <1>5, <1>6, <2>1 DEF StoryOf, Undecided, Cleared, Afoot
<1>7. CASE m # n
  <2>1. SameFate(m)
    BY <1>2 DEF SameFate
  <2> QED BY <1>1, <1>2, <1>3, <1>4, <1>7, <2>1, NodesAssumption, StoryOfOthers
<1> QED BY <1>6, <1>7

LEMMA ConcludeStory ==
  ASSUME SessionInv, StoryInv, NEW n \in Nodes, n = current, task[n] \in NodeResults, Conclude(n),
         Afoot, Afoot', NEW m \in Nodes
  PROVE  StoryOf(m)'
<1>1. /\ StoryOf(m) /\ rows \in [Nodes -> NodeStatus \cup {"absent"}]
      /\ results \in [Nodes -> NodeResults \cup {NoResult}]
  BY DEF StoryInv, SessionInv, SessionTypeOK, StoreTypeOK, FateTypeOK
<1>2. /\ n \in InFlight /\ InFlight' = InFlight \ {n} /\ Resulted' = Resulted \cup {n}
      /\ UNCHANGED <<skipped, awaiting, started>> /\ current' = NoNode
  BY ConcludeEffect DEF SessionInv, Conclude
<1>3. Told(m)' = Told(m)
  BY ToldKept DEF Conclude, OweNothing
<1>4. results'[m] = IF m = n THEN task[n] ELSE results[m]
  BY <1>1 DEF Conclude
<1>5. n \in started /\ rows[n] = "running" /\ Told(n) = "node_finished"
      /\ n \notin skipped \cup awaiting
  BY <1>2 DEF StoryInv, StoryOf, Cleared, Afoot, SessionInv, OneFate
<1>6. rows'[m] = IF m = n THEN task[n].status ELSE rows[m]
  BY <1>1, <1>5 DEF Conclude, RecordNodeFinished
<1>7. CASE m = n
  BY <1>2, <1>3, <1>4, <1>5, <1>6, <1>7 DEF StoryOf, Undecided
<1>8. CASE m # n
  <2>1. SameFate(m)
    BY <1>2, <1>4, <1>8 DEF SameFate
  <2> QED BY <1>1, <1>2, <1>3, <1>6, <1>8, <2>1, NodesAssumption, StoryOfOthers
<1> QED BY <1>7, <1>8

LEMMA RetryStory ==
  ASSUME SessionInv, StoryInv, NEW n \in Nodes, SettleRetry(n), NEW m \in Nodes
  PROVE  StoryOf(m)'
<1>1. /\ StoryOf(m) /\ task[n] \in NodeResults /\ task \in [Nodes -> TaskStates]
  BY DEF StoryInv, SessionInv, SessionTypeOK, FateTypeOK, HandlingSound, SettleRetry
<1>2. UNCHANGED <<Resulted, results, skipped, awaiting, started, rows>> /\ current' = NoNode
  BY DEF SettleRetry, storeVars, Resulted
<1>3. n \in InFlight /\ InFlight' = InFlight \ {n}
  BY <1>1 DEF SettleRetry, InFlight, NoResult, NodeResults, AttemptStatus, FailureKinds
<1>4. Told(m)' = IF m = n THEN "node_retrying" ELSE Told(m)
  BY ToldOwed DEF SettleRetry, NodeEvents
<1>5. Afoot /\ Afoot' /\ n = current
  BY DEF SettleRetry, Afoot
<1>6. CASE m = n
  <2>1. n \notin Resulted \cup skipped \cup awaiting
    BY <1>3 DEF SessionInv, OneFate
  <2> QED BY <1>1, <1>2, <1>3, <1>4, <1>5, <1>6, <2>1 DEF StoryOf, Undecided, Cleared, Afoot
<1>7. CASE m # n
  <2>1. SameFate(m)
    BY <1>2, <1>3, <1>7 DEF SameFate
  <2> QED BY <1>1, <1>2, <1>4, <1>5, <1>7, <2>1, NodesAssumption, StoryOfOthers
<1> QED BY <1>6, <1>7

LEMMA FinalizeNodeStory ==
  ASSUME SessionInv, StoryInv, NEW n \in Nodes, FinalizeNode(n), NEW m \in Nodes
  PROVE  StoryOf(m)'
<1>1. /\ StoryOf(m) /\ StoryOf(n) /\ rows \in [Nodes -> NodeStatus \cup {"absent"}]
      /\ n \in InFlight /\ n \in batch
  BY DEF StoryInv, RunStory, SessionInv, SessionTypeOK, StoreTypeOK, FinalizeNode
<1>2. /\ UNCHANGED <<InFlight, Resulted, results, skipped, awaiting, started, current, phase>>
      /\ batch' = batch \ {n} /\ phase = "finalize"
  BY SetsKept DEF FinalizeNode, fateVars
<1>3. Told(m)' = Told(m)
  BY ToldKept DEF FinalizeNode, OweNothing
<1>4. rows[n] = "running"
  BY <1>1, <1>2 DEF StoryOf, Cleared
<1>5. rows'[m] = IF m = n THEN "errored" ELSE rows[m]
  BY <1>1, <1>4 DEF FinalizeNode, RecordNodeFinished
<1>6. SameFate(m)
  BY <1>2 DEF SameFate
<1>7. CASE m = n
  <2>1. n \notin Resulted \cup skipped \cup awaiting
    BY <1>1 DEF SessionInv, OneFate
  <2> QED BY <1>1, <1>2, <1>3, <1>5, <1>7, <2>1 DEF StoryOf, Undecided, Cleared
<1>8. CASE m # n
  BY <1>1, <1>2, <1>3, <1>5, <1>6, <1>8, StoryKept DEF Cleared
<1> QED BY <1>7, <1>8

LEMMA EndStory ==
  ASSUME SessionInv, StoryInv, FinalizeRun \/ FinishParked \/ FinishRun, NEW m \in Nodes
  PROVE  StoryOf(m)'
<1>1. StoryOf(m) /\ current = NoNode
  BY DEF StoryInv, SessionInv, HandlingSound, FinalizeRun, FinishParked, FinishRun
<1>2. UNCHANGED <<InFlight, Resulted, results, skipped, awaiting, started, rows, current>>
      /\ phase' = "idle"
  BY SetsKept DEF FinalizeRun, FinishParked, FinishRun, RecordRunStatus, fateVars, loopVars
<1>3. SameFate(m)
  BY <1>2 DEF SameFate
<1>4. CASE FinalizeRun
  <2>1. Told(m)' = IF m \in InFlight THEN "run_errored" ELSE Told(m)
    BY <1>4, ToldOwed DEF FinalizeRun, RunEvents
  <2>2. phase = "finalize" /\ batch = {}
    BY <1>4 DEF FinalizeRun
  <2>3. CASE m \in InFlight
    <3>1. m \notin Resulted \cup skipped \cup awaiting
      BY <2>3 DEF SessionInv, OneFate
    <3> QED BY <1>1, <1>2, <2>1, <2>2, <2>3, <3>1, NodesAssumption DEF StoryOf, Undecided, Cleared
  <2>4. CASE m \notin InFlight
    BY <1>1, <1>2, <1>3, <2>1, <2>4, StoryKept
  <2> QED BY <2>3, <2>4
<1>5. CASE FinishParked \/ FinishRun
  <2>1. Told(m)' = Told(m)
    BY <1>5, ToldOwed, ToldKept DEF FinishParked, FinishRun, OweNothing, RunEvents
  <2>2. m \notin InFlight
    BY <1>5 DEF FinishParked, FinishRun, StoryInv, RunStory
  <2> QED BY <1>1, <1>2, <1>3, <2>1, <2>2, StoryKept
<1> QED BY <1>4, <1>5

LEMMA StoryStep ==
  ASSUME SessionInv, StoryInv, [SessionNext]_vars, NEW m \in Nodes
  PROVE  StoryOf(m)'
<1>1. HandlingSound /\ FreshRows /\ WalkSound /\ queue \in Seq(Nodes \X Nodes)
  BY DEF SessionInv, SessionTypeOK, LoopTypeOK
<1>2. ASSUME NEW n \in Nodes, LaunchSkip(n) PROVE StoryOf(m)'
  BY <1>1, <1>2, SkipStory, NodesAssumption DEF LaunchSkip, MayConsider, FirstReady, Ready, Unfated,
    Afoot, HandlingSound
<1>3. ASSUME NEW n \in Nodes, WalkSkips(n) PROVE StoryOf(m)'
  <2>1. /\ At("walk") /\ n \notin Resulted \cup skipped /\ queue # <<>> /\ n = Target
        /\ RecordSkip(n, WalkCause(n), WalkBlocker(n)) /\ phase' = phase /\ current' = current
    BY <1>3 DEF WalkSkips, Reaches, Terminal
  <2>2. Target \in Queued
    BY <2>1, <1>1, TailEntries DEF Queued, Target
  <2>3. Unfated(n)
    BY <2>1, <2>2, <1>1 DEF WalkSound, TakenUp, FreshRows, Unfated
  <2>4. current # n
    BY <2>1, <1>1, NodesAssumption DEF HandlingSound
  <2> QED BY <2>1, <2>3, <2>4, SkipStory DEF Afoot
<1>4. ASSUME NEW n \in Nodes, SettleSuccess(n) \/ SettleFailure(n) \/ DrainSettles(n)
      PROVE  StoryOf(m)'
  BY <1>1, <1>4, ConcludeStory DEF SettleSuccess, SettleFailure, DrainSettles, HandlingSound, Afoot
<1> QED BY <1>2, <1>3, <1>4, QuietStory, ParkStory, StartStory, AttemptStory, RetryStory,
      FinalizeNodeStory, EndStory DEF SessionNext, Step, Environment
-----------------------------------------------------------------------------
(* The Run's own story.                                                     *)

LEMMA RunStoryGoesOn ==
  ASSUME RunStory, phase # "idle", phase' \notin {"finalize", "finish", "idle"},
         UNCHANGED <<awaitingSeed, runStatus>>, RunTold' = RunTold
  PROVE  RunStory'
BY DEF RunStory

LEMMA RunOutcomeKept ==
  ASSUME UNCHANGED results PROVE RunOutcome' = RunOutcome
BY DEF RunOutcome, Resulted, Succeeded

LEMMA RunStoryStep ==
  ASSUME SessionInv, StoryInv, [SessionNext]_vars
  PROVE  RunStory'
<1>1. RunStory /\ TraceTypeOK
  BY DEF StoryInv, SessionInv, SessionTypeOK
<1>2. CASE WriteEvent \/ Ended \/ UNCHANGED vars
  <2>1. UNCHANGED <<seedVars, phase, batch, runStatus, awaiting, results, skipped, task>>
    BY <1>2 DEF WriteEvent, Ended, vars, storeVars, fateVars, seedVars, loopVars
  <2>2. UNCHANGED <<InFlight, Resulted, RunOutcome>>
    BY <2>1, SetsKept, RunOutcomeKept
  <2>3. Accounted' <=> Accounted
    BY <2>1, <2>2 DEF Accounted, seedVars
  <2>4. RunTold' = RunTold
    <3>1. CASE WriteEvent
      BY <3>1, <1>1, ToldWritten DEF WriteEvent
    <3>2. CASE ~WriteEvent
      BY <3>2, <1>2, ToldKept DEF Ended, vars
    <3> QED BY <3>1, <3>2
  <2> QED BY <1>1, <2>1, <2>2, <2>3, <2>4 DEF RunStory, seedVars
<1>3. CASE LaunchReturn
  <2>1. /\ phase = "launch" /\ UNCHANGED <<seedVars, runStatus, task, results, skipped, awaiting>>
        /\ phase' = IF InFlight = {} THEN "finish" ELSE "wait"
        /\ \A n \in Nodes : ~MayConsider(n)
    BY <1>3 DEF LaunchReturn, seedVars, storeVars, fateVars
  <2>2. RunTold' = RunTold
    BY <1>3, ToldKept DEF LaunchReturn
  <2>3. UNCHANGED <<InFlight, Resulted>>
    BY <2>1, SetsKept
  <2>4. InFlight = {} => Accounted'
    <3>1. InFlight = {} => Accounted
      BY <2>1, NobodyForgotten DEF SessionInv
    <3> QED BY <3>1, <2>1, <2>3 DEF Accounted, seedVars
  <2> QED BY <1>1, <2>1, <2>2, <2>3, <2>4 DEF RunStory, seedVars
<1>4. CASE \/ WaitReturns \/ BatchDone \/ WalkPasses \/ WalkDone \/ Interrupt
           \/ \E n \in Nodes : AttemptEnds(n) \/ HandleRaised(n)
  <2>1. /\ phase # "idle" /\ phase' \notin {"finalize", "finish", "idle"}
        /\ UNCHANGED <<awaitingSeed, runStatus>> /\ UNCHANGED traceVars
    BY <1>4 DEF WaitReturns, BatchDone, WalkPasses, WalkDone, Interrupt, AttemptEnds, HandleRaised,
      seedVars, storeVars
  <2> QED BY <1>1, <2>1, ToldKept, RunStoryGoesOn
<1>5. ASSUME NEW n \in Nodes,
             \/ LaunchSkip(n) \/ WalkSkips(n) \/ LaunchPark(n) \/ LaunchStart(n)
             \/ HandleAttempt(n) \/ DrainAttempt(n) \/ SettleRetry(n)
      PROVE  RunStory'
  <2>1. /\ phase # "idle" /\ phase' \notin {"finalize", "finish", "idle"}
        /\ UNCHANGED <<awaitingSeed, runStatus>>
    BY <1>5 DEF LaunchSkip, WalkSkips, RecordSkip, LaunchPark, LaunchStart, HandleAttempt,
      DrainAttempt, SettleRetry, RecordNodeFinished, RecordNodeSkipped, RecordNodeAwaiting,
      RecordNodeRunning, RecordNodeStarted, RecordAttempt, seedVars, storeVars
  <2>2. owed = NoEvent
        /\ (UNCHANGED traceVars \/ \E type \in NodeEvents : Owe(type, {n}))
    BY <1>5 DEF LaunchSkip, WalkSkips, RecordSkip, LaunchPark, LaunchStart, HandleAttempt,
      DrainAttempt, SettleRetry, OweNothing, NodeEvents
  <2>3. RunTold' = RunTold
    <3>1. CASE UNCHANGED traceVars
      BY <3>1, ToldKept
    <3>2. ASSUME NEW type \in NodeEvents, Owe(type, {n}) PROVE RunTold' = RunTold
      <4>1. type \notin RunEvents
        BY DEF NodeEvents, RunEvents
      <4> QED BY <4>1, <2>2, <3>2, ToldOwed
    <3> QED BY <2>2, <3>1, <3>2
  <2> QED BY <1>1, <2>1, <2>3, RunStoryGoesOn
<1>6. ASSUME NEW n \in Nodes, SettleSuccess(n) \/ SettleFailure(n) \/ DrainSettles(n)
      PROVE  RunStory'
  <2>1. /\ phase # "idle" /\ phase' \notin {"finalize", "finish", "idle"}
        /\ UNCHANGED <<awaitingSeed, runStatus>> /\ UNCHANGED traceVars
    BY <1>6 DEF SettleSuccess, SettleFailure, DrainSettles, Conclude, RecordNodeFinished, OweNothing,
      seedVars
  <2> QED BY <1>1, <2>1, ToldKept, RunStoryGoesOn
<1>7. CASE DrainDone \/ \E n \in Nodes : FinalizeNode(n)
  <2>1. /\ phase # "idle" /\ phase' = "finalize" /\ UNCHANGED <<awaitingSeed, runStatus, task>>
        /\ UNCHANGED traceVars
    BY <1>7 DEF DrainDone, FinalizeNode, RecordNodeFinished, OweNothing, storeVars, fateVars, seedVars
  <2>2. InFlight' = InFlight
    BY <2>1 DEF InFlight
  <2>3. batch' \subseteq InFlight'
    BY <1>1, <1>7, <2>2 DEF DrainDone, FinalizeNode, RunStory
  <2> QED BY <1>1, <2>1, <2>3, ToldKept DEF RunStory
<1>8. CASE FinalizeRun \/ FinishParked \/ FinishRun
  <2>1. /\ phase' = "idle" /\ phase # "idle" /\ owed = NoEvent
        /\ UNCHANGED <<seedVars, task, results, skipped, awaiting>>
    BY <1>8 DEF FinalizeRun, FinishParked, FinishRun, fateVars, seedVars
  <2>2. UNCHANGED <<InFlight, Resulted, RunOutcome>>
    BY <2>1, SetsKept, RunOutcomeKept
  <2>3. Accounted' <=> Accounted
    BY <2>1, <2>2 DEF Accounted, seedVars
  <2>4. CASE FinalizeRun
    <3>1. runStatus' = "errored" /\ RunTold' = "run_errored"
      BY <2>4, ToldOwed DEF FinalizeRun, RecordRunStatus, RunEvents
    <3> QED BY <1>1, <2>1, <3>1 DEF RunStory, seedVars
  <2>5. CASE FinishParked
    <3>1. runStatus' = "parked" /\ RunTold' = "run_started" /\ awaiting # {} /\ phase = "finish"
      BY <1>1, <2>5, ToldKept DEF FinishParked, RecordRunStatus, OweNothing, RunStory
    <3> QED BY <1>1, <2>1, <2>2, <2>3, <3>1 DEF RunStory, seedVars
  <2>6. CASE FinishRun
    <3>1. runStatus' = RunOutcome /\ RunTold' = "run_finished" /\ awaiting = {} /\ phase = "finish"
      BY <2>6, ToldOwed DEF FinishRun, RecordRunStatus, RunEvents
    <3> QED BY <1>1, <2>1, <2>2, <2>3, <3>1 DEF RunStory, seedVars
  <2> QED BY <1>8, <2>4, <2>5, <2>6
<1> QED BY <1>2, <1>3, <1>4, <1>5, <1>6, <1>7, <1>8 DEF SessionNext, Step, Environment

LEMMA StoryInit == SessionInit => StoryInv
<1> SUFFICES ASSUME SessionInit PROVE StoryInv
  OBVIOUS
<1>1. /\ InFlight = {} /\ Resulted = {} /\ skipped = {} /\ awaiting = {} /\ started = {}
      /\ RunTold = "run_started"
  BY DEF SessionInit, InFlight, Resulted, NoResult, RunTold, NoEvent, RunEvents
<1>2. \A n \in Nodes : Told(n) = "none"
  BY DEF SessionInit, Told, NoEvent
<1>3. RunStory
  BY <1>1 DEF SessionInit, RunStory
<1>4. \A n \in Nodes : StoryOf(n)
  BY <1>1, <1>2 DEF SessionInit, StoryOf, Undecided
<1> QED BY <1>3, <1>4 DEF StoryInv

(* State and the trace tell every Node's fate at every step, counting the   *)
(* Event a handler still owes: the commits and appends of _launch_ready,    *)
(* _handle_result, _record_skip, _drain_in_flight and _finalize_crashed_run.*)
THEOREM StoryInvHolds == SessionSafety => []StoryInv
<1>1. SessionInit => StoryInv
  BY StoryInit
<1>2. SessionInv /\ StoryInv /\ [SessionNext]_vars => StoryInv'
  <2> SUFFICES ASSUME SessionInv, StoryInv, [SessionNext]_vars PROVE StoryInv'
    OBVIOUS
  <2>1. RunStory'
    BY RunStoryStep
  <2>2. \A n \in Nodes : StoryOf(n)'
    BY StoryStep
  <2> QED BY <2>1, <2>2 DEF StoryInv
<1> QED BY <1>1, <1>2, SessionInvHolds, PTL DEF SessionSafety

-----------------------------------------------------------------------------
(* What a session that is over leaves in State and in the trace.            *)

LEMMA RowsAtEnd ==
  ASSUME SessionInv, StoryInv, Over, NEW n \in Nodes
  PROVE  /\ n \in Resulted => rows[n] = results[n].status /\ traced[n] = "node_finished"
         /\ n \in skipped => rows[n] = "skipped" /\ traced[n] = "node_skipped"
         /\ n \in awaiting <=> rows[n] = "awaiting"
         /\ n \in awaiting => traced[n] = "gate_awaiting"
         /\ n \in InFlight => rows[n] = "errored" /\ traced[n] = "run_errored"
         /\ rows[n] \in FailureKinds => n \in Failed \cup InFlight
         /\ n \in Failed => rows[n] \in FailureKinds
         /\ Undecided(n) => \/ rows[n] = "running" /\ traced[n] = "node_retrying"
                            \/ rows[n] = "absent" /\ traced[n] = "none"
<1>1. StoryOf(n) /\ current = NoNode /\ Told(n) = traced[n] /\ phase = "idle"
      /\ results \in [Nodes -> NodeResults \cup {NoResult}] /\ n # current
  BY NodesAssumption DEF StoryInv, SessionInv, HandlingSound, Over, Told, NoEvent, SessionTypeOK,
    FateTypeOK
<1>2. n \in Resulted => results[n] \in NodeResults /\ results[n].status \in {"succeeded"} \cup FailureKinds
  BY <1>1 DEF Resulted, NodeResults, AttemptStatus
<1>3. n \in Failed <=> n \in Resulted /\ results[n].status # "succeeded"
  BY DEF Failed, Succeeded
<1>4. /\ n \in Resulted => rows[n] = results[n].status /\ traced[n] = "node_finished"
      /\ n \in skipped => rows[n] = "skipped" /\ traced[n] = "node_skipped"
      /\ n \in awaiting => rows[n] = "awaiting" /\ traced[n] = "gate_awaiting"
      /\ n \in InFlight => rows[n] = "errored" /\ traced[n] = "run_errored"
      /\ Undecided(n) => \/ rows[n] = "running" /\ traced[n] = "node_retrying"
                         \/ rows[n] = "absent" /\ traced[n] = "none"
  BY <1>1 DEF StoryOf, Cleared
<1>5. n \in InFlight \/ n \in Resulted \/ n \in skipped \/ n \in awaiting \/ Undecided(n)
  BY DEF Undecided
<1>6. rows[n] = "awaiting" => n \in awaiting
  BY <1>2, <1>4, <1>5 DEF FailureKinds
<1>7. rows[n] \in FailureKinds => n \in Failed \cup InFlight
  BY <1>2, <1>3, <1>4, <1>5 DEF FailureKinds
<1>8. n \in Failed => rows[n] \in FailureKinds
  BY <1>2, <1>3, <1>4
<1> QED BY <1>4, <1>6, <1>7, <1>8

LEMMA RunAtEnd ==
  ASSUME SessionInv, StoryInv, Over
  PROVE  \/ runStatus = "errored" /\ runTraced = "run_errored"
         \/ /\ InFlight = {} /\ Accounted
            /\ \/ awaiting # {} /\ runStatus = "parked" /\ runTraced = "run_started"
               \/ /\ awaiting = {} /\ runTraced = "run_finished"
                  /\ runStatus = IF Failed = {} THEN "succeeded" ELSE "failed"
<1>1. RunStory /\ RunTold = runTraced /\ phase = "idle"
  BY DEF StoryInv, Over, RunTold, NoEvent, RunEvents
<1>2. RunOutcome = IF Failed = {} THEN "succeeded" ELSE "failed"
  BY DEF RunOutcome, Failed
<1> QED BY <1>1, <1>2 DEF RunStory

(* The Run's status tells how its Nodes ended, in every session of every    *)
(* Workflow (RunResult.status, _drive_scheduler).                           *)
THEOREM StatusTruthfulHolds == SessionSafety => []StatusTruthful
<1>1. ASSUME SessionInv, StoryInv PROVE StatusTruthful
  <2> SUFFICES ASSUME Over
               PROVE  /\ runStatus \in {"succeeded", "failed", "parked", "errored"}
                      /\ runStatus = "succeeded" => WithStatus(FailureKinds) = {}
                      /\ runStatus = "failed" => WithStatus(FailureKinds) # {}
                      /\ runStatus = "parked" <=>
                           WithStatus({"awaiting"}) # {} /\ runStatus # "errored"
    BY DEF StatusTruthful
  <2>1. WithStatus({"awaiting"}) = awaiting
    <3>1. awaiting \subseteq Nodes
      BY <1>1 DEF SessionInv, SessionTypeOK, FateTypeOK
    <3> QED BY <1>1, <3>1, RowsAtEnd DEF WithStatus
  <2>2. InFlight = {} => WithStatus(FailureKinds) = Failed
    <3>1. Failed \subseteq Nodes
      BY DEF Failed, Resulted
    <3> QED BY <1>1, <3>1, RowsAtEnd DEF WithStatus
  <2> QED BY <1>1, <2>1, <2>2, RunAtEnd
<1> QED BY <1>1, SessionInvHolds, StoryInvHolds, PTL

(* When a session is over, trace and State agree on every Node and on the   *)
(* Run (Trace.append after every commit of the executor).                   *)
THEOREM TraceAgreesHolds == SessionSafety => []TraceAgrees
<1>1. ASSUME SessionInv, StoryInv PROVE TraceAgrees
  <2> SUFFICES ASSUME Over
               PROVE  /\ \A n \in Nodes : traced[n] \in ToldBy(rows[n])
                      /\ runStatus \in {"succeeded", "failed"} <=> runTraced = "run_finished"
                      /\ runStatus = "errored" <=> runTraced = "run_errored"
    BY DEF TraceAgrees
  <2>1. ASSUME NEW n \in Nodes PROVE traced[n] \in ToldBy(rows[n])
    <3>1. n \in Resulted => results[n].status \in {"succeeded", "failed", "timed_out", "errored"}
      BY <1>1 DEF SessionInv, SessionTypeOK, FateTypeOK, Resulted, NodeResults, AttemptStatus,
        FailureKinds
    <3>2. n \in InFlight \/ n \in Resulted \/ n \in skipped \/ n \in awaiting \/ Undecided(n)
      BY DEF Undecided
    <3> QED BY <1>1, <3>1, <3>2, RowsAtEnd DEF ToldBy
  <2> QED BY <1>1, <2>1, RunAtEnd
<1> QED BY <1>1, SessionInvHolds, StoryInvHolds, PTL

(* No outcome is reported over a Node the readiness loop forgot: a Run that *)
(* finished left every Node in a terminal row, and in a parked one every    *)
(* other Node waits behind an awaiting gate (_Scheduler.run, _is_terminal). *)
THEOREM NoNodeForgottenHolds == SessionSafety => []NoNodeForgotten
<1>1. ASSUME SessionInv, StoryInv PROVE NoNodeForgotten
  <2> SUFFICES ASSUME Over
               PROVE  /\ runStatus \in {"succeeded", "failed"} =>
                           WithStatus(AttemptStatus \cup {"skipped"}) = Nodes
                      /\ runStatus = "parked" =>
                           \A n \in Nodes \ WithStatus(AttemptStatus \cup {"skipped"}) :
                             ({n} \cup Ancestors(n)) \cap WithStatus({"awaiting"}) # {}
    BY DEF NoNodeForgotten
  <2>1. awaiting \subseteq WithStatus({"awaiting"})
    <3>1. awaiting \subseteq Nodes
      BY <1>1 DEF SessionInv, SessionTypeOK, FateTypeOK
    <3> QED BY <1>1, <3>1, RowsAtEnd DEF WithStatus
  <2>2. \A n \in Resulted \cup skipped : n \in Nodes => n \in WithStatus(AttemptStatus \cup {"skipped"})
    <3>1. \A n \in Resulted : results[n].status \in AttemptStatus
      BY <1>1 DEF SessionInv, SessionTypeOK, FateTypeOK, Resulted, NodeResults
    <3> QED BY <1>1, <3>1, RowsAtEnd DEF WithStatus
  <2>3. runStatus # "errored" =>
          /\ \A n \in Nodes : n \in Resulted \cup skipped \cup awaiting \/ Ancestors(n) \cap awaiting # {}
          /\ runStatus = "parked" \/ awaiting = {}
    BY <1>1, RunAtEnd DEF Accounted, SessionInv, FreshRows
  <2>4. runStatus \in {"succeeded", "failed"} => WithStatus(AttemptStatus \cup {"skipped"}) = Nodes
    BY <2>2, <2>3 DEF WithStatus
  <2>5. ASSUME runStatus = "parked", NEW n \in Nodes \ WithStatus(AttemptStatus \cup {"skipped"})
        PROVE  ({n} \cup Ancestors(n)) \cap WithStatus({"awaiting"}) # {}
    <3>1. n \in awaiting \/ Ancestors(n) \cap awaiting # {}
      BY <2>2, <2>3, <2>5
    <3> QED BY <2>1, <3>1
  <2> QED BY <2>4, <2>5
<1> QED BY <1>1, SessionInvHolds, StoryInvHolds, PTL
-----------------------------------------------------------------------------
(* The retry budget.                                                        *)

LEMMA HighestNumber ==
  ASSUME NEW n \in Nodes, NEW k \in Nat, Numbers(n) = 1..k PROVE MaxAttempt(n) = k
<1>1. CASE k = 0
  BY <1>1 DEF MaxAttempt
<1>2. CASE k # 0
  <2>1. k \in Numbers(n) /\ \A j \in Numbers(n) : j <= k
    BY <1>2
  <2>2. \A m \in Numbers(n) : (\A j \in Numbers(n) : j <= m) => m = k
    <3> TAKE m \in Numbers(n)
    <3>1. m \in Nat /\ m <= k
      OBVIOUS
    <3>2. (\A j \in Numbers(n) : j <= m) => k <= m
      BY <2>1
    <3> QED BY <3>1, <3>2
  <2>3. \E m \in Numbers(n) : \A j \in Numbers(n) : j <= m
    BY <2>1
  <2>4. Numbers(n) # {}
    BY <2>1
  <2> HIDE <1>2
  <2> QED BY <2>2, <2>3, <2>4, Zenon DEF MaxAttempt
<1> QED BY <1>1, <1>2

LEMMA BudgetKept ==
  ASSUME SessionTypeOK, NEW n \in Nodes, BudgetOf(n),
         nextAttempt'[n] = nextAttempt[n], results'[n] = results[n],
         n \in Resulted' <=> n \in Resulted, n = current' <=> n = current,
         {a \in attempts' : a.node = n} = {a \in attempts : a.node = n},
         n = current => task'[n] = task[n],
         Crashing => Crashing'
  PROVE  BudgetOf(n)'
<1>1. Numbers(n)' = Numbers(n) /\ Made(n)' = Made(n)
  BY DEF Numbers, Made
<1>2. nextAttempt[n] \in Nat /\ nextAttempt[n] \in 1..(Retries[n] + 1) /\ Numbers(n) = 1..Made(n)
  BY DEF BudgetOf, SessionTypeOK, FateTypeOK
<1>3. ASSUME NEW a \in attempts', a.node = n
      PROVE  IF a.attempt < nextAttempt'[n] THEN Retryable(a) ELSE a.status = Ending(n)'
  <2>1. a \in attempts
    BY <1>3
  <2>2. IF a.attempt < nextAttempt[n] THEN Retryable(a) ELSE a.status = Ending(n)
    BY <1>3, <2>1 DEF BudgetOf
  <2>3. CASE n \in Resulted \/ n = current
    BY <2>2, <2>3 DEF Ending
  <2>4. CASE ~(n \in Resulted \/ n = current)
    <3>1. a.attempt \in 1..(nextAttempt[n] - 1)
      BY <1>2, <1>3, <2>1, <2>4 DEF Numbers, Made
    <3> QED BY <1>2, <2>2, <3>1
  <2> QED BY <2>3, <2>4
<1> QED BY <1>1, <1>2, <1>3 DEF BudgetOf, Retryable

LEMMA BudgetAttempt ==
  ASSUME SessionInv, BudgetInv, NEW n \in Nodes, HandleAttempt(n) \/ DrainAttempt(n), NEW m \in Nodes
  PROVE  BudgetOf(m)'
<1>1. /\ SessionTypeOK /\ BudgetOf(m) /\ current = NoNode /\ nextAttempt[n] \in Nat
      /\ n \in InFlight /\ n \notin Resulted
  BY DEF SessionInv, SessionTypeOK, FateTypeOK, BudgetInv, HandlingSound, HandlingBatch, HandleAttempt,
    DrainAttempt, Drainable, Finished, OneFate
<1>2. /\ UNCHANGED <<nextAttempt, results, task>> /\ current' = n
      /\ attempts' = attempts \cup {[node |-> n, attempt |-> nextAttempt[n],
                                     status |-> task[n].status, out |-> task[n].out]}
  BY DEF HandleAttempt, DrainAttempt, RecordAttempt, fateVars
<1>3. Resulted' = Resulted /\ (Crashing => Crashing')
  BY <1>2 DEF Resulted, Crashing, HandleAttempt, DrainAttempt
<1>4. CASE m = n
  <2>1. Numbers(n) = 1..(nextAttempt[n] - 1) /\ nextAttempt[n] \in 1..(Retries[n] + 1)
    BY <1>1, <1>4, NodesAssumption DEF BudgetOf, Made
  <2>2. Numbers(n)' = Numbers(n) \cup {nextAttempt[n]}
    <3> DEFINE new == [node |-> n, attempt |-> nextAttempt[n],
                       status |-> task[n].status, out |-> task[n].out]
               Of(S) == {b \in S : b.node = n}
    <3>1. new.node = n /\ new.attempt = nextAttempt[n] /\ attempts' = attempts \cup {new}
      BY <1>2
    <3> HIDE DEF new
    <3>2. Of(attempts') = Of(attempts) \cup {new}
      BY <3>1
    <3>3. Numbers(n)' = {a.attempt : a \in Of(attempts')} /\ Numbers(n) = {a.attempt : a \in Of(attempts)}
      BY DEF Numbers
    <3> HIDE DEF Of
    <3> QED BY <3>1, <3>2, <3>3
  <2>3. Numbers(n)' = 1..Made(n)'
    BY <1>1, <1>2, <2>1, <2>2 DEF Made
  <2>4. ASSUME NEW a \in attempts', a.node = n
        PROVE  IF a.attempt < nextAttempt[n] THEN Retryable(a) ELSE a.status = task[n].status
    <3>1. CASE a \in attempts
      <4>1. a.attempt \in Numbers(n)
        BY <2>4, <3>1 DEF Numbers
      <4>2. a.attempt < nextAttempt[n]
        BY <1>1, <2>1, <4>1
      <4> QED BY <1>1, <1>4, <2>4, <3>1, <4>2 DEF BudgetOf
    <3>2. CASE a \notin attempts
      BY <1>1, <1>2, <3>2
    <3> QED BY <3>1, <3>2
  <2>5. Ending(n)' = task[n].status
    BY <1>1, <1>2, <1>3 DEF Ending
  <2> QED BY <1>1, <1>2, <1>3, <1>4, <2>1, <2>3, <2>4, <2>5 DEF BudgetOf
<1>5. CASE m # n
  <2>1. {a \in attempts' : a.node = m} = {a \in attempts : a.node = m}
    BY <1>2, <1>5
  <2> QED BY <1>1, <1>2, <1>3, <1>5, <2>1, BudgetKept, NodesAssumption
<1> QED BY <1>4, <1>5

LEMMA BudgetConclude ==
  ASSUME SessionInv, BudgetInv, NEW n \in Nodes,
         SettleSuccess(n) \/ SettleFailure(n) \/ DrainSettles(n), NEW m \in Nodes
  PROVE  BudgetOf(m)'
<1>1. /\ SessionTypeOK /\ BudgetOf(m) /\ n = current /\ task[n] \in NodeResults /\ Conclude(n)
      /\ nextAttempt[n] \in Nat /\ results \in [Nodes -> NodeResults \cup {NoResult}]
  BY DEF SessionInv, SessionTypeOK, FateTypeOK, BudgetInv, HandlingSound, SettleSuccess,
    SettleFailure, DrainSettles
<1>2. /\ UNCHANGED <<nextAttempt, attempts>> /\ current' = NoNode
      /\ results' = [results EXCEPT ![n] = task[n]]
  BY <1>1 DEF Conclude, RecordNodeFinished
<1>3. Resulted' = Resulted \cup {n} /\ n \notin Resulted
  BY <1>1, ConcludeEffect DEF SessionInv, OneFate
<1>4. Crashing => Crashing'
  BY DEF Crashing, SettleSuccess, SettleFailure, DrainSettles
<1>5. CASE m = n
  <2>1. Numbers(n)' = Numbers(n) /\ Made(n)' = Made(n)
    BY <1>1, <1>2, <1>3 DEF Numbers, Made
  <2>2. Ending(n)' = Ending(n)
    BY <1>1, <1>2, <1>3 DEF Ending
  <2>3. Retryable(task[n]) /\ ~Crashing' => nextAttempt[n] = Retries[n] + 1
    <3>1. ASSUME SettleFailure(n), Retryable(task[n]) PROVE nextAttempt[n] = Retries[n] + 1
      <4>1. ~(nextAttempt[n] <= Retries[n]) /\ nextAttempt[n] \in 1..(Retries[n] + 1)
        BY <1>1, <1>5, <3>1 DEF SettleFailure, RetriesRemaining, BudgetOf
      <4> QED BY <4>1, <1>1, PolicyAssumption
    <3>2. SettleSuccess(n) => ~Retryable(task[n])
      BY DEF SettleSuccess, Retryable
    <3>3. DrainSettles(n) => Crashing'
      BY DEF DrainSettles, Crashing
    <3> QED BY <3>1, <3>2, <3>3
  <2> QED BY <1>1, <1>2, <1>3, <1>5, <2>1, <2>2, <2>3 DEF BudgetOf, Retryable
<1>6. CASE m # n
  BY <1>1, <1>2, <1>3, <1>4, <1>6, BudgetKept, NodesAssumption
<1> QED BY <1>5, <1>6

LEMMA BudgetRetry ==
  ASSUME SessionInv, BudgetInv, NEW n \in Nodes, SettleRetry(n), NEW m \in Nodes
  PROVE  BudgetOf(m)'
<1>1. /\ SessionTypeOK /\ BudgetOf(m) /\ n = current /\ task[n] \in NodeResults
      /\ nextAttempt \in [Nodes -> Nat] /\ Retries[n] \in Nat
  BY PolicyAssumption DEF SessionInv, SessionTypeOK, FateTypeOK, BudgetInv, HandlingSound, SettleRetry
<1>2. /\ UNCHANGED <<attempts, results>> /\ current' = NoNode
      /\ nextAttempt' = [nextAttempt EXCEPT ![n] = @ + 1]
      /\ Retryable(task[n]) /\ nextAttempt[n] <= Retries[n]
  BY DEF SettleRetry, storeVars, RetriesRemaining
<1>3. Resulted' = Resulted /\ (Crashing => Crashing')
  BY <1>2 DEF Resulted, Crashing, SettleRetry
<1>4. CASE m = n
  <2>1. n \in InFlight
    BY <1>1 DEF InFlight, NoResult, NodeResults, AttemptStatus, FailureKinds
  <2>2. n \notin Resulted
    BY <2>1 DEF SessionInv, OneFate
  <2>3. Numbers(n)' = 1..Made(n)'
    BY <1>1, <1>2, <1>3, <1>4, <2>2, NodesAssumption DEF BudgetOf, Numbers, Made
  <2>4. nextAttempt'[n] \in 1..(Retries[n] + 1)
    BY <1>1, <1>2, <1>4 DEF BudgetOf
  <2>5. ASSUME NEW a \in attempts, a.node = n
        PROVE  a.attempt < nextAttempt'[n] /\ Retryable(a)
    <3>1. a.attempt \in 1..nextAttempt[n]
      BY <1>1, <1>4, <2>5 DEF BudgetOf, Numbers, Made
    <3>2. IF a.attempt < nextAttempt[n] THEN Retryable(a) ELSE a.status = task[n].status
      BY <1>1, <1>4, <2>2, <2>5 DEF BudgetOf, Ending
    <3> QED BY <1>1, <1>2, <3>1, <3>2 DEF Retryable
  <2> QED BY <1>2, <1>3, <1>4, <2>2, <2>3, <2>4, <2>5 DEF BudgetOf, Retryable
<1>5. CASE m # n
  BY <1>1, <1>2, <1>3, <1>5, BudgetKept, NodesAssumption
<1> QED BY <1>4, <1>5

LEMMA BudgetElsewhere ==
  ASSUME SessionInv, BudgetInv, NEW m \in Nodes,
         UNCHANGED <<attempts, nextAttempt, results, current>>,
         m = current => task'[m] = task[m], Crashing => Crashing'
  PROVE  BudgetOf(m)'
<1>1. SessionTypeOK /\ BudgetOf(m) /\ Resulted' = Resulted
  BY DEF SessionInv, BudgetInv, Resulted
<1> QED BY <1>1, BudgetKept

LEMMA BudgetStep ==
  ASSUME SessionInv, BudgetInv, [SessionNext]_vars, NEW m \in Nodes
  PROVE  BudgetOf(m)'
<1>1. CASE WriteEvent \/ Ended \/ UNCHANGED vars
  BY <1>1, BudgetElsewhere DEF WriteEvent, Ended, vars, storeVars, fateVars, loopVars, Crashing
<1>2. CASE LaunchReturn \/ WaitReturns \/ BatchDone \/ WalkPasses \/ WalkDone \/ DrainDone \/ Interrupt
  BY <1>2, BudgetElsewhere DEF LaunchReturn, WaitReturns, BatchDone, WalkPasses, WalkDone, DrainDone,
    Interrupt, storeVars, fateVars, loopVars, Crashing
<1>3. CASE FinalizeRun \/ FinishParked \/ FinishRun
  BY <1>3, BudgetElsewhere DEF FinalizeRun, FinishParked, FinishRun, RecordRunStatus, fateVars,
    loopVars, Crashing
<1>4. ASSUME NEW n \in Nodes, LaunchSkip(n) \/ LaunchPark(n) \/ WalkSkips(n) PROVE BudgetOf(m)'
  BY <1>4, BudgetElsewhere DEF LaunchSkip, LaunchPark, WalkSkips, RecordSkip, RecordNodeFinished,
    RecordNodeSkipped, RecordNodeAwaiting, loopVars, Crashing
<1>5. ASSUME NEW n \in Nodes, LaunchStart(n) \/ AttemptEnds(n) PROVE BudgetOf(m)'
  <2>1. m # current
    BY <1>5, NodesAssumption DEF SessionInv, HandlingSound, LaunchStart, AttemptEnds
  <2> QED BY <1>5, <2>1, BudgetElsewhere DEF LaunchStart, AttemptEnds, RecordNodeRunning,
        RecordNodeStarted, storeVars, loopVars, Crashing
<1>6. ASSUME NEW n \in Nodes, HandleRaised(n) \/ FinalizeNode(n) PROVE BudgetOf(m)'
  BY <1>6, BudgetElsewhere DEF HandleRaised, FinalizeNode, RecordNodeFinished, storeVars, fateVars,
    Crashing
<1> QED BY <1>1, <1>2, <1>3, <1>4, <1>5, <1>6, BudgetAttempt, BudgetConclude, BudgetRetry
      DEF SessionNext, Step, Environment

LEMMA BudgetInit == SessionInit => BudgetInv
<1> SUFFICES ASSUME SessionInit, NEW n \in Nodes PROVE BudgetOf(n)
  BY DEF BudgetInv
<1>1. n \notin Resulted /\ n # current /\ nextAttempt[n] = 1 /\ attempts = {}
  BY NodesAssumption DEF SessionInit, Resulted
<1>2. Numbers(n) = {} /\ Made(n) = 0
  BY <1>1 DEF Numbers, Made
<1> QED BY <1>1, <1>2, PolicyAssumption DEF BudgetOf

(* The attempt table and the counters of _Scheduler never part: every       *)
(* Attempt is recorded once, under the next number (_record_attempt).       *)
THEOREM BudgetInvHolds == SessionSafety => []BudgetInv
<1>1. SessionInit => BudgetInv
  BY BudgetInit
<1>2. SessionInv /\ BudgetInv /\ [SessionNext]_vars => BudgetInv'
  BY BudgetStep DEF BudgetInv
<1> QED BY <1>1, <1>2, SessionInvHolds, PTL DEF SessionSafety

(* Attempts are numbered without gaps up to retries + 1, only a retryable   *)
(* failure is tried again, and none is given up early, for every budget     *)
(* (_handle_result, _retries_remaining).                                    *)
THEOREM RetryBudgetHolds == SessionSafety => []RetryBudget
<1>1. ASSUME SessionInv, StoryInv, BudgetInv PROVE RetryBudget
  <2>1. ASSUME NEW n \in Nodes
        PROVE  /\ Made(n) \in Nat /\ nextAttempt[n] \in Nat /\ Retries[n] \in Nat
               /\ MaxAttempt(n) = Made(n) /\ Numbers(n) = 1..Made(n)
               /\ Made(n) <= nextAttempt[n] /\ nextAttempt[n] <= Retries[n] + 1
    <3>1. nextAttempt[n] \in 1..(Retries[n] + 1) /\ Numbers(n) = 1..Made(n) /\ Retries[n] \in Nat
      BY <1>1, PolicyAssumption DEF BudgetInv, BudgetOf
    <3>2. Made(n) \in Nat /\ Made(n) <= nextAttempt[n]
      BY <3>1 DEF Made
    <3> QED BY <3>1, <3>2, HighestNumber
  <2>2. \A n \in Nodes : Numbers(n) = 1..MaxAttempt(n) /\ MaxAttempt(n) <= Retries[n] + 1
    BY <2>1
  <2>3. ASSUME NEW a \in attempts, a.attempt < MaxAttempt(a.node) PROVE Retryable(a)
    <3>1. a.node \in Nodes /\ a.attempt \in Nat
      BY <1>1 DEF SessionInv, SessionTypeOK, StoreTypeOK
    <3>2. a.attempt < nextAttempt[a.node]
      BY <2>1, <2>3, <3>1
    <3> QED BY <1>1, <3>1, <3>2 DEF BudgetInv, BudgetOf
  <2>4. ASSUME Over, runStatus # "errored", NEW n \in WithStatus({"failed", "timed_out"})
        PROVE  MaxAttempt(n) = Retries[n] + 1
    <3>1. n \in Nodes /\ rows[n] \in {"failed", "timed_out"}
      BY <2>4 DEF WithStatus
    <3>2. InFlight = {} /\ n \in Failed \cup InFlight
      BY <1>1, <2>4, <3>1, RowsAtEnd, RunAtEnd DEF FailureKinds
    <3>3. n \in Resulted /\ Retryable(results[n])
      BY <1>1, <2>4, <3>1, <3>2, RowsAtEnd DEF Failed, Retryable
    <3>4. ~Crashing
      BY <2>4 DEF Over, Crashing
    <3>5. nextAttempt[n] = Retries[n] + 1 /\ Made(n) = nextAttempt[n]
      BY <1>1, <3>1, <3>3, <3>4 DEF BudgetInv, BudgetOf, Made
    <3> QED BY <2>1, <3>1, <3>5
  <2> QED BY <2>2, <2>3, <2>4 DEF RetryBudget
<1> QED BY <1>1, SessionInvHolds, StoryInvHolds, BudgetInvHolds, PTL
-----------------------------------------------------------------------------
(* The entries of the walk's queue.                                         *)

LEMMA PairsTail ==
  ASSUME NEW q \in Seq(Nodes \X Nodes), q # <<>>
  PROVE  Head(q) \in Pairs(q) /\ Pairs(Tail(q)) \subseteq Pairs(q)
<1>1. /\ Len(q) \in Nat /\ Len(q) >= 1 /\ Head(q) = q[1]
      /\ Len(Tail(q)) = Len(q) - 1
      /\ \A i \in 1..Len(Tail(q)) : Tail(q)[i] = q[i + 1]
  <2>1. Len(q) \in Nat /\ Len(q) # 0
    BY EmptySeq, LenProperties
  <2>2. Head(q) = q[1]
    OBVIOUS
  <2> QED BY <2>1, <2>2, HeadTailProperties
<1>2. ASSUME NEW i \in 1..Len(Tail(q)) PROVE Tail(q)[i] \in Pairs(q)
  <2>1. i + 1 \in 1..Len(q) /\ Tail(q)[i] = q[i + 1]
    BY <1>1
  <2> QED BY <2>1 DEF Pairs
<1> QED BY <1>1, <1>2 DEF Pairs

LEMMA PairsConcat ==
  ASSUME NEW s \in Seq(Nodes \X Nodes), NEW t \in Seq(Nodes \X Nodes)
  PROVE  Pairs(s \o t) \subseteq Pairs(s) \cup Pairs(t)
<1> DEFINE q == s \o t
<1>1. /\ Len(s) \in Nat /\ Len(t) \in Nat
      /\ Len(q) = Len(s) + Len(t)
      /\ \A i \in 1..Len(s) + Len(t) : q[i] = IF i <= Len(s) THEN s[i] ELSE t[i - Len(s)]
  BY ConcatProperties, LenProperties
<1> HIDE DEF q
<1>2. ASSUME NEW i \in 1..Len(q) PROVE q[i] \in Pairs(s) \cup Pairs(t)
  <2>1. CASE i <= Len(s)
    BY <2>1, <1>1 DEF Pairs
  <2>2. CASE i > Len(s)
    <3>1. i - Len(s) \in 1..Len(t) /\ q[i] = t[i - Len(s)]
      BY <2>2, <1>1
    <3> QED BY <3>1 DEF Pairs
  <2> QED BY <2>1, <2>2, <1>1
<1>3. Pairs(q) \subseteq Pairs(s) \cup Pairs(t)
  BY <1>2 DEF Pairs
<1> QED BY <1>3 DEF q

LEMMA PairsOrphans ==
  ASSUME NEW n \in Nodes PROVE Pairs(Orphans(n)) \subseteq {<<d, n>> : d \in Needing(n)}
<1>1. Len(Dependents[n]) \in Nat /\ Len(Orphans(n)) = Len(Dependents[n])
  BY DependentsAssumption DEF Orphans
<1>2. ASSUME NEW i \in 1..Len(Dependents[n])
      PROVE  Orphans(n)[i] = <<Dependents[n][i], n>> /\ Dependents[n][i] \in Needing(n)
  BY <1>1, DependentsAssumption DEF Orphans, Needing
<1> QED BY <1>1, <1>2 DEF Pairs

-----------------------------------------------------------------------------
(* The reasons of the skips.                                                *)

(* What the reasons need of the rows.                                       *)
Recorded ==
  /\ phase = "finalize" => batch \subseteq InFlight
  /\ \A n \in started : rows[n] # "absent"

LEMMA StoryRecorded ==
  ASSUME SessionInv, StoryInv PROVE Recorded
<1>1. ASSUME NEW n \in started PROVE rows[n] # "absent"
  <2>1. n \in Nodes /\ results \in [Nodes -> NodeResults \cup {NoResult}]
    BY DEF SessionInv, SessionTypeOK, FateTypeOK
  <2>2. n \in Resulted => results[n].status # "absent"
    BY <2>1 DEF Resulted, NodeResults, AttemptStatus, FailureKinds
  <2> QED BY <2>1, <2>2 DEF StoryInv, StoryOf, Undecided
<1> QED BY <1>1 DEF Recorded, StoryInv, RunStory

(* What a step leaves alone: a Node that is not in flight keeps its result  *)
(* and its Attempts, a skipped one its reason.                              *)
LEMMA PastKept ==
  ASSUME SessionSound, [SessionNext]_vars, NEW m \in Nodes, m \notin InFlight
  PROVE  /\ results'[m] = results[m]
         /\ {a \in attempts' : a.node = m} = {a \in attempts : a.node = m}
         /\ satisfied' = satisfied
<1>1. CASE \/ WriteEvent \/ LaunchReturn \/ WaitReturns \/ BatchDone \/ WalkPasses \/ WalkDone
           \/ DrainDone \/ Interrupt \/ Ended \/ UNCHANGED vars
  BY <1>1 DEF WriteEvent, LaunchReturn, WaitReturns, BatchDone, WalkPasses, WalkDone, DrainDone,
    Interrupt, Ended, vars, storeVars, fateVars, seedVars
<1>2. CASE FinalizeRun \/ FinishParked \/ FinishRun
  BY <1>2 DEF FinalizeRun, FinishParked, FinishRun, RecordRunStatus, fateVars, seedVars
<1>3. ASSUME NEW n \in Nodes,
             \/ LaunchSkip(n) \/ LaunchPark(n) \/ LaunchStart(n) \/ WalkSkips(n) \/ AttemptEnds(n)
             \/ HandleRaised(n) \/ SettleRetry(n) \/ FinalizeNode(n)
      PROVE  UNCHANGED <<results, attempts, satisfied>>
  BY <1>3 DEF LaunchSkip, LaunchPark, LaunchStart, WalkSkips, AttemptEnds, HandleRaised, SettleRetry,
    FinalizeNode, RecordSkip, RecordNodeFinished, RecordNodeSkipped, RecordNodeAwaiting,
    RecordNodeRunning, RecordNodeStarted, storeVars, fateVars, seedVars
<1>4. ASSUME NEW n \in Nodes, HandleAttempt(n) \/ DrainAttempt(n)
      PROVE  /\ results'[m] = results[m]
             /\ {a \in attempts' : a.node = m} = {a \in attempts : a.node = m}
             /\ satisfied' = satisfied
  <2>1. n \in InFlight /\ m # n
    BY <1>4 DEF SessionSound, HandlingSound, HandlingBatch, HandleAttempt, DrainAttempt, Drainable, Finished
  <2>2. UNCHANGED <<results, satisfied>> /\
        attempts' = attempts \cup {[node |-> n, attempt |-> nextAttempt[n],
                                    status |-> task[n].status, out |-> task[n].out]}
    BY <1>4 DEF HandleAttempt, DrainAttempt, RecordAttempt, fateVars, seedVars
  <2> QED BY <2>1, <2>2
<1>5. ASSUME NEW n \in Nodes, SettleSuccess(n) \/ SettleFailure(n) \/ DrainSettles(n)
      PROVE  results'[m] = results[m] /\ UNCHANGED <<attempts, satisfied>>
  <2>1. n = current /\ task[n] \in NodeResults /\ Conclude(n) /\ satisfied' = satisfied
    BY <1>5 DEF SessionSound, HandlingSound, SettleSuccess, SettleFailure, DrainSettles, seedVars
  <2>2. n \in InFlight
    BY <2>1, ConcludeEffect DEF SessionSound, Moved
  <2> QED BY <2>1, <2>2 DEF Conclude, RecordNodeFinished, SessionSound, SessionTypeOK, FateTypeOK
<1> QED BY <1>1, <1>2, <1>3, <1>4, <1>5 DEF SessionNext, Step, Environment

LEMMA FatesGrow ==
  ASSUME SessionSound, [SessionNext]_vars
  PROVE  skipped \subseteq skipped' /\ Succeeded \subseteq Succeeded' /\ Failed \subseteq Failed'
         /\ Settled \subseteq Settled'
<1>1. Resulted \cap InFlight = {} /\ Resulted \subseteq Nodes
  BY DEF SessionSound, Moved, OneFate, Resulted
<1>2. \A m \in Resulted : m \notin InFlight /\ results'[m] = results[m]
  BY <1>1, PastKept
<1>3. Resulted \subseteq Resulted' /\ Succeeded \subseteq Succeeded' /\ Failed \subseteq Failed'
  <2>1. Succeeded \subseteq Resulted
    BY DEF Succeeded, Resulted, NoResult
  <2> QED BY <1>2, <2>1 DEF Resulted, Succeeded, Failed
<1>4. skipped \subseteq skipped'
  BY DEF SessionNext, Step, Environment, WriteEvent, LaunchReturn, WaitReturns, BatchDone, WalkPasses,
    WalkDone, DrainDone, Interrupt, Ended, vars, fateVars, FinalizeRun, FinishParked, FinishRun,
    LaunchSkip, LaunchPark, LaunchStart, WalkSkips, AttemptEnds, HandleRaised, SettleRetry,
    FinalizeNode, RecordSkip, HandleAttempt, DrainAttempt, SettleSuccess, SettleFailure, DrainSettles,
    Conclude
<1>5. satisfied' = satisfied
  BY NodesAssumption, PastKept DEF SessionSound, SessionNext, Step, Environment, WriteEvent,
    LaunchReturn, WaitReturns, BatchDone, WalkPasses,
    WalkDone, DrainDone, Interrupt, Ended, vars, seedVars, FinalizeRun, FinishParked, FinishRun,
    LaunchSkip, LaunchPark, LaunchStart, WalkSkips, AttemptEnds, HandleRaised, SettleRetry,
    FinalizeNode, HandleAttempt, DrainAttempt, SettleSuccess, SettleFailure, DrainSettles
<1> QED BY <1>3, <1>4, <1>5 DEF Settled

(* A leaf over a settled Node keeps its truth value.                        *)
LEMMA SettledLeaf ==
  ASSUME SessionSound, [SessionNext]_vars, NEW m \in Settled
  PROVE  LeafTrue(m)' = LeafTrue(m)
<1>1. m \in Nodes /\ m \notin InFlight
  BY FateSets DEF SessionSound, Moved, OneFate, Settled
<1>2. /\ results'[m] = results[m]
      /\ {a \in attempts' : a.node = m} = {a \in attempts : a.node = m}
  BY <1>1, PastKept
<1>3. m \in Resulted' <=> m \in Resulted
  BY <1>1, <1>2 DEF Resulted
<1>4. LatestOut(m)' = LatestOut(m)
  <2>1. Numbers(m)' = Numbers(m)
    BY <1>2 DEF Numbers
  <2>2. MaxAttempt(m)' = MaxAttempt(m)
    BY <2>1 DEF MaxAttempt
  <2> QED BY <1>2, <2>2 DEF LatestOut
<1> QED BY <1>2, <1>3, <1>4 DEF LeafTrue

LEMMA WhenKept ==
  ASSUME SessionSound, [SessionNext]_vars, NEW n \in Nodes, Needs[n] \subseteq Settled
  PROVE  WhenHolds(n)' = WhenHolds(n)
<1>1. \A leaf \in When[n] : leaf.ref \in Settled
  BY PolicyAssumption
<1>2. \A leaf \in When[n] : LeafTrue(leaf.ref)' = LeafTrue(leaf.ref)
  BY <1>1, SettledLeaf
<1> QED BY <1>2 DEF WhenHolds

LEMMA ReasonKept ==
  ASSUME SessionSound, [SessionNext]_vars, NEW n \in Nodes, Justified(n),
         causes'[n] = causes[n], blocker'[n] = blocker[n]
  PROVE  Justified(n)'
<1>1. Needs[n] \subseteq Settled => (WhenHolds(n)' <=> WhenHolds(n))
  BY WhenKept
<1>2. skipped \subseteq skipped' /\ Failed \subseteq Failed' /\ Settled \subseteq Settled'
  BY FatesGrow
<1>3. CASE causes[n] = "blocked"
  BY <1>2, <1>3 DEF Justified
<1>4. CASE causes[n] = "all_branches_skipped"
  BY <1>2, <1>4 DEF Justified
<1>5. CASE causes[n] = "when_false"
  BY <1>1, <1>2, <1>5 DEF Justified
<1> QED BY <1>3, <1>4, <1>5 DEF Justified

(* A Node that was skipped before keeps its reason.                         *)
LEMMA OldReasons ==
  ASSUME SessionSound, Recorded, ReasonInv, [SessionNext]_vars, NEW n \in skipped
  PROVE  Justified(n)'
<1>1. n \in Nodes /\ n \notin InFlight /\ Justified(n)
  BY DEF SessionSound, Moved, SessionTypeOK, FateTypeOK, OneFate, ReasonInv, SkipsJustified
<1>2. /\ causes \in [Nodes -> Causes \cup {"none"}] /\ blocker \in [Nodes -> Nodes \cup {NoNode}]
      /\ HandlingSound /\ OneFate /\ SessionTypeOK
  BY DEF SessionSound, Moved, SessionTypeOK, StoreTypeOK, FateTypeOK
<1>3. CASE \/ WriteEvent \/ LaunchReturn \/ WaitReturns \/ BatchDone \/ WalkPasses \/ WalkDone
           \/ DrainDone \/ Interrupt \/ Ended \/ UNCHANGED vars
  BY <1>1, <1>3, ReasonKept DEF WriteEvent, LaunchReturn, WaitReturns, BatchDone, WalkPasses, WalkDone,
    DrainDone, Interrupt, Ended, vars, storeVars, fateVars
<1>4. CASE FinalizeRun \/ FinishParked \/ FinishRun
  BY <1>1, <1>4, ReasonKept DEF FinalizeRun, FinishParked, FinishRun, RecordRunStatus, fateVars
<1>5. ASSUME NEW m \in Nodes,
             \/ LaunchPark(m) \/ LaunchStart(m) \/ AttemptEnds(m) \/ HandleRaised(m)
             \/ HandleAttempt(m) \/ DrainAttempt(m) \/ SettleRetry(m)
      PROVE  Justified(n)'
  BY <1>1, <1>5, ReasonKept DEF LaunchPark, LaunchStart, AttemptEnds, HandleRaised, HandleAttempt,
    DrainAttempt, SettleRetry, RecordNodeAwaiting, RecordNodeRunning, RecordNodeStarted, RecordAttempt,
    storeVars, fateVars
<1>6. ASSUME NEW m \in Nodes, LaunchSkip(m) \/ WalkSkips(m) PROVE Justified(n)'
  <2>1. m \notin skipped
    BY <1>6 DEF LaunchSkip, WalkSkips, MayConsider, FirstReady, Ready, Reaches, Terminal
  <2>2. PICK cause, by : RecordSkip(m, cause, by)
    BY <1>6 DEF LaunchSkip, WalkSkips
  <2> QED BY <1>1, <1>2, <2>1, <2>2, ReasonKept DEF RecordSkip, RecordNodeFinished, RecordNodeSkipped
<1>7. ASSUME NEW m \in Nodes, SettleSuccess(m) \/ SettleFailure(m) \/ DrainSettles(m)
      PROVE  Justified(n)'
  <2>1. m = current /\ task[m] \in NodeResults /\ Conclude(m)
    BY <1>2, <1>7 DEF HandlingSound, SettleSuccess, SettleFailure, DrainSettles
  <2>2. m # n
    BY <1>1, <1>2, <2>1, ConcludeEffect
  <2> QED BY <1>1, <1>2, <2>1, <2>2, ReasonKept DEF Conclude, RecordNodeFinished
<1>8. ASSUME NEW m \in Nodes, FinalizeNode(m) PROVE Justified(n)'
  <2>1. m # n
    BY <1>1, <1>8 DEF FinalizeNode, Recorded
  <2> QED BY <1>1, <1>2, <1>8, <2>1, ReasonKept DEF FinalizeNode, RecordNodeFinished, fateVars
<1> QED BY <1>3, <1>4, <1>5, <1>6, <1>7, <1>8 DEF SessionNext, Step, Environment

(* The Node a step skips gets the reason that is recorded for it.           *)
LEMMA SkipReason ==
  ASSUME SessionSound, Recorded, NEW n \in Nodes, Unfated(n), At("launch") \/ At("walk"),
         NEW cause \in Causes, NEW by, RecordSkip(n, cause, by)
  PROVE  causes'[n] = cause /\ blocker'[n] = by /\ skipped' = skipped \cup {n}
<1>1. /\ causes \in [Nodes -> Causes \cup {"none"}] /\ blocker \in [Nodes -> Nodes \cup {NoNode}]
      /\ n \in started => rows[n] # "absent"
  BY DEF SessionSound, SessionTypeOK, StoreTypeOK, FateTypeOK, Recorded
<1> QED BY <1>1 DEF RecordSkip, RecordNodeFinished, RecordNodeSkipped

LEMMA LaunchReason ==
  ASSUME SessionSound, Recorded, NEW n \in Nodes, LaunchSkip(n)
  PROVE  Justified(n)' /\ skipped' = skipped \cup {n}
<1>1. /\ At("launch") /\ ~WhenHolds(n) /\ RecordSkip(n, "when_false", NoNode) /\ Unfated(n)
      /\ indegree[n] = 0
  BY DEF LaunchSkip, MayConsider, FirstReady, Ready, Unfated
<1>2. causes'[n] = "when_false" /\ blocker'[n] = NoNode /\ skipped' = skipped \cup {n}
  BY <1>1, SkipReason DEF Causes
<1>3. Needs[n] \subseteq Settled
  <2>1. Cardinality(Needs[n] \ Settled) = 0
    BY <1>1 DEF SessionSound, Moved, IndegreeExact, Looping
  <2>2. Needs[n] \ Settled \in SUBSET Nodes
    BY OrderAssumption
  <2>3. Needs[n] \ Settled = {}
    BY <2>1, <2>2, NodeSets
  <2> QED BY <2>3
<1>4. [SessionNext]_vars
  BY DEF SessionNext, Step
<1>5. WhenHolds(n)' = WhenHolds(n) /\ Settled \subseteq Settled'
  BY <1>3, <1>4, WhenKept, FatesGrow
<1> QED BY <1>1, <1>2, <1>3, <1>5 DEF Justified

LEMMA WalkReason ==
  ASSUME SessionSound, Recorded, WalkReasons, NEW n \in Nodes, WalkSkips(n)
  PROVE  Justified(n)' /\ skipped' = skipped \cup {n}
<1>1. /\ At("walk") /\ queue # <<>> /\ queue \in Seq(Nodes \X Nodes) /\ n = Target
      /\ n \notin Resulted \cup skipped /\ ~Tolerates(n)
      /\ RecordSkip(n, WalkCause(n), WalkBlocker(n)) /\ (n \in started \/ rows[n] = "absent")
      /\ WalkCause(n) \in Causes
      /\ UNCHANGED origin
  BY DEF WalkSkips, Reaches, Terminal, SessionSound, SessionTypeOK, LoopTypeOK, WalkCause, Causes
<1>2. Target \in Queued
  BY <1>1, TailEntries DEF Queued, Target
<1>3. Unfated(n)
  BY <1>1, <1>2 DEF SessionSound, SatisfiedApart, WalkSound, TakenUp, Unfated
<1>4. causes'[n] = WalkCause(n) /\ blocker'[n] = WalkBlocker(n) /\ skipped' = skipped \cup {n}
  BY <1>1, <1>3, SkipReason
<1>5. Head(queue) \in Pairs(queue)
  BY <1>1, PairsTail
<1>6. OrphanedBy(n, Orphaner)
  BY <1>1, <1>5 DEF WalkReasons, Target, Orphaner
<1>7. [SessionNext]_vars
  BY DEF SessionNext, Step
<1>8. Failed \subseteq Failed' /\ skipped \subseteq skipped'
  BY <1>7, FatesGrow
<1>9. CASE origin # NoNode
  BY <1>4, <1>6, <1>8, <1>9 DEF WalkCause, WalkBlocker, JoinAware, OrphanedBy, Justified
<1>10. CASE origin = NoNode /\ n \notin JoinAny
  BY <1>4, <1>6, <1>8, <1>10 DEF WalkCause, WalkBlocker, JoinAware, OrphanedBy, Justified
<1>11. CASE origin = NoNode /\ n \in JoinAny
  BY <1>1, <1>4, <1>6, <1>8, <1>11 DEF WalkCause, WalkBlocker, JoinAware, OrphanedBy, Justified, Tolerates
<1> QED BY <1>9, <1>10, <1>11

LEMMA ReasonsStep ==
  ASSUME SessionSound, Recorded, ReasonInv, [SessionNext]_vars
  PROVE  SkipsJustified'
<1>1. ASSUME NEW n \in Nodes, LaunchSkip(n) \/ WalkSkips(n) PROVE SkipsJustified'
  BY <1>1, LaunchReason, WalkReason, OldReasons DEF ReasonInv, SkipsJustified
<1>2. CASE \A n \in Nodes : ~(LaunchSkip(n) \/ WalkSkips(n))
  <2>1. skipped' = skipped
    BY <1>2 DEF SessionNext, Step, Environment, WriteEvent, LaunchReturn, WaitReturns, BatchDone,
      WalkPasses, WalkDone, DrainDone, Interrupt, Ended, vars, fateVars, FinalizeRun, FinishParked,
      FinishRun, LaunchPark, LaunchStart, AttemptEnds, HandleRaised, SettleRetry, FinalizeNode,
      HandleAttempt, DrainAttempt, SettleSuccess, SettleFailure, DrainSettles, Conclude
  <2> QED BY <2>1, OldReasons DEF SkipsJustified
<1> QED BY <1>1, <1>2

LEMMA StillOrphaned ==
  ASSUME SessionSound, [SessionNext]_vars, NEW d, NEW by, OrphanedBy(d, by), UNCHANGED origin
  PROVE  OrphanedBy(d, by)'
BY FatesGrow DEF OrphanedBy

LEMMA WalkReasonsStep ==
  ASSUME SessionSound, Recorded, ReasonInv, [SessionNext]_vars
  PROVE  WalkReasons'
<1>1. /\ WalkReasons /\ SessionTypeOK /\ queue \in Seq(Nodes \X Nodes)
      /\ Failed \subseteq Failed'
  BY FatesGrow DEF ReasonInv, SessionSound, SessionTypeOK, LoopTypeOK
<1>2. ASSUME phase' = "walk", phase = "walk", UNCHANGED origin, Pairs(queue') \subseteq Pairs(queue)
      PROVE  WalkReasons'
  <2>1. Pairs(queue)' = Pairs(queue')
    BY DEF Pairs
  <2>2. \A e \in Pairs(queue') : OrphanedBy(e[1], e[2])'
    BY <1>1, <1>2, StillOrphaned DEF WalkReasons
  <2> QED BY <1>1, <1>2, <2>1, <2>2 DEF WalkReasons
<1>3. ASSUME NEW n \in Nodes, LaunchSkip(n) PROVE WalkReasons'
  <2>1. queue' = Orphans(n) /\ origin' = NoNode /\ n \in skipped'
    BY <1>3 DEF LaunchSkip, RecordSkip
  <2> QED BY <2>1, PairsOrphans DEF WalkReasons, Pairs, OrphanedBy, Needing
<1>4. ASSUME NEW n \in Nodes, SettleFailure(n) PROVE WalkReasons'
  <2>1. /\ queue' = Orphans(n) /\ origin' = n /\ n = current /\ Conclude(n)
        /\ task[n] \in NodeResults /\ task[n].status # "succeeded"
    BY <1>4 DEF SettleFailure, SessionSound, HandlingSound
  <2>2. n \in Failed'
    BY <2>1, ConcludeEffect DEF SessionSound, Moved
  <2>3. \A d \in Needing(n) : n \in Ancestors(d)
    BY NeedIsAncestor DEF Needing
  <2> QED BY <2>1, <2>2, <2>3, PairsOrphans, NodesAssumption DEF WalkReasons, Pairs, OrphanedBy
<1>5. ASSUME NEW n \in Nodes, WalkSkips(n) PROVE WalkReasons'
  <2>1. /\ queue' = Tail(queue) \o Orphans(n) /\ UNCHANGED <<origin, phase>> /\ phase = "walk"
        /\ n \in skipped' /\ queue # <<>> /\ n = Target
    BY <1>5 DEF WalkSkips, RecordSkip, Reaches
  <2>2. Pairs(queue') \subseteq Pairs(queue) \cup {<<d, n>> : d \in Needing(n)}
    <3>1. Tail(queue) \in Seq(Nodes \X Nodes) /\ Orphans(n) \in Seq(Nodes \X Nodes)
      BY <1>1, <2>1, QueueStep, OrphansType
    <3>2. Pairs(Tail(queue) \o Orphans(n)) \subseteq Pairs(Tail(queue)) \cup Pairs(Orphans(n))
      BY <3>1, PairsConcat
    <3> QED BY <1>1, <2>1, <3>2, PairsTail, PairsOrphans
  <2>3. Pairs(queue)' = Pairs(queue')
    BY DEF Pairs
  <2>4. origin # NoNode => \A d \in Needing(n) : origin \in Failed \cap Ancestors(d)
    <3> SUFFICES ASSUME origin # NoNode, NEW d \in Needing(n)
                 PROVE  origin \in Failed \cap Ancestors(d)
      OBVIOUS
    <3>1. Head(queue) \in Pairs(queue)
      BY <1>1, <2>1, PairsTail
    <3>2. OrphanedBy(n, Orphaner)
      BY <1>1, <2>1, <3>1 DEF WalkReasons, Target, Orphaner
    <3>3. Ancestors(n) \subseteq Ancestors(d)
      BY AncestorOfNeed DEF Needing
    <3> QED BY <3>2, <3>3 DEF OrphanedBy
  <2>5. \A d \in Needing(n) : OrphanedBy(d, n)'
    BY <1>1, <2>1, <2>4 DEF OrphanedBy, Needing
  <2>6. \A e \in Pairs(queue) : OrphanedBy(e[1], e[2])'
    BY <1>1, <2>1, StillOrphaned DEF WalkReasons
  <2>7. \A e \in Pairs(queue') : OrphanedBy(e[1], e[2])'
    BY <2>2, <2>5, <2>6
  <2> QED BY <1>1, <2>1, <2>3, <2>7 DEF WalkReasons
<1>6. CASE WalkPasses
  <2>1. queue # <<>> /\ queue' = Tail(queue) /\ UNCHANGED <<origin, phase>> /\ phase = "walk"
    BY <1>6 DEF WalkPasses
  <2> QED BY <1>1, <1>2, <2>1, PairsTail
<1>7. CASE WriteEvent \/ Ended \/ UNCHANGED vars
  BY <1>2, <1>7 DEF WriteEvent, Ended, vars, loopVars, WalkReasons
<1>8. ASSUME phase' # "walk" PROVE WalkReasons'
  BY <1>8 DEF WalkReasons
<1> QED BY <1>3, <1>4, <1>5, <1>6, <1>7, <1>8 DEF SessionNext, Step, Environment,
      LaunchReturn, WaitReturns, BatchDone, WalkDone, DrainDone, Interrupt, FinalizeRun, FinishParked,
      FinishRun, LaunchPark, LaunchStart, AttemptEnds, HandleRaised, SettleRetry, FinalizeNode,
      HandleAttempt, DrainAttempt, SettleSuccess, DrainSettles

(* A skip and its reason agree, and so does what a walk is still to skip    *)
(* (_record_skip, the deque of _propagate_skips).                           *)
THEOREM ReasonInvHolds == SessionSafety => []ReasonInv
<1>1. SessionInit => ReasonInv
  BY DEF SessionInit, ReasonInv, SkipsJustified, WalkReasons
<1>2. SessionInv /\ StoryInv /\ ReasonInv /\ [SessionNext]_vars => ReasonInv'
  BY FreshIsSound, StoryRecorded, ReasonsStep, WalkReasonsStep DEF ReasonInv
<1> QED BY <1>1, <1>2, SessionInvHolds, StoryInvHolds, PTL DEF SessionSafety

(* Every skip of every session has the reason State and the trace give for  *)
(* it (_record_skip, the blame a walk of _propagate_skips hands on).        *)
THEOREM SkipsJustifiedHolds == SessionSafety => []SkipsJustified
BY ReasonInvHolds, PTL DEF ReasonInv
=============================================================================
