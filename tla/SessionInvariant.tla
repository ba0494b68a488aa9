-------------------------- MODULE SessionInvariant --------------------------
(***************************************************************************)
(* Proofs that a session keeps its promises for every Workflow: any finite *)
(* acyclic graph, any joins, conditions, gates, retry budgets and          *)
(* concurrency limit.                                                      *)
(*                                                                         *)
(* First the types and the concurrency limit; then that SessionInv is      *)
(* inductive, and so that a session never gives a Node two fates, never    *)
(* takes up a Node whose needs do not allow it, and never miscounts or     *)
(* forgets a skip.                                                         *)
(*                                                                         *)
(* The argument follows the fates.  Most steps move no Node (Quiet); every *)
(* other step moves one: into flight, into awaiting, into skipped, out of  *)
(* flight to be retried, or out of flight with a result.  A Node that was  *)
(* in flight or ready had not settled, so no dependent of it had been      *)
(* taken up (TakenUpWhenReady): that is why a walk over its dependents     *)
(* meets no Node that it would have to step back from.  Of the rows only   *)
(* one fact is needed (SatisfiedApart), which resumed sessions share.      *)
(***************************************************************************)
EXTENDS SchedulerProperties, FiniteSetTheorems, SequenceTheorems, TLAPS

LEMMA OrphansType ==
  ASSUME NEW n \in Nodes
  PROVE  Orphans(n) \in Seq(Nodes \X Nodes)
<1>1. Dependents[n] \in Seq(Nodes)
  BY DependentsAssumption
<1>2. Len(Dependents[n]) \in Nat
  BY <1>1
<1>3. \A i \in 1..Len(Dependents[n]) : Dependents[n][i] \in Nodes
  BY <1>1
<1>4. QED
  BY <1>2, <1>3 DEF Orphans

USE DEF At, Go

LEMMA QueueStep ==
  ASSUME queue \in Seq(Nodes \X Nodes), queue # <<>>
  PROVE  /\ Target \in Nodes
         /\ Orphaner \in Nodes
         /\ Tail(queue) \in Seq(Nodes \X Nodes)
         /\ \A n \in Nodes : Tail(queue) \o Orphans(n) \in Seq(Nodes \X Nodes)
<1>1. Head(queue) \in Nodes \X Nodes /\ Tail(queue) \in Seq(Nodes \X Nodes)
  <2>1. Head(queue) \in Nodes \X Nodes
    BY HeadTailProperties
  <2>2. Tail(queue) \in Seq(Nodes \X Nodes)
    BY HeadTailProperties
  <2>3. QED
    BY <2>1, <2>2
<1>2. ASSUME NEW n \in Nodes
      PROVE Tail(queue) \o Orphans(n) \in Seq(Nodes \X Nodes)
  BY <1>1, OrphansType, ConcatProperties
<1>3. QED
  BY <1>1, <1>2 DEF Target, Orphaner

LEMMA TypeInit == SessionInit => SessionTypeOK /\ HandlingSound
<1> SUFFICES ASSUME SessionInit PROVE SessionTypeOK /\ HandlingSound
  OBVIOUS
<1>1. \A n \in Nodes : Cardinality(Needs[n]) \in Int
  <2>1. \A n \in Nodes : Needs[n] \subseteq Nodes
    BY OrderAssumption
  <2>2. QED
    BY <2>1, FS_Subset, FS_CardinalityType, NodesAssumption
<1>2. StoreTypeOK
  BY DEF SessionInit, StoreTypeOK, RunStatus, NodeStatus
<1>3. TraceTypeOK
  BY DEF SessionInit, TraceTypeOK, RunEvents, Events, NoEvent
<1>4. FateTypeOK
  BY <1>1 DEF SessionInit, FateTypeOK, TaskStates
<1>5. LoopTypeOK
  BY EmptySeq DEF SessionInit, LoopTypeOK
<1>6. phase \in Phases /\ HandlingSound
  BY DEF SessionInit, Phases, HandlingSound, HandlingBatch
<1>7. QED
  BY <1>2, <1>3, <1>4, <1>5, <1>6 DEF SessionTypeOK

-----------------------------------------------------------------------------
(* The building blocks of the actions keep the types.                       *)

LEMMA OweType ==
  ASSUME TraceTypeOK, NEW type \in NodeEvents \cup RunEvents, NEW S \in SUBSET Nodes, Owe(type, S)
  PROVE  TraceTypeOK'
BY DEF TraceTypeOK, Owe, Events

LEMMA TraceKept == ASSUME TraceTypeOK, UNCHANGED traceVars PROVE TraceTypeOK'
BY DEF TraceTypeOK, traceVars

LEMMA AppendType == ASSUME TraceTypeOK, AppendEvent PROVE TraceTypeOK'
<1>1. owed \in Events
  BY DEF TraceTypeOK
<1>2. owed.type \in NodeEvents \cup RunEvents \cup {"none"}
  BY <1>1 DEF Events
<1>3. QED
  BY <1>1, <1>2 DEF TraceTypeOK, AppendEvent, NoEvent, Events

LEMMA NodeFinishedType ==
  ASSUME StoreTypeOK, NEW n \in Nodes, NEW status \in NodeStatus, NEW cause \in Causes \cup {"none"},
         RecordNodeFinished(n, status, cause)
  PROVE  StoreTypeOK'
BY DEF StoreTypeOK, RecordNodeFinished

LEMMA AttemptType ==
  ASSUME StoreTypeOK, NEW n \in Nodes, NEW number \in Nat, NEW result \in NodeResults,
         RecordAttempt(n, number, result)
  PROVE  StoreTypeOK'
BY DEF StoreTypeOK, RecordAttempt, NodeResults

LEMMA RecordSkipType ==
  ASSUME SessionTypeOK, NEW n \in Nodes, NEW cause \in Causes, NEW by \in Nodes \cup {NoNode},
         RecordSkip(n, cause, by)
  PROVE  StoreTypeOK' /\ TraceTypeOK' /\ FateTypeOK'
<1>1. StoreTypeOK'
  <2>1. CASE n \in started
    BY <2>1, NodeFinishedType DEF SessionTypeOK, RecordSkip, NodeStatus
  <2>2. CASE n \notin started
    BY <2>2 DEF SessionTypeOK, RecordSkip, RecordNodeSkipped, StoreTypeOK, NodeStatus
  <2>3. QED
    BY <2>1, <2>2
<1>2. TraceTypeOK'
  BY OweType DEF SessionTypeOK, RecordSkip, NodeEvents
<1>3. FateTypeOK'
  BY DEF SessionTypeOK, RecordSkip, FateTypeOK, OnSettled
<1>4. QED
  BY <1>1, <1>2, <1>3

LEMMA ConcludeType ==
  ASSUME SessionTypeOK, NEW n \in Nodes, task[n] \in NodeResults, Conclude(n)
  PROVE  /\ StoreTypeOK'
         /\ TraceTypeOK'
         /\ indegree' \in [Nodes -> Int] => FateTypeOK'
         /\ current' = NoNode
<1>1. StoreTypeOK'
  BY NodeFinishedType DEF SessionTypeOK, Conclude, NodeResults, NodeStatus
<1>2. TraceTypeOK'
  BY TraceKept DEF SessionTypeOK, Conclude, OweNothing
<1>3. QED
  BY <1>1, <1>2 DEF SessionTypeOK, Conclude, FateTypeOK, TaskStates

LEMMA FinishedResult ==
  ASSUME FateTypeOK, NEW n \in Finished, task[n].status # "raised"
  PROVE  n \in Nodes /\ task[n] \in NodeResults
<1>1. n \in Nodes /\ task[n] \in TaskStates /\ task[n] # NoResult /\ task[n] # InFlightResult
  BY DEF FateTypeOK, Finished, InFlight
<1>2. QED
  BY <1>1 DEF TaskStates

-----------------------------------------------------------------------------
(* Every step keeps the types, and hands only finished Attempts to the      *)
(* handlers.                                                                *)

LEMMA TypeStep ==
  ASSUME SessionTypeOK, HandlingSound, [SessionNext]_vars
  PROVE  SessionTypeOK' /\ HandlingSound'
<1> USE DEF NoEvent
<1>a. /\ StoreTypeOK /\ TraceTypeOK /\ FateTypeOK /\ LoopTypeOK /\ phase \in Phases
      /\ \A p \in {"idle", "launch", "wait", "handle", "settle", "walk", "drain", "drained",
                   "finalize", "finish"} : p \in Phases
  BY DEF SessionTypeOK, Phases
<1>b. NodeEvents \subseteq NodeEvents \cup RunEvents /\ RunEvents \subseteq NodeEvents \cup RunEvents
  OBVIOUS
<1>1. CASE WriteEvent
  BY <1>1, <1>a, AppendType DEF WriteEvent, SessionTypeOK, StoreTypeOK, FateTypeOK, LoopTypeOK,
    HandlingSound, HandlingBatch, storeVars, fateVars, seedVars, loopVars, Finished, InFlight
<1>2. CASE LaunchReturn \/ BatchDone \/ WalkDone \/ Interrupt \/ Ended \/ UNCHANGED vars
  <2>1. UNCHANGED <<storeVars, traceVars, fateVars, seedVars, loopVars>>
    BY <1>2 DEF LaunchReturn, BatchDone, WalkDone, Interrupt, Ended, vars
  <2>2. StoreTypeOK' /\ TraceTypeOK' /\ FateTypeOK' /\ LoopTypeOK'
    BY <1>a, <2>1, TraceKept DEF StoreTypeOK, FateTypeOK, LoopTypeOK, storeVars, fateVars, seedVars, loopVars
  <2>3. phase' \in Phases
    BY <1>2, <1>a DEF LaunchReturn, BatchDone, WalkDone, Interrupt, Ended, vars
  <2>4. HandlingSound'
    BY <1>2, <2>1 DEF LaunchReturn, BatchDone, WalkDone, Interrupt, Ended, vars, JoinAware,
      HandlingSound, HandlingBatch, fateVars, loopVars, Finished, InFlight
  <2>5. QED
    BY <2>2, <2>3, <2>4 DEF SessionTypeOK
<1>3. CASE WaitReturns
  <2>1. LoopTypeOK'
    BY <1>3, <1>a DEF WaitReturns, LoopTypeOK, seedVars, Finished, InFlight
  <2>2. HandlingSound'
    BY <1>3, NodesAssumption DEF WaitReturns, HandlingSound, HandlingBatch, fateVars, Finished, InFlight
  <2>3. QED
    BY <1>3, <1>a, <2>1, <2>2, TraceKept DEF WaitReturns, SessionTypeOK, StoreTypeOK, FateTypeOK,
      storeVars, fateVars
<1>4. CASE FinalizeRun \/ FinishParked \/ FinishRun
  <2>1. runStatus' \in RunStatus /\ UNCHANGED <<rows, causes, attempts>>
    BY <1>4 DEF FinalizeRun, FinishParked, FinishRun, RecordRunStatus, RunStatus, RunOutcome
  <2>2. TraceTypeOK'
    BY <1>4, <1>a, OweType, TraceKept DEF FinalizeRun, FinishParked, FinishRun, RunEvents, InFlight,
      OweNothing
  <2>3. QED
    BY <1>4, <1>a, <2>1, <2>2 DEF FinalizeRun, FinishParked, FinishRun, SessionTypeOK, StoreTypeOK,
      FateTypeOK, LoopTypeOK, fateVars, seedVars, loopVars, HandlingSound, HandlingBatch
<1>5. CASE WalkPasses
  <2>1. LoopTypeOK'
    BY <1>5, <1>a, QueueStep DEF WalkPasses, LoopTypeOK, seedVars
  <2>2. QED
    BY <1>5, <1>a, <2>1, TraceKept DEF WalkPasses, SessionTypeOK, StoreTypeOK, FateTypeOK,
      storeVars, fateVars, HandlingSound, HandlingBatch, Finished, InFlight
<1>6. CASE DrainDone
  BY <1>6, <1>a, TraceKept DEF DrainDone, SessionTypeOK, StoreTypeOK, FateTypeOK, LoopTypeOK,
    storeVars, fateVars, seedVars, HandlingSound, HandlingBatch, InFlight
<1>7. ASSUME NEW n \in Nodes, AttemptEnds(n)
      PROVE  SessionTypeOK' /\ HandlingSound'
  <2>1. task' \in [Nodes -> TaskStates]
    <3>1. PICK status \in Outcomes, out \in BOOLEAN :
            task' = [task EXCEPT ![n] = [status |-> status, out |-> out]]
      BY <1>7 DEF AttemptEnds
    <3>2. status \in AttemptStatus \/ status = "raised"
      BY OutcomesAssumption
    <3>3. [status |-> status, out |-> out] \in TaskStates
      BY <3>2 DEF TaskStates, NodeResults
    <3>4. QED
      BY <3>1, <3>3, <1>a DEF FateTypeOK
  <2>2. QED
    BY <1>7, <1>a, <2>1, TraceKept DEF AttemptEnds, SessionTypeOK, StoreTypeOK, FateTypeOK,
      LoopTypeOK, storeVars, seedVars, loopVars, HandlingSound, HandlingBatch
<1>8. ASSUME NEW n \in Nodes, LaunchSkip(n)
      PROVE  SessionTypeOK' /\ HandlingSound'
  <2>1. StoreTypeOK' /\ TraceTypeOK' /\ FateTypeOK'
    BY <1>8, RecordSkipType DEF LaunchSkip, Causes
  <2>2. queue' \in Seq(Nodes \X Nodes)
    BY <1>8, OrphansType DEF LaunchSkip
  <2>3. QED
    BY <1>8, <1>a, <2>1, <2>2 DEF LaunchSkip, SessionTypeOK, LoopTypeOK, seedVars,
      HandlingSound, HandlingBatch
<1>9. ASSUME NEW n \in Nodes, LaunchPark(n)
      PROVE  SessionTypeOK' /\ HandlingSound'
  <2>1. TraceTypeOK'
    BY <1>9, <1>a, OweType, TraceKept DEF LaunchPark, NodeEvents, OweNothing
  <2>2. StoreTypeOK' /\ FateTypeOK'
    BY <1>9, <1>a DEF LaunchPark, RecordNodeAwaiting, StoreTypeOK, FateTypeOK, NodeStatus
  <2>3. QED
    BY <1>9, <1>a, <2>1, <2>2 DEF LaunchPark, SessionTypeOK, LoopTypeOK, seedVars, loopVars,
      HandlingSound, HandlingBatch
<1>10. ASSUME NEW n \in Nodes, LaunchStart(n)
       PROVE  SessionTypeOK' /\ HandlingSound'
  <2>1. TraceTypeOK'
    BY <1>10, <1>a, OweType DEF LaunchStart, NodeEvents
  <2>2. StoreTypeOK'
    BY <1>10, <1>a DEF LaunchStart, RecordNodeRunning, RecordNodeStarted, StoreTypeOK, NodeStatus
  <2>3. FateTypeOK'
    BY <1>10, <1>a DEF LaunchStart, FateTypeOK, TaskStates
  <2>4. QED
    BY <1>10, <1>a, <2>1, <2>2, <2>3 DEF LaunchStart, SessionTypeOK, LoopTypeOK, seedVars, loopVars,
      HandlingSound, HandlingBatch
<1>11. ASSUME NEW n \in Nodes, HandleRaised(n)
       PROVE  SessionTypeOK' /\ HandlingSound'
  BY <1>11, <1>a, TraceKept DEF HandleRaised, SessionTypeOK, StoreTypeOK, FateTypeOK, LoopTypeOK,
    storeVars, fateVars, seedVars, HandlingSound, HandlingBatch, Finished, InFlight
<1>12. ASSUME NEW n \in Nodes, HandleAttempt(n)
       PROVE  SessionTypeOK' /\ HandlingSound'
  <2>1. task[n] \in NodeResults
    BY <1>12, <1>a, FinishedResult DEF HandleAttempt, HandlingSound, HandlingBatch
  <2>2. StoreTypeOK' /\ TraceTypeOK'
    BY <1>12, <1>a, <2>1, AttemptType, OweType DEF HandleAttempt, FateTypeOK, NodeEvents
  <2>3. QED
    BY <1>12, <1>a, <2>1, <2>2 DEF HandleAttempt, SessionTypeOK, FateTypeOK, LoopTypeOK,
      fateVars, seedVars, HandlingSound, HandlingBatch, Finished, InFlight
<1>13. ASSUME NEW n \in Nodes, SettleSuccess(n)
       PROVE  SessionTypeOK' /\ HandlingSound'
  <2>1. task[n] \in NodeResults
    BY <1>13 DEF SettleSuccess, HandlingSound
  <2>2. indegree' \in [Nodes -> Int]
    BY <1>13, <1>a DEF SettleSuccess, OnSettled, FateTypeOK
  <2>3. StoreTypeOK' /\ TraceTypeOK' /\ FateTypeOK' /\ current' = NoNode
    BY <1>13, <2>1, <2>2, ConcludeType DEF SettleSuccess
  <2>4. batch' \subseteq Finished' \ {current'}
    BY <1>13, <1>a, NodesAssumption DEF SettleSuccess, Conclude, HandlingSound, HandlingBatch,
      Finished, InFlight, FateTypeOK, LoopTypeOK
  <2>5. QED
    BY <1>13, <1>a, <2>3, <2>4 DEF SettleSuccess, SessionTypeOK, LoopTypeOK, seedVars, HandlingSound
<1>14. ASSUME NEW n \in Nodes, SettleRetry(n)
       PROVE  SessionTypeOK' /\ HandlingSound'
  <2>1. TraceTypeOK'
    BY <1>14, <1>a, OweType DEF SettleRetry, NodeEvents
  <2>2. FateTypeOK'
    BY <1>14, <1>a DEF SettleRetry, FateTypeOK, TaskStates
  <2>3. batch' \subseteq Finished' \ {current'}
    BY <1>14, <1>a, NodesAssumption DEF SettleRetry, HandlingSound, HandlingBatch,
      Finished, InFlight, FateTypeOK, LoopTypeOK
  <2>4. QED
    BY <1>14, <1>a, <2>1, <2>2, <2>3 DEF SettleRetry, SessionTypeOK, StoreTypeOK, LoopTypeOK,
      storeVars, seedVars, HandlingSound
<1>15. ASSUME NEW n \in Nodes, SettleFailure(n)
       PROVE  SessionTypeOK' /\ HandlingSound'
  <2>1. task[n] \in NodeResults
    BY <1>15 DEF SettleFailure, HandlingSound
  <2>2. StoreTypeOK' /\ TraceTypeOK' /\ FateTypeOK' /\ current' = NoNode
    BY <1>15, <1>a, <2>1, ConcludeType DEF SettleFailure, FateTypeOK
  <2>3. batch' \subseteq Finished' \ {current'}
    BY <1>15, <1>a, NodesAssumption DEF SettleFailure, Conclude, HandlingSound, HandlingBatch,
      Finished, InFlight, FateTypeOK, LoopTypeOK
  <2>4. queue' \in Seq(Nodes \X Nodes)
    BY <1>15, OrphansType DEF SettleFailure
  <2>5. QED
    BY <1>15, <1>a, <2>2, <2>3, <2>4 DEF SettleFailure, SessionTypeOK, LoopTypeOK, seedVars,
      HandlingSound
<1>16. ASSUME NEW n \in Nodes, WalkSkips(n)
       PROVE  SessionTypeOK' /\ HandlingSound'
  <2>1. WalkCause(n) \in Causes
    BY DEF WalkCause, Causes
  <2>2. /\ Orphaner \in Nodes
        /\ queue' \in Seq(Nodes \X Nodes)
    BY <1>16, <1>a, QueueStep DEF WalkSkips, Reaches, LoopTypeOK
  <2>3. WalkBlocker(n) \in Nodes \cup {NoNode}
    BY <1>a, <2>2 DEF WalkBlocker, LoopTypeOK
  <2>4. StoreTypeOK' /\ TraceTypeOK' /\ FateTypeOK'
    BY <1>16, <2>1, <2>3, RecordSkipType DEF WalkSkips
  <2>5. QED
    BY <1>16, <1>a, <2>2, <2>4 DEF WalkSkips, RecordSkip, SessionTypeOK, LoopTypeOK, seedVars,
      HandlingSound, HandlingBatch, Finished, InFlight
<1>17. ASSUME NEW n \in Nodes, DrainAttempt(n)
       PROVE  SessionTypeOK' /\ HandlingSound'
  <2>1. task[n] \in NodeResults
    BY <1>17, <1>a, FinishedResult DEF DrainAttempt, Drainable
  <2>2. StoreTypeOK' /\ TraceTypeOK'
    BY <1>17, <1>a, <2>1, AttemptType, OweType DEF DrainAttempt, FateTypeOK, NodeEvents
  <2>3. QED
    BY <1>17, <1>a, <2>1, <2>2 DEF DrainAttempt, SessionTypeOK, FateTypeOK, LoopTypeOK,
      fateVars, seedVars, HandlingSound, HandlingBatch
<1>18. ASSUME NEW n \in Nodes, DrainSettles(n)
       PROVE  SessionTypeOK' /\ HandlingSound'
  <2>1. task[n] \in NodeResults
    BY <1>18 DEF DrainSettles, HandlingSound
  <2>2. StoreTypeOK' /\ TraceTypeOK' /\ FateTypeOK' /\ current' = NoNode
    BY <1>18, <1>a, <2>1, ConcludeType DEF DrainSettles, FateTypeOK
  <2>3. QED
    BY <1>18, <1>a, <2>2 DEF DrainSettles, SessionTypeOK, LoopTypeOK, seedVars,
      HandlingSound, HandlingBatch
<1>19. ASSUME NEW n \in Nodes, FinalizeNode(n)
       PROVE  SessionTypeOK' /\ HandlingSound'
  <2>1. StoreTypeOK' /\ TraceTypeOK'
    BY <1>19, <1>a, NodeFinishedType, TraceKept DEF FinalizeNode, OweNothing, NodeStatus,
      AttemptStatus, FailureKinds
  <2>2. QED
    BY <1>19, <1>a, <2>1 DEF FinalizeNode, SessionTypeOK, FateTypeOK, LoopTypeOK, fateVars,
      seedVars, HandlingSound, HandlingBatch
<1>20. QED
  BY <1>1, <1>2, <1>3, <1>4, <1>5, <1>6, <1>7, <1>8, <1>9, <1>10, <1>11, <1>12, <1>13, <1>14, <1>15,
    <1>16, <1>17, <1>18, <1>19 DEF SessionNext, Step, Environment

-----------------------------------------------------------------------------
(* Type correctness: for every Workflow, every variable of State, trace and *)
(* scheduler keeps its type, and a handler is only given an Attempt that    *)
(* finished (the code's task.result() never waits).                         *)
THEOREM SessionTypeCorrect == SessionSafety => [](SessionTypeOK /\ HandlingSound)
<1>1. SessionInit => SessionTypeOK /\ HandlingSound
  BY TypeInit
<1>2. SessionTypeOK /\ HandlingSound /\ [SessionNext]_vars => (SessionTypeOK /\ HandlingSound)'
  BY TypeStep
<1>3. QED
  BY <1>1, <1>2, PTL DEF SessionSafety

-----------------------------------------------------------------------------
(* The concurrency limit.                                                   *)

LEMMA NodeSets ==
  ASSUME NEW S \in SUBSET Nodes
  PROVE  /\ IsFiniteSet(S)
         /\ Cardinality(S) \in Nat
         /\ \A T \in SUBSET S : Cardinality(T) <= Cardinality(S)
         /\ Cardinality(S) = 0 <=> S = {}
<1>1. IsFiniteSet(S)
  BY NodesAssumption, FS_Subset
<1>2. QED
  BY <1>1, FS_Subset, FS_CardinalityType, FS_EmptySet

(* Only a launch adds to the Attempts in flight.                            *)
LEMMA InFlightStep ==
  ASSUME SessionTypeOK, HandlingSound, [SessionNext]_vars
  PROVE  InFlight' \subseteq InFlight \/ \E n \in Nodes : LaunchStart(n) /\ InFlight' = InFlight \cup {n}
<1>a. FateTypeOK
  BY DEF SessionTypeOK
<1>1. ASSUME UNCHANGED task
      PROVE  InFlight' = InFlight
  BY <1>1 DEF InFlight
<1>2. ASSUME NEW n \in Nodes, LaunchStart(n)
      PROVE  InFlight' = InFlight \cup {n}
  BY <1>2, <1>a DEF LaunchStart, InFlight, InFlightResult, NoResult, FateTypeOK
<1>3. ASSUME NEW n \in Nodes, AttemptEnds(n)
      PROVE  InFlight' \subseteq InFlight
  <2>1. PICK result : task' = [task EXCEPT ![n] = result]
    BY <1>3 DEF AttemptEnds
  <2>2. n \in InFlight
    BY <1>3 DEF AttemptEnds, InFlight, InFlightResult, NoResult
  <2>3. QED
    BY <2>1, <2>2, <1>a DEF InFlight, FateTypeOK
<1>4. ASSUME NEW n \in Nodes, SettleSuccess(n) \/ SettleRetry(n) \/ SettleFailure(n) \/ DrainSettles(n)
      PROVE  InFlight' \subseteq InFlight
  BY <1>4, <1>a DEF SettleSuccess, SettleRetry, SettleFailure, DrainSettles, Conclude, InFlight, FateTypeOK
<1>5. CASE \/ WriteEvent \/ LaunchReturn \/ WaitReturns \/ BatchDone \/ WalkPasses \/ WalkDone
           \/ DrainDone \/ FinalizeRun \/ FinishParked \/ FinishRun \/ Interrupt \/ Ended
           \/ UNCHANGED vars
  <2>1. UNCHANGED task
    BY <1>5 DEF WriteEvent, LaunchReturn, WaitReturns, BatchDone, WalkPasses, WalkDone, DrainDone,
      FinalizeRun, FinishParked, FinishRun, Interrupt, Ended, vars, fateVars
  <2>2. QED
    BY <2>1, <1>1
<1>6. ASSUME NEW n \in Nodes,
             \/ LaunchSkip(n) \/ LaunchPark(n) \/ HandleRaised(n) \/ HandleAttempt(n) \/ WalkSkips(n)
             \/ DrainAttempt(n) \/ FinalizeNode(n)
      PROVE  InFlight' \subseteq InFlight
  <2>1. CASE LaunchSkip(n) \/ LaunchPark(n) \/ WalkSkips(n)
    BY <2>1, <1>1 DEF LaunchSkip, LaunchPark, WalkSkips, RecordSkip
  <2>2. CASE HandleRaised(n) \/ HandleAttempt(n) \/ DrainAttempt(n) \/ FinalizeNode(n)
    BY <2>2, <1>1 DEF HandleRaised, HandleAttempt, DrainAttempt, FinalizeNode, fateVars
  <2>3. QED
    BY <1>6, <2>1, <2>2
<1>7. QED
  BY <1>2, <1>3, <1>4, <1>5, <1>6 DEF SessionNext, Step, Environment

LEMMA SlotStep ==
  ASSUME SessionTypeOK, HandlingSound, SlotBound, [SessionNext]_vars
  PROVE  SlotBound'
<1>a. InFlight \in SUBSET Nodes /\ InFlight' \in SUBSET Nodes
  BY DEF InFlight
<1>1. CASE InFlight' \subseteq InFlight
  BY <1>1, <1>a, NodeSets, ConcurrencyAssumption DEF SlotBound
<1>2. ASSUME NEW n \in Nodes, LaunchStart(n), InFlight' = InFlight \cup {n}
      PROVE  SlotBound'
  <2>1. Cardinality(InFlight) < Concurrency
    BY <1>2 DEF LaunchStart, MayConsider, SlotFree
  <2>2. n \notin InFlight
    BY <1>2 DEF LaunchStart, MayConsider, FirstReady, Ready
  <2>3. Cardinality(InFlight') = Cardinality(InFlight) + 1
    BY <1>a, <1>2, <2>2, NodeSets, FS_AddElement
  <2>4. QED
    BY <2>1, <2>3, <1>a, NodeSets, ConcurrencyAssumption DEF SlotBound
<1>3. QED
  BY <1>1, <1>2, InFlightStep

(* The concurrency limit holds in every session of every Workflow: at no    *)
(* moment are more than Concurrency Attempts in flight, whatever batches    *)
(* complete, retry, skip or park in between (_launch_ready's `break`).      *)
THEOREM SlotBoundHolds == SessionSafety => []SlotBound
<1>1. SessionInit => SlotBound
  <2>1. SessionInit => InFlight = {}
    BY DEF SessionInit, InFlight
  <2>2. QED
    BY <2>1, FS_EmptySet, ConcurrencyAssumption DEF SlotBound
<1>2. SessionTypeOK /\ HandlingSound /\ SlotBound /\ [SessionNext]_vars => SlotBound'
  BY SlotStep
<1>3. QED
  BY <1>1, <1>2, SessionTypeCorrect, PTL DEF SessionSafety

-----------------------------------------------------------------------------
(* Fates, and the entries of the walk's queue.                              *)

Needing(n) == {d \in Nodes : n \in Needs[d]}

LEMMA FateSets ==
  ASSUME SessionTypeOK
  PROVE  /\ InFlight \subseteq Nodes /\ Resulted \subseteq Nodes /\ Succeeded \subseteq Resulted
         /\ Settled \subseteq Nodes /\ TakenUp \subseteq Nodes
         /\ \A n \in Nodes : Needs[n] \subseteq Nodes
BY OrderAssumption DEF SessionTypeOK, FateTypeOK, LoopTypeOK, InFlight, Resulted, Succeeded, Settled,
  TakenUp, NoResult

LEMMA OrphansQueued ==
  ASSUME NEW n \in Nodes
  PROVE  Entries(Orphans(n)) = Needing(n)
<1>1. Dependents[n] \in Seq(Nodes) /\ Len(Dependents[n]) \in Nat
  BY DependentsAssumption
<1>2. Len(Orphans(n)) = Len(Dependents[n])
  BY <1>1 DEF Orphans
<1>3. \A i \in 1..Len(Dependents[n]) : Orphans(n)[i][1] = Dependents[n][i]
  BY <1>1 DEF Orphans
<1>4. {Dependents[n][i] : i \in 1..Len(Dependents[n])} = Needing(n)
  BY DependentsAssumption DEF Needing
<1>5. QED
  BY <1>2, <1>3, <1>4 DEF Entries

LEMMA ConcatEntries ==
  ASSUME NEW s \in Seq(Nodes \X Nodes), NEW t \in Seq(Nodes \X Nodes)
  PROVE  Entries(s \o t) = Entries(s) \cup Entries(t)
<1> DEFINE q == s \o t
<1>1. /\ Len(s) \in Nat /\ Len(t) \in Nat
      /\ Len(q) = Len(s) + Len(t)
      /\ \A i \in 1..Len(s) + Len(t) : q[i] = IF i <= Len(s) THEN s[i] ELSE t[i - Len(s)]
  BY ConcatProperties, LenProperties
<1> HIDE DEF q
<1>2. ASSUME NEW i \in 1..Len(q)
      PROVE  q[i][1] \in Entries(s) \cup Entries(t)
  <2>1. CASE i <= Len(s)
    BY <2>1, <1>1 DEF Entries
  <2>2. CASE i > Len(s)
    <3>1. i - Len(s) \in 1..Len(t) /\ q[i] = t[i - Len(s)]
      BY <2>2, <1>1
    <3>2. QED
      BY <3>1 DEF Entries
  <2>3. QED
    BY <2>1, <2>2, <1>1
<1>3. ASSUME NEW i \in 1..Len(s)
      PROVE  s[i][1] \in Entries(q)
  BY <1>1 DEF Entries
<1>4. ASSUME NEW i \in 1..Len(t)
      PROVE  t[i][1] \in Entries(q)
  <2>1. i \in Nat /\ i >= 1 /\ i <= Len(t)
    BY <1>1
  <2>2. /\ Len(s) + i \in 1..Len(q) /\ ~(Len(s) + i <= Len(s))
        /\ (Len(s) + i) - Len(s) = i
    BY <1>1, <2>1
  <2>3. q[Len(s) + i] = t[i]
    BY <1>1, <2>2
  <2>4. QED
    BY <2>2, <2>3 DEF Entries
<1>5. Entries(q) \subseteq Entries(s) \cup Entries(t)
  <2>1. ASSUME NEW m \in Entries(q)
        PROVE  m \in Entries(s) \cup Entries(t)
    <3>1. PICK i \in 1..Len(q) : m = q[i][1]
      BY DEF Entries
    <3>2. QED
      BY <3>1, <1>2
  <2>2. QED
    BY <2>1
<1>6. Entries(s) \subseteq Entries(q)
  BY <1>3 DEF Entries
<1>7. Entries(t) \subseteq Entries(q)
  BY <1>4 DEF Entries
<1>8. QED
  BY <1>5, <1>6, <1>7 DEF q

(* Dequeuing removes the head only.                                         *)
LEMMA TailEntries ==
  ASSUME NEW q \in Seq(Nodes \X Nodes), q # <<>>
  PROVE  /\ Head(q)[1] \in Entries(q)
         /\ Entries(q) \subseteq {Head(q)[1]} \cup Entries(Tail(q))
         /\ Entries(Tail(q)) \subseteq Entries(q)
<1>1. /\ Len(q) \in Nat /\ Len(q) >= 1
      /\ Head(q) = q[1]
      /\ Len(Tail(q)) = Len(q) - 1
      /\ \A i \in 1..Len(Tail(q)) : Tail(q)[i] = q[i + 1]
  <2>1. Len(q) \in Nat /\ Len(q) # 0
    BY EmptySeq, LenProperties
  <2>2. Head(q) = q[1]
    OBVIOUS
  <2>3. QED
    BY <2>1, <2>2, HeadTailProperties
<1>2. Head(q)[1] \in Entries(q)
  BY <1>1 DEF Entries
<1>3. ASSUME NEW i \in 1..Len(q), i # 1
      PROVE  q[i][1] \in Entries(Tail(q))
  <2>1. i - 1 \in 1..Len(Tail(q)) /\ Tail(q)[i - 1] = q[(i - 1) + 1]
    BY <1>3, <1>1
  <2>2. Tail(q)[i - 1] = q[i]
    BY <2>1, <1>1
  <2>3. QED
    BY <2>1, <2>2 DEF Entries
<1>4. Entries(Tail(q)) \subseteq Entries(q)
  <2>1. ASSUME NEW i \in 1..Len(Tail(q))
        PROVE  Tail(q)[i][1] \in Entries(q)
    <3>1. i + 1 \in 1..Len(q) /\ Tail(q)[i] = q[i + 1]
      BY <1>1
    <3>2. QED
      BY <3>1 DEF Entries
  <2>2. QED
    BY <2>1 DEF Entries
<1>5. QED
  BY <1>1, <1>2, <1>3, <1>4 DEF Entries

-----------------------------------------------------------------------------
(* Moves: what a change of one Node's fate does to OneFate,                 *)
(* TakenUpWhenReady and IndegreeExact.                                      *)

Moved == OneFate /\ TakenUpWhenReady /\ IndegreeExact

LEMMA QuietMove ==
  ASSUME Moved, UNCHANGED <<InFlight, Resulted, Succeeded, skipped, awaiting, satisfied, indegree>>,
         Looping' => Looping
  PROVE  Moved'
<1>1. UNCHANGED <<Settled, Executed, TakenUp>>
  BY DEF Settled, Executed, TakenUp
<1>2. OneFate' /\ TakenUpWhenReady'
  BY <1>1 DEF Moved, OneFate, TakenUpWhenReady
<1>3. IndegreeExact'
  BY <1>1 DEF Moved, IndegreeExact
<1>4. QED
  BY <1>2, <1>3 DEF Moved

(* One settled Node is one need less for each of its dependents.            *)
LEMMA SettleOne ==
  ASSUME SessionTypeOK, Looping, IndegreeExact, NEW n \in Nodes \ Settled,
         Settled' = Settled \cup {n}, OnSettled(n)
  PROVE  IndegreeExact'
<1> SUFFICES ASSUME NEW d \in Nodes
             PROVE  indegree'[d] = Cardinality(Needs[d] \ Settled')
  BY DEF IndegreeExact
<1>1. Needs[d] \ Settled \in SUBSET Nodes
  BY OrderAssumption
<1>2. indegree[d] = Cardinality(Needs[d] \ Settled)
  BY DEF IndegreeExact
<1>3. CASE n \notin Needs[d]
  <2>1. Needs[d] \ Settled' = Needs[d] \ Settled
    BY <1>3
  <2>2. QED
    BY <1>2, <1>3, <2>1 DEF OnSettled
<1>4. CASE n \in Needs[d]
  <2>1. Needs[d] \ Settled' = (Needs[d] \ Settled) \ {n}
    BY <1>4
  <2>2. Cardinality((Needs[d] \ Settled) \ {n}) = Cardinality(Needs[d] \ Settled) - 1
    <3>1. n \in Needs[d] \ Settled /\ IsFiniteSet(Needs[d] \ Settled)
      BY <1>1, <1>4, NodeSets
    <3>2. QED
      BY <3>1, FS_RemoveElement
  <2>3. QED
    BY <1>2, <1>4, <2>1, <2>2 DEF OnSettled
<1>5. QED
  BY <1>3, <1>4

Unfated(n) == n \notin InFlight \cup Resulted \cup skipped \cup awaiting \cup satisfied

LEMMA SkipMove ==
  ASSUME SessionTypeOK, Moved, Looping, NEW n \in Nodes, Unfated(n),
         skipped' = skipped \cup {n}, OnSettled(n),
         UNCHANGED <<InFlight, Resulted, Succeeded, awaiting, satisfied>>
  PROVE  Moved' /\ n \notin Settled /\ UNCHANGED <<TakenUp, Failed>>
<1>1. /\ n \notin Settled
      /\ Settled' = Settled \cup {n}
      /\ UNCHANGED <<Executed, TakenUp, Failed>>
  BY FateSets DEF Unfated, Settled, Executed, TakenUp, Failed
<1>2. OneFate'
  BY DEF Moved, OneFate, Unfated
<1>3. TakenUpWhenReady'
  BY <1>1 DEF Moved, TakenUpWhenReady
<1>4. IndegreeExact'
  BY <1>1, SettleOne DEF Moved
<1>5. QED
  BY <1>1, <1>2, <1>3, <1>4 DEF Moved

(* A ready Node has only settled needs (IndegreeExact) and is not orphaned  *)
(* (WalkSound): that is all its join asks for.                              *)
LEMMA TakeUpMove ==
  ASSUME SessionTypeOK, Moved, WalkSound, phase = "launch", Looping', NEW n \in Ready,
         \/ InFlight' = InFlight \cup {n} /\ awaiting' = awaiting
         \/ InFlight' = InFlight /\ awaiting' = awaiting \cup {n},
         UNCHANGED <<Resulted, Succeeded, skipped, satisfied, indegree>>
  PROVE  Moved'
<1>1. Unfated(n) /\ n \in Nodes
  BY DEF Ready, Unfated
<1>2. UNCHANGED <<Settled, Executed>> /\ TakenUp' = TakenUp \cup {n}
  BY DEF Settled, Executed, TakenUp
<1>3. Looping
  BY DEF Looping
<1>4. OneFate'
  BY <1>1 DEF Moved, OneFate, Unfated
<1>5. IndegreeExact'
  BY <1>2, <1>3 DEF Moved, IndegreeExact
<1>6. Needs[n] \subseteq Settled
  <2>1. Cardinality(Needs[n] \ Settled) = 0
    BY <1>1, <1>3 DEF Moved, IndegreeExact, Ready
  <2>2. Needs[n] \ Settled \in SUBSET Nodes
    BY <1>1, OrderAssumption
  <2>3. Needs[n] \ Settled = {}
    BY <2>1, <2>2, NodeSets
  <2>4. QED
    BY <2>3
<1>7. ~Orphaned(n)
  BY <1>1, <1>3 DEF WalkSound, Unfated
<1>8. /\ n \notin JoinAny => Needs[n] \subseteq Executed
      /\ Needs[n] # {} => Needs[n] \cap Executed # {}
  BY <1>6, <1>7 DEF Orphaned, Settled, Executed
<1>9. TakenUpWhenReady'
  BY <1>2, <1>6, <1>8 DEF Moved, TakenUpWhenReady
<1>10. QED
  BY <1>4, <1>5, <1>9 DEF Moved

LEMMA RetryMove ==
  ASSUME SessionTypeOK, Moved, Looping, NEW n \in InFlight, InFlight' = InFlight \ {n},
         UNCHANGED <<Resulted, Succeeded, skipped, awaiting, satisfied, indegree>>
  PROVE  Moved' /\ TakenUp' \subseteq TakenUp
<1>1. UNCHANGED <<Settled, Executed>> /\ TakenUp' \subseteq TakenUp
  BY DEF Settled, Executed, TakenUp
<1>2. OneFate'
  BY DEF Moved, OneFate
<1>3. TakenUpWhenReady' /\ IndegreeExact'
  BY <1>1 DEF Moved, TakenUpWhenReady, IndegreeExact
<1>4. QED
  BY <1>1, <1>2, <1>3 DEF Moved

LEMMA ResultMove ==
  ASSUME SessionTypeOK, Moved, NEW n \in InFlight, InFlight' = InFlight \ {n},
         Resulted' = Resulted \cup {n},
         \/ Succeeded' = Succeeded \cup {n} /\ (Looping' => Looping /\ OnSettled(n))
         \/ Succeeded' = Succeeded /\ (Looping' => Looping /\ UNCHANGED indegree),
         UNCHANGED <<skipped, awaiting, satisfied>>
  PROVE  Moved' /\ n \notin Settled /\ UNCHANGED TakenUp
<1>1. n \in Nodes /\ n \notin Settled /\ UNCHANGED TakenUp
  BY FateSets DEF Moved, OneFate, Settled, TakenUp
<1>2. OneFate'
  BY DEF Moved, OneFate
<1>3. CASE Succeeded' = Succeeded \cup {n} /\ (Looping' => Looping /\ OnSettled(n))
  <2>1. Settled' = Settled \cup {n} /\ Executed' = Executed \cup {n}
    BY <1>3 DEF Settled, Executed
  <2>2. TakenUpWhenReady'
    BY <2>1, <1>1 DEF Moved, TakenUpWhenReady
  <2>3. Looping' => IndegreeExact'
    BY <2>1, <1>1, <1>3, SettleOne DEF Moved
  <2>4. QED
    BY <1>1, <1>2, <2>2, <2>3 DEF Moved, IndegreeExact
<1>4. CASE Succeeded' = Succeeded /\ (Looping' => Looping /\ UNCHANGED indegree)
  <2>1. UNCHANGED <<Settled, Executed>>
    BY <1>4 DEF Settled, Executed
  <2>2. TakenUpWhenReady' /\ IndegreeExact'
    BY <2>1, <1>1, <1>4 DEF Moved, TakenUpWhenReady, IndegreeExact
  <2>3. QED
    BY <1>1, <1>2, <2>2 DEF Moved
<1>5. QED
  BY <1>3, <1>4

-----------------------------------------------------------------------------
(* What the walk relies on.                                                 *)

LEMMA StillWalk ==
  ASSUME WalkSound, TakenUp' \subseteq TakenUp, UNCHANGED <<Failed, skipped>>, Looping' => Looping,
         \/ phase' # "walk" /\ (Looping' => phase # "walk" \/ Queued = {})
         \/ UNCHANGED <<phase, queue, origin>>
  PROVE  WalkSound'
<1>1. \A n \in Nodes : Orphaned(n)' <=> Orphaned(n)
  BY DEF Orphaned
<1>2. CASE phase' # "walk" /\ (Looping' => phase # "walk" \/ Queued = {})
  BY <1>1, <1>2 DEF WalkSound
<1>3. CASE UNCHANGED <<phase, queue, origin>>
  <2>1. Queued' = Queued
    BY <1>3 DEF Queued
  <2>2. QED
    BY <1>1, <1>3, <2>1 DEF WalkSound
<1>4. QED
  BY <1>2, <1>3

(* The dependents of a Node that has not settled were not taken up.         *)
LEMMA DependentsWait ==
  ASSUME SessionTypeOK, Moved, NEW n \in Nodes \ Settled
  PROVE  Needing(n) \cap TakenUp = {}
BY DEF Moved, TakenUpWhenReady, Needing

LEMMA SkipStartsWalk ==
  ASSUME SessionTypeOK, Moved, WalkSound, phase = "launch", phase' = "walk",
         NEW n \in Nodes \ Settled, skipped' = skipped \cup {n}, UNCHANGED <<TakenUp, Failed>>,
         queue' = Orphans(n), origin' = NoNode
  PROVE  WalkSound'
<1>1. Queued' = Needing(n)
  BY OrphansQueued DEF Queued
<1>2. Queued' \cap TakenUp' = {}
  BY <1>1, DependentsWait
<1>3. \A m \in Nodes : Orphaned(m) => m \in skipped
  BY DEF WalkSound, Looping
<1>4. \A m \in Nodes \ skipped' : Needs[m] \cap Failed' = {}
  BY <1>3 DEF Orphaned
<1>5. ASSUME NEW m \in Nodes, Orphaned(m)'
      PROVE  m \in skipped' \/ m \in Queued'
  <2>1. Orphaned(m) \/ n \in Needs[m]
    BY <1>5 DEF Orphaned
  <2>2. QED
    BY <2>1, <1>1, <1>3 DEF Needing
<1>6. QED
  BY <1>2, <1>4, <1>5 DEF WalkSound

LEMMA FailureStartsWalk ==
  ASSUME SessionTypeOK, Moved, WalkSound, phase = "settle", phase' = "walk",
         NEW n \in Nodes \ Settled, Failed' = Failed \cup {n}, UNCHANGED <<TakenUp, skipped>>,
         queue' = Orphans(n), origin' = n
  PROVE  WalkSound'
<1>1. Queued' = Needing(n)
  BY OrphansQueued DEF Queued
<1>2. Queued' \cap TakenUp' = {} /\ origin' # NoNode
  BY <1>1, DependentsWait, NodesAssumption
<1>3. \A m \in Nodes : Orphaned(m) => m \in skipped
  BY DEF WalkSound, Looping
<1>4. ASSUME NEW m \in Nodes, Orphaned(m)'
      PROVE  m \in skipped' \/ m \in Queued'
  <2>1. Orphaned(m) \/ n \in Needs[m]
    BY <1>4 DEF Orphaned
  <2>2. QED
    BY <2>1, <1>1, <1>3 DEF Needing
<1>5. QED
  BY <1>2, <1>4 DEF WalkSound

LEMMA SetsKept ==
  ASSUME UNCHANGED <<task, results>>
  PROVE  UNCHANGED <<InFlight, Resulted, Succeeded, Failed>>
BY DEF InFlight, Resulted, Succeeded, Failed

(* A Node the walk passes is skipped already, or tolerates the branches it  *)
(* lost: it is not orphaned.                                                *)
LEMMA PassKeepsWalk ==
  ASSUME SessionTypeOK, WalkSound, WalkPasses
  PROVE  WalkSound'
<1>1. /\ phase = "walk" /\ phase' = "walk" /\ origin' = origin
      /\ UNCHANGED <<TakenUp, Failed, skipped>>
      /\ queue \in Seq(Nodes \X Nodes) /\ queue # <<>> /\ queue' = Tail(queue)
      /\ (Terminal(Target) \/ Tolerates(Target))
  <2>1. UNCHANGED <<task, results, awaiting, skipped>>
    BY DEF WalkPasses, fateVars
  <2>2. UNCHANGED <<TakenUp, Failed>>
    BY <2>1, SetsKept DEF TakenUp
  <2>3. QED
    BY <2>1, <2>2 DEF WalkPasses, SessionTypeOK, LoopTypeOK
<1>2. /\ Target \in Queued
      /\ Queued \subseteq {Target} \cup Queued'
      /\ Queued' \subseteq Queued
  BY <1>1, TailEntries DEF Queued, Target
<1>3. Target \in Nodes
  BY <1>1, QueueStep
<1>4. Orphaned(Target) => Target \in skipped
  <2>1. CASE Terminal(Target)
    BY <2>1, <1>1, <1>2 DEF Terminal, WalkSound, TakenUp
  <2>2. CASE Tolerates(Target)
    BY <2>2, <1>1, <1>3 DEF Tolerates, JoinAware, WalkSound, Orphaned
  <2>3. QED
    BY <1>1, <2>1, <2>2
<1>5. \A m \in Nodes : Orphaned(m)' <=> Orphaned(m)
  BY <1>1 DEF Orphaned
<1>6. QED
  BY <1>1, <1>2, <1>4, <1>5 DEF WalkSound, Looping

LEMMA SkipKeepsWalk ==
  ASSUME SessionTypeOK, Moved, WalkSound, phase = "walk", phase' = "walk", UNCHANGED origin,
         NEW n \in Nodes \ Settled, skipped' = skipped \cup {n}, UNCHANGED <<TakenUp, Failed>>,
         queue # <<>>, n = Target, queue' = Tail(queue) \o Orphans(n)
  PROVE  WalkSound'
<1>1. queue \in Seq(Nodes \X Nodes) /\ Tail(queue) \in Seq(Nodes \X Nodes)
      /\ Orphans(n) \in Seq(Nodes \X Nodes)
  BY QueueStep, OrphansType DEF SessionTypeOK, LoopTypeOK
<1>2. Queued' = Entries(Tail(queue)) \cup Needing(n)
  <2>1. Entries(Tail(queue) \o Orphans(n)) = Entries(Tail(queue)) \cup Entries(Orphans(n))
    BY <1>1, ConcatEntries, Zenon
  <2>2. Queued' = Entries(queue')
    BY DEF Queued, Entries
  <2>3. QED
    BY <2>1, <2>2, OrphansQueued
<1>3. Queued \subseteq {n} \cup Queued' /\ Queued' \subseteq Queued \cup Needing(n)
  BY <1>1, <1>2, TailEntries DEF Queued, Target
<1>4. Queued' \cap TakenUp' = {}
  BY <1>3, DependentsWait DEF WalkSound
<1>5. ASSUME NEW m \in Nodes, Orphaned(m)'
      PROVE  m \in skipped' \/ m \in Queued'
  <2>1. Orphaned(m) \/ n \in Needs[m]
    BY <1>5 DEF Orphaned
  <2>2. QED
    BY <2>1, <1>2, <1>3 DEF Needing, WalkSound, Looping
<1>6. QED
  BY <1>4, <1>5 DEF WalkSound

-----------------------------------------------------------------------------
(* What the actions do to the fates.                                        *)

LEMMA ConcludeEffect ==
  ASSUME SessionTypeOK, OneFate, NEW n \in Nodes, task[n] \in NodeResults, Conclude(n)
  PROVE  /\ n \in InFlight
         /\ InFlight' = InFlight \ {n}
         /\ Resulted' = Resulted \cup {n}
         /\ Succeeded' = IF task[n].status = "succeeded" THEN Succeeded \cup {n} ELSE Succeeded
         /\ task[n].status # "succeeded" => Failed' = Failed \cup {n}
         /\ task[n].status = "succeeded" => Failed' = Failed
         /\ UNCHANGED <<skipped, awaiting>>
<1>1. task \in [Nodes -> TaskStates] /\ results \in [Nodes -> NodeResults \cup {NoResult}]
  BY DEF SessionTypeOK, FateTypeOK
<1>2. task[n] # NoResult /\ NoResult.status # "succeeded"
  BY DEF NodeResults, NoResult, AttemptStatus, FailureKinds
<1>3. task' = [task EXCEPT ![n] = NoResult] /\ results' = [results EXCEPT ![n] = task[n]]
      /\ UNCHANGED <<skipped, awaiting>>
  BY DEF Conclude
<1>4. n \in InFlight /\ InFlight' = InFlight \ {n}
  BY <1>1, <1>2, <1>3 DEF InFlight
<1>5. Resulted' = Resulted \cup {n}
  BY <1>1, <1>2, <1>3 DEF Resulted
<1>6. n \notin Resulted /\ results[n] = NoResult
  BY <1>4 DEF OneFate, Resulted
<1>7. Succeeded' = IF task[n].status = "succeeded" THEN Succeeded \cup {n} ELSE Succeeded
  BY <1>1, <1>2, <1>3, <1>6 DEF Succeeded
<1>8. n \notin Succeeded
  BY <1>2, <1>6 DEF Succeeded
<1>9. QED
  BY <1>3, <1>4, <1>5, <1>6, <1>7, <1>8 DEF Failed

(* The actions that move no Node.                                           *)
LEMMA QuietActions ==
  ASSUME SessionTypeOK, HandlingSound, WalkSound,
         \/ WriteEvent \/ LaunchReturn \/ WaitReturns \/ BatchDone \/ WalkPasses \/ WalkDone
         \/ DrainDone \/ FinalizeRun \/ FinishParked \/ FinishRun \/ Interrupt \/ Ended
         \/ UNCHANGED vars
         \/ \E n \in Nodes : \/ AttemptEnds(n) \/ HandleRaised(n) \/ HandleAttempt(n)
                             \/ DrainAttempt(n) \/ FinalizeNode(n)
  PROVE  /\ UNCHANGED <<InFlight, Resulted, Succeeded, Failed, TakenUp, skipped, awaiting, satisfied,
                        indegree>>
         /\ Looping' => Looping
         /\ WalkSound'
<1> DEFINE Kept == UNCHANGED <<InFlight, Resulted, Succeeded, Failed, TakenUp, skipped, awaiting,
                               satisfied, indegree>>
           Calm == (Looping' => Looping) /\
                   (\/ phase' # "walk" /\ (Looping' => phase # "walk" \/ Queued = {})
                    \/ UNCHANGED <<phase, queue, origin>>)
<1>1. ASSUME UNCHANGED <<task, results, skipped, awaiting, satisfied, indegree>>
      PROVE  Kept
  BY <1>1, SetsKept DEF TakenUp
<1>2. ASSUME Kept, Calm
      PROVE  WalkSound'
  BY <1>2, StillWalk
<1>3. CASE WriteEvent \/ UNCHANGED vars \/ Ended
  BY <1>1, <1>2, <1>3 DEF WriteEvent, Ended, vars, fateVars, seedVars, loopVars, Looping
<1>4. CASE LaunchReturn \/ WaitReturns \/ BatchDone \/ Interrupt \/ DrainDone
  BY <1>1, <1>2, <1>4 DEF LaunchReturn, WaitReturns, BatchDone, Interrupt, DrainDone, fateVars,
    seedVars, Looping
<1>5. CASE FinalizeRun \/ FinishParked \/ FinishRun
  BY <1>1, <1>2, <1>5 DEF FinalizeRun, FinishParked, FinishRun, fateVars, seedVars, Looping
<1>6. CASE WalkDone
  <2>1. Queued = {}
    BY <1>6 DEF WalkDone, Queued, Entries
  <2>2. QED
    BY <1>1, <1>2, <1>6, <2>1 DEF WalkDone, fateVars, seedVars, Looping
<1>7. CASE WalkPasses
  BY <1>1, <1>7, PassKeepsWalk DEF WalkPasses, fateVars, seedVars, Looping
<1>8. ASSUME NEW n \in Nodes, AttemptEnds(n)
      PROVE  Kept /\ (Looping' => Looping) /\ WalkSound'
  <2>1. PICK status \in Outcomes, out \in BOOLEAN :
          task' = [task EXCEPT ![n] = [status |-> status, out |-> out]]
    BY <1>8 DEF AttemptEnds
  <2>2. [status |-> status, out |-> out] # NoResult
    BY OutcomesAssumption DEF NoResult, AttemptStatus, FailureKinds
  <2>3. n \in InFlight
    BY <1>8 DEF AttemptEnds, InFlight, InFlightResult, NoResult
  <2>4. InFlight' = InFlight
    BY <2>1, <2>2, <2>3 DEF InFlight, SessionTypeOK, FateTypeOK
  <2>5. UNCHANGED <<results, skipped, awaiting, satisfied, indegree, phase, queue, origin>>
    BY <1>8 DEF AttemptEnds, seedVars, loopVars
  <2>6. Kept
    BY <2>4, <2>5 DEF Resulted, Succeeded, Failed, TakenUp
  <2>7. QED
    BY <1>2, <2>5, <2>6 DEF Looping
<1>9. ASSUME NEW n \in Nodes,
             HandleRaised(n) \/ HandleAttempt(n) \/ DrainAttempt(n) \/ FinalizeNode(n)
      PROVE  Kept /\ (Looping' => Looping) /\ WalkSound'
  BY <1>1, <1>2, <1>9 DEF HandleRaised, HandleAttempt, DrainAttempt, FinalizeNode, fateVars, seedVars,
    Looping
<1>10. QED
  BY <1>3, <1>4, <1>5, <1>6, <1>7, <1>8, <1>9

-----------------------------------------------------------------------------
(* Every step keeps the invariant.                                          *)

(* No skip of a fresh session meets a row it does not know of.              *)
LEMMA NoBreach ==
  ASSUME SessionTypeOK, FreshRows, WalkSound
  PROVE  SkipNeverBreaches
<1>1. SUFFICES ASSUME phase = "walk", NEW n \in Nodes, Reaches(n), n \notin started, rows[n] # "absent"
               PROVE  FALSE
  BY DEF SkipNeverBreaches
<1>2. queue # <<>> /\ n = Target /\ n \in awaiting
  BY <1>1 DEF Reaches, FreshRows
<1>3. Target \in Queued
  BY <1>2, TailEntries DEF Queued, Target, SessionTypeOK, LoopTypeOK
<1>4. QED
  BY <1>1, <1>2, <1>3 DEF WalkSound, TakenUp

(* A satisfied Node has a row that the session does not count as its own:   *)
(* no walk writes it.                                                       *)
SatisfiedApart == \A n \in satisfied : n \notin started /\ rows[n] # "absent"

(* What the fates of a session satisfy, whatever it was seeded with.        *)
SessionSound == SessionTypeOK /\ HandlingSound /\ SatisfiedApart /\ Moved /\ WalkSound

LEMMA FreshIsSound ==
  ASSUME SessionInv PROVE SessionSound
BY DEF SessionInv, SessionSound, FreshRows, SatisfiedApart, Moved

LEMMA MoveStep ==
  ASSUME SessionSound, [SessionNext]_vars
  PROVE  Moved' /\ WalkSound'
<1> USE DEF SessionSound
<1>1. CASE \/ WriteEvent \/ LaunchReturn \/ WaitReturns \/ BatchDone \/ WalkPasses \/ WalkDone
           \/ DrainDone \/ FinalizeRun \/ FinishParked \/ FinishRun \/ Interrupt \/ Ended
           \/ UNCHANGED vars
           \/ \E n \in Nodes : \/ AttemptEnds(n) \/ HandleRaised(n) \/ HandleAttempt(n)
                               \/ DrainAttempt(n) \/ FinalizeNode(n)
  BY <1>1, QuietActions, QuietMove
<1>2. ASSUME NEW n \in Nodes, LaunchSkip(n)
      PROVE  Moved' /\ WalkSound'
  <2>1. /\ Unfated(n) /\ Looping /\ phase = "launch" /\ phase' = "walk"
        /\ skipped' = skipped \cup {n} /\ OnSettled(n)
        /\ UNCHANGED <<awaiting, satisfied>> /\ queue' = Orphans(n) /\ origin' = NoNode
    BY <1>2 DEF LaunchSkip, MayConsider, FirstReady, Ready, Unfated, Looping, RecordSkip, seedVars
  <2>2. UNCHANGED <<InFlight, Resulted, Succeeded, Failed>>
    BY <1>2, SetsKept DEF LaunchSkip, RecordSkip
  <2>3. QED
    BY <2>1, <2>2, SkipMove, SkipStartsWalk
<1>3. ASSUME NEW n \in Nodes, LaunchPark(n)
      PROVE  Moved' /\ WalkSound'
  <2>1. /\ n \in Ready /\ phase = "launch" /\ phase' = "launch"
        /\ awaiting' = awaiting \cup {n} /\ UNCHANGED <<skipped, satisfied, indegree>>
    BY <1>3 DEF LaunchPark, MayConsider, FirstReady, seedVars
  <2>2. UNCHANGED <<InFlight, Resulted, Succeeded, Failed>>
    BY <1>3, SetsKept DEF LaunchPark
  <2>3. Moved'
    BY <2>1, <2>2, TakeUpMove DEF Looping
  <2>4. WalkSound'
    <3>1. \A m \in Nodes : Orphaned(m)' <=> Orphaned(m)
      BY <2>1, <2>2 DEF Orphaned
    <3>2. QED
      BY <2>1, <3>1 DEF WalkSound, Looping
  <2>5. QED
    BY <2>3, <2>4
<1>4. ASSUME NEW n \in Nodes, LaunchStart(n)
      PROVE  Moved' /\ WalkSound'
  <2>1. /\ n \in Ready /\ phase = "launch" /\ phase' = "launch"
        /\ UNCHANGED <<results, skipped, awaiting, satisfied, indegree>>
    BY <1>4 DEF LaunchStart, MayConsider, FirstReady, seedVars
  <2>2. InFlight' = InFlight \cup {n}
    BY <1>4 DEF LaunchStart, InFlight, InFlightResult, NoResult, SessionTypeOK, FateTypeOK
  <2>3. UNCHANGED <<Resulted, Succeeded, Failed>>
    BY <2>1 DEF Resulted, Succeeded, Failed
  <2>4. Moved'
    BY <2>1, <2>2, <2>3, TakeUpMove DEF Looping
  <2>5. WalkSound'
    <3>1. \A m \in Nodes : Orphaned(m)' <=> Orphaned(m)
      BY <2>1, <2>3 DEF Orphaned
    <3>2. QED
      BY <2>1, <3>1 DEF WalkSound, Looping
  <2>6. QED
    BY <2>4, <2>5
<1>5. ASSUME NEW n \in Nodes, SettleSuccess(n)
      PROVE  Moved' /\ WalkSound'
  <2>1. /\ task[n] \in NodeResults /\ task[n].status = "succeeded" /\ Conclude(n)
        /\ OnSettled(n) /\ phase = "settle" /\ phase' = "handle" /\ UNCHANGED satisfied
    BY <1>5 DEF SettleSuccess, HandlingSound, seedVars
  <2>2. /\ n \in InFlight /\ InFlight' = InFlight \ {n} /\ Resulted' = Resulted \cup {n}
        /\ Succeeded' = Succeeded \cup {n} /\ UNCHANGED <<Failed, skipped, awaiting>>
    BY <2>1, ConcludeEffect DEF Moved
  <2>3. Moved' /\ UNCHANGED TakenUp
    BY <2>1, <2>2, ResultMove DEF Looping
  <2>4. QED
    BY <2>1, <2>2, <2>3, StillWalk DEF Looping
<1>6. ASSUME NEW n \in Nodes, SettleRetry(n)
      PROVE  Moved' /\ WalkSound'
  <2>1. /\ n = current /\ task[n] \in NodeResults /\ phase = "settle" /\ phase' = "handle"
        /\ task' = [task EXCEPT ![n] = NoResult]
        /\ UNCHANGED <<results, skipped, awaiting, satisfied, indegree>>
    BY <1>6 DEF SettleRetry, HandlingSound, seedVars
  <2>2. n \in InFlight /\ InFlight' = InFlight \ {n}
    BY <2>1 DEF InFlight, NoResult, NodeResults, AttemptStatus, FailureKinds, SessionTypeOK, FateTypeOK
  <2>3. UNCHANGED <<Resulted, Succeeded, Failed>>
    BY <2>1 DEF Resulted, Succeeded, Failed
  <2>4. Moved' /\ TakenUp' \subseteq TakenUp
    BY <2>1, <2>2, <2>3, RetryMove DEF Looping
  <2>5. QED
    BY <2>1, <2>3, <2>4, StillWalk DEF Looping
<1>7. ASSUME NEW n \in Nodes, SettleFailure(n)
      PROVE  Moved' /\ WalkSound'
  <2>1. /\ task[n] \in NodeResults /\ task[n].status # "succeeded" /\ Conclude(n)
        /\ phase = "settle" /\ phase' = "walk" /\ UNCHANGED <<indegree, satisfied>>
        /\ queue' = Orphans(n) /\ origin' = n
    BY <1>7 DEF SettleFailure, HandlingSound, seedVars
  <2>2. /\ n \in InFlight /\ InFlight' = InFlight \ {n} /\ Resulted' = Resulted \cup {n}
        /\ Succeeded' = Succeeded /\ Failed' = Failed \cup {n} /\ UNCHANGED <<skipped, awaiting>>
    BY <2>1, ConcludeEffect DEF Moved
  <2>3. Moved' /\ n \notin Settled /\ UNCHANGED TakenUp
    BY <2>1, <2>2, ResultMove DEF Looping
  <2>4. QED
    BY <2>1, <2>2, <2>3, FailureStartsWalk
<1>8. ASSUME NEW n \in Nodes, WalkSkips(n)
      PROVE  Moved' /\ WalkSound'
  <2>1. /\ phase = "walk" /\ phase' = "walk" /\ UNCHANGED <<origin, awaiting, satisfied>>
        /\ skipped' = skipped \cup {n} /\ OnSettled(n) /\ n \notin Resulted \cup skipped \cup satisfied
        /\ queue # <<>> /\ n = Target /\ queue' = Tail(queue) \o Orphans(n)
    BY <1>8 DEF WalkSkips, Reaches, Terminal, RecordSkip, SatisfiedApart, seedVars
  <2>2. UNCHANGED <<InFlight, Resulted, Succeeded, Failed>>
    BY <1>8, SetsKept DEF WalkSkips, RecordSkip
  <2>3. Target \in Queued
    BY <2>1, TailEntries DEF Queued, Target, SessionTypeOK, LoopTypeOK
  <2>4. Unfated(n)
    BY <2>1, <2>3 DEF WalkSound, TakenUp, Unfated
  <2>5. QED
    BY <2>1, <2>2, <2>4, SkipMove, SkipKeepsWalk DEF Looping
<1>9. ASSUME NEW n \in Nodes, DrainSettles(n)
       PROVE  Moved' /\ WalkSound'
  <2>1. /\ task[n] \in NodeResults /\ Conclude(n) /\ phase' = "drain" /\ UNCHANGED satisfied
    BY <1>9 DEF DrainSettles, HandlingSound, seedVars
  <2>2. /\ n \in InFlight /\ InFlight' = InFlight \ {n} /\ Resulted' = Resulted \cup {n}
        /\ Succeeded' = Succeeded \cup {n} \/ Succeeded' = Succeeded
        /\ UNCHANGED <<skipped, awaiting>>
    BY <2>1, ConcludeEffect DEF Moved
  <2>3. ~Looping'
    BY <2>1 DEF Looping
  <2>4. Moved'
    BY <2>1, <2>2, <2>3, ResultMove
  <2>5. WalkSound'
    BY <2>1, <2>3 DEF WalkSound
  <2>6. QED
    BY <2>4, <2>5
<1>10. QED
  BY <1>1, <1>2, <1>3, <1>4, <1>5, <1>6, <1>7, <1>8, <1>9 DEF SessionNext, Step, Environment

(* Every row a fresh session meets is one it wrote itself.                  *)
LEMMA RowsStep ==
  ASSUME SessionTypeOK, FreshRows, [SessionNext]_vars
  PROVE  FreshRows'
<1> DEFINE Kept == /\ UNCHANGED <<satisfied, started, awaiting>>
                   /\ \A m \in Nodes : rows'[m] # "absent" => rows[m] # "absent"
<1>a. rows \in [Nodes -> NodeStatus \cup {"absent"}]
  BY DEF SessionTypeOK, StoreTypeOK
<1>b. ASSUME Kept PROVE FreshRows'
  BY <1>b DEF FreshRows
<1>1. CASE \/ WriteEvent \/ LaunchReturn \/ WaitReturns \/ BatchDone \/ WalkPasses \/ WalkDone
           \/ DrainDone \/ Interrupt \/ Ended \/ UNCHANGED vars
  <2>1. UNCHANGED <<satisfied, started, awaiting, rows>>
    BY <1>1 DEF WriteEvent, LaunchReturn, WaitReturns, BatchDone, WalkPasses, WalkDone, DrainDone,
      Interrupt, Ended, vars, fateVars, seedVars, storeVars
  <2>2. QED
    BY <2>1, <1>b
<1>2. CASE FinalizeRun \/ FinishParked \/ FinishRun
  <2>1. UNCHANGED <<satisfied, started, awaiting, rows>>
    BY <1>2 DEF FinalizeRun, FinishParked, FinishRun, RecordRunStatus, fateVars, seedVars
  <2>2. QED
    BY <2>1, <1>b
<1>3. ASSUME NEW n \in Nodes, LaunchSkip(n) \/ WalkSkips(n)
      PROVE  FreshRows'
  <2>1. /\ UNCHANGED <<satisfied, awaiting>> /\ started' = started \cup {n}
        /\ \A m \in Nodes \ {n} : rows'[m] = rows[m]
    BY <1>3, <1>a DEF LaunchSkip, WalkSkips, RecordSkip, RecordNodeFinished, RecordNodeSkipped, seedVars
  <2>2. QED
    BY <2>1 DEF FreshRows
<1>4. ASSUME NEW n \in Nodes, LaunchPark(n)
      PROVE  FreshRows'
  BY <1>4, <1>a DEF LaunchPark, RecordNodeAwaiting, FreshRows, seedVars
<1>5. ASSUME NEW n \in Nodes, LaunchStart(n)
      PROVE  FreshRows'
  BY <1>5, <1>a DEF LaunchStart, RecordNodeRunning, RecordNodeStarted, FreshRows, seedVars
<1>6. ASSUME NEW n \in Nodes,
             \/ AttemptEnds(n) \/ HandleRaised(n) \/ HandleAttempt(n) \/ DrainAttempt(n) \/ SettleRetry(n)
      PROVE  FreshRows'
  <2>1. UNCHANGED <<satisfied, started, awaiting, rows>>
    BY <1>6 DEF AttemptEnds, HandleRaised, HandleAttempt, DrainAttempt, SettleRetry, RecordAttempt,
      fateVars, seedVars, storeVars
  <2>2. QED
    BY <2>1, <1>b
<1>7. ASSUME NEW n \in Nodes, SettleSuccess(n) \/ SettleFailure(n) \/ DrainSettles(n) \/ FinalizeNode(n)
      PROVE  FreshRows'
  <2>1. UNCHANGED <<satisfied, started, awaiting>>
    BY <1>7 DEF SettleSuccess, SettleFailure, DrainSettles, FinalizeNode, Conclude, fateVars, seedVars
  <2>2. PICK status : rows' = [rows EXCEPT ![n] = IF @ = "absent" THEN @ ELSE status]
    BY <1>7 DEF SettleSuccess, SettleFailure, DrainSettles, FinalizeNode, Conclude, RecordNodeFinished
  <2>3. QED
    BY <2>1, <2>2, <1>a, <1>b
<1>8. QED
  BY <1>1, <1>2, <1>3, <1>4, <1>5, <1>6, <1>7 DEF SessionNext, Step, Environment

LEMMA InvInit == SessionInit => SessionInv
<1> SUFFICES ASSUME SessionInit PROVE SessionInv
  OBVIOUS
<1>1. SessionTypeOK /\ HandlingSound
  BY TypeInit
<1>2. /\ InFlight = {} /\ Resulted = {} /\ Succeeded = {} /\ skipped = {} /\ awaiting = {}
      /\ satisfied = {} /\ phase = "launch" /\ indegree = [n \in Nodes |-> Cardinality(Needs[n])]
  BY DEF SessionInit, InFlight, Resulted, Succeeded, NoResult
<1>3. Settled = {} /\ TakenUp = {} /\ Failed = {}
  BY <1>2 DEF Settled, TakenUp, Failed
<1>4. FreshRows /\ OneFate /\ TakenUpWhenReady
  BY <1>2, <1>3 DEF SessionInit, FreshRows, OneFate, TakenUpWhenReady
<1>5. IndegreeExact
  <2>1. \A n \in Nodes : Needs[n] \ Settled = Needs[n]
    BY <1>3
  <2>2. QED
    BY <1>2, <2>1 DEF IndegreeExact
<1>6. WalkSound
  BY <1>2, <1>3 DEF WalkSound, Orphaned
<1>7. QED
  BY <1>1, <1>4, <1>5, <1>6 DEF SessionInv

(* The inductive invariant of a session.                                    *)
THEOREM SessionInvHolds == SessionSafety => []SessionInv
<1>1. SessionInit => SessionInv
  BY InvInit
<1>2. SessionInv /\ [SessionNext]_vars => SessionInv'
  <2>1. SUFFICES ASSUME SessionInv, [SessionNext]_vars PROVE SessionInv'
    OBVIOUS
  <2>2. /\ SessionTypeOK /\ HandlingSound /\ FreshRows /\ Moved /\ WalkSound
    BY <2>1 DEF SessionInv, Moved
  <2>3. SessionTypeOK' /\ HandlingSound'
    BY <2>1, <2>2, TypeStep
  <2>4. Moved' /\ WalkSound'
    BY <2>1, FreshIsSound, MoveStep
  <2>5. FreshRows'
    BY <2>1, <2>2, RowsStep
  <2>6. QED
    BY <2>3, <2>4, <2>5 DEF SessionInv, Moved
<1>3. QED
  BY <1>1, <1>2, PTL DEF SessionSafety

(* What the scheduler promises of a fate, for every Workflow: a Node is     *)
(* only taken up when its join allows it (_ready_nodes, _park_gate,         *)
(* _launch_ready).                                                          *)
THEOREM TakenUpWhenReadyHolds == SessionSafety => []TakenUpWhenReady
BY SessionInvHolds, PTL DEF SessionInv

(* No Node ever has two fates, although two walks skip Nodes while others   *)
(* are in flight (_is_terminal, _record_skip).                              *)
THEOREM OneFateHolds == SessionSafety => []OneFate
BY SessionInvHolds, PTL DEF SessionInv

(* The shared indegree counter never drifts from the graph (_on_success,    *)
(* _on_skip).                                                               *)
THEOREM IndegreeExactHolds == SessionSafety => []IndegreeExact
BY SessionInvHolds, PTL DEF SessionInv

(* The INSERT of _record_skip cannot breach the primary key of the node     *)
(* rows while the session is that of a fresh Run.                           *)
THEOREM SkipNeverBreachesHolds == SessionSafety => []SkipNeverBreaches
<1>1. SessionInv => SkipNeverBreaches
  BY NoBreach DEF SessionInv
<1>2. QED
  BY <1>1, SessionInvHolds, PTL

(* Between walks no orphaned Node is left unskipped: the breadth-first walk *)
(* computes the whole closure (_propagate_skips).                           *)
THEOREM SkipsCompleteHolds == SessionSafety => []SkipsComplete
<1>1. SessionInv => SkipsComplete
  BY DEF SessionInv, WalkSound, SkipsComplete
<1>2. QED
  BY <1>1, SessionInvHolds, PTL
=============================================================================
