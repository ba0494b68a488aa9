------------------------------ MODULE RunProofs ------------------------------
(***************************************************************************)
(* Proofs of what a Run promises over its whole life (RunProperties), for  *)
(* every Workflow, any number of sessions, and interrupts and kills at any *)
(* point.  Three inductive invariants carry them:                          *)
(*                                                                         *)
(*   DurableInv: State is sound by itself (Attempts are numbered without a *)
(*   gap, every succeeded row is backed by its latest Attempt), and what   *)
(*   the session at work remembers of a Node agrees with it.  It rests on  *)
(*   the four things one step can do to State (Effect).                    *)
(*                                                                         *)
(*   ResumeInv: a session seeded from any such State works by the rules    *)
(*   of a fresh one (FatesSound, by the steps of SessionInvariant and      *)
(*   SessionOutcome), State shows its fates (RowOf), and the status of the *)
(*   Run claims no more than the rows bear out (StandingSound).            *)
(*                                                                         *)
(*   HistoryInv: what sessions left behind of a Node is what a `when` may  *)
(*   rely on.  A Node that was ever taken up had found all it needs in     *)
(*   State (TriedInv); no session can run a Node in Withheld any more; and *)
(*   every skip is in Withheld or came with all its dependents             *)
(*   (CasualtyInv), so that no `when` is evaluated over it.                *)
(*                                                                         *)
(* Two more hold as long as no process is killed between two writes:       *)
(* RejectionInv and AwaitedInv.                                            *)
(***************************************************************************)
EXTENDS RunProperties, SessionOutcome

USE DEF At, Go

-----------------------------------------------------------------------------
(* The phases of _drive_scheduler: a session is at work.                    *)
Live == phase \in Phases \ {"idle"}

RunTypeOK ==
  /\ StoreTypeOK /\ TraceTypeOK /\ FateTypeOK /\ LoopTypeOK
  /\ phase \in Phases \cup {"reject", "approve", "approving"}

(* Attempts and rows, whatever process wrote them.                          *)
Backed(n) ==
  \E a \in attempts : a.node = n /\ a.attempt = MaxAttempt(n) /\ a.status = "succeeded"

StoreOf(n) ==
  /\ MaxAttempt(n) \in Nat /\ Numbers(n) = 1..MaxAttempt(n)
  /\ rows[n] = "absent" => Numbers(n) = {}
  /\ rows[n] = "succeeded" => Backed(n)

StoreSound ==
  /\ runStatus = "absent" => phase = "idle" /\ WithStatus({"absent"}) = Nodes
  /\ \A n \in Nodes : StoreOf(n)

(* A decision is only ever applied to a gate that still awaits it.          *)
DecisionSound ==
  /\ phase \in {"reject", "approve", "approving"} => todo \subseteq WithStatus({"awaiting"})
  /\ phase = "approving" => current \in todo /\ Backed(current)

(* What a session keeps in memory of a Node agrees with State.              *)
MemoryOf(n) ==
  /\ n \in InFlight => n \in started \ (Resulted \cup satisfied)
  /\ n \in started => n \notin satisfied /\ rows[n] # "absent"
  /\ n \in satisfied \cup Succeeded <=> rows[n] = "succeeded"
  /\ n \notin Resulted \cup satisfied =>
       IF n = current
       THEN /\ nextAttempt[n] = MaxAttempt(n)
            /\ task[n].status = "succeeded" => Backed(n)
       ELSE nextAttempt[n] = MaxAttempt(n) + 1

MemorySound ==
  Live =>
    /\ HandlingSound
    /\ phase = "finalize" => batch \subseteq InFlight
    /\ \A n \in Nodes : MemoryOf(n)

DurableInv == RunTypeOK /\ StoreSound /\ DecisionSound /\ MemorySound
-----------------------------------------------------------------------------
(* Types.                                                                   *)

LEMMA StepIsLive ==
  ASSUME Step \/ Environment, ~WriteEvent PROVE Live
BY DEF Step, Environment, LaunchReturn, WaitReturns, BatchDone, WalkPasses, WalkDone, DrainDone,
  Interrupt, FinalizeRun, FinishParked, FinishRun, LaunchSkip, LaunchPark, LaunchStart, WalkSkips,
  AttemptEnds, HandleRaised, SettleRetry, FinalizeNode, HandleAttempt, DrainAttempt, SettleSuccess,
  SettleFailure, DrainSettles, Live, Phases

(* The steps of a session are those the proofs of a fresh one are about.    *)
LEMMA LiveStep ==
  ASSUME RunTypeOK, MemorySound, Live, Step \/ Environment
  PROVE  SessionTypeOK /\ HandlingSound /\ [SessionNext]_vars /\ SessionTypeOK' /\ HandlingSound'
<1>1. SessionTypeOK /\ HandlingSound
  BY DEF RunTypeOK, SessionTypeOK, MemorySound, Live
<1>2. [SessionNext]_vars
  BY DEF SessionNext
<1> QED BY <1>1, <1>2, TypeStep

LEMMA SeedTypes ==
  ASSUME RunTypeOK, NEW done \in SUBSET Nodes, NEW known \in SUBSET Nodes,
         NEW number \in [Nodes -> Nat], NEW parked \in SUBSET Nodes, Seed(done, known, number, parked)
  PROVE  FateTypeOK' /\ LoopTypeOK'
<1>1. \A n \in Nodes : Cardinality(Needs[n]) - Cardinality(Needs[n] \cap done) \in Int
  <2> TAKE n \in Nodes
  <2>1. Needs[n] \in SUBSET Nodes /\ Needs[n] \cap done \in SUBSET Nodes
    BY OrderAssumption
  <2> QED BY <2>1, NodeSets
<1>2. FateTypeOK'
  BY <1>1 DEF Seed, FateTypeOK, TaskStates
<1>3. LoopTypeOK'
  BY EmptySeq DEF Seed, LoopTypeOK
<1> QED BY <1>2, <1>3

LEMMA NextNumberType ==
  ASSUME StoreSound PROVE NextNumber \in [Nodes -> Nat]
BY DEF StoreSound, StoreOf, NextNumber

LEMMA RunTypeStep ==
  ASSUME DurableInv, [RunNext]_runVars PROVE RunTypeOK'
<1> USE DEF Phases
<1>1. RunTypeOK /\ MemorySound /\ StoreSound
  BY DEF DurableInv
<1>2. CASE Live /\ (Step \/ Environment)
  BY <1>1, <1>2, LiveStep DEF SessionTypeOK, RunTypeOK
<1>3. CASE WriteEvent
  <2>1. UNCHANGED <<storeVars, phase, fateVars, seedVars, loopVars>> /\ TraceTypeOK'
    BY <1>1, <1>3, AppendType DEF WriteEvent, RunTypeOK
  <2> QED BY <1>1, <2>1 DEF RunTypeOK, StoreTypeOK, FateTypeOK, LoopTypeOK, storeVars, fateVars,
        seedVars, loopVars
<1>4. CASE UNCHANGED vars
  <2>1. TraceTypeOK'
    BY <1>1, <1>4, TraceKept DEF RunTypeOK, vars
  <2> QED BY <1>1, <1>4, <2>1 DEF RunTypeOK, StoreTypeOK, FateTypeOK, LoopTypeOK, vars, storeVars,
        fateVars, seedVars, loopVars
<1>5. CASE Start
  <2>1. FateTypeOK' /\ LoopTypeOK'
    BY <1>1, <1>5, SeedTypes DEF Start
  <2>2. StoreTypeOK' /\ TraceTypeOK'
    BY <1>1, <1>5, OweType DEF Start, RecordRunStarted, RunTypeOK, StoreTypeOK, RunStatus, RunEvents
  <2> QED BY <1>5, <2>1, <2>2 DEF Start, RunTypeOK
<1>6. ASSUME NEW gates \in SUBSET Gates, ResumeApproving(gates) \/ ResumeRejecting(gates)
      PROVE  RunTypeOK'
  <2>1. /\ UNCHANGED <<storeVars, traceVars, fateVars, satisfied, loopVars>>
        /\ awaitingSeed' = WithStatus({"awaiting"}) /\ phase' \in {"approve", "reject"}
    BY <1>6 DEF ResumeApproving, ResumeRejecting, Resume
  <2>2. TraceTypeOK'
    BY <1>1, <2>1, TraceKept DEF RunTypeOK
  <2> QED BY <1>1, <2>1, <2>2 DEF RunTypeOK, StoreTypeOK, FateTypeOK, LoopTypeOK, storeVars,
        fateVars, loopVars, WithStatus
<1>7. CASE RejectRun
  <2>1. TraceTypeOK'
    BY <1>1, <1>7, OweType DEF RejectRun, RunTypeOK, RunEvents
  <2> QED BY <1>1, <1>7, <2>1 DEF RejectRun, RecordRunStatus, RunTypeOK, StoreTypeOK, RunStatus,
        FateTypeOK, LoopTypeOK, fateVars, seedVars, loopVars
<1>8. CASE Reopen
  <2>1. Done \in SUBSET Nodes /\ Known \in SUBSET Nodes /\ awaitingSeed \in SUBSET Nodes
    BY <1>1 DEF Done, Known, WithStatus, RunTypeOK, LoopTypeOK
  <2>2. FateTypeOK' /\ LoopTypeOK'
    BY <1>1, <1>8, <2>1, NextNumberType, SeedTypes DEF Reopen
  <2>3. StoreTypeOK' /\ TraceTypeOK'
    BY <1>1, <1>8, OweType DEF Reopen, RecordRunStatus, RunTypeOK, StoreTypeOK, RunStatus, RunEvents
  <2> QED BY <1>8, <2>2, <2>3 DEF Reopen, RunTypeOK
<1>9. ASSUME NEW g \in Gates, RejectGate(g) PROVE RunTypeOK'
  <2>1. g \in Nodes
    BY PolicyAssumption
  <2>2. StoreTypeOK' /\ TraceTypeOK'
    BY <1>1, <1>9, <2>1, NodeFinishedType, OweType DEF RejectGate, RunTypeOK, NodeStatus, NodeEvents
  <2> QED BY <1>1, <1>9, <2>2 DEF RejectGate, RunTypeOK, FateTypeOK, LoopTypeOK, fateVars, seedVars,
        loopVars
<1>10. ASSUME NEW g \in Gates, ApproveAttempt(g) PROVE RunTypeOK'
  <2>1. g \in Nodes /\ [status |-> "succeeded", out |-> FALSE] \in NodeResults /\ 1 \in Nat
    BY PolicyAssumption DEF NodeResults, AttemptStatus
  <2>2. StoreTypeOK' /\ TraceTypeOK'
    BY <1>1, <1>10, <2>1, AttemptType, TraceKept DEF ApproveAttempt, RunTypeOK, OweNothing
  <2> QED BY <1>1, <1>10, <2>1, <2>2 DEF ApproveAttempt, RunTypeOK, FateTypeOK, LoopTypeOK, fateVars,
        seedVars
<1>11. ASSUME NEW g \in Gates, ApproveGate(g) PROVE RunTypeOK'
  <2>1. g \in Nodes
    BY PolicyAssumption
  <2>2. StoreTypeOK' /\ TraceTypeOK'
    BY <1>1, <1>11, <2>1, NodeFinishedType, OweType DEF ApproveGate, RunTypeOK, NodeStatus,
      AttemptStatus, NodeEvents
  <2> QED BY <1>1, <1>11, <2>2 DEF ApproveGate, RunTypeOK, FateTypeOK, LoopTypeOK, fateVars, seedVars
<1>12. ASSUME NEW g \in Gates, ApproveCollides(g) PROVE RunTypeOK'
  <2>1. TraceTypeOK'
    BY <1>1, <1>12, TraceKept DEF ApproveCollides, RunTypeOK
  <2> QED BY <1>1, <1>12, <2>1 DEF ApproveCollides, RunTypeOK, StoreTypeOK, FateTypeOK, LoopTypeOK,
        storeVars, fateVars, seedVars, loopVars
<1>13. CASE Kill
  <2>1. TraceTypeOK'
    BY <1>1, <1>13 DEF Kill, RunTypeOK, TraceTypeOK, NoEvent, Events
  <2> QED BY <1>1, <1>13, <2>1 DEF Kill, RunTypeOK, StoreTypeOK, FateTypeOK, LoopTypeOK, storeVars,
        fateVars, seedVars, loopVars
<1>14. ASSUME NEW n \in Nodes, WalkBreaches(n) PROVE RunTypeOK'
  <2>1. TraceTypeOK'
    BY <1>1, <1>14, TraceKept DEF WalkBreaches, RunTypeOK
  <2>2. WalkBlocker(n) \in Nodes \cup {NoNode}
    <3>1. queue # <<>> /\ queue \in Seq(Nodes \X Nodes)
      BY <1>1, <1>14 DEF WalkBreaches, Reaches, RunTypeOK, LoopTypeOK
    <3>2. Orphaner \in Nodes
      BY <3>1, QueueStep
    <3> QED BY <1>1, <3>2 DEF WalkBlocker, RunTypeOK, LoopTypeOK
  <2> QED BY <1>1, <1>14, <2>1, <2>2 DEF WalkBreaches, RunTypeOK, StoreTypeOK, FateTypeOK, LoopTypeOK,
        storeVars, seedVars, loopVars
<1> QED BY <1>1, <1>2, <1>3, <1>4, <1>5, <1>6, <1>7, <1>8, <1>9, <1>10, <1>11, <1>12, <1>13, <1>14,
      StepIsLive DEF RunNext, Advance, ResumeStep, Human, Cancel, Ends, AtRest, runVars, Environment
-----------------------------------------------------------------------------
(* What one step does to State: nothing, a row that is not a success, a     *)
(* success that is backed, or the next Attempt of a Node that has none that *)
(* succeeded.                                                               *)

Spares == UNCHANGED <<rows, attempts>>

Marks(n) ==
  /\ rows[n] # "succeeded" /\ UNCHANGED attempts
  /\ \E status \in NodeStatus \ {"succeeded"} : rows' = [rows EXCEPT ![n] = status]

Completes(n) ==
  /\ rows[n] \notin {"succeeded", "absent"} /\ Backed(n) /\ UNCHANGED attempts
  /\ rows' = [rows EXCEPT ![n] = "succeeded"]

Records(n) ==
  /\ rows[n] \notin {"succeeded", "absent"} /\ UNCHANGED rows
  /\ \E status, out : attempts' = attempts \cup
       {[node |-> n, attempt |-> MaxAttempt(n) + 1, status |-> status, out |-> out]}

LEMMA FinishedRow ==
  ASSUME NEW n \in Nodes, NEW status, NEW cause, RecordNodeFinished(n, status, cause),
         rows[n] # "absent"
  PROVE  rows' = [rows EXCEPT ![n] = status] /\ UNCHANGED attempts
BY DEF RecordNodeFinished

LEMMA CurrentInFlight ==
  ASSUME RunTypeOK, HandlingSound, phase \in {"settle", "drained"}
  PROVE  current \in Nodes /\ task[current] \in NodeResults /\ current \in InFlight
BY DEF HandlingSound, InFlight, NoResult, NodeResults, AttemptStatus, FailureKinds

LEMMA ConcludeEffectOnState ==
  ASSUME DurableInv, phase \in {"settle", "drained"}, Conclude(current)
  PROVE  Marks(current) \/ Completes(current)
<1>1. /\ RunTypeOK /\ HandlingSound /\ MemoryOf(current) /\ current \in Nodes
      /\ task[current] \in NodeResults /\ current \in InFlight
  BY CurrentInFlight DEF DurableInv, MemorySound, Live, Phases, HandlingSound
<1>2. /\ current \in started /\ rows[current] # "absent" /\ current \notin Resulted \cup satisfied
      /\ (task[current].status = "succeeded" => Backed(current))
  BY <1>1 DEF MemoryOf
<1>3. rows[current] # "succeeded"
  BY <1>1, <1>2 DEF MemoryOf, Succeeded, Resulted, NoResult
<1>4. rows' = [rows EXCEPT ![current] = task[current].status] /\ UNCHANGED attempts
  BY <1>1, <1>2, FinishedRow DEF Conclude
<1>5. task[current].status \in NodeStatus
  BY <1>1 DEF NodeResults, NodeStatus
<1> QED BY <1>2, <1>3, <1>4, <1>5 DEF Marks, Completes

(* A Node without a result of this session or an earlier one is not on      *)
(* record as succeeded.                                                     *)
LEMMA NotSucceeded ==
  ASSUME DurableInv, Live, NEW n \in Nodes, n \notin Resulted \cup satisfied
  PROVE  rows[n] # "succeeded"
BY DEF DurableInv, MemorySound, MemoryOf, Succeeded, Resulted, NoResult

LEMMA SkipEffect ==
  ASSUME DurableInv, Live, NEW n \in Nodes, n \notin Resulted,
         n \notin satisfied \/ n \in started \/ rows[n] = "absent",
         NEW cause, NEW by, RecordSkip(n, cause, by)
  PROVE  Marks(n)
<1>1. n \in started => n \notin satisfied /\ rows[n] # "absent"
  BY DEF DurableInv, MemorySound, MemoryOf
<1>2. rows[n] # "succeeded"
  BY <1>1, NotSucceeded
<1>3. rows' = [rows EXCEPT ![n] = "skipped"] /\ UNCHANGED attempts
  <2>1. CASE n \in started
    BY <1>1, <2>1, FinishedRow DEF RecordSkip
  <2>2. CASE n \notin started
    BY <2>2 DEF RecordSkip, RecordNodeSkipped
  <2> QED BY <2>1, <2>2
<1> QED BY <1>2, <1>3 DEF Marks, NodeStatus

LEMMA HandledNode ==
  ASSUME DurableInv, NEW n \in Nodes, HandleAttempt(n) \/ DrainAttempt(n)
  PROVE  /\ n \in InFlight /\ n \in started \ (Resulted \cup satisfied)
         /\ rows[n] \notin {"succeeded", "absent"}
         /\ current = NoNode /\ n # current /\ nextAttempt[n] = MaxAttempt(n) + 1
<1>1. Live /\ HandlingSound /\ MemoryOf(n)
  BY DEF DurableInv, MemorySound, HandleAttempt, DrainAttempt, Live, Phases
<1>2. n \in InFlight /\ current = NoNode
  BY <1>1 DEF HandlingSound, HandlingBatch, HandleAttempt, DrainAttempt, Drainable, Finished
<1>3. rows[n] # "succeeded"
  BY <1>1, <1>2, NotSucceeded DEF MemoryOf
<1> QED BY <1>1, <1>2, <1>3, NodesAssumption DEF MemoryOf

LEMMA ReadyNode ==
  ASSUME DurableInv, Live, NEW n \in Ready
  PROVE  n \in Nodes /\ n \notin InFlight \cup Resulted \cup satisfied /\ rows[n] # "succeeded"
<1>1. n \in Nodes /\ n \notin InFlight \cup Resulted \cup satisfied
  BY DEF Ready
<1> QED BY <1>1, NotSucceeded

LEMMA StepEffect ==
  ASSUME DurableInv, Step \/ Environment
  PROVE  Spares \/ \E n \in Nodes : Marks(n) \/ Completes(n) \/ Records(n)
<1>1. CASE WriteEvent \/ LaunchReturn \/ WaitReturns \/ BatchDone \/ WalkPasses \/ WalkDone
           \/ DrainDone \/ Interrupt \/ FinalizeRun \/ FinishParked \/ FinishRun
  BY <1>1 DEF WriteEvent, LaunchReturn, WaitReturns, BatchDone, WalkPasses, WalkDone, DrainDone,
    Interrupt, FinalizeRun, FinishParked, FinishRun, RecordRunStatus, storeVars, Spares
<1>2. ASSUME NEW n \in Nodes, AttemptEnds(n) \/ HandleRaised(n) \/ SettleRetry(n) PROVE Spares
  BY <1>2 DEF AttemptEnds, HandleRaised, SettleRetry, storeVars, Spares
<1>3. ASSUME NEW n \in Nodes, LaunchSkip(n) \/ WalkSkips(n) PROVE Marks(n)
  <2>1. Live /\ n \notin Resulted /\ (n \notin satisfied \/ n \in started \/ rows[n] = "absent")
    BY <1>3 DEF LaunchSkip, WalkSkips, MayConsider, FirstReady, Ready, Reaches, Terminal, Live, Phases
  <2> QED BY <1>3, <2>1, SkipEffect DEF LaunchSkip, WalkSkips
<1>4. ASSUME NEW n \in Nodes, LaunchPark(n) \/ LaunchStart(n) PROVE Marks(n)
  <2>1. Live /\ n \in Ready
    BY <1>4 DEF LaunchPark, LaunchStart, MayConsider, FirstReady, Live, Phases
  <2> QED BY <1>4, <2>1, ReadyNode DEF LaunchPark, LaunchStart, RecordNodeAwaiting, RecordNodeRunning,
        RecordNodeStarted, Marks, NodeStatus
<1>5. ASSUME NEW n \in Nodes, HandleAttempt(n) \/ DrainAttempt(n) PROVE Records(n)
  BY <1>5, HandledNode DEF HandleAttempt, DrainAttempt, RecordAttempt, Records
<1>6. ASSUME NEW n \in Nodes, SettleSuccess(n) \/ SettleFailure(n) \/ DrainSettles(n)
      PROVE  Marks(n) \/ Completes(n)
  BY <1>6, ConcludeEffectOnState DEF SettleSuccess, SettleFailure, DrainSettles
<1>7. ASSUME NEW n \in Nodes, FinalizeNode(n) PROVE Marks(n)
  <2>1. /\ Live /\ n \in InFlight /\ MemoryOf(n)
        /\ rows \in [Nodes -> NodeStatus \cup {"absent"}]
    BY <1>7 DEF FinalizeNode, Live, Phases, DurableInv, MemorySound, RunTypeOK, StoreTypeOK
  <2>2. rows[n] # "absent" /\ rows[n] # "succeeded"
    BY <2>1, NotSucceeded DEF MemoryOf
  <2> QED BY <1>7, <2>2, FinishedRow DEF FinalizeNode, Marks, NodeStatus, AttemptStatus, FailureKinds
<1> QED BY <1>1, <1>2, <1>3, <1>4, <1>5, <1>6, <1>7 DEF Step, Environment

LEMMA Effect ==
  ASSUME DurableInv, [RunNext]_runVars
  PROVE  Spares \/ \E n \in Nodes : Marks(n) \/ Completes(n) \/ Records(n)
<1>1. Gates \subseteq Nodes
  BY PolicyAssumption
<1>2. CASE Start \/ RejectRun \/ Reopen \/ Kill \/ AtRest \/ UNCHANGED runVars
           \/ (\E gates \in SUBSET Gates : ResumeApproving(gates) \/ ResumeRejecting(gates))
           \/ (\E g \in Gates : ApproveCollides(g)) \/ (\E n \in Nodes : WalkBreaches(n))
  BY <1>2 DEF Start, RejectRun, Reopen, Kill, AtRest, ResumeApproving, ResumeRejecting, Resume,
    ApproveCollides, WalkBreaches, RecordRunStarted, RecordRunStatus, runVars, vars, storeVars, Spares
<1>3. ASSUME NEW g \in Gates, RejectGate(g) PROVE Marks(g)
  <2>1. rows[g] = "awaiting"
    BY <1>3 DEF RejectGate, DurableInv, DecisionSound, WithStatus
  <2> QED BY <1>1, <1>3, <2>1, FinishedRow DEF RejectGate, Marks, NodeStatus
<1>4. ASSUME NEW g \in Gates, ApproveGate(g) PROVE Completes(g)
  <2>1. rows[g] = "awaiting" /\ Backed(g)
    BY <1>4 DEF ApproveGate, DurableInv, DecisionSound, WithStatus
  <2> QED BY <1>1, <1>4, <2>1, FinishedRow DEF ApproveGate, Completes
<1>5. ASSUME NEW g \in Gates, ApproveAttempt(g) PROVE Records(g)
  <2>1. rows[g] = "awaiting" /\ 1 \notin Numbers(g)
    BY <1>5 DEF ApproveAttempt, RecordAttempt, DurableInv, DecisionSound, WithStatus
  <2>2. MaxAttempt(g) \in Nat /\ Numbers(g) = 1..MaxAttempt(g)
    BY <1>1 DEF DurableInv, StoreSound, StoreOf
  <2>3. MaxAttempt(g) = 0
    BY <2>1, <2>2
  <2>4. MaxAttempt(g) + 1 = 1
    BY <2>3
  <2> QED BY <1>5, <2>1, <2>4 DEF ApproveAttempt, RecordAttempt, Records
<1> QED BY <1>1, <1>2, <1>3, <1>4, <1>5, StepEffect DEF RunNext, Advance, ResumeStep, Human, Cancel,
      Ends, Environment
-----------------------------------------------------------------------------
(* What State holds stays sound.                                            *)

LEMMA StoreFrame ==
  ASSUME NEW m \in Nodes, AttemptsOf(m)' = AttemptsOf(m)
  PROVE  Numbers(m)' = Numbers(m) /\ MaxAttempt(m)' = MaxAttempt(m) /\ (Backed(m)' <=> Backed(m))
<1>1. Numbers(m) = {a.attempt : a \in AttemptsOf(m)}
  BY DEF Numbers, AttemptsOf
<1>2. Numbers(m)' = {a.attempt : a \in AttemptsOf(m)'}
  BY DEF Numbers, AttemptsOf
<1>3. Numbers(m)' = Numbers(m)
  BY <1>1, <1>2
<1>4. MaxAttempt(m)' = MaxAttempt(m)
  BY <1>3 DEF MaxAttempt
<1> QED BY <1>3, <1>4 DEF Backed, AttemptsOf

LEMMA RecordsFrame ==
  ASSUME NEW n \in Nodes, Records(n), NEW m \in Nodes, m # n PROVE AttemptsOf(m)' = AttemptsOf(m)
BY DEF Records, AttemptsOf

LEMMA RecordsNumbers ==
  ASSUME NEW n \in Nodes, StoreOf(n), Records(n)
  PROVE  Numbers(n)' = 1..MaxAttempt(n)' /\ MaxAttempt(n)' = MaxAttempt(n) + 1
<1> DEFINE Of(S) == {b \in S : b.node = n}
<1>1. MaxAttempt(n) \in Nat /\ Numbers(n) = 1..MaxAttempt(n)
  BY DEF StoreOf
<1>2. PICK new : new.node = n /\ new.attempt = MaxAttempt(n) + 1 /\ attempts' = attempts \cup {new}
  <2>1. PICK status, out : attempts' = attempts \cup
          {[node |-> n, attempt |-> MaxAttempt(n) + 1, status |-> status, out |-> out]}
    BY DEF Records
  <2> QED BY <2>1
<1>3. Of(attempts') = Of(attempts) \cup {new}
  BY <1>2
<1>4. Numbers(n)' = {a.attempt : a \in Of(attempts')} /\ Numbers(n) = {a.attempt : a \in Of(attempts)}
  BY DEF Numbers
<1> HIDE DEF Of
<1>5. Numbers(n)' = Numbers(n) \cup {MaxAttempt(n) + 1}
  BY <1>2, <1>3, <1>4
<1>6. MaxAttempt(n) + 1 \in Nat /\ Numbers(n)' = 1..(MaxAttempt(n) + 1)
  BY <1>1, <1>5
<1>7. MaxAttempt(n)' = MaxAttempt(n) + 1
  <2> DEFINE k == MaxAttempt(n) + 1
             Top(S) == IF S = {} THEN 0 ELSE CHOOSE x \in S : \A j \in S : j <= x
  <2>1. MaxAttempt(n)' = Top(Numbers(n)')
    BY DEF MaxAttempt
  <2>2. k \in Nat \ {0} /\ Numbers(n)' = 1..k
    BY <1>1, <1>6
  <2> HIDE DEF k
  <2>3. \A x \in 1..k : (\A j \in 1..k : j <= x) => x = k
    <3> TAKE x \in 1..k
    <3>1. k \in 1..k /\ x \in Nat /\ x <= k
      BY <2>2
    <3> QED BY <3>1, <2>2
  <2>4. \E x \in 1..k : \A j \in 1..k : j <= x
    <3>1. k \in 1..k /\ \A j \in 1..k : j <= k
      BY <2>2
    <3> QED BY <3>1
  <2>5. Top(1..k) = k
    <3>1. 1..k # {}
      BY <2>4
    <3> QED BY <2>3, <2>4, <3>1, Zenon
  <2> QED BY <2>1, <2>2, <2>5 DEF k
<1> QED BY <1>6, <1>7

LEMMA StoreOfStep ==
  ASSUME DurableInv, [RunNext]_runVars, NEW m \in Nodes PROVE StoreOf(m)'
<1>1. StoreOf(m) /\ rows \in [Nodes -> NodeStatus \cup {"absent"}]
  BY DEF DurableInv, StoreSound, RunTypeOK, StoreTypeOK
<1>2. ASSUME AttemptsOf(m)' = AttemptsOf(m),
             \/ rows'[m] = rows[m]
             \/ rows'[m] \notin {"succeeded", "absent"}
             \/ Backed(m) /\ rows'[m] # "absent"
      PROVE  StoreOf(m)'
  BY <1>1, <1>2, StoreFrame DEF StoreOf
<1>3. CASE Spares
  BY <1>2, <1>3 DEF Spares, AttemptsOf
<1>4. ASSUME NEW n \in Nodes, Marks(n) PROVE StoreOf(m)'
  <2>1. AttemptsOf(m)' = AttemptsOf(m)
    BY <1>4 DEF Marks, AttemptsOf
  <2>2. rows'[m] = rows[m] \/ rows'[m] \notin {"succeeded", "absent"}
    BY <1>1, <1>4 DEF Marks, NodeStatus, AttemptStatus, FailureKinds
  <2> QED BY <1>2, <2>1, <2>2
<1>5. ASSUME NEW n \in Nodes, Completes(n) PROVE StoreOf(m)'
  <2>1. AttemptsOf(m)' = AttemptsOf(m)
    BY <1>5 DEF Completes, AttemptsOf
  <2>2. rows'[m] = rows[m] \/ (Backed(m) /\ rows'[m] # "absent")
    BY <1>1, <1>5 DEF Completes
  <2> QED BY <1>2, <2>1, <2>2
<1>6. ASSUME NEW n \in Nodes, Records(n) PROVE StoreOf(m)'
  <2>1. CASE m # n
    BY <1>2, <1>6, <2>1, RecordsFrame DEF Records
  <2>2. CASE m = n
    <3>1. Numbers(m)' = 1..MaxAttempt(m)' /\ MaxAttempt(m)' = MaxAttempt(m) + 1
      BY <1>1, <1>6, <2>2, RecordsNumbers
    <3>2. rows'[m] \notin {"succeeded", "absent"} /\ MaxAttempt(m)' \in Nat
      BY <1>1, <1>6, <2>2, <3>1 DEF Records, StoreOf
    <3> QED BY <3>1, <3>2 DEF StoreOf
  <2> QED BY <2>1, <2>2
<1> QED BY <1>3, <1>4, <1>5, <1>6, Effect

LEMMA RunRowStays ==
  ASSUME DurableInv, [RunNext]_runVars, runStatus' = "absent"
  PROVE  runStatus = "absent" /\ phase' = "idle" /\ UNCHANGED rows
<1>1. CASE UNCHANGED runVars \/ AtRest \/ Kill \/ WriteEvent
  BY <1>1 DEF AtRest, Kill, WriteEvent, runVars, vars, storeVars, DurableInv, StoreSound
<1>2. CASE ~(UNCHANGED runVars \/ AtRest \/ Kill \/ WriteEvent)
  <2>1. Start \/ phase # "idle" \/ Resumable
    BY <1>2, StepIsLive DEF RunNext, Advance, ResumeStep, Human, Cancel, Ends, Environment, Live, RejectRun,
      Reopen, RejectGate, ApproveAttempt, ApproveGate, ApproveCollides, ResumeApproving,
      ResumeRejecting, Resume, WalkBreaches
  <2>2. ~Start
    BY DEF Start, RecordRunStarted
  <2>3. runStatus # "absent"
    BY <2>1, <2>2 DEF Resumable, DurableInv, StoreSound
  <2>4. runStatus' = runStatus \/ runStatus' # "absent"
    <3>1. CASE Step \/ Environment
      <4>1. CASE LaunchReturn \/ WaitReturns \/ BatchDone \/ WalkPasses \/ WalkDone \/ DrainDone
                 \/ Interrupt \/ FinalizeRun \/ FinishParked \/ FinishRun
        BY <4>1 DEF LaunchReturn, WaitReturns, BatchDone, WalkPasses, WalkDone, DrainDone, Interrupt,
          FinalizeRun, FinishParked, FinishRun, RecordRunStatus, RunOutcome, storeVars
      <4>2. ASSUME NEW n \in Nodes, LaunchSkip(n) \/ WalkSkips(n) PROVE UNCHANGED runStatus
        BY <4>2 DEF LaunchSkip, WalkSkips, RecordSkip, RecordNodeFinished, RecordNodeSkipped
      <4>3. ASSUME NEW n \in Nodes, \/ LaunchPark(n) \/ LaunchStart(n) \/ AttemptEnds(n)
                   \/ HandleRaised(n) \/ SettleRetry(n) \/ FinalizeNode(n)
            PROVE  UNCHANGED runStatus
        BY <4>3 DEF LaunchPark, LaunchStart, AttemptEnds, HandleRaised, SettleRetry, FinalizeNode,
          RecordNodeFinished, RecordNodeAwaiting, RecordNodeRunning, RecordNodeStarted, storeVars
      <4>4. ASSUME NEW n \in Nodes, \/ HandleAttempt(n) \/ DrainAttempt(n) \/ SettleSuccess(n)
                   \/ SettleFailure(n) \/ DrainSettles(n)
            PROVE  UNCHANGED runStatus
        BY <4>4 DEF HandleAttempt, DrainAttempt, SettleSuccess, SettleFailure, DrainSettles, Conclude,
          RecordNodeFinished, RecordAttempt
      <4> QED BY <1>2, <3>1, <4>1, <4>2, <4>3, <4>4 DEF Step, Environment
    <3> QED BY <1>2, <2>2, <3>1 DEF RunNext, Advance, ResumeStep, Human, Cancel, Ends, Environment,
          RejectRun, Reopen, RejectGate, ApproveAttempt, ApproveGate, ApproveCollides, ResumeApproving,
          ResumeRejecting, Resume, WalkBreaches, RecordNodeFinished, RecordAttempt, RecordRunStatus,
          storeVars
  <2> QED BY <2>3, <2>4
<1> QED BY <1>1, <1>2

LEMMA StoreSoundStep == ASSUME DurableInv, [RunNext]_runVars PROVE StoreSound'
<1>1. \A n \in Nodes : StoreOf(n)'
  BY StoreOfStep
<1>2. runStatus' = "absent" => phase' = "idle" /\ WithStatus({"absent"})' = Nodes
  BY RunRowStays DEF DurableInv, StoreSound, WithStatus
<1> QED BY <1>1, <1>2 DEF StoreSound

LEMMA DecisionStep == ASSUME DurableInv, [RunNext]_runVars PROVE DecisionSound'
<1> USE DEF DecisionSound, WithStatus
<1>1. DecisionSound /\ RunTypeOK /\ StoreSound /\ Gates \subseteq Nodes
      /\ rows \in [Nodes -> NodeStatus \cup {"absent"}]
  BY PolicyAssumption DEF DurableInv, RunTypeOK, StoreTypeOK
<1>2. CASE UNCHANGED runVars \/ AtRest \/ (WriteEvent /\ UNCHANGED resumeVars)
  <2>1. UNCHANGED <<rows, attempts, phase, todo, current>>
    BY <1>2 DEF AtRest, WriteEvent, runVars, vars, storeVars, resumeVars, loopVars
  <2>2. \A g \in Nodes : Backed(g)' <=> Backed(g)
    BY <2>1, StoreFrame DEF AttemptsOf
  <2> QED BY <1>1, <2>1, <2>2
<1>3. CASE (Step \/ Environment) /\ ~WriteEvent
  BY <1>1, <1>3, LiveStep, StepIsLive DEF DurableInv, Phases, SessionTypeOK
<1>4. CASE Start \/ Reopen \/ RejectRun \/ Kill \/ (\E n \in Nodes : WalkBreaches(n))
           \/ (\E g \in Gates : ApproveCollides(g))
  BY <1>4 DEF Start, Reopen, RejectRun, Kill, WalkBreaches, ApproveCollides
<1>5. ASSUME NEW gates \in SUBSET Gates, ResumeApproving(gates) \/ ResumeRejecting(gates)
      PROVE  DecisionSound'
  BY <1>5 DEF ResumeApproving, ResumeRejecting, Resume, storeVars
<1>6. ASSUME NEW g \in Gates, RejectGate(g) PROVE DecisionSound'
  BY <1>1, <1>6 DEF RejectGate, RecordNodeFinished
<1>7. ASSUME NEW g \in Gates, ApproveAttempt(g) PROVE DecisionSound'
  <2>1. g \in todo /\ todo \subseteq {n \in Nodes : rows[n] = "awaiting"} /\ g \in Nodes
        /\ UNCHANGED <<rows, todo>> /\ current' = g /\ 1 \notin Numbers(g)
    BY <1>1, <1>7 DEF ApproveAttempt, RecordAttempt, resumeVars
  <2>2. MaxAttempt(g) \in Nat /\ Numbers(g) = 1..MaxAttempt(g)
    BY <1>1, <2>1 DEF StoreSound, StoreOf
  <2>3. MaxAttempt(g) = 0
    BY <2>1, <2>2
  <2>4. Records(g)
    <3>1. MaxAttempt(g) + 1 = 1 /\ rows[g] = "awaiting"
      BY <2>1, <2>3
    <3> QED BY <1>7, <2>1, <3>1 DEF ApproveAttempt, RecordAttempt, Records
  <2>5. MaxAttempt(g)' = 1
    BY <1>1, <2>1, <2>3, <2>4, RecordsNumbers DEF StoreSound
  <2>6. [node |-> g, attempt |-> 1, status |-> "succeeded", out |-> FALSE] \in attempts'
    BY <1>7 DEF ApproveAttempt, RecordAttempt
  <2>7. Backed(g)'
    BY <2>5, <2>6 DEF Backed
  <2> QED BY <2>1, <2>7
<1>8. ASSUME NEW g \in Gates, ApproveGate(g) PROVE DecisionSound'
  BY <1>1, <1>8 DEF ApproveGate, RecordNodeFinished
<1> QED BY <1>2, <1>3, <1>4, <1>5, <1>6, <1>7, <1>8 DEF RunNext, Advance, ResumeStep, Human, Cancel,
      Ends, Environment
-----------------------------------------------------------------------------
(* What the session remembers stays in agreement with State.                *)

LEMMA MemoryFrame ==
  ASSUME NEW m \in Nodes, MemoryOf(m), AttemptsOf(m)' = AttemptsOf(m),
         m \in InFlight' => m \in InFlight, m \in started' <=> m \in started,
         m \in Resulted' <=> m \in Resulted, m \in Succeeded' <=> m \in Succeeded,
         UNCHANGED satisfied, nextAttempt'[m] = nextAttempt[m],
         rows'[m] = "succeeded" <=> rows[m] = "succeeded", rows[m] # "absent" => rows'[m] # "absent",
         m = current' <=> m = current, m = current => task'[m] = task[m]
  PROVE  MemoryOf(m)'
<1>1. MaxAttempt(m)' = MaxAttempt(m) /\ (Backed(m)' <=> Backed(m))
  BY StoreFrame
<1> QED BY <1>1 DEF MemoryOf

LEMMA MemorySkip ==
  ASSUME DurableInv, Live, NEW n \in Nodes, n \notin Resulted,
         n \notin satisfied \/ n \in started \/ rows[n] = "absent", current = NoNode,
         NEW cause, NEW by, RecordSkip(n, cause, by), UNCHANGED <<satisfied, current>>, NEW m \in Nodes
  PROVE  MemoryOf(m)'
<1>1. MemoryOf(m) /\ RunTypeOK /\ rows \in [Nodes -> NodeStatus \cup {"absent"}] /\ Marks(n)
  BY SkipEffect DEF DurableInv, MemorySound, RunTypeOK, StoreTypeOK
<1>2. /\ UNCHANGED <<task, results, nextAttempt, attempts>> /\ started' = started \cup {n}
      /\ rows' = [rows EXCEPT ![n] = "skipped"]
  BY <1>1 DEF RecordSkip, RecordNodeFinished, RecordNodeSkipped, DurableInv, MemorySound, MemoryOf
<1>3. UNCHANGED <<InFlight, Resulted, Succeeded, AttemptsOf(m)>>
  BY <1>2 DEF InFlight, Resulted, Succeeded, AttemptsOf
<1>4. CASE m # n
  BY <1>1, <1>2, <1>3, <1>4, MemoryFrame
<1>5. CASE m = n
  <2>1. n \notin satisfied /\ n \notin Succeeded /\ rows'[n] = "skipped"
    BY <1>1, <1>2, <1>5 DEF MemoryOf, Succeeded, Resulted, NoResult
  <2>2. MaxAttempt(m)' = MaxAttempt(m)
    BY <1>3, StoreFrame
  <2> QED BY <1>1, <1>2, <1>3, <1>5, <2>1, <2>2, NodesAssumption DEF MemoryOf
<1> QED BY <1>4, <1>5

LEMMA MemoryAttempt ==
  ASSUME DurableInv, NEW n \in Nodes, HandleAttempt(n) \/ DrainAttempt(n), NEW m \in Nodes
  PROVE  MemoryOf(m)'
<1>1. /\ Live /\ MemoryOf(m) /\ MemoryOf(n) /\ StoreOf(n)
      /\ n \in started \ (Resulted \cup satisfied) /\ n \in InFlight
      /\ current = NoNode /\ nextAttempt[n] = MaxAttempt(n) + 1
      /\ rows[n] \notin {"succeeded", "absent"}
  BY HandledNode DEF DurableInv, MemorySound, StoreSound, HandleAttempt, DrainAttempt, Live, Phases
<1>2. /\ UNCHANGED <<rows, task, results, started, nextAttempt, satisfied>> /\ current' = n
      /\ attempts' = attempts \cup {[node |-> n, attempt |-> MaxAttempt(n) + 1,
                                     status |-> task[n].status, out |-> task[n].out]}
  BY <1>1 DEF HandleAttempt, DrainAttempt, RecordAttempt, fateVars, seedVars
<1>3. UNCHANGED <<InFlight, Resulted, Succeeded>> /\ Records(n)
  BY <1>1, <1>2 DEF InFlight, Resulted, Succeeded, Records
<1>4. CASE m # n
  BY <1>1, <1>2, <1>3, <1>4, RecordsFrame, MemoryFrame, NodesAssumption
<1>5. CASE m = n
  <2>1. MaxAttempt(n)' = MaxAttempt(n) + 1
    BY <1>1, <1>3, RecordsNumbers
  <2>2. ASSUME task[n].status = "succeeded" PROVE Backed(n)'
    <3>1. [node |-> n, attempt |-> MaxAttempt(n)', status |-> "succeeded", out |-> task[n].out] \in attempts'
      BY <1>2, <2>1, <2>2
    <3> QED BY <3>1 DEF Backed
  <2> QED BY <1>1, <1>2, <1>3, <1>5, <2>1, <2>2 DEF MemoryOf
<1> QED BY <1>4, <1>5

LEMMA MemoryConclude ==
  ASSUME DurableInv, phase \in {"settle", "drained"}, Conclude(current), UNCHANGED satisfied,
         NEW m \in Nodes
  PROVE  MemoryOf(m)'
<1>1. /\ Live /\ RunTypeOK /\ HandlingSound /\ MemoryOf(m) /\ current \in Nodes
      /\ task[current] \in NodeResults /\ current \in InFlight /\ MemoryOf(current)
      /\ task \in [Nodes -> TaskStates] /\ results \in [Nodes -> NodeResults \cup {NoResult}]
      /\ rows \in [Nodes -> NodeStatus \cup {"absent"}]
  BY CurrentInFlight DEF DurableInv, MemorySound, Live, Phases, HandlingSound, RunTypeOK, FateTypeOK,
    StoreTypeOK
<1>2. current \in started /\ rows[current] # "absent" /\ current \notin Resulted \cup satisfied
  BY <1>1 DEF MemoryOf
<1>3. /\ rows' = [rows EXCEPT ![current] = task[current].status]
      /\ results' = [results EXCEPT ![current] = task[current]]
      /\ task' = [task EXCEPT ![current] = NoResult]
      /\ current' = NoNode /\ UNCHANGED <<attempts, started, nextAttempt>>
  BY <1>1, <1>2, FinishedRow DEF Conclude
<1>4. CASE m # current
  <2>1. /\ m \in InFlight' <=> m \in InFlight
        /\ m \in Resulted' <=> m \in Resulted
        /\ m \in Succeeded' <=> m \in Succeeded
        /\ AttemptsOf(m)' = AttemptsOf(m) /\ rows'[m] = rows[m]
    BY <1>1, <1>3, <1>4 DEF InFlight, Resulted, Succeeded, AttemptsOf
  <2>2. m # current'
    BY <1>3, NodesAssumption
  <2> QED BY <1>1, <1>3, <1>4, <2>1, <2>2, MemoryFrame
<1>5. CASE m = current
  <2>1. m \notin InFlight' /\ results'[m] = task[m] /\ rows'[m] = task[m].status
    BY <1>1, <1>3, <1>5 DEF InFlight
  <2>2. m \in Resulted'
    BY <1>1, <1>5, <2>1 DEF Resulted, NodeResults, NoResult, AttemptStatus, FailureKinds
  <2>3. task[m].status # "absent"
    BY <1>1, <1>5 DEF NodeResults, AttemptStatus, FailureKinds
  <2>4. m \in Succeeded' <=> rows'[m] = "succeeded"
    BY <2>1 DEF Succeeded
  <2> QED BY <1>2, <1>3, <1>5, <2>1, <2>2, <2>3, <2>4 DEF MemoryOf
<1> QED BY <1>4, <1>5

LEMMA MemoryRetry ==
  ASSUME DurableInv, NEW n \in Nodes, SettleRetry(n), NEW m \in Nodes PROVE MemoryOf(m)'
<1>1. /\ Live /\ MemoryOf(m) /\ n = current /\ n \in InFlight /\ n \notin Resulted \cup satisfied
      /\ task \in [Nodes -> TaskStates] /\ nextAttempt \in [Nodes -> Nat]
  BY CurrentInFlight DEF DurableInv, MemorySound, MemoryOf, Live, Phases, SettleRetry, RunTypeOK, FateTypeOK
<1>2. /\ UNCHANGED <<rows, attempts, results, started, satisfied>> /\ current' = NoNode
      /\ nextAttempt' = [nextAttempt EXCEPT ![n] = @ + 1] /\ task' = [task EXCEPT ![n] = NoResult]
  BY DEF SettleRetry, storeVars, seedVars
<1>3. UNCHANGED <<Resulted, Succeeded, AttemptsOf(m)>> /\ (m \in InFlight' => m \in InFlight)
  BY <1>1, <1>2 DEF InFlight, Resulted, Succeeded, AttemptsOf
<1>4. CASE m # n
  BY <1>1, <1>2, <1>3, <1>4, MemoryFrame, NodesAssumption
<1>5. CASE m = n
  <2>1. MaxAttempt(m)' = MaxAttempt(m)
    BY <1>3, StoreFrame
  <2> QED BY <1>1, <1>2, <1>3, <1>5, <2>1, NodesAssumption DEF MemoryOf
<1> QED BY <1>4, <1>5

LEMMA MemoryStart ==
  ASSUME DurableInv, NEW n \in Nodes, LaunchStart(n), NEW m \in Nodes PROVE MemoryOf(m)'
<1>1. /\ Live /\ MemoryOf(m) /\ current = NoNode /\ n \in Ready
      /\ task \in [Nodes -> TaskStates] /\ rows \in [Nodes -> NodeStatus \cup {"absent"}]
  BY DEF DurableInv, MemorySound, HandlingSound, Live, Phases, LaunchStart, MayConsider, FirstReady,
    RunTypeOK, FateTypeOK, StoreTypeOK
<1>2. n \notin Resulted \cup satisfied /\ rows[n] # "succeeded"
  BY <1>1, ReadyNode
<1>3. /\ UNCHANGED <<attempts, results, satisfied, nextAttempt, current>> /\ started' = started \cup {n}
      /\ rows' = [rows EXCEPT ![n] = "running"] /\ task' = [task EXCEPT ![n] = InFlightResult]
  BY DEF LaunchStart, RecordNodeRunning, RecordNodeStarted, seedVars, loopVars
<1>4. UNCHANGED <<Resulted, Succeeded, AttemptsOf(m)>> /\ MaxAttempt(m)' = MaxAttempt(m)
  BY <1>3, StoreFrame DEF Resulted, Succeeded, AttemptsOf
<1>5. CASE m # n
  <2>1. m \in InFlight' <=> m \in InFlight
    BY <1>1, <1>3, <1>5 DEF InFlight
  <2> QED BY <1>1, <1>3, <1>4, <1>5, <2>1, MemoryFrame
<1>6. CASE m = n
  <2>1. m \notin Succeeded /\ rows'[m] = "running"
    BY <1>1, <1>2, <1>3, <1>6 DEF Succeeded, Resulted, NoResult
  <2> QED BY <1>1, <1>2, <1>3, <1>4, <1>6, <2>1, NodesAssumption DEF MemoryOf
<1> QED BY <1>5, <1>6

LEMMA MemoryOfStep ==
  ASSUME DurableInv, Live, Step \/ Environment \/ (\E n \in Nodes : WalkBreaches(n)), NEW m \in Nodes
  PROVE  MemoryOf(m)'
<1>1. /\ MemoryOf(m) /\ HandlingSound /\ task \in [Nodes -> TaskStates]
      /\ rows \in [Nodes -> NodeStatus \cup {"absent"}]
  BY DEF DurableInv, MemorySound, RunTypeOK, FateTypeOK, StoreTypeOK
<1>2. ASSUME UNCHANGED <<attempts, results, started, satisfied, nextAttempt, current, InFlight>>,
             current = NoNode \/ UNCHANGED task,
             UNCHANGED rows \/ \E n \in Nodes : rows[n] \notin {"succeeded", "absent"}
                                            /\ \E s \in {"awaiting", "errored"} : rows' = [rows EXCEPT ![n] = s]
      PROVE  MemoryOf(m)'
  <2>1. UNCHANGED <<Resulted, Succeeded, AttemptsOf(m)>>
    BY <1>2 DEF Resulted, Succeeded, AttemptsOf
  <2>2. (rows'[m] = "succeeded" <=> rows[m] = "succeeded") /\ (rows[m] # "absent" => rows'[m] # "absent")
    BY <1>1, <1>2
  <2> QED BY <1>1, <1>2, <2>1, <2>2, MemoryFrame, NodesAssumption
<1>3. CASE WriteEvent \/ LaunchReturn \/ WaitReturns \/ BatchDone \/ WalkPasses \/ WalkDone
           \/ DrainDone \/ Interrupt \/ FinalizeRun \/ FinishParked \/ FinishRun
           \/ (\E n \in Nodes : HandleRaised(n) \/ WalkBreaches(n))
  <2>1. UNCHANGED <<rows, attempts, results, started, satisfied, nextAttempt, current, task>>
    BY <1>3 DEF WriteEvent, LaunchReturn, WaitReturns, BatchDone, WalkPasses, WalkDone, DrainDone,
      Interrupt, FinalizeRun, FinishParked, FinishRun, RecordRunStatus, HandleRaised, WalkBreaches,
      storeVars, fateVars, seedVars, loopVars
  <2> QED BY <1>2, <2>1 DEF InFlight
<1>4. ASSUME NEW n \in Nodes, AttemptEnds(n) PROVE MemoryOf(m)'
  <2>1. UNCHANGED <<rows, attempts, results, started, satisfied, nextAttempt, current>> /\ current = NoNode
    BY <1>1, <1>4 DEF AttemptEnds, storeVars, seedVars, loopVars, HandlingSound
  <2>2. PICK result : task' = [task EXCEPT ![n] = result] /\ result # NoResult
    <3>1. PICK status \in Outcomes, out \in BOOLEAN :
            task' = [task EXCEPT ![n] = [status |-> status, out |-> out]]
      BY <1>4 DEF AttemptEnds
    <3>2. status # "none"
      BY OutcomesAssumption DEF AttemptStatus, FailureKinds
    <3>3. [status |-> status, out |-> out] # NoResult
      BY <3>2 DEF NoResult
    <3> QED BY <3>1, <3>3
  <2>3. UNCHANGED InFlight
    BY <1>1, <1>4, <2>2 DEF AttemptEnds, InFlight, InFlightResult, NoResult
  <2> QED BY <1>2, <2>1, <2>3
<1>5. ASSUME NEW n \in Nodes, LaunchSkip(n) \/ WalkSkips(n) PROVE MemoryOf(m)'
  <2>1. n \notin Resulted /\ (n \notin satisfied \/ n \in started \/ rows[n] = "absent")
    BY <1>5 DEF LaunchSkip, WalkSkips, MayConsider, FirstReady, Ready, Reaches, Terminal
  <2>2. current = NoNode /\ UNCHANGED <<satisfied, current>>
    BY <1>1, <1>5 DEF LaunchSkip, WalkSkips, HandlingSound, seedVars
  <2> QED BY <1>5, <2>1, <2>2, MemorySkip DEF LaunchSkip, WalkSkips
<1>6. ASSUME NEW n \in Nodes, LaunchPark(n) PROVE MemoryOf(m)'
  <2>1. n \in Ready /\ UNCHANGED <<attempts, results, started, satisfied, nextAttempt, current, task>>
        /\ rows' = [rows EXCEPT ![n] = "awaiting"]
    BY <1>6 DEF LaunchPark, MayConsider, FirstReady, RecordNodeAwaiting, seedVars, loopVars
  <2>2. rows[n] # "succeeded"
    BY <1>6, <2>1, ReadyNode
  <2>3. UNCHANGED <<InFlight, Resulted, Succeeded, AttemptsOf(m)>>
    BY <2>1 DEF InFlight, Resulted, Succeeded, AttemptsOf
  <2>4. (rows'[m] = "succeeded" <=> rows[m] = "succeeded") /\ (rows[m] # "absent" => rows'[m] # "absent")
    BY <1>1, <2>1, <2>2
  <2> QED BY <1>1, <2>1, <2>3, <2>4, MemoryFrame
<1>7. ASSUME NEW n \in Nodes, FinalizeNode(n) PROVE MemoryOf(m)'
  <2>1. n \in InFlight /\ MemoryOf(n)
    BY <1>7 DEF FinalizeNode, Live, DurableInv, MemorySound
  <2>2. rows[n] \notin {"succeeded", "absent"}
    BY <2>1, NotSucceeded DEF MemoryOf
  <2>3. UNCHANGED <<attempts, results, started, satisfied, nextAttempt, current, task>>
        /\ rows' = [rows EXCEPT ![n] = "errored"]
    BY <1>7, <2>2, FinishedRow DEF FinalizeNode, fateVars, seedVars
  <2> QED BY <1>2, <2>2, <2>3 DEF InFlight
<1>8. ASSUME NEW n \in Nodes, SettleSuccess(n) \/ SettleFailure(n) \/ DrainSettles(n)
      PROVE  MemoryOf(m)'
  <2>1. phase \in {"settle", "drained"} /\ Conclude(current) /\ UNCHANGED satisfied
    BY <1>8 DEF SettleSuccess, SettleFailure, DrainSettles, seedVars
  <2> QED BY <2>1, MemoryConclude
<1> QED BY <1>3, <1>4, <1>5, <1>6, <1>7, <1>8, MemoryAttempt, MemoryRetry, MemoryStart DEF Step, Environment

LEMMA SeedMemory ==
  ASSUME RunTypeOK, StoreSound, UNCHANGED <<rows, attempts>>, phase' = "launch",
         NEW parked \in SUBSET Nodes,
         \/ WithStatus({"absent"}) = Nodes /\ Seed({}, {}, [n \in Nodes |-> 1], {})
         \/ Seed(Done, Known, NextNumber, parked)
  PROVE  MemorySound'
<1>1. HandlingSound' /\ current' = NoNode /\ task' = [n \in Nodes |-> NoResult]
      /\ results' = [n \in Nodes |-> NoResult]
  BY DEF Seed, HandlingSound, HandlingBatch
<1>2. InFlight' = {} /\ Resulted' = {} /\ Succeeded' = {}
  BY <1>1 DEF InFlight, Resulted, Succeeded, NoResult
<1>3. ASSUME NEW n \in Nodes PROVE MemoryOf(n)'
  <2>1. MaxAttempt(n)' = MaxAttempt(n) /\ StoreOf(n) /\ rows[n] \in NodeStatus \cup {"absent"}
        /\ "absent" \notin NodeStatus
    BY StoreFrame DEF AttemptsOf, StoreSound, RunTypeOK, StoreTypeOK, NodeStatus, AttemptStatus, FailureKinds
  <2>2. rows[n] = "absent" => MaxAttempt(n) = 0
    BY <2>1 DEF StoreOf, MaxAttempt
  <2>3. MaxAttempt(n) \in Nat /\ (rows[n] = "absent" => 1 = MaxAttempt(n) + 1)
    BY <2>1, <2>2 DEF StoreOf
  <2>4. CASE WithStatus({"absent"}) = Nodes /\ Seed({}, {}, [k \in Nodes |-> 1], {})
    <3>1. rows[n] = "absent" /\ n \notin started' /\ n \notin satisfied' /\ nextAttempt'[n] = 1
      BY <2>4 DEF Seed, WithStatus
    <3> QED BY <1>1, <1>2, <2>1, <2>3, <3>1, NodesAssumption DEF MemoryOf
  <2>5. CASE Seed(Done, Known, NextNumber, parked)
    <3>1. /\ n \in satisfied' <=> rows[n] = "succeeded"
          /\ n \in started' <=> rows[n] \notin {"succeeded", "absent"}
      BY <2>1, <2>5 DEF Seed, Done, Known, WithStatus
    <3>2. rows[n] # "succeeded" => nextAttempt'[n] = MaxAttempt(n) + 1
      BY <2>1, <2>3, <2>5 DEF Seed, NextNumber, Done, Known, WithStatus
    <3> QED BY <1>1, <1>2, <2>1, <3>1, <3>2, NodesAssumption DEF MemoryOf
  <2> QED BY <2>4, <2>5
<1> QED BY <1>1, <1>3 DEF MemorySound

LEMMA MemoryStep == ASSUME DurableInv, [RunNext]_runVars PROVE MemorySound'
<1> SUFFICES ASSUME Live' PROVE MemorySound'
  BY DEF MemorySound
<1>1. RunTypeOK /\ StoreSound /\ MemorySound /\ awaitingSeed \in SUBSET Nodes
  BY DEF DurableInv, RunTypeOK, LoopTypeOK
<1>2. CASE Start
  BY <1>1, <1>2, SeedMemory DEF Start, RecordRunStarted, StoreSound
<1>3. CASE Reopen
  BY <1>1, <1>3, SeedMemory DEF Reopen, RecordRunStatus
<1>4. CASE Live /\ (Step \/ Environment \/ \E n \in Nodes : WalkBreaches(n))
  <2>1. \A m \in Nodes : MemoryOf(m)'
    BY <1>4, MemoryOfStep
  <2>2. HandlingSound'
    <3>1. CASE Step \/ Environment
      BY <1>1, <1>4, <3>1, LiveStep
    <3>2. CASE \E n \in Nodes : WalkBreaches(n)
      BY <1>1, <1>4, <3>2 DEF WalkBreaches, MemorySound, HandlingSound, HandlingBatch, loopVars
    <3> QED BY <1>4, <3>1, <3>2
  <2>3. phase' = "finalize" => batch' \subseteq InFlight'
    <3>1. CASE WriteEvent
      BY <1>1, <1>4, <3>1 DEF WriteEvent, MemorySound, loopVars, fateVars, InFlight
    <3>2. CASE DrainDone
      BY <3>2 DEF DrainDone, fateVars, InFlight
    <3>3. ASSUME NEW n \in Nodes, FinalizeNode(n) PROVE batch' \subseteq InFlight'
      BY <1>1, <1>4, <3>3 DEF FinalizeNode, MemorySound, fateVars, InFlight
    <3>4. CASE ~WriteEvent /\ ~DrainDone /\ ~(\E n \in Nodes : FinalizeNode(n))
      BY <1>4, <3>4 DEF Step, Environment, LaunchReturn, WaitReturns, BatchDone, WalkPasses, WalkDone,
        Interrupt, FinalizeRun, FinishParked, FinishRun, LaunchSkip, LaunchPark, LaunchStart, WalkSkips,
        AttemptEnds, HandleRaised, SettleRetry, HandleAttempt, DrainAttempt, SettleSuccess,
        SettleFailure, DrainSettles, WalkBreaches, JoinAware
    <3> QED BY <3>1, <3>2, <3>3, <3>4
  <2> QED BY <2>1, <2>2, <2>3 DEF MemorySound
<1>5. CASE UNCHANGED runVars
  <2>1. UNCHANGED vars
    BY <1>5 DEF runVars
  <2>2. UNCHANGED <<InFlight, Finished, Resulted, Succeeded>>
    BY <2>1 DEF vars, fateVars, InFlight, Finished, Resulted, Succeeded
  <2>3. Live /\ MemorySound
    BY <1>1, <2>1 DEF Live, vars
  <2>4. ASSUME NEW n \in Nodes PROVE MemoryOf(n)'
    BY <2>1, <2>2, <2>3, MemoryFrame DEF vars, storeVars, fateVars, seedVars, loopVars, AttemptsOf, MemorySound
  <2> QED BY <2>1, <2>2, <2>3, <2>4 DEF MemorySound, HandlingSound, HandlingBatch, vars, fateVars, loopVars
<1>6. CASE RejectRun \/ Kill \/ AtRest \/ (\E g \in Gates : RejectGate(g) \/ ApproveAttempt(g)
             \/ ApproveGate(g) \/ ApproveCollides(g))
           \/ (\E gates \in SUBSET Gates : ResumeApproving(gates) \/ ResumeRejecting(gates))
           \/ (WriteEvent /\ ~Live)
  <2>1. phase' \notin Phases \ {"idle"}
    BY <1>6 DEF RejectRun, Kill, AtRest, RejectGate, ApproveAttempt, ApproveGate, ApproveCollides,
      ResumeApproving, ResumeRejecting, Resume, WriteEvent, Live, Phases, runVars, vars
  <2> QED BY <2>1 DEF Live
<1> QED BY <1>2, <1>3, <1>4, <1>5, <1>6, StepIsLive DEF RunNext, Advance, ResumeStep, Human, Cancel, Ends,
      Environment, WalkBreaches, Live, Phases
-----------------------------------------------------------------------------
(* The theorems.                                                            *)

LEMMA DurableInit == RunInit => DurableInv
<1> SUFFICES ASSUME RunInit PROVE DurableInv
  OBVIOUS
<1>1. \A n \in Nodes : Cardinality(Needs[n]) \in Int
  BY OrderAssumption, NodeSets
<1>2. StoreTypeOK /\ TraceTypeOK /\ FateTypeOK /\ LoopTypeOK
  BY <1>1, EmptySeq DEF RunInit, StoreTypeOK, NodeStatus, TraceTypeOK, Events, NoEvent, FateTypeOK,
    TaskStates, LoopTypeOK
<1>3. \A n \in Nodes : rows[n] = "absent" /\ Numbers(n) = {} /\ MaxAttempt(n) = 0
  BY DEF RunInit, Numbers, MaxAttempt
<1>4. StoreSound
  <2>1. \A n \in Nodes : MaxAttempt(n) \in Nat /\ Numbers(n) = 1..MaxAttempt(n)
    BY <1>3
  <2> QED BY <1>3, <2>1 DEF RunInit, StoreSound, StoreOf, WithStatus
<1>5. ~Live /\ phase = "idle"
  BY DEF RunInit, Live
<1> QED BY <1>2, <1>4, <1>5 DEF DurableInv, RunTypeOK, Phases, DecisionSound, MemorySound

(* State and what each session remembers of it never part, whatever is      *)
(* killed, interrupted, resumed or decided in between (_Scheduler.__init__, *)
(* resume_run, StateStore).                                                 *)
THEOREM DurableInvHolds == RunSafety => []DurableInv
<1>1. DurableInv /\ [RunNext]_runVars => DurableInv'
  BY RunTypeStep, StoreSoundStep, DecisionStep, MemoryStep DEF DurableInv
<1> QED BY <1>1, DurableInit, PTL DEF RunSafety

LEMMA SucceededKept ==
  ASSUME DurableInv, [RunNext]_runVars, NEW n \in WithStatus({"succeeded"})
  PROVE  rows'[n] = "succeeded" /\ AttemptsOf(n)' = AttemptsOf(n)
<1>1. n \in Nodes /\ rows[n] = "succeeded" /\ rows \in [Nodes -> NodeStatus \cup {"absent"}]
  BY DEF WithStatus, DurableInv, RunTypeOK, StoreTypeOK
<1>2. ASSUME NEW m \in Nodes, Marks(m) \/ Completes(m)
      PROVE  rows'[n] = "succeeded" /\ AttemptsOf(n)' = AttemptsOf(n)
  BY <1>1, <1>2 DEF Marks, Completes, AttemptsOf
<1>3. ASSUME NEW m \in Nodes, Records(m)
      PROVE  rows'[n] = "succeeded" /\ AttemptsOf(n)' = AttemptsOf(n)
  BY <1>1, <1>3, RecordsFrame DEF Records
<1>4. CASE Spares
  BY <1>1, <1>4 DEF Spares, AttemptsOf
<1> QED BY <1>2, <1>3, <1>4, Effect

(* Completed work is never lost and never repeated (_seed_resumed,          *)
(* _ready_nodes): no step of any session, resume, decision or crash touches *)
(* a Node whose row says succeeded, for every Workflow and any number of    *)
(* sessions.                                                                *)
THEOREM CompletedStaysHolds == RunSafety => CompletedStays
<1>1. DurableInv /\ [RunNext]_runVars =>
        [\A n \in WithStatus({"succeeded"}) :
           rows'[n] = "succeeded" /\ AttemptsOf(n)' = AttemptsOf(n)]_runVars
  BY SucceededKept
<1> QED BY <1>1, DurableInvHolds, PTL DEF RunSafety, CompletedStays

(* Every succeeded row is backed by its latest Attempt, for every Workflow  *)
(* and wherever the process is killed (_handle_result, _approve_gate).      *)
THEOREM SucceededIsBackedHolds == RunSafety => []SucceededIsBacked
<1>1. DurableInv => SucceededIsBacked
  BY DEF DurableInv, StoreSound, StoreOf, Backed, SucceededIsBacked, WithStatus, AttemptsOf
<1> QED BY <1>1, DurableInvHolds, PTL

(* No Attempt number is ever skipped or used twice (_seed_resumed,          *)
(* _record_attempt), for every retry budget and any number of sessions.     *)
THEOREM AttemptNumbersFreeHolds == RunSafety => []AttemptNumbersFree
<1>1. ASSUME DurableInv PROVE AttemptNumbersFree
  <2>1. \A n \in Nodes : Numbers(n) = 1..MaxAttempt(n)
    BY <1>1 DEF DurableInv, StoreSound, StoreOf
  <2>2. ASSUME phase \in {"launch", "wait", "handle", "drain"}, NEW n \in Nodes \ (Resulted \cup satisfied)
        PROVE  nextAttempt[n] = MaxAttempt(n) + 1
    <3>1. Live /\ current = NoNode /\ MemoryOf(n)
      BY <1>1, <2>2 DEF DurableInv, MemorySound, HandlingSound, Live, Phases
    <3> QED BY <2>2, <3>1, NodesAssumption DEF MemoryOf
  <2> QED BY <2>1, <2>2 DEF AttemptNumbersFree
<1> QED BY <1>1, DurableInvHolds, PTL
-----------------------------------------------------------------------------
(* Sessions that resume: the fates they keep are those of a fresh session,  *)
(* counted from the satisfied Nodes, and State shows them.                  *)

Draining == phase \in {"drain", "drained"}

FatesSound == Looping => Moved /\ WalkSound /\ ReasonInv

(* The needs of a Node are settled on record, and one of them succeeded.    *)
Earned(n) ==
  /\ Needs[n] \subseteq WithStatus({"succeeded", "skipped"})
  /\ Needs[n] # {} => Needs[n] \cap WithStatus({"succeeded"}) # {}

RowOf(n) ==
  /\ Looping =>
       /\ n \in skipped => rows[n] = "skipped"
       /\ n \in awaiting => rows[n] = "awaiting" /\ n \in Gates
       /\ n \in Failed => rows[n] \in FailureKinds
  /\ Looping \/ Draining => (n \in InFlight => rows[n] = "running")
  /\ Draining => (n \in InFlight => Earned(n))

(* The status of the Run, at rest and at work.                              *)
StandingSound ==
  /\ Live => runStatus = "running"
  /\ phase = "finish" => InFlight = {} /\ Accounted
  /\ phase \in {"approve", "approving", "reject"} => Resumable
  /\ phase = "reject" => todo \cup WithStatus({"rejected"}) # {}
  /\ runStatus \in {"succeeded", "rejected"} => phase = "idle"
  /\ runStatus = "succeeded" => WithStatus({"succeeded", "skipped"}) = Nodes
  /\ runStatus = "failed" => (\A n \in Nodes : TerminalRow(n)) /\ WithStatus(FailureKinds) # {}
  /\ runStatus = "rejected" => WithStatus({"rejected"}) # {}
  /\ runStatus = "parked" =>
       \A n \in Nodes : ~TerminalRow(n) =>
         \E g \in ({n} \cup Ancestors(n)) \cap Gates : rows[g] \in {"awaiting", "succeeded", "rejected"}

ResumeInv == FatesSound /\ StandingSound /\ \A n \in Nodes : RowOf(n)

LEMMA SoundInLoop ==
  ASSUME DurableInv, FatesSound, Looping
  PROVE  SessionSound /\ Recorded /\ Live
<1>1. Live
  BY DEF Looping, Live, Phases
<1>2. /\ SessionTypeOK /\ HandlingSound /\ \A n \in Nodes : MemoryOf(n)
      /\ started \subseteq Nodes /\ satisfied \subseteq Nodes
  BY <1>1 DEF DurableInv, RunTypeOK, FateTypeOK, LoopTypeOK, MemorySound, SessionTypeOK, Live
<1>3. SatisfiedApart /\ \A n \in started : rows[n] # "absent"
  BY <1>2 DEF SatisfiedApart, MemoryOf
<1> QED BY <1>1, <1>2, <1>3 DEF SessionSound, Recorded, FatesSound, Looping

LEMMA SeedFates ==
  ASSUME NEW done \in SUBSET Nodes, NEW known, NEW number, NEW parked, Seed(done, known, number, parked),
         phase' = "launch"
  PROVE  FatesSound'
<1>1. /\ task' = [n \in Nodes |-> NoResult] /\ results' = [n \in Nodes |-> NoResult]
      /\ skipped' = {} /\ awaiting' = {} /\ satisfied' = done /\ queue' = <<>>
      /\ indegree' = [n \in Nodes |-> Cardinality(Needs[n]) - Cardinality(Needs[n] \cap done)]
  BY DEF Seed
<1>2. InFlight' = {} /\ Resulted' = {} /\ Succeeded' = {} /\ Failed' = {}
  BY <1>1 DEF InFlight, Resulted, Succeeded, Failed, NoResult
<1>3. Settled' = done /\ TakenUp' = {}
  BY <1>1, <1>2 DEF Settled, TakenUp
<1>4. OneFate' /\ TakenUpWhenReady'
  BY <1>1, <1>2, <1>3 DEF OneFate, TakenUpWhenReady
<1>5. IndegreeExact'
  <2>1. ASSUME NEW n \in Nodes
        PROVE  Cardinality(Needs[n]) - Cardinality(Needs[n] \cap done) = Cardinality(Needs[n] \ done)
    <3>1. IsFiniteSet(Needs[n])
      BY OrderAssumption, NodeSets
    <3>2. Cardinality(Needs[n] \ done) = Cardinality(Needs[n]) - Cardinality(Needs[n] \cap done)
      BY <3>1, FS_Difference
    <3> QED BY <3>2
  <2> QED BY <1>1, <1>3, <2>1 DEF IndegreeExact
<1>6. WalkSound' /\ ReasonInv'
  BY <1>1, <1>2 DEF WalkSound, Orphaned, ReasonInv, SkipsJustified, WalkReasons
<1> QED BY <1>4, <1>5, <1>6 DEF FatesSound, Moved

(* The steps that end in a loop without having begun in one.                *)
LEMMA LoopSteps ==
  ASSUME [RunNext]_runVars, Looping'
  PROVE  Start \/ Reopen \/ (Looping /\ [SessionNext]_vars)
<1>1. CASE UNCHANGED runVars \/ AtRest \/ WriteEvent
  BY <1>1 DEF AtRest, WriteEvent, runVars, vars, Looping, SessionNext, Step
<1>2. CASE RejectRun \/ Kill \/ (\E g \in Gates : RejectGate(g) \/ ApproveAttempt(g)
             \/ ApproveGate(g) \/ ApproveCollides(g))
           \/ (\E gates \in SUBSET Gates : ResumeApproving(gates) \/ ResumeRejecting(gates))
           \/ (\E n \in Nodes : WalkBreaches(n))
  BY <1>2 DEF RejectRun, Kill, RejectGate, ApproveAttempt, ApproveGate, ApproveCollides,
    ResumeApproving, ResumeRejecting, Resume, WalkBreaches, Looping
<1>3. CASE (Step \/ Environment) /\ ~WriteEvent
  <2>1. Looping
    BY <1>3 DEF Step, Environment, LaunchReturn, WaitReturns, BatchDone, WalkPasses, WalkDone,
      DrainDone, Interrupt, FinalizeRun, FinishParked, FinishRun, LaunchSkip, LaunchPark, LaunchStart,
      WalkSkips, AttemptEnds, HandleRaised, SettleRetry, FinalizeNode, HandleAttempt, DrainAttempt,
      SettleSuccess, SettleFailure, DrainSettles, Looping
  <2> QED BY <1>3, <2>1 DEF SessionNext
<1> QED BY <1>1, <1>2, <1>3 DEF RunNext, Advance, ResumeStep, Human, Cancel, Ends, Environment

LEMMA FatesStep ==
  ASSUME DurableInv, FatesSound, [RunNext]_runVars PROVE FatesSound'
<1> SUFFICES ASSUME Looping' PROVE FatesSound'
  BY DEF FatesSound
<1>1. CASE Start
  BY <1>1, SeedFates DEF Start
<1>2. CASE Reopen
  <2>1. Done \in SUBSET Nodes
    BY DEF Done, WithStatus
  <2> QED BY <1>2, <2>1, SeedFates DEF Reopen
<1>3. CASE Looping /\ [SessionNext]_vars
  <2>1. SessionSound /\ Recorded /\ ReasonInv
    BY <1>3, SoundInLoop DEF FatesSound
  <2>2. Moved' /\ WalkSound'
    BY <1>3, <2>1, MoveStep
  <2>3. ReasonInv'
    BY <1>3, <2>1, ReasonsStep, WalkReasonsStep DEF ReasonInv
  <2> QED BY <2>2, <2>3 DEF FatesSound
<1> QED BY <1>1, <1>2, <1>3, LoopSteps
-----------------------------------------------------------------------------
(* Rows agree with the fates of the session.                                *)

LEMMA SettledRows ==
  ASSUME DurableInv, Live, NEW m \in Nodes
  PROVE  /\ m \in Executed => rows[m] = "succeeded"
         /\ Looping /\ RowOf(m) /\ m \in Settled => rows[m] \in {"succeeded", "skipped"}
<1>1. MemoryOf(m)
  BY DEF DurableInv, MemorySound
<1> QED BY <1>1 DEF MemoryOf, Executed, Settled, RowOf

(* What was taken up had earned it, in the State on disk.                   *)
LEMMA EarnedInLoop ==
  ASSUME DurableInv, FatesSound, Looping, \A m \in Nodes : RowOf(m), NEW n \in TakenUp
  PROVE  Earned(n)
<1>1. Live /\ TakenUpWhenReady /\ n \in Nodes
  BY SoundInLoop DEF FatesSound, Moved, TakenUp, InFlight, Resulted, DurableInv, RunTypeOK, FateTypeOK
<1>2. Needs[n] \subseteq Settled /\ (Needs[n] # {} => Needs[n] \cap Executed # {}) /\ Needs[n] \subseteq Nodes
  BY <1>1, OrderAssumption DEF TakenUpWhenReady
<1>3. \A m \in Needs[n] : rows[m] \in {"succeeded", "skipped"}
  BY <1>1, <1>2, SettledRows
<1>4. \A m \in Needs[n] \cap Executed : rows[m] = "succeeded"
  BY <1>1, <1>2, SettledRows
<1> QED BY <1>2, <1>3, <1>4 DEF Earned, WithStatus

(* A step that touches no row, and takes nothing up.                        *)
LEMMA QuietRows ==
  ASSUME DurableInv, FatesSound, \A n \in Nodes : RowOf(n), NEW m \in Nodes,
         UNCHANGED rows, InFlight' \subseteq InFlight, Looping' => Looping,
         Draining' => Looping \/ Draining,
         Looping' => UNCHANGED <<skipped, awaiting, Failed>>
  PROVE  RowOf(m)'
<1>1. Earned(m)' <=> Earned(m)
  BY DEF Earned, WithStatus
<1>2. Draining' /\ m \in InFlight' => Earned(m)
  BY EarnedInLoop DEF RowOf, TakenUp
<1> QED BY <1>1, <1>2 DEF RowOf

(* A step of the loop that decides one fate.                                *)
LEMMA FateRows ==
  ASSUME FatesSound', Looping, Looping', NEW n \in Nodes, NEW m \in Nodes, RowOf(m),
         NEW status, rows' = [rows EXCEPT ![n] = status], rows \in [Nodes -> NodeStatus \cup {"absent"}],
         m # n => /\ m \in skipped' <=> m \in skipped
                  /\ m \in awaiting' <=> m \in awaiting
                  /\ m \in Failed' <=> m \in Failed
                  /\ m \in InFlight' <=> m \in InFlight,
         \/ n \in skipped' /\ status = "skipped"
         \/ n \in awaiting' /\ status = "awaiting" /\ n \in Gates
         \/ n \in InFlight' /\ status = "running"
         \/ n \in Resulted' /\ (n \in Failed' => status \in FailureKinds)
  PROVE  RowOf(m)'
<1>1. ~Draining'
  BY DEF Looping, Draining
<1>2. OneFate'
  BY DEF FatesSound, Moved
<1>3. CASE m # n
  BY <1>1, <1>3 DEF RowOf
<1>4. CASE m = n
  BY <1>1, <1>2, <1>4 DEF RowOf, OneFate, Failed
<1> QED BY <1>3, <1>4

(* The steps that touch a row while the loop runs.                          *)
LEMMA TouchedRows ==
  ASSUME DurableInv, ResumeInv, [RunNext]_runVars, NEW n \in Nodes,
         LaunchSkip(n) \/ WalkSkips(n) \/ LaunchPark(n) \/ LaunchStart(n)
           \/ SettleSuccess(n) \/ SettleFailure(n),
         NEW m \in Nodes
  PROVE  RowOf(m)'
<1>1. /\ FatesSound' /\ RowOf(m) /\ RunTypeOK /\ rows \in [Nodes -> NodeStatus \cup {"absent"}]
      /\ task \in [Nodes -> TaskStates] /\ results \in [Nodes -> NodeResults \cup {NoResult}]
  BY FatesStep DEF ResumeInv, DurableInv, RunTypeOK, StoreTypeOK, FateTypeOK
<1>2. /\ Looping /\ Live /\ HandlingSound /\ MemoryOf(n)
  BY DEF LaunchSkip, WalkSkips, LaunchPark, LaunchStart, SettleSuccess, SettleFailure, Looping, Live,
    Phases, DurableInv, MemorySound
<1>3. Looping'
  BY DEF LaunchSkip, WalkSkips, LaunchPark, LaunchStart, SettleSuccess, SettleFailure, Looping
<1>4. CASE LaunchSkip(n) \/ WalkSkips(n)
  <2>1. PICK cause, by : RecordSkip(n, cause, by)
    BY <1>4 DEF LaunchSkip, WalkSkips
  <2>2. rows' = [rows EXCEPT ![n] = "skipped"]
    <3>1. n \in started => rows[n] # "absent"
      BY <1>2 DEF MemoryOf
    <3> QED BY <2>1, <3>1, FinishedRow DEF RecordSkip, RecordNodeSkipped
  <2>3. skipped' = skipped \cup {n} /\ UNCHANGED <<awaiting, InFlight, Failed>>
    BY <2>1 DEF RecordSkip, InFlight, Failed, Resulted, Succeeded
  <2> QED BY <1>1, <1>2, <1>3, <2>2, <2>3, FateRows
<1>5. CASE LaunchPark(n)
  <2>1. rows' = [rows EXCEPT ![n] = "awaiting"] /\ awaiting' = awaiting \cup {n} /\ n \in Gates
    BY <1>5 DEF LaunchPark, RecordNodeAwaiting
  <2>2. UNCHANGED <<skipped, InFlight, Failed>>
    BY <1>5 DEF LaunchPark, InFlight, Failed, Resulted, Succeeded
  <2> QED BY <1>1, <1>2, <1>3, <2>1, <2>2, FateRows
<1>6. CASE LaunchStart(n)
  <2>1. rows' = [rows EXCEPT ![n] = "running"] /\ UNCHANGED <<skipped, awaiting, Failed>>
    BY <1>6 DEF LaunchStart, RecordNodeRunning, RecordNodeStarted, Failed, Resulted, Succeeded
  <2>2. InFlight' = InFlight \cup {n}
    BY <1>1, <1>6 DEF LaunchStart, InFlight, InFlightResult, NoResult
  <2> QED BY <1>1, <1>2, <1>3, <2>1, <2>2, FateRows
<1>7. CASE SettleSuccess(n) \/ SettleFailure(n)
  <2>1. n = current /\ Conclude(n) /\ phase = "settle"
    BY <1>7 DEF SettleSuccess, SettleFailure
  <2>2. task[n] \in NodeResults /\ n \in InFlight /\ rows[n] # "absent"
    BY <1>1, <1>2, <2>1, CurrentInFlight DEF MemoryOf
  <2>3. /\ rows' = [rows EXCEPT ![n] = task[n].status] /\ UNCHANGED <<skipped, awaiting>>
        /\ results' = [results EXCEPT ![n] = task[n]] /\ task' = [task EXCEPT ![n] = NoResult]
    BY <2>1, <2>2, FinishedRow DEF Conclude
  <2>4. m # n => /\ m \in Failed' <=> m \in Failed
                 /\ m \in InFlight' <=> m \in InFlight
    BY <1>1, <2>3 DEF Failed, Resulted, Succeeded, InFlight
  <2>5. results'[n] = task[n] /\ n \in Resulted'
    BY <1>1, <2>2, <2>3 DEF Resulted, NodeResults, NoResult, AttemptStatus, FailureKinds
  <2>6. n \in Failed' => task[n].status \in FailureKinds
    BY <2>2, <2>5 DEF Failed, Succeeded, NodeResults, AttemptStatus
  <2> QED BY <1>1, <1>2, <1>3, <2>3, <2>4, <2>5, <2>6, FateRows
<1> QED BY <1>4, <1>5, <1>6, <1>7

LEMMA DrainedRows ==
  ASSUME DurableInv, ResumeInv, NEW n \in Nodes, DrainSettles(n), NEW m \in Nodes
  PROVE  RowOf(m)'
<1>1. /\ Draining /\ RowOf(m) /\ RowOf(n) /\ RunTypeOK /\ HandlingSound /\ MemoryOf(n)
      /\ rows \in [Nodes -> NodeStatus \cup {"absent"}]
      /\ phase = "drained" /\ n = current /\ Conclude(n) /\ ~Looping'
  BY DEF DrainSettles, Draining, ResumeInv, DurableInv, MemorySound, Live, Phases, RunTypeOK,
    StoreTypeOK, Looping
<1>2. n \in InFlight /\ rows[n] = "running"
  BY <1>1, CurrentInFlight DEF RowOf
<1>3. rows' = [rows EXCEPT ![n] = task[n].status] /\ InFlight' = InFlight \ {n}
  <2>1. task \in [Nodes -> TaskStates]
    BY <1>1 DEF RunTypeOK, FateTypeOK
  <2> QED BY <1>1, <1>2, <2>1, FinishedRow DEF Conclude, InFlight
<1>4. ASSUME m \in InFlight' PROVE Earned(m)' /\ rows'[m] = "running"
  <2>1. m \in InFlight /\ m # n /\ Earned(m) /\ rows[m] = "running"
    BY <1>1, <1>3, <1>4 DEF RowOf
  <2>2. n \notin Needs[m]
    BY <1>2, <2>1 DEF Earned, WithStatus
  <2>3. \A k \in Needs[m] : rows'[k] = rows[k]
    BY <1>1, <1>3, <2>2, OrderAssumption
  <2> QED BY <1>1, <1>3, <2>1, <2>3 DEF Earned, WithStatus
<1> QED BY <1>1, <1>4 DEF RowOf

LEMMA FateRowsStep ==
  ASSUME DurableInv, ResumeInv, [RunNext]_runVars, NEW m \in Nodes
  PROVE  RowOf(m)'
<1>0. CASE ~Looping' /\ ~Draining'
  BY <1>0 DEF RowOf
<1>1. FatesSound /\ \A n \in Nodes : RowOf(n)
  BY DEF ResumeInv
<1>2. CASE Start \/ Reopen
  <2>1. PICK done, known, number, parked : Seed(done, known, number, parked)
    BY <1>2 DEF Start, Reopen
  <2>2. InFlight' = {} /\ skipped' = {} /\ awaiting' = {} /\ Failed' = {}
    BY <2>1 DEF Seed, InFlight, Failed, Resulted
  <2> QED BY <2>2 DEF RowOf
<1>3. CASE UNCHANGED runVars \/ AtRest \/ WriteEvent
  <2>1. UNCHANGED <<rows, phase, task, results, skipped, awaiting>>
    BY <1>3 DEF AtRest, WriteEvent, runVars, vars, storeVars, fateVars
  <2>2. UNCHANGED <<InFlight, Failed, Looping, Draining>>
    BY <2>1 DEF InFlight, Failed, Resulted, Succeeded, Looping, Draining
  <2> QED BY <1>1, <2>1, <2>2, QuietRows
<1>4. CASE LaunchReturn \/ WaitReturns \/ BatchDone \/ WalkPasses \/ WalkDone \/ Interrupt
  <2>1. UNCHANGED <<rows, task, results, skipped, awaiting>> /\ Looping
    BY <1>4 DEF LaunchReturn, WaitReturns, BatchDone, WalkPasses, WalkDone, Interrupt, storeVars, fateVars,
      Looping
  <2>2. UNCHANGED <<InFlight, Failed>>
    BY <2>1 DEF InFlight, Failed, Resulted, Succeeded
  <2> QED BY <1>1, <2>1, <2>2, QuietRows
<1>5. ASSUME NEW n \in Nodes,
             AttemptEnds(n) \/ HandleRaised(n) \/ HandleAttempt(n) \/ SettleRetry(n) \/ DrainAttempt(n)
      PROVE  RowOf(m)'
  <2>1. UNCHANGED <<rows, results, skipped, awaiting>>
    BY <1>5 DEF AttemptEnds, HandleRaised, HandleAttempt, SettleRetry, DrainAttempt, RecordAttempt,
      storeVars, fateVars
  <2>2. (Looping' => Looping) /\ (Draining' => Looping \/ Draining)
    BY <1>5 DEF AttemptEnds, HandleRaised, HandleAttempt, SettleRetry, DrainAttempt, Looping, Draining
  <2>3. InFlight' \subseteq InFlight
    <3>1. task \in [Nodes -> TaskStates]
      BY DEF DurableInv, RunTypeOK, FateTypeOK
    <3>2. task' = task \/ (task[n] = InFlightResult /\ \E r : task' = [task EXCEPT ![n] = r])
            \/ task' = [task EXCEPT ![n] = NoResult]
      BY <1>5 DEF AttemptEnds, HandleRaised, HandleAttempt, SettleRetry, DrainAttempt, fateVars
    <3>3. \A k \in Nodes : task'[k] = task[k] \/ task'[k] = NoResult \/ task[k] = InFlightResult
      BY <3>1, <3>2
    <3>4. InFlightResult # NoResult
      BY DEF InFlightResult, NoResult
    <3> QED BY <3>3, <3>4 DEF InFlight
  <2>4. UNCHANGED Failed
    BY <2>1 DEF Failed, Resulted, Succeeded
  <2> QED BY <1>1, <2>1, <2>2, <2>3, <2>4, QuietRows
<1>6. ASSUME NEW n \in Nodes, WalkBreaches(n) PROVE RowOf(m)'
  <2>1. UNCHANGED <<rows, task>> /\ Looping /\ ~Looping'
    BY <1>6 DEF WalkBreaches, storeVars, Looping
  <2>2. UNCHANGED InFlight
    BY <2>1 DEF InFlight
  <2> QED BY <1>1, <2>1, <2>2, QuietRows
<1>7. ASSUME NEW n \in Nodes,
             LaunchSkip(n) \/ WalkSkips(n) \/ LaunchPark(n) \/ LaunchStart(n)
               \/ SettleSuccess(n) \/ SettleFailure(n) \/ DrainSettles(n)
      PROVE  RowOf(m)'
  BY <1>7, TouchedRows, DrainedRows
<1>8. CASE RejectRun \/ Kill \/ DrainDone \/ FinalizeRun \/ FinishParked \/ FinishRun
           \/ (\E n \in Nodes : FinalizeNode(n))
           \/ (\E g \in Gates : RejectGate(g) \/ ApproveAttempt(g) \/ ApproveGate(g) \/ ApproveCollides(g))
           \/ (\E gates \in SUBSET Gates : ResumeApproving(gates) \/ ResumeRejecting(gates))
  BY <1>0, <1>8 DEF RejectRun, Kill, DrainDone, FinalizeRun, FinishParked, FinishRun, FinalizeNode, RejectGate,
    ApproveAttempt, ApproveGate, ApproveCollides, ResumeApproving, ResumeRejecting, Resume, Looping, Draining
<1>9. CASE Step
  BY <1>9, <1>3, <1>4, <1>5, <1>7, <1>8 DEF Step
<1>10. CASE ResumeStep \/ Human \/ Cancel
  BY <1>10, <1>2, <1>4, <1>8 DEF ResumeStep, Human, Cancel
<1> QED BY <1>3, <1>5, <1>6, <1>8, <1>9, <1>10 DEF RunNext, Advance, Ends
-----------------------------------------------------------------------------
(* The status of the Run.                                                   *)

(* Where every fate is decided, the rows tell the outcome.                  *)
LEMMA OutcomeRows ==
  ASSUME DurableInv, ResumeInv, phase = "finish", NEW n \in Nodes
  PROVE  /\ n \in Succeeded \cup satisfied => rows[n] = "succeeded"
         /\ n \in skipped => rows[n] = "skipped"
         /\ n \in Failed => rows[n] \in FailureKinds
         /\ n \in awaiting => n \in Gates /\ rows[n] = "awaiting"
<1>1. Live /\ Looping /\ RowOf(n) /\ MemoryOf(n)
  BY DEF Live, Phases, Looping, DurableInv, MemorySound, ResumeInv
<1> QED BY <1>1 DEF RowOf, MemoryOf

LEMMA FinishStanding ==
  ASSUME DurableInv, ResumeInv, FinishRun \/ FinishParked PROVE StandingSound'
<1>1. /\ phase = "finish" /\ Accounted /\ StandingSound /\ phase' = "idle" /\ UNCHANGED rows
  BY DEF FinishRun, FinishParked, ResumeInv, StandingSound, RecordRunStatus
<1>2. CASE FinishRun
  <2>1. awaiting = {} /\ runStatus' = RunOutcome
    BY <1>2 DEF FinishRun, RecordRunStatus
  <2>2. \A n \in Nodes : n \in Resulted \cup skipped \cup satisfied
    BY <1>1, <2>1 DEF Accounted
  <2>3. \A n \in Nodes : n \in Succeeded \cup satisfied \cup skipped \cup Failed
    BY <2>2 DEF Failed
  <2>4. \A n \in Nodes : rows[n] \in {"succeeded", "skipped"} \cup FailureKinds
    BY <1>1, <2>3, OutcomeRows
  <2>5. CASE \A n \in Resulted : n \in Succeeded
    <3>1. runStatus' = "succeeded" /\ Failed = {}
      BY <2>1, <2>5 DEF RunOutcome, Failed
    <3>2. \A n \in Nodes : rows[n] \in {"succeeded", "skipped"}
      BY <1>1, <2>3, <3>1, OutcomeRows
    <3> QED BY <1>1, <3>1, <3>2 DEF StandingSound, Live, WithStatus
  <2>6. CASE ~(\A n \in Resulted : n \in Succeeded)
    <3>1. runStatus' = "failed"
      BY <2>1, <2>6 DEF RunOutcome
    <3>2. PICK n \in Nodes : n \in Failed
      BY <2>6 DEF Failed, Resulted
    <3>3. rows[n] \in FailureKinds
      BY <1>1, <3>2, OutcomeRows
    <3>4. \A k \in Nodes : TerminalRow(k)'
      BY <1>1, <2>4 DEF TerminalRow, AttemptStatus
    <3>5. WithStatus(FailureKinds)' # {}
      BY <1>1, <3>3 DEF WithStatus
    <3> QED BY <1>1, <3>1, <3>4, <3>5 DEF StandingSound, Live
  <2> QED BY <2>5, <2>6
<1>3. CASE FinishParked
  <2>1. runStatus' = "parked"
    BY <1>3 DEF FinishParked, RecordRunStatus
  <2>2. ASSUME NEW n \in Nodes, ~TerminalRow(n)'
        PROVE  \E g \in ({n} \cup Ancestors(n)) \cap Gates : rows'[g] \in {"awaiting", "succeeded", "rejected"}
    <3>1. rows[n] \notin AttemptStatus \cup {"skipped"}
      BY <1>1, <2>2 DEF TerminalRow
    <3>2. n \notin Succeeded \cup satisfied \cup skipped \cup Failed
      BY <1>1, <3>1, OutcomeRows DEF AttemptStatus
    <3>3. PICK g \in {n} \cup Ancestors(n) : g \in awaiting
      BY <1>1, <3>2 DEF Accounted, Failed
    <3>4. g \in Nodes
      BY <3>3 DEF Ancestors, AncestorsOf
    <3> QED BY <1>1, <3>3, <3>4, OutcomeRows
  <2> QED BY <1>1, <2>1, <2>2 DEF StandingSound, Live
<1> QED BY <1>2, <1>3

(* A decision: the row of one awaiting gate turns, the status stays.        *)
LEMMA DecidedStanding ==
  ASSUME StandingSound, NEW g \in Nodes, rows[g] = "awaiting", NEW row \in {"succeeded", "rejected"},
         rows \in [Nodes -> NodeStatus \cup {"absent"}],
         rows' = [rows EXCEPT ![g] = row], UNCHANGED runStatus,
         phase \in {"approve", "approving", "reject"}, phase' \in {"approve", "approving", "reject"},
         phase' = "reject" => row = "rejected"
  PROVE  StandingSound'
<1>1. Resumable /\ Resumable' /\ ~Live' /\ phase' # "finish"
  BY DEF StandingSound, Resumable, Live, Phases
<1>2. rows'[g] = row /\ \A n \in Nodes : n # g => rows'[n] = rows[n]
  OBVIOUS
<1>3. runStatus # "failed"
  BY DEF StandingSound, TerminalRow, AttemptStatus, FailureKinds
<1>4. phase' = "reject" => g \in WithStatus({"rejected"})'
  BY <1>2 DEF WithStatus
<1>5. ASSUME runStatus = "parked", NEW n \in Nodes, ~TerminalRow(n)'
      PROVE  \E k \in ({n} \cup Ancestors(n)) \cap Gates : rows'[k] \in {"awaiting", "succeeded", "rejected"}
  <2>1. ~TerminalRow(n)
    BY <1>2, <1>5 DEF TerminalRow, AttemptStatus, FailureKinds
  <2>2. PICK k \in ({n} \cup Ancestors(n)) \cap Gates : rows[k] \in {"awaiting", "succeeded", "rejected"}
    BY <1>5, <2>1 DEF StandingSound
  <2>3. k \in Nodes
    BY PolicyAssumption
  <2> QED BY <1>2, <2>2, <2>3
<1> QED BY <1>1, <1>3, <1>4, <1>5 DEF StandingSound, Resumable

(* A step of a session that does not end it.                                *)
LEMMA WorkStanding ==
  ASSUME StandingSound, Live, Live', UNCHANGED runStatus, phase' = "finish" => InFlight' = {} /\ Accounted'
  PROVE  StandingSound'
BY DEF StandingSound, Live, Phases

(* A step that changes neither rows, fates nor the Run's status.            *)
LEMMA SameStanding ==
  ASSUME StandingSound, UNCHANGED <<runStatus, rows>>,
         \/ UNCHANGED <<phase, todo, task, results, skipped, awaiting, satisfied>>
         \/ phase' = "idle"
         \/ phase' \in {"approve", "approving"} /\ Resumable
  PROVE  StandingSound'
<1>1. UNCHANGED <<task, results, skipped, awaiting, satisfied>> => UNCHANGED <<InFlight, Accounted>>
  BY DEF InFlight, Accounted, Resulted
<1>2. /\ \A n \in Nodes : TerminalRow(n)' <=> TerminalRow(n)
      /\ \A S : WithStatus(S)' = WithStatus(S)
      /\ Resumable' <=> Resumable
  BY DEF TerminalRow, WithStatus, Resumable
<1>3. CASE UNCHANGED <<phase, todo, task, results, skipped, awaiting, satisfied>>
  BY <1>1, <1>2, <1>3 DEF StandingSound, Live
<1>4. CASE phase' = "idle"
  BY <1>2, <1>4 DEF StandingSound, Live
<1>5. CASE phase' \in {"approve", "approving"} /\ Resumable
  BY <1>2, <1>5 DEF StandingSound, Live, Phases, Resumable
<1> QED BY <1>3, <1>4, <1>5

LEMMA StepStanding ==
  ASSUME DurableInv, ResumeInv, Step \/ Environment, ~WriteEvent PROVE StandingSound'
<1>1. StandingSound /\ FatesSound /\ Live /\ runStatus = "running"
  BY StepIsLive DEF ResumeInv, StandingSound
<1>2. CASE FinishRun \/ FinishParked
  BY <1>2, FinishStanding
<1>3. CASE FinalizeRun
  BY <1>1, <1>3 DEF FinalizeRun, RecordRunStatus, StandingSound, Live
<1>4. CASE LaunchReturn
  <2>1. /\ phase = "launch" /\ Looping /\ UNCHANGED <<runStatus, task, results, skipped, awaiting, satisfied>>
        /\ \A n \in Nodes : ~MayConsider(n)
        /\ phase' = IF InFlight = {} THEN "finish" ELSE "wait"
    BY <1>4 DEF LaunchReturn, Looping, storeVars, fateVars, seedVars
  <2>2. SessionTypeOK /\ IndegreeExact /\ WalkSound
    BY <1>1, <2>1, SoundInLoop DEF SessionSound, Moved
  <2>3. InFlight = {} => Accounted
    BY <2>1, <2>2, NobodyForgotten
  <2>4. UNCHANGED <<InFlight, Accounted>>
    BY <2>1 DEF InFlight, Accounted, Resulted
  <2>5. Live' /\ (phase' = "finish" => InFlight = {})
    BY <2>1 DEF Live, Phases
  <2> QED BY <1>1, <2>1, <2>3, <2>4, <2>5, WorkStanding
<1>5. CASE WaitReturns \/ BatchDone \/ WalkPasses \/ WalkDone \/ DrainDone \/ Interrupt
  BY <1>1, <1>5, WorkStanding DEF WaitReturns, BatchDone, WalkPasses, WalkDone, DrainDone, Interrupt,
    storeVars, Live, Phases
<1>6. ASSUME NEW n \in Nodes,
             \/ LaunchSkip(n) \/ LaunchPark(n) \/ LaunchStart(n) \/ HandleRaised(n)
             \/ HandleAttempt(n) \/ SettleRetry(n) \/ WalkSkips(n) \/ DrainAttempt(n)
             \/ FinalizeNode(n) \/ AttemptEnds(n)
      PROVE  StandingSound'
  <2>1. UNCHANGED runStatus
    BY <1>6 DEF LaunchSkip, LaunchPark, LaunchStart, HandleRaised, HandleAttempt, SettleRetry, WalkSkips,
      DrainAttempt, FinalizeNode, AttemptEnds, RecordSkip, RecordNodeFinished, RecordNodeSkipped,
      RecordNodeAwaiting, RecordNodeRunning, RecordNodeStarted, RecordAttempt, storeVars
  <2>2. Live' /\ phase' # "finish"
    BY <1>6 DEF LaunchSkip, LaunchPark, LaunchStart, HandleRaised, HandleAttempt, SettleRetry, WalkSkips,
      DrainAttempt, FinalizeNode, AttemptEnds, Live, Phases
  <2> QED BY <1>1, <2>1, <2>2, WorkStanding
<1>7. ASSUME NEW n \in Nodes, SettleSuccess(n) \/ SettleFailure(n) \/ DrainSettles(n)
      PROVE  StandingSound'
  <2>1. UNCHANGED runStatus /\ Live' /\ phase' # "finish"
    BY <1>7 DEF SettleSuccess, SettleFailure, DrainSettles, Conclude, RecordNodeFinished, Live, Phases
  <2> QED BY <1>1, <2>1, WorkStanding
<1> QED BY <1>2, <1>3, <1>4, <1>5, <1>6, <1>7 DEF Step, Environment

LEMMA StandingStep ==
  ASSUME DurableInv, ResumeInv, [RunNext]_runVars PROVE StandingSound'
<1>1. /\ StandingSound /\ DecisionSound /\ Gates \subseteq Nodes
      /\ rows \in [Nodes -> NodeStatus \cup {"absent"}]
  BY PolicyAssumption DEF ResumeInv, DurableInv, RunTypeOK, StoreTypeOK
<1>2. CASE UNCHANGED runVars \/ AtRest \/ (WriteEvent /\ UNCHANGED resumeVars)
  BY <1>1, <1>2, SameStanding DEF AtRest, WriteEvent, runVars, vars, storeVars, fateVars, seedVars,
    resumeVars
<1>3. CASE (Step \/ Environment) /\ ~WriteEvent
  BY <1>3, StepStanding
<1>4. CASE Start \/ Reopen
  <2>1. runStatus' = "running" /\ phase' = "launch"
    BY <1>4 DEF Start, Reopen, RecordRunStarted, RecordRunStatus
  <2> QED BY <2>1 DEF StandingSound, Live, Phases
<1>5. ASSUME NEW gates \in SUBSET Gates, ResumeApproving(gates) PROVE StandingSound'
  BY <1>1, <1>5, SameStanding DEF ResumeApproving, Resume, storeVars
<1>6. ASSUME NEW gates \in SUBSET Gates, ResumeRejecting(gates) PROVE StandingSound'
  <2>1. /\ UNCHANGED <<runStatus, rows>> /\ phase' = "reject" /\ todo' # {} /\ Resumable
    BY <1>6 DEF ResumeRejecting, Resume, storeVars
  <2>2. /\ \A n \in Nodes : TerminalRow(n)' <=> TerminalRow(n)
        /\ \A S : WithStatus(S)' = WithStatus(S)
        /\ Resumable'
    BY <2>1 DEF TerminalRow, WithStatus, Resumable
  <2> QED BY <1>1, <2>1, <2>2 DEF StandingSound, Live, Phases, Resumable
<1>7. ASSUME NEW g \in Gates, RejectGate(g) \/ ApproveGate(g) PROVE StandingSound'
  <2>1. g \in Nodes /\ rows[g] = "awaiting"
    BY <1>1, <1>7 DEF RejectGate, ApproveGate, DecisionSound, WithStatus
  <2>2. CASE RejectGate(g)
    <3>1. rows' = [rows EXCEPT ![g] = "rejected"] /\ UNCHANGED <<runStatus, phase>> /\ phase = "reject"
      BY <2>1, <2>2, FinishedRow DEF RejectGate, RecordNodeFinished
    <3> QED BY <1>1, <2>1, <3>1, DecidedStanding
  <2>3. CASE ApproveGate(g)
    <3>1. /\ rows' = [rows EXCEPT ![g] = "succeeded"] /\ UNCHANGED runStatus
          /\ phase = "approving" /\ phase' = "approve"
      BY <2>1, <2>3, FinishedRow DEF ApproveGate, RecordNodeFinished
    <3> QED BY <1>1, <2>1, <3>1, DecidedStanding
  <2> QED BY <1>7, <2>2, <2>3
<1>8. CASE RejectRun
  <2>1. /\ runStatus' = "rejected" /\ phase' = "idle" /\ UNCHANGED rows /\ WithStatus({"rejected"}) # {}
    BY <1>1, <1>8 DEF RejectRun, RecordRunStatus, StandingSound
  <2>2. WithStatus({"rejected"})' # {}
    BY <2>1 DEF WithStatus
  <2> QED BY <2>1, <2>2 DEF StandingSound, Live
<1>9. ASSUME NEW g \in Gates, ApproveAttempt(g) \/ ApproveCollides(g) PROVE StandingSound'
  BY <1>1, <1>9, SameStanding DEF ApproveAttempt, ApproveCollides, RecordAttempt, storeVars, StandingSound
<1>10. CASE Kill
  BY <1>1, <1>10, SameStanding DEF Kill, storeVars
<1>11. ASSUME NEW n \in Nodes, WalkBreaches(n) PROVE StandingSound'
  BY <1>1, <1>11, WorkStanding DEF WalkBreaches, storeVars, Live, Phases
<1>12. CASE Advance \/ Cancel \/ (\E n \in Nodes : Ends(n))
  BY <1>2, <1>3, <1>12 DEF Advance, Cancel, Ends, Environment
<1>13. CASE ResumeStep \/ Human
  BY <1>4, <1>5, <1>6, <1>7, <1>8, <1>9, <1>13 DEF ResumeStep, Human
<1> QED BY <1>2, <1>10, <1>11, <1>12, <1>13 DEF RunNext
-----------------------------------------------------------------------------
(* What resumed sessions promise.                                           *)

LEMMA ResumeInit == RunInit => ResumeInv
<1> SUFFICES ASSUME RunInit PROVE ResumeInv
  OBVIOUS
<1>1. phase = "idle" /\ runStatus = "absent"
  BY DEF RunInit
<1> QED BY <1>1 DEF ResumeInv, FatesSound, StandingSound, RowOf, Looping, Draining, Live

(* A resumed session works by the rules of a fresh one, and the rows and    *)
(* the status in State never claim more than the fates bear out (_seed,     *)
(* _drive_scheduler, resume_run).                                           *)
THEOREM ResumeInvHolds == RunSafety => []ResumeInv
<1>1. DurableInv /\ ResumeInv /\ [RunNext]_runVars => ResumeInv'
  BY FatesStep, StandingStep, FateRowsStep DEF ResumeInv
<1> QED BY <1>1, ResumeInit, DurableInvHolds, PTL DEF RunSafety

(* Readiness, the counter, one fate per Node and exactly the due skips, in  *)
(* every session of every Workflow, whatever State it was seeded from       *)
(* (_seed_resumed, _propagate_skips).                                       *)
THEOREM ResumedSessionSoundHolds == RunSafety => []ResumedSessionSound
<1>1. ResumeInv => ResumedSessionSound
  BY DEF ResumeInv, FatesSound, Moved, WalkSound, ReasonInv, ResumedSessionSound, SkipsComplete,
    IndegreeExact
<1> QED BY <1>1, ResumeInvHolds, PTL

(* The recorded outcome agrees with the Nodes, however many sessions, kills *)
(* and decisions it took (_drive_scheduler, resume_run), for every Workflow.*)
THEOREM OutcomeHoldsAlways == RunSafety => []OutcomeHolds
<1>1. ResumeInv => OutcomeHolds
  BY DEF ResumeInv, StandingSound, OutcomeHolds
<1> QED BY <1>1, ResumeInvHolds, PTL

LEMMA OnlyLaunched ==
  ASSUME DurableInv, ResumeInv, [RunNext]_runVars, NEW n \in Nodes, n \notin InFlight, n \in InFlight'
  PROVE  LaunchStart(n)
<1>1. CASE (Step \/ Environment) /\ ~WriteEvent
  <2>1. Live /\ SessionTypeOK /\ HandlingSound /\ [SessionNext]_vars
    BY <1>1, StepIsLive, LiveStep DEF DurableInv
  <2> QED BY <2>1, InFlightStep
<1>2. CASE Start \/ Reopen
  BY <1>2 DEF Start, Reopen, Seed, InFlight
<1>3. CASE UNCHANGED runVars \/ AtRest \/ WriteEvent \/ RejectRun \/ Kill
           \/ (\E g \in Gates : RejectGate(g) \/ ApproveAttempt(g) \/ ApproveGate(g) \/ ApproveCollides(g))
           \/ (\E gates \in SUBSET Gates : ResumeApproving(gates) \/ ResumeRejecting(gates))
           \/ (\E m \in Nodes : WalkBreaches(m))
  <2>1. UNCHANGED task
    BY <1>3 DEF AtRest, WriteEvent, RejectRun, Kill, RejectGate, ApproveAttempt, ApproveGate,
      ApproveCollides, ResumeApproving, ResumeRejecting, Resume, WalkBreaches, runVars, vars, fateVars
  <2> QED BY <2>1 DEF InFlight
<1> QED BY <1>1, <1>2, <1>3 DEF RunNext, Advance, ResumeStep, Human, Cancel, Ends, Environment

(* What a Node finds on record when it is launched.                         *)
LEMMA LaunchedOnRecord ==
  ASSUME DurableInv, ResumeInv, NEW n \in Nodes, LaunchStart(n), NEW m \in Needs[n]
  PROVE  rows[m] = "succeeded" \/ (n \in JoinAny /\ rows[m] = "skipped")
<1>1. /\ phase = "launch" /\ Looping /\ Live /\ n \in Ready /\ m \in Nodes /\ RowOf(m)
      /\ IndegreeExact /\ WalkSound
  BY OrderAssumption DEF LaunchStart, MayConsider, FirstReady, Looping, Live, Phases, ResumeInv,
    FatesSound, Moved
<1>2. Needs[n] \subseteq Settled
  <2>1. Cardinality(Needs[n] \ Settled) = 0
    BY <1>1 DEF Ready, IndegreeExact
  <2>2. Needs[n] \ Settled \in SUBSET Nodes
    BY OrderAssumption
  <2> QED BY <2>1, <2>2, NodeSets
<1>3. n \in JoinAny \/ m \notin skipped
  BY <1>1 DEF WalkSound, Ready, Orphaned
<1>4. m \in skipped => rows[m] = "skipped"
  BY <1>1 DEF RowOf
<1>5. m \in Succeeded \cup satisfied => rows[m] = "succeeded"
  BY <1>1, SettledRows DEF Executed
<1> QED BY <1>2, <1>3, <1>4, <1>5 DEF Settled

(* Nothing runs past a gate nobody approved (_ready_nodes, _approve_gate),  *)
(* for every Workflow and whatever crashed or resumed before.               *)
THEOREM GatesHoldAlways == RunSafety => GatesHold
<1>1. ASSUME DurableInv, ResumeInv, [RunNext]_runVars, NEW n \in Nodes, n \notin InFlight, n \in InFlight',
             NEW g \in Needs[n] \cap Gates
      PROVE  rows[g] = "succeeded" \/ (n \in JoinAny /\ rows[g] = "skipped")
  BY <1>1, OnlyLaunched, LaunchedOnRecord
<1>2. DurableInv /\ ResumeInv /\ [RunNext]_runVars =>
        [\A n \in Nodes : n \notin InFlight /\ n \in InFlight' =>
           \A g \in Needs[n] \cap Gates :
             rows[g] = "succeeded" \/ (n \in JoinAny /\ rows[g] = "skipped")]_runVars
  BY <1>1
<1> QED BY <1>2, DurableInvHolds, ResumeInvHolds, PTL DEF RunSafety, GatesHold
-----------------------------------------------------------------------------
(* The lifecycle.                                                           *)

LEMMA Standings ==
  ASSUME NEW row \in NodeStatus \cup {"absent"}
  PROVE  /\ Standing(row) \in Lifecycle!Standings
         /\ Standing(row) = "completed" <=> row = "succeeded"
         /\ Standing(row) = "withheld" <=> row = "skipped"
         /\ Standing(row) = "waiting" <=> row = "awaiting"
         /\ Standing(row) = "declined" <=> row = "rejected"
         /\ Standing(row) = "failed" <=> row \in FailureKinds
BY DEF Standing, Lifecycle!Standings, NodeStatus, AttemptStatus, FailureKinds

Ledger == [n \in Nodes |-> Standing(rows[n])]

LEMMA LedgerSets ==
  ASSUME rows \in [Nodes -> NodeStatus \cup {"absent"}]
  PROVE  /\ Lifecycle!Having({"completed"}) = WithStatus({"succeeded"})
         /\ Lifecycle!Having({"completed", "withheld"}) = WithStatus({"succeeded", "skipped"})
         /\ Lifecycle!Having({"completed", "withheld", "failed"}) = {n \in Nodes : TerminalRow(n)}
         /\ Lifecycle!Having({"failed"}) = WithStatus(FailureKinds)
         /\ Lifecycle!Having({"waiting"}) = WithStatus({"awaiting"})
         /\ Lifecycle!Having({"declined"}) = WithStatus({"rejected"})
<1>1. \A n \in Nodes : rows[n] \in NodeStatus \cup {"absent"}
  OBVIOUS
<1> QED BY <1>1, Standings DEF Lifecycle!Having, WithStatus, TerminalRow, AttemptStatus

LEMMA LedgerStep ==
  ASSUME rows \in [Nodes -> NodeStatus \cup {"absent"}], NEW n \in Nodes, NEW status \in NodeStatus,
         rows' = [rows EXCEPT ![n] = status]
  PROVE  Ledger' = [Ledger EXCEPT ![n] = Standing(status)] /\ Ledger[n] = Standing(rows[n])
BY DEF Ledger

(* A row turns while a session is at work.                                  *)
LEMMA WorkStep ==
  ASSUME rows \in [Nodes -> NodeStatus \cup {"absent"}], NEW n \in Nodes,
         NEW status \in NodeStatus \ {"rejected"}, rows' = [rows EXCEPT ![n] = status],
         rows[n] # "succeeded", status = "succeeded" => Earned(n),
         runStatus = "running", UNCHANGED runStatus
  PROVE  Lifecycle!Work(n)
<1>1. Ledger' = [Ledger EXCEPT ![n] = Standing(status)] /\ Ledger[n] = Standing(rows[n])
  BY LedgerStep
<1>2. rows[n] \in NodeStatus \cup {"absent"}
  OBVIOUS
<1>3. /\ Standing(status) \in Lifecycle!Standings \ {"declined"}
      /\ Standing(rows[n]) # "completed"
      /\ Standing(status) = "completed" => status = "succeeded"
  BY <1>2, Standings
<1>4. Standing(status) = "completed" => Lifecycle!Earned(n)
  BY <1>3, LedgerSets DEF Earned, Lifecycle!Earned
<1> QED BY <1>1, <1>3, <1>4 DEF Lifecycle!Work, Ledger

LEMMA LedgerKept ==
  ASSUME UNCHANGED <<runStatus, rows>> PROVE UNCHANGED <<runStatus, Ledger>>
BY DEF Ledger

(* What a session's step does to the rows when it concludes no Attempt.     *)
LEMMA PlainRows ==
  ASSUME Step \/ Environment, rows \in [Nodes -> NodeStatus \cup {"absent"}],
         \A n \in Nodes : ~SettleSuccess(n) /\ ~SettleFailure(n) /\ ~DrainSettles(n), NEW m \in Nodes,
         rows'[m] \in {"succeeded", "rejected"}
  PROVE  rows'[m] = rows[m]
<1>1. CASE WriteEvent \/ LaunchReturn \/ WaitReturns \/ BatchDone \/ WalkPasses \/ WalkDone
           \/ DrainDone \/ Interrupt \/ FinalizeRun \/ FinishParked \/ FinishRun
  BY <1>1 DEF WriteEvent, LaunchReturn, WaitReturns, BatchDone, WalkPasses, WalkDone, DrainDone,
    Interrupt, FinalizeRun, FinishParked, FinishRun, RecordRunStatus, storeVars
<1>2. ASSUME NEW n \in Nodes, AttemptEnds(n) \/ HandleRaised(n) \/ SettleRetry(n) \/ HandleAttempt(n)
             \/ DrainAttempt(n)
      PROVE  rows'[m] = rows[m]
  BY <1>2 DEF AttemptEnds, HandleRaised, SettleRetry, HandleAttempt, DrainAttempt, RecordAttempt, storeVars
<1>3. ASSUME NEW n \in Nodes, LaunchSkip(n) \/ WalkSkips(n) \/ LaunchPark(n) \/ LaunchStart(n)
             \/ FinalizeNode(n)
      PROVE  rows'[m] = rows[m]
  BY <1>3 DEF LaunchSkip, WalkSkips, LaunchPark, LaunchStart, FinalizeNode, RecordSkip, RecordNodeFinished,
    RecordNodeSkipped, RecordNodeAwaiting, RecordNodeRunning, RecordNodeStarted
<1> QED BY <1>1, <1>2, <1>3 DEF Step, Environment

LEMMA ConcludedIsWork ==
  ASSUME DurableInv, ResumeInv, NEW n \in Nodes, SettleSuccess(n) \/ SettleFailure(n) \/ DrainSettles(n)
  PROVE  Lifecycle!Work(n)
<1>1. /\ phase \in {"settle", "drained"} /\ Live /\ n = current /\ Conclude(n)
      /\ rows \in [Nodes -> NodeStatus \cup {"absent"}] /\ HandlingSound /\ RunTypeOK /\ MemoryOf(n)
      /\ runStatus = "running"
  BY DEF SettleSuccess, SettleFailure, DrainSettles, Live, Phases, DurableInv, MemorySound, RunTypeOK,
    StoreTypeOK, ResumeInv, StandingSound
<1>2. n \in InFlight /\ task[n] \in NodeResults
  BY <1>1, CurrentInFlight
<1>3. rows[n] # "absent" /\ rows[n] # "succeeded"
  BY <1>1, <1>2, NotSucceeded DEF MemoryOf
<1>4. rows' = [rows EXCEPT ![n] = task[n].status] /\ UNCHANGED runStatus
  BY <1>1, <1>3, FinishedRow DEF Conclude, RecordNodeFinished
<1>5. task[n].status \in NodeStatus \ {"rejected"}
  BY <1>2 DEF NodeResults, NodeStatus, AttemptStatus, FailureKinds
<1>6. Earned(n)
  <2>1. CASE phase = "settle"
    BY <1>2, <2>1, EarnedInLoop DEF Looping, ResumeInv, TakenUp
  <2>2. CASE phase = "drained"
    BY <1>2, <2>2 DEF Draining, ResumeInv, RowOf
  <2> QED BY <1>1, <2>1, <2>2
<1> QED BY <1>1, <1>3, <1>4, <1>5, <1>6, WorkStep

LEMMA ConcludesRun ==
  ASSUME DurableInv, ResumeInv, FinalizeRun \/ FinishParked \/ FinishRun PROVE Lifecycle!Conclude
<1>1. /\ rows \in [Nodes -> NodeStatus \cup {"absent"}] /\ runStatus = "running" /\ UNCHANGED rows
  BY DEF FinalizeRun, FinishParked, FinishRun, RecordRunStatus, DurableInv, RunTypeOK, StoreTypeOK,
    ResumeInv, StandingSound, Live, Phases
<1>2. UNCHANGED Ledger
  BY <1>1 DEF Ledger
<1>3. CASE FinalizeRun
  BY <1>1, <1>2, <1>3 DEF FinalizeRun, RecordRunStatus, Lifecycle!Conclude, Ledger
<1>4. CASE FinishParked
  <2>1. PICK g \in Nodes : g \in awaiting
    BY <1>4 DEF FinishParked, DurableInv, RunTypeOK, FateTypeOK
  <2>2. g \in WithStatus({"awaiting"})
    BY <1>4, <2>1, OutcomeRows DEF FinishParked, WithStatus
  <2>3. Lifecycle!Having({"waiting"}) # {}
    BY <1>1, <2>2, LedgerSets
  <2> QED BY <1>1, <1>2, <1>4, <2>3 DEF FinishParked, RecordRunStatus, Lifecycle!Conclude, Ledger
<1>5. CASE FinishRun
  <2>1. StandingSound' /\ runStatus' \in {"succeeded", "failed"}
    BY <1>5, FinishStanding DEF FinishRun, RecordRunStatus, RunOutcome
  <2>2. runStatus' = "succeeded" => Lifecycle!Having({"completed", "withheld"}) = Nodes
    <3>1. runStatus' = "succeeded" => WithStatus({"succeeded", "skipped"})' = Nodes
      BY <2>1 DEF StandingSound
    <3>2. WithStatus({"succeeded", "skipped"})' = WithStatus({"succeeded", "skipped"})
      BY <1>1 DEF WithStatus
    <3> QED BY <1>1, <3>1, <3>2, LedgerSets
  <2>3. runStatus' = "failed" => /\ Lifecycle!Having({"completed", "withheld", "failed"}) = Nodes
                                 /\ Lifecycle!Having({"failed"}) # {}
    <3>1. runStatus' = "failed" => (\A n \in Nodes : TerminalRow(n)') /\ WithStatus(FailureKinds)' # {}
      BY <2>1 DEF StandingSound
    <3>2. (\A n \in Nodes : TerminalRow(n)' <=> TerminalRow(n)) /\ WithStatus(FailureKinds)' = WithStatus(FailureKinds)
      BY <1>1 DEF WithStatus, TerminalRow
    <3>3. (\A n \in Nodes : TerminalRow(n)) => {n \in Nodes : TerminalRow(n)} = Nodes
      OBVIOUS
    <3> QED BY <1>1, <3>1, <3>2, <3>3, LedgerSets
  <2> QED BY <1>1, <1>2, <2>1, <2>2, <2>3 DEF Lifecycle!Conclude, Ledger
<1> QED BY <1>3, <1>4, <1>5

LEMMA SessionIsLifecycle ==
  ASSUME DurableInv, ResumeInv, Step \/ Environment
  PROVE  [Lifecycle!Next]_<<runStatus, Ledger>>
<1> USE DEF Lifecycle!Next
<1>1. /\ rows \in [Nodes -> NodeStatus \cup {"absent"}]
      /\ ~WriteEvent => Live /\ runStatus = "running"
  BY StepIsLive DEF DurableInv, RunTypeOK, StoreTypeOK, ResumeInv, StandingSound
<1>2. CASE WriteEvent
  BY <1>2, LedgerKept DEF WriteEvent, storeVars
<1>3. CASE FinalizeRun \/ FinishParked \/ FinishRun
  BY <1>3, ConcludesRun
<1>4. ASSUME NEW n \in Nodes, SettleSuccess(n) \/ SettleFailure(n) \/ DrainSettles(n)
      PROVE  Lifecycle!Next
  BY <1>4, ConcludedIsWork
<1>5. CASE /\ ~WriteEvent /\ ~FinalizeRun /\ ~FinishParked /\ ~FinishRun
           /\ \A n \in Nodes : ~SettleSuccess(n) /\ ~SettleFailure(n) /\ ~DrainSettles(n)
  <2>1. UNCHANGED runStatus
    BY <1>5 DEF Step, Environment, LaunchReturn, WaitReturns, BatchDone, WalkPasses, WalkDone, DrainDone,
      Interrupt, LaunchSkip, LaunchPark, LaunchStart, HandleRaised, HandleAttempt, SettleRetry, WalkSkips,
      DrainAttempt, FinalizeNode, AttemptEnds, RecordSkip, RecordNodeFinished, RecordNodeSkipped,
      RecordNodeAwaiting, RecordNodeRunning, RecordNodeStarted, RecordAttempt, storeVars
  <2>2. CASE Spares
    BY <2>1, <2>2, LedgerKept DEF Spares
  <2>3. ASSUME NEW n \in Nodes, Marks(n) PROVE [Lifecycle!Next]_<<runStatus, Ledger>>
    <3>1. PICK status \in NodeStatus \ {"succeeded"} : rows' = [rows EXCEPT ![n] = status]
      BY <2>3 DEF Marks
    <3>2. rows'[n] = status
      BY <1>1, <3>1
    <3>3. CASE status = "rejected"
      <4>1. rows' = rows
        BY <1>1, <1>5, <3>1, <3>2, <3>3, PlainRows
      <4> QED BY <2>1, <4>1, LedgerKept
    <3>4. CASE status # "rejected"
      BY <1>1, <1>5, <2>1, <2>3, <3>1, <3>4, WorkStep DEF Marks
    <3> QED BY <3>3, <3>4
  <2>4. ASSUME NEW n \in Nodes, Completes(n) PROVE FALSE
    <3>1. rows'[n] = "succeeded" /\ rows[n] # "succeeded"
      BY <1>1, <2>4 DEF Completes
    <3> QED BY <1>1, <1>5, <3>1, PlainRows
  <2>5. ASSUME NEW n \in Nodes, Records(n) PROVE [Lifecycle!Next]_<<runStatus, Ledger>>
    BY <2>1, <2>5, LedgerKept DEF Records
  <2> QED BY <2>2, <2>3, <2>4, <2>5, StepEffect
<1> QED BY <1>2, <1>3, <1>4, <1>5

LEMMA DecisionIsLifecycle ==
  ASSUME DurableInv, ResumeInv, NEW g \in Gates, RejectGate(g) \/ ApproveGate(g)
  PROVE  Lifecycle!Decide(g)
<1>1. /\ g \in Nodes /\ rows[g] = "awaiting" /\ rows \in [Nodes -> NodeStatus \cup {"absent"}]
      /\ runStatus \in Lifecycle!Resting \cup {"running"}
  BY PolicyAssumption DEF RejectGate, ApproveGate, DurableInv, DecisionSound, WithStatus, RunTypeOK,
    StoreTypeOK, RunStatus, ResumeInv, StandingSound, Resumable, Lifecycle!Resting
<1>2. PICK status \in {"succeeded", "rejected"} : rows' = [rows EXCEPT ![g] = status] /\ UNCHANGED runStatus
  <2>1. CASE RejectGate(g)
    BY <1>1, <2>1, FinishedRow DEF RejectGate, RecordNodeFinished
  <2>2. CASE ApproveGate(g)
    BY <1>1, <2>2, FinishedRow DEF ApproveGate, RecordNodeFinished
  <2> QED BY <2>1, <2>2
<1>3. status \in NodeStatus
  BY DEF NodeStatus, AttemptStatus
<1>4. Ledger' = [Ledger EXCEPT ![g] = Standing(status)] /\ Ledger[g] = Standing("awaiting")
  BY <1>1, <1>2, <1>3, LedgerStep
<1>5. Standing(status) \in {"completed", "declined"} /\ Standing("awaiting") = "waiting"
  BY <1>2 DEF Standing
<1> QED BY <1>1, <1>2, <1>4, <1>5 DEF Lifecycle!Decide, Ledger

LEMMA LifecycleOfRun ==
  ASSUME DurableInv, ResumeInv, [RunNext]_runVars
  PROVE  [Lifecycle!Next]_<<runStatus, Ledger>>
<1> USE DEF Lifecycle!Next
<1>1. /\ rows \in [Nodes -> NodeStatus \cup {"absent"}] /\ Gates \subseteq Nodes
      /\ runStatus \in RunStatus \cup {"absent"} /\ StandingSound
  BY PolicyAssumption DEF DurableInv, RunTypeOK, StoreTypeOK, ResumeInv
<1>2. CASE Advance \/ Cancel \/ (\E n \in Nodes : Ends(n))
  BY <1>2, SessionIsLifecycle DEF Advance, Cancel, Ends, Environment
<1>3. CASE UNCHANGED runVars \/ AtRest \/ Kill \/ (\E n \in Nodes : WalkBreaches(n))
           \/ (\E g \in Gates : ApproveAttempt(g) \/ ApproveCollides(g))
           \/ (\E gates \in SUBSET Gates : ResumeApproving(gates) \/ ResumeRejecting(gates))
  <2>1. UNCHANGED <<runStatus, rows>>
    BY <1>3 DEF AtRest, Kill, WalkBreaches, ApproveAttempt, ApproveCollides, ResumeApproving,
      ResumeRejecting, Resume, RecordAttempt, runVars, vars, storeVars
  <2> QED BY <2>1, LedgerKept
<1>4. CASE Start
  <2>1. runStatus = "absent" /\ runStatus' = "running" /\ UNCHANGED rows
    BY <1>4 DEF Start, RecordRunStarted
  <2>2. Lifecycle!Begin
    BY <2>1 DEF Lifecycle!Begin
  <2> QED BY <2>2
<1>5. CASE Reopen
  <2>1. Resumable /\ runStatus' = "running" /\ UNCHANGED rows
    BY <1>1, <1>5 DEF Reopen, RecordRunStatus, StandingSound
  <2>2. runStatus # "running" => Lifecycle!Resume
    BY <1>1, <2>1 DEF Lifecycle!Resume, Lifecycle!Resting, Resumable, RunStatus
  <2> QED BY <2>1, <2>2, LedgerKept
<1>6. CASE RejectRun
  <2>1. Resumable /\ WithStatus({"rejected"}) # {} /\ runStatus' = "rejected" /\ UNCHANGED rows
    BY <1>1, <1>6 DEF RejectRun, RecordRunStatus, StandingSound
  <2>2. Lifecycle!Having({"declined"}) # {}
    BY <1>1, <2>1, LedgerSets
  <2>3. Lifecycle!Reject
    BY <1>1, <2>1, <2>2 DEF Lifecycle!Reject, Lifecycle!Resting, Resumable, RunStatus
  <2> QED BY <2>3
<1>7. ASSUME NEW g \in Gates, RejectGate(g) \/ ApproveGate(g) PROVE Lifecycle!Next
  BY <1>1, <1>7, DecisionIsLifecycle
<1> QED BY <1>2, <1>3, <1>4, <1>5, <1>6, <1>7 DEF RunNext, ResumeStep, Human

(* The executor, its State Store and `caw resume` implement RunLifecycle    *)
(* for every Workflow, any number of sessions, and a kill at any point: work*)
(* is completed only where it was earned, and only humans decide on gates.  *)
THEOREM LifecycleOfRunImplemented == RunSafety => RefinesLifecycle
<1>1. RunInit => Lifecycle!Init
  BY DEF RunInit, Lifecycle!Init, Standing
<1>2. DurableInv /\ ResumeInv /\ [RunNext]_runVars =>
        [Lifecycle!Next]_<<runStatus, [n \in Nodes |-> Standing(rows[n])]>>
  BY LifecycleOfRun DEF Ledger
<1> QED BY <1>1, <1>2, DurableInvHolds, ResumeInvHolds, PTL
      DEF RunSafety, RefinesLifecycle, Lifecycle!Spec

-----------------------------------------------------------------------------
(* Where no process is killed between two writes.                           *)

(* A gate is rejected by a resume that ends the Run before anything else    *)
(* can happen to it.                                                        *)
RejectionInv == WithStatus({"rejected"}) # {} => phase = "reject" \/ runStatus = "rejected"

LEMMA NoneRejected ==
  ASSUME DurableInv, Step \/ Environment, ~WriteEvent, WithStatus({"rejected"}) = {}
  PROVE  WithStatus({"rejected"})' = {}
<1>1. rows \in [Nodes -> NodeStatus \cup {"absent"}] /\ RunTypeOK
  BY DEF DurableInv, RunTypeOK, StoreTypeOK
<1>2. ASSUME NEW n \in Nodes, SettleSuccess(n) \/ SettleFailure(n) \/ DrainSettles(n), NEW m \in Nodes
      PROVE  rows'[m] # "rejected"
  <2>1. /\ phase \in {"settle", "drained"} /\ n = current /\ Conclude(n) /\ HandlingSound
    BY <1>2 DEF SettleSuccess, SettleFailure, DrainSettles, DurableInv, MemorySound, Live, Phases
  <2>2. task[n].status # "rejected"
    BY <1>1, <2>1, CurrentInFlight DEF NodeResults, AttemptStatus, FailureKinds
  <2> QED BY <1>1, <2>1, <2>2 DEF Conclude, RecordNodeFinished, WithStatus
<1>3. CASE \A n \in Nodes : ~SettleSuccess(n) /\ ~SettleFailure(n) /\ ~DrainSettles(n)
  BY <1>1, <1>3, PlainRows DEF WithStatus
<1> QED BY <1>2, <1>3 DEF WithStatus

LEMMA RejectionStep ==
  ASSUME ~HardKills, DurableInv, ResumeInv, RejectionInv, [RunNext]_runVars
  PROVE  RejectionInv' /\ \A g \in WithStatus({"rejected"}) : rows'[g] = "rejected"
<1>1. /\ rows \in [Nodes -> NodeStatus \cup {"absent"}] /\ Gates \subseteq Nodes
      /\ StandingSound /\ DecisionSound
  BY PolicyAssumption DEF ResumeInv, DurableInv, RunTypeOK, StoreTypeOK
<1>2. ASSUME UNCHANGED rows,
             \/ WithStatus({"rejected"}) = {}
             \/ UNCHANGED <<phase, runStatus>>
             \/ runStatus' = "rejected"
      PROVE  RejectionInv' /\ \A g \in WithStatus({"rejected"}) : rows'[g] = "rejected"
  BY <1>2 DEF RejectionInv, WithStatus
<1>3. CASE UNCHANGED runVars \/ AtRest \/ WriteEvent
  BY <1>2, <1>3 DEF AtRest, WriteEvent, runVars, vars, storeVars
<1>4. CASE (Step \/ Environment) /\ ~WriteEvent
  <2>1. WithStatus({"rejected"}) = {}
    BY <1>1, <1>4, StepIsLive DEF RejectionInv, StandingSound, Live, Phases
  <2> QED BY <1>4, <2>1, NoneRejected DEF RejectionInv
<1>5. CASE Start
  <2>1. WithStatus({"rejected"}) = {} /\ UNCHANGED rows
    BY <1>5 DEF Start, RecordRunStarted, DurableInv, StoreSound, WithStatus
  <2> QED BY <1>2, <2>1
<1>6. CASE Reopen \/ \E g \in Gates : ApproveAttempt(g) \/ ApproveCollides(g)
  <2>1. phase = "approve" /\ UNCHANGED rows
    BY <1>6 DEF Reopen, RecordRunStatus, ApproveAttempt, ApproveCollides, RecordAttempt, storeVars
  <2> QED BY <1>1, <1>2, <2>1 DEF RejectionInv, StandingSound
<1>7. ASSUME NEW gates \in SUBSET Gates, ResumeApproving(gates) \/ ResumeRejecting(gates)
      PROVE  RejectionInv' /\ \A g \in WithStatus({"rejected"}) : rows'[g] = "rejected"
  <2>1. phase = "idle" /\ runStatus # "rejected" /\ UNCHANGED rows
    BY <1>7 DEF ResumeApproving, ResumeRejecting, Resume, BeginSession, Resumable, storeVars
  <2> QED BY <1>2, <2>1 DEF RejectionInv
<1>8. ASSUME NEW g \in Gates, RejectGate(g)
      PROVE  RejectionInv' /\ \A h \in WithStatus({"rejected"}) : rows'[h] = "rejected"
  <2>1. rows[g] = "awaiting" /\ g \in Nodes /\ phase' = "reject"
    BY <1>1, <1>8 DEF RejectGate, DecisionSound, WithStatus
  <2>2. rows' = [rows EXCEPT ![g] = "rejected"]
    BY <1>8, <2>1, FinishedRow DEF RejectGate
  <2> QED BY <1>1, <2>1, <2>2 DEF RejectionInv, WithStatus
<1>9. CASE RejectRun
  BY <1>2, <1>9 DEF RejectRun, RecordRunStatus
<1>10. ASSUME NEW g \in Gates, ApproveGate(g)
       PROVE  RejectionInv' /\ \A h \in WithStatus({"rejected"}) : rows'[h] = "rejected"
  <2>1. WithStatus({"rejected"}) = {}
    BY <1>1, <1>10 DEF ApproveGate, RejectionInv, StandingSound
  <2>2. rows[g] = "awaiting" /\ g \in Nodes
    BY <1>1, <1>10 DEF ApproveGate, DecisionSound, WithStatus
  <2>3. rows' = [rows EXCEPT ![g] = "succeeded"]
    BY <1>10, <2>2, FinishedRow DEF ApproveGate
  <2> QED BY <1>1, <2>1, <2>3 DEF RejectionInv, WithStatus
<1>11. ASSUME NEW n \in Nodes, WalkBreaches(n)
       PROVE  RejectionInv' /\ \A g \in WithStatus({"rejected"}) : rows'[g] = "rejected"
  <2>1. WithStatus({"rejected"}) = {} /\ UNCHANGED rows
    BY <1>1, <1>11 DEF WalkBreaches, RejectionInv, StandingSound, storeVars
  <2> QED BY <1>2, <2>1
<1>12. ~Kill
  BY DEF Kill
<1>13. CASE Advance \/ Cancel \/ \E n \in Nodes : Ends(n)
  BY <1>3, <1>4, <1>13 DEF Advance, Cancel, Ends, Environment
<1>14. CASE ResumeStep \/ Human
  BY <1>5, <1>6, <1>7, <1>8, <1>9, <1>10, <1>14 DEF ResumeStep, Human
<1> QED BY <1>3, <1>11, <1>12, <1>13, <1>14 DEF RunNext

(* A rejected gate stays rejected, whatever is resumed or decided later     *)
(* (_reject_gates, resume_run's eligibility), unless a process is killed    *)
(* between the gate's row and the Run's: for every Workflow.                *)
THEOREM RejectionStandsWithoutKills == ~HardKills => (RunSafety => RejectionStands)
<1> SUFFICES ASSUME ~HardKills PROVE RunSafety => RejectionStands
  OBVIOUS
<1>1. RunInit => RejectionInv
  BY DEF RunInit, RejectionInv, WithStatus
<1>2. DurableInv /\ ResumeInv /\ RejectionInv /\ [RunNext]_runVars =>
        RejectionInv' /\ [\A g \in WithStatus({"rejected"}) : rows'[g] = "rejected"]_runVars
  BY RejectionStep
<1> QED BY <1>1, <1>2, DurableInvHolds, ResumeInvHolds, PTL DEF RunSafety, RejectionStands

(* A gate that awaits its decision is marked so in the trace, or about to   *)
(* be.  A session parks it without a further Event when it was awaiting     *)
(* before, and until then it is still the same wait.                        *)
AwaitedOf(n) ==
  /\ rows[n] = "awaiting" => n \in Gates /\ Told(n) = "gate_awaiting"
  /\ n \in awaitingSeed =>
       /\ phase \in {"approve", "approving"} => rows[n] \in {"awaiting", "succeeded"}
       /\ Looping => rows[n] = "awaiting" \/ n \in skipped \cup satisfied
  /\ phase = "finalize" /\ n \in InFlight => rows[n] # "awaiting"

AwaitedInv == \A n \in Nodes : AwaitedOf(n)

(* A step that leaves n's row and what is told of it.                       *)
LEMMA AwaitKept ==
  ASSUME NEW n \in Nodes, AwaitedOf(n), RowOf(n), rows'[n] = rows[n], Told(n)' = Told(n),
         n \in awaitingSeed' => n \in awaitingSeed,
         phase' \in {"approve", "approving"} => phase \in {"approve", "approving"},
         Looping' => Looping /\ (n \in skipped \cup satisfied => n \in (skipped \cup satisfied)'),
         phase' = "finalize" => (phase = "finalize" \/ Draining) /\ (n \in InFlight' => n \in InFlight)
  PROVE  AwaitedOf(n)'
BY DEF AwaitedOf, RowOf

(* A step that turns n's row to something else, once its wait is over.      *)
LEMMA AwaitOver ==
  ASSUME NEW n \in Nodes, rows'[n] # "awaiting",
         phase' \notin {"approve", "approving"},
         n \in awaitingSeed' => ~Looping' \/ n \in (skipped \cup satisfied)'
  PROVE  AwaitedOf(n)'
BY DEF AwaitedOf

(* The Nodes a session is to park again have not been taken up yet.         *)
LEMMA NotTakenUpAgain ==
  ASSUME FatesSound, Looping, NEW n \in Nodes, AwaitedOf(n), RowOf(n),
         n \in InFlight \/ (n \in Ready /\ n \notin Gates)
  PROVE  n \notin awaitingSeed
BY DEF AwaitedOf, RowOf, FatesSound, Moved, OneFate, Ready

(* What a skip and a conclusion leave in State.                             *)
LEMMA SkippedOnRecord ==
  ASSUME DurableInv, NEW n \in Nodes, LaunchSkip(n) \/ WalkSkips(n)
  PROVE  /\ rows' = [rows EXCEPT ![n] = "skipped"] /\ skipped' = skipped \cup {n}
         /\ UNCHANGED <<attempts, task, results, awaiting, satisfied, awaitingSeed, current>>
         /\ owed = NoEvent /\ Owe("node_skipped", {n}) /\ Looping /\ phase' = "walk"
<1>1. PICK cause, by : RecordSkip(n, cause, by)
  BY DEF LaunchSkip, WalkSkips
<1>2. n \in started => rows[n] # "absent"
  BY DEF DurableInv, MemorySound, MemoryOf, LaunchSkip, WalkSkips, Live, Phases
<1>3. rows' = [rows EXCEPT ![n] = "skipped"] /\ UNCHANGED attempts
  BY <1>1, <1>2, FinishedRow DEF RecordSkip, RecordNodeSkipped
<1> QED BY <1>1, <1>3 DEF LaunchSkip, WalkSkips, RecordSkip, seedVars, Looping

LEMMA ConcludedOnRecord ==
  ASSUME DurableInv, ResumeInv, NEW n \in Nodes, SettleSuccess(n) \/ SettleFailure(n) \/ DrainSettles(n)
  PROVE  /\ n \in InFlight /\ n = current /\ task[n] \in NodeResults /\ rows[n] = "running"
         /\ rows' = [rows EXCEPT ![n] = task[n].status]
         /\ task' = [task EXCEPT ![n] = NoResult] /\ results' = [results EXCEPT ![n] = task[n]]
         /\ UNCHANGED <<attempts, skipped, awaiting, satisfied, awaitingSeed>> /\ current' = NoNode
         /\ owed = NoEvent /\ UNCHANGED traceVars
         /\ (Looping \/ (Draining /\ ~Looping'))
<1>1. /\ Live /\ phase \in {"settle", "drained"} /\ n = current /\ Conclude(n)
      /\ (Looping \/ (Draining /\ ~Looping')) /\ owed = NoEvent /\ UNCHANGED <<satisfied, awaitingSeed>>
  BY DEF SettleSuccess, SettleFailure, DrainSettles, Live, Phases, Looping, Draining, seedVars
<1>2. n \in InFlight /\ task[n] \in NodeResults
  BY <1>1, CurrentInFlight DEF DurableInv, MemorySound
<1>3. rows[n] = "running"
  BY <1>1, <1>2 DEF ResumeInv, RowOf
<1>4. rows' = [rows EXCEPT ![n] = task[n].status] /\ UNCHANGED attempts
  BY <1>1, <1>3, FinishedRow DEF Conclude
<1> QED BY <1>1, <1>2, <1>3, <1>4 DEF Conclude, OweNothing

LEMMA QuietAwait ==
  ASSUME DurableInv, ResumeInv, AwaitedInv, NEW m \in Nodes,
         \/ WriteEvent \/ LaunchReturn \/ WaitReturns \/ BatchDone \/ WalkPasses \/ WalkDone
         \/ Interrupt \/ DrainDone \/ FinishParked \/ FinishRun \/ RejectRun
         \/ \E n \in Nodes : AttemptEnds(n) \/ HandleRaised(n) \/ WalkBreaches(n)
         \/ \E g \in Gates : ApproveAttempt(g) \/ ApproveCollides(g)
  PROVE  AwaitedOf(m)'
<1>1. AwaitedOf(m) /\ RowOf(m) /\ TraceTypeOK
  BY DEF AwaitedInv, ResumeInv, DurableInv, RunTypeOK
<1>2. UNCHANGED <<rows, awaitingSeed, satisfied>>
  BY DEF WriteEvent, LaunchReturn, WaitReturns, BatchDone, WalkPasses, WalkDone, Interrupt, DrainDone,
    FinishParked, FinishRun, RejectRun, AttemptEnds, HandleRaised, WalkBreaches, ApproveAttempt,
    ApproveCollides, RecordRunStatus, RecordAttempt, storeVars, seedVars
<1>3. Told(m)' = Told(m)
  <2>1. CASE WriteEvent
    BY <1>1, <2>1, ToldWritten DEF WriteEvent
  <2>2. CASE FinishRun \/ RejectRun
    BY <2>2, ToldOwed DEF FinishRun, RejectRun, At, RunEvents
  <2>3. CASE UNCHANGED traceVars
    BY <2>3, ToldKept
  <2> QED BY <2>1, <2>2, <2>3 DEF LaunchReturn, WaitReturns, BatchDone, WalkPasses, WalkDone, Interrupt,
        DrainDone, FinishParked, AttemptEnds, HandleRaised, WalkBreaches, ApproveAttempt,
        ApproveCollides, OweNothing
<1>4. /\ phase' \in {"approve", "approving"} => phase \in {"approve", "approving"}
      /\ Looping' => Looping
      /\ phase' = "finalize" => phase = "finalize" \/ Draining
      /\ phase' = "finalize" => UNCHANGED task
      /\ Looping' => UNCHANGED skipped
  BY DEF WriteEvent, LaunchReturn, WaitReturns, BatchDone, WalkPasses, WalkDone, Interrupt, DrainDone,
    FinishParked, FinishRun, RejectRun, AttemptEnds, HandleRaised, WalkBreaches, ApproveAttempt,
    ApproveCollides, fateVars, Looping, Draining
<1>5. phase' = "finalize" => UNCHANGED InFlight
  BY <1>4 DEF InFlight
<1> QED BY <1>1, <1>2, <1>3, <1>4, <1>5, AwaitKept

(* A step that commits something of one Node.                               *)
LEMMA BusyAwait ==
  ASSUME DurableInv, ResumeInv, AwaitedInv, NEW n \in Nodes, NEW m \in Nodes,
         \/ LaunchSkip(n) \/ WalkSkips(n) \/ LaunchPark(n) \/ LaunchStart(n)
         \/ HandleAttempt(n) \/ DrainAttempt(n) \/ SettleRetry(n)
         \/ SettleSuccess(n) \/ SettleFailure(n) \/ DrainSettles(n) \/ FinalizeNode(n)
  PROVE  AwaitedOf(m)'
<1>1. /\ AwaitedOf(m) /\ RowOf(m) /\ RowOf(n) /\ FatesSound /\ HandlingSound /\ RunTypeOK
      /\ rows \in [Nodes -> NodeStatus \cup {"absent"}]
      /\ task \in [Nodes -> TaskStates]
  BY DEF AwaitedInv, ResumeInv, DurableInv, MemorySound, Live, Phases, RunTypeOK, StoreTypeOK, FateTypeOK,
    LaunchSkip, WalkSkips, LaunchPark, LaunchStart, HandleAttempt, DrainAttempt, SettleRetry, SettleSuccess,
    SettleFailure, DrainSettles, FinalizeNode
<1>2. /\ phase' \notin {"approve", "approving", "finalize"} \/ FinalizeNode(n)
      /\ Looping' => Looping
      /\ UNCHANGED <<awaitingSeed, satisfied>>
  BY DEF LaunchSkip, WalkSkips, LaunchPark, LaunchStart, HandleAttempt, DrainAttempt, SettleRetry,
    SettleSuccess, SettleFailure, DrainSettles, FinalizeNode, seedVars, Looping
<1>3. CASE LaunchSkip(n) \/ WalkSkips(n)
  <2>1. /\ rows' = [rows EXCEPT ![n] = "skipped"] /\ skipped' = skipped \cup {n}
        /\ owed = NoEvent /\ Owe("node_skipped", {n}) /\ Looping /\ phase' = "walk"
    BY <1>3, SkippedOnRecord
  <2>2. Told(m)' = IF m = n THEN "node_skipped" ELSE Told(m)
    BY <2>1, ToldOwed DEF NodeEvents
  <2>3. CASE m = n
    BY <1>1, <1>2, <2>1, <2>3, AwaitOver
  <2>4. CASE m # n
    BY <1>1, <1>2, <2>1, <2>2, <2>4, AwaitKept
  <2> QED BY <2>3, <2>4
<1>4. CASE LaunchPark(n)
  <2>1. /\ rows' = [rows EXCEPT ![n] = "awaiting"] /\ n \in Gates /\ n \notin skipped \cup satisfied
        /\ owed = NoEvent /\ phase = "launch" /\ phase' = "launch" /\ UNCHANGED skipped
        /\ IF n \in awaitingSeed THEN OweNothing ELSE Owe("gate_awaiting", {n})
    BY <1>4 DEF LaunchPark, RecordNodeAwaiting, MayConsider, FirstReady, Ready
  <2>2. CASE m = n
    <3>1. Told(n)' = "gate_awaiting"
      <4>1. CASE n \in awaitingSeed
        <5>1. rows[n] = "awaiting"
          BY <1>1, <2>1, <2>2, <4>1 DEF AwaitedOf, Looping
        <5> QED BY <1>1, <2>1, <2>2, <4>1, <5>1, ToldKept DEF AwaitedOf, OweNothing
      <4>2. CASE n \notin awaitingSeed
        BY <2>1, <4>2, ToldOwed DEF NodeEvents
      <4> QED BY <4>1, <4>2
    <3> QED BY <1>1, <2>1, <2>2, <3>1 DEF AwaitedOf
  <2>3. CASE m # n
    <3>1. Told(m)' = Told(m)
      BY <2>1, <2>3, ToldOwed, ToldKept DEF NodeEvents, OweNothing
    <3> QED BY <1>1, <1>2, <2>1, <2>3, <3>1, AwaitKept
  <2> QED BY <2>2, <2>3
<1>5. CASE LaunchStart(n)
  <2>1. /\ rows' = [rows EXCEPT ![n] = "running"] /\ n \in Ready \ Gates /\ Looping
        /\ owed = NoEvent /\ phase' = "launch" /\ UNCHANGED skipped /\ Owe("node_started", {n})
    BY <1>5 DEF LaunchStart, RecordNodeRunning, RecordNodeStarted, MayConsider, FirstReady, Looping
  <2>2. CASE m = n
    BY <1>1, <1>2, <2>1, <2>2, NotTakenUpAgain, AwaitOver
  <2>3. CASE m # n
    BY <1>1, <1>2, <2>1, <2>3, ToldOwed, AwaitKept DEF NodeEvents
  <2> QED BY <2>2, <2>3
<1>6. CASE HandleAttempt(n) \/ DrainAttempt(n) \/ SettleRetry(n)
  <2>1. /\ n \in InFlight /\ UNCHANGED <<rows, skipped>>
        /\ Looping \/ ~Looping'
        /\ owed = NoEvent /\ \E type \in NodeEvents : Owe(type, {n})
    <3>1. CASE HandleAttempt(n) \/ DrainAttempt(n)
      BY <3>1, HandledNode DEF HandleAttempt, DrainAttempt, RecordAttempt, fateVars, Looping, Draining, NodeEvents
    <3>2. CASE SettleRetry(n)
      BY <1>1, <3>2, CurrentInFlight DEF SettleRetry, storeVars, Looping, NodeEvents
    <3> QED BY <1>6, <3>1, <3>2
  <2>2. Looping \/ Draining
    BY <1>6 DEF HandleAttempt, DrainAttempt, SettleRetry, Looping, Draining
  <2>3. rows[n] = "running"
    BY <1>1, <2>1, <2>2 DEF RowOf
  <2>4. CASE m = n
    <3>1. Looping => n \notin awaitingSeed
      BY <1>1, <2>1, <2>4, NotTakenUpAgain
    <3>2. phase' \notin {"approve", "approving"}
      BY <1>6 DEF HandleAttempt, DrainAttempt, SettleRetry
    <3> QED BY <1>2, <2>1, <2>3, <2>4, <3>1, <3>2, AwaitOver
  <2>5. CASE m # n
    BY <1>1, <1>2, <1>6, <2>1, <2>5, ToldOwed, AwaitKept DEF HandleAttempt, DrainAttempt, SettleRetry
  <2> QED BY <2>4, <2>5
<1>7. CASE SettleSuccess(n) \/ SettleFailure(n) \/ DrainSettles(n)
  <2>1. /\ n \in InFlight /\ task[n] \in NodeResults /\ rows[n] = "running"
        /\ rows' = [rows EXCEPT ![n] = task[n].status] /\ UNCHANGED <<skipped, satisfied, awaitingSeed>>
        /\ UNCHANGED traceVars
        /\ (Looping \/ (Draining /\ ~Looping'))
    BY <1>7, ConcludedOnRecord
  <2>2. phase' \notin {"approve", "approving", "finalize"}
    BY <1>7 DEF SettleSuccess, SettleFailure, DrainSettles
  <2>3. CASE m = n
    <3>1. Looping => n \notin awaitingSeed
      BY <1>1, <2>1, <2>3, NotTakenUpAgain
    <3>2. rows'[n] # "awaiting"
      BY <1>1, <2>1 DEF NodeResults, AttemptStatus, FailureKinds
    <3> QED BY <2>1, <2>2, <2>3, <3>1, <3>2, AwaitOver
  <2>4. CASE m # n
    BY <1>1, <1>2, <2>1, <2>2, <2>4, ToldKept, AwaitKept
  <2> QED BY <2>3, <2>4
<1>8. CASE FinalizeNode(n)
  <2>1. /\ phase = "finalize" /\ phase' = "finalize" /\ UNCHANGED <<traceVars, task, skipped>>
        /\ rows' = [rows EXCEPT ![n] = IF rows[n] = "absent" THEN rows[n] ELSE "errored"]
    BY <1>8 DEF FinalizeNode, RecordNodeFinished, OweNothing, fateVars
  <2>2. CASE m = n
    BY <1>1, <2>1, <2>2, AwaitOver DEF Looping
  <2>3. CASE m # n
    <3>1. UNCHANGED InFlight
      BY <2>1 DEF InFlight
    <3> QED BY <1>1, <1>2, <2>1, <2>3, <3>1, ToldKept, AwaitKept
  <2> QED BY <2>2, <2>3
<1> QED BY <1>3, <1>4, <1>5, <1>6, <1>7, <1>8

LEMMA AwaitedStep ==
  ASSUME ~HardKills, DurableInv, ResumeInv, AwaitedInv, [RunNext]_runVars PROVE AwaitedInv'
<1> SUFFICES ASSUME NEW m \in Nodes PROVE AwaitedOf(m)'
  BY DEF AwaitedInv
<1>1. /\ AwaitedOf(m) /\ RowOf(m) /\ rows \in [Nodes -> NodeStatus \cup {"absent"}] /\ DecisionSound
      /\ Gates \subseteq Nodes
  BY PolicyAssumption DEF AwaitedInv, ResumeInv, DurableInv, RunTypeOK, StoreTypeOK
<1>2. CASE UNCHANGED runVars \/ AtRest
  <2>1. UNCHANGED <<rows, traceVars, awaitingSeed, phase, skipped, satisfied, task>>
    BY <1>2 DEF AtRest, runVars, vars, storeVars, fateVars, seedVars
  <2>2. UNCHANGED <<InFlight, Looping>>
    BY <2>1 DEF InFlight, Looping
  <2> QED BY <1>1, <2>1, <2>2, ToldKept, AwaitKept
<1>3. CASE Start
  <2>1. awaitingSeed' = {} /\ UNCHANGED rows /\ phase' = "launch" /\ owed = NoEvent /\ Owe("run_started", {})
    BY <1>3 DEF Start, Seed, RecordRunStarted, BeginSession
  <2> QED BY <1>1, <2>1, ToldOwed DEF AwaitedOf, RunEvents
<1>4. CASE Reopen
  <2>1. /\ awaitingSeed' = awaitingSeed /\ UNCHANGED rows /\ phase = "approve" /\ phase' = "launch"
        /\ owed = NoEvent /\ Owe("run_resumed", {}) /\ satisfied' = Done
    BY <1>4 DEF Reopen, Seed, RecordRunStatus
  <2> QED BY <1>1, <2>1, ToldOwed DEF AwaitedOf, RunEvents, Done, WithStatus
<1>5. ASSUME NEW gates \in SUBSET Gates, ResumeApproving(gates) \/ ResumeRejecting(gates)
      PROVE  AwaitedOf(m)'
  <2>1. /\ awaitingSeed' = WithStatus({"awaiting"}) /\ UNCHANGED <<rows, traceVars>>
        /\ phase' \in {"approve", "reject"}
    BY <1>5 DEF ResumeApproving, ResumeRejecting, Resume, storeVars
  <2> QED BY <1>1, <2>1, ToldKept DEF AwaitedOf, WithStatus, Looping
<1>6. ASSUME NEW g \in Gates, RejectGate(g) \/ ApproveGate(g) PROVE AwaitedOf(m)'
  <2>1. /\ g \in Nodes /\ rows[g] = "awaiting" /\ owed = NoEvent /\ UNCHANGED <<awaitingSeed, skipped, satisfied>>
        /\ \E type \in NodeEvents : Owe(type, {g})
    BY <1>1, <1>6 DEF RejectGate, ApproveGate, DecisionSound, WithStatus, fateVars, seedVars, NodeEvents
  <2>2. m # g => Told(m)' = Told(m)
    BY <2>1, ToldOwed
  <2>3. CASE RejectGate(g)
    <3>1. rows' = [rows EXCEPT ![g] = "rejected"] /\ phase' = "reject"
      BY <2>1, <2>3, FinishedRow DEF RejectGate
    <3> QED BY <1>1, <2>1, <2>2, <3>1 DEF AwaitedOf, Looping
  <2>4. CASE ApproveGate(g)
    <3>1. rows' = [rows EXCEPT ![g] = "succeeded"] /\ phase = "approving" /\ phase' = "approve"
      BY <2>1, <2>4, FinishedRow DEF ApproveGate
    <3> QED BY <1>1, <2>1, <2>2, <3>1 DEF AwaitedOf, Looping
  <2> QED BY <1>6, <2>3, <2>4
<1>7. CASE FinalizeRun
  <2>1. /\ phase = "finalize" /\ phase' = "idle" /\ owed = NoEvent /\ Owe("run_errored", InFlight)
        /\ UNCHANGED <<rows, awaitingSeed, skipped, satisfied>>
    BY <1>7 DEF FinalizeRun, RecordRunStatus, fateVars, seedVars
  <2> QED BY <1>1, <2>1, ToldOwed DEF AwaitedOf, RunEvents, Looping
<1>8. ~Kill
  BY DEF Kill
<1>9. CASE Step \/ Environment
  BY <1>7, <1>9, QuietAwait, BusyAwait DEF Step, Environment
<1>10. CASE ResumeStep \/ Human
  BY <1>3, <1>4, <1>5, <1>6, <1>10, QuietAwait DEF ResumeStep, Human
<1> QED BY <1>2, <1>8, <1>9, <1>10, QuietAwait DEF RunNext, Advance, Cancel, Ends, Environment

(* The trace marks every gate that waits for a human, the ones a session    *)
(* found waiting and did not announce again included (_park_gate), unless a *)
(* process is killed between the gate's row and its Event: for every        *)
(* Workflow.                                                                *)
THEOREM GatesTracedWithoutKills == ~HardKills => (RunSafety => []GatesTraced)
<1> SUFFICES ASSUME ~HardKills PROVE RunSafety => []GatesTraced
  OBVIOUS
<1>1. RunInit => AwaitedInv
  BY DEF RunInit, AwaitedInv, AwaitedOf, Looping
<1>2. DurableInv /\ ResumeInv /\ AwaitedInv /\ [RunNext]_runVars => AwaitedInv'
  BY AwaitedStep
<1>3. AwaitedInv => GatesTraced
  BY DEF AwaitedInv, AwaitedOf, GatesTraced, Over, WithStatus, Told, NoEvent
<1> QED BY <1>1, <1>2, <1>3, DurableInvHolds, ResumeInvHolds, PTL DEF RunSafety

-----------------------------------------------------------------------------
(* What a `when` reads of earlier sessions.                                 *)

(* The Nodes that no session can run any more: the largest set of Nodes of  *)
(* which each has a need in the set (all of them, under `join: any`) or a   *)
(* `when` closed by an output on record or by a leaf over the set.          *)
Closes(leaf, S) ==
  \/ rows[leaf.ref] = "succeeded" /\ LatestOut(leaf.ref) # leaf.expect
  \/ leaf.ref \in S /\ leaf.expect

OutOfReach(n, S) ==
  \/ n \notin JoinAny /\ Needs[n] \cap S # {}
  \/ Needs[n] # {} /\ Needs[n] \subseteq S
  \/ \E leaf \in When[n] : Closes(leaf, S)

Coherent(S) == \A n \in S : OutOfReach(n, S)

Withheld == UNION {S \in SUBSET Nodes : Coherent(S)}

(* What a Node found on record when it was taken up, in whatever session.   *)
Grounded(n) ==
  /\ n \notin JoinAny => Needs[n] \subseteq WithStatus({"succeeded"})
  /\ Needs[n] # {} => Needs[n] \cap WithStatus({"succeeded"}) # {}
  /\ \A leaf \in When[n] :
       \/ rows[leaf.ref] = "succeeded" /\ LatestOut(leaf.ref) = leaf.expect
       \/ leaf.ref \in Withheld /\ ~leaf.expect

Tried(n) ==
  \/ HasOutput(n)
  \/ rows[n] \notin {"absent", "skipped"}
  \/ Live /\ n \in InFlight

TriedInv == \A n \in Nodes : Tried(n) => Grounded(n)

(* A skip that is not for good is one of a walk from a failure, which takes *)
(* every dependent along.                                                   *)
CasualtyInv ==
  Looping =>
    \A n \in skipped \ Withheld, d \in Nodes :
      n \in Needs[d] => d \in skipped \/ (phase = "walk" /\ origin # NoNode /\ d \in Queued)

(* The result in memory is the one on record.                               *)
OutputOf(n) ==
  Live =>
    /\ n \in Succeeded => results[n].out = LatestOut(n)
    /\ n = current => task[n].out = LatestOut(n)

HistoryInv == TriedInv /\ CasualtyInv /\ \A n \in Nodes : OutputOf(n)

LEMMA LeafTypes ==
  ASSUME NEW n \in Nodes, NEW leaf \in When[n]
  PROVE  leaf.ref \in Needs[n] /\ leaf.ref \in Nodes /\ leaf.expect \in BOOLEAN
BY PolicyAssumption, OrderAssumption DEF Leaves

LEMMA OutOfReachGrows ==
  ASSUME NEW S, NEW T, S \subseteq T, NEW n, OutOfReach(n, S) PROVE OutOfReach(n, T)
BY DEF OutOfReach, Closes

LEMMA WithheldIsCoherent == Withheld \in SUBSET Nodes /\ Coherent(Withheld)
<1>1. ASSUME NEW n \in Withheld PROVE n \in Nodes /\ OutOfReach(n, Withheld)
  <2>1. PICK S \in SUBSET Nodes : Coherent(S) /\ n \in S
    BY DEF Withheld
  <2>2. S \subseteq Withheld
    BY <2>1 DEF Withheld
  <2> QED BY <2>1, <2>2, OutOfReachGrows DEF Coherent
<1> QED BY <1>1 DEF Coherent

LEMMA OutOfReachIsWithheld ==
  ASSUME NEW n \in Nodes, OutOfReach(n, Withheld) PROVE n \in Withheld
<1> DEFINE S == Withheld \cup {n}
<1>1. S \in SUBSET Nodes
  BY WithheldIsCoherent
<1>2. \A m \in S : OutOfReach(m, Withheld)
  BY WithheldIsCoherent DEF Coherent
<1>3. \A m \in S : OutOfReach(m, S)
  BY <1>2, OutOfReachGrows
<1>4. Coherent(S)
  BY <1>3 DEF Coherent
<1> QED BY <1>1, <1>4 DEF Withheld

(* Nothing that was taken up is out of reach: the first such Node in        *)
(* execution order would rest on an earlier one.                            *)
LEMMA GroundedIsReached ==
  ASSUME \A m \in WithStatus({"succeeded"}) : Grounded(m), NEW n \in Nodes, Grounded(n)
  PROVE  n \notin Withheld
<1> DEFINE T == {m \in Withheld : Grounded(m)}
           P == {Position[m] : m \in T}
<1> SUFFICES ASSUME n \in T PROVE FALSE
  OBVIOUS
<1>1. T \in SUBSET Nodes
  BY WithheldIsCoherent
<1>2. P \in SUBSET Nat /\ P # {}
  BY <1>1, OrderAssumption
<1>3. PICK p \in P : \A q \in P : p <= q
  BY <1>2, NaturalLeast
<1>4. PICK m \in T : p = Position[m]
  OBVIOUS
<1>5. m \in Nodes /\ Grounded(m) /\ OutOfReach(m, Withheld)
  BY <1>1, <1>4, WithheldIsCoherent DEF Coherent
<1>6. ASSUME NEW k \in Needs[m], rows[k] = "succeeded", k \in Withheld PROVE FALSE
  <2>1. k \in T
    BY <1>1, <1>5, <1>6, OrderAssumption DEF WithStatus
  <2>2. Position[k] < Position[m] /\ Position[k] \in Nat /\ Position[m] \in Nat
    BY <1>5, <2>1, <1>1, OrderAssumption
  <2>3. p <= Position[k]
    BY <1>3, <2>1
  <2> QED BY <1>4, <2>2, <2>3
<1>7. CASE m \notin JoinAny /\ Needs[m] \cap Withheld # {}
  BY <1>5, <1>6, <1>7 DEF Grounded, WithStatus
<1>8. CASE Needs[m] # {} /\ Needs[m] \subseteq Withheld
  BY <1>5, <1>6, <1>8 DEF Grounded, WithStatus
<1>9. ASSUME NEW leaf \in When[m], Closes(leaf, Withheld) PROVE FALSE
  BY <1>5, <1>6, <1>9, LeafTypes DEF Grounded, Closes
<1> QED BY <1>5, <1>7, <1>8, <1>9 DEF OutOfReach

(* What is on record of a success does not change, so that what was out of  *)
(* reach stays so, and what was found on record is there for good.          *)
LEMMA OutputKept ==
  ASSUME NEW m \in Nodes, AttemptsOf(m)' = AttemptsOf(m)
  PROVE  LatestOut(m)' = LatestOut(m) /\ HasOutput(m)' = HasOutput(m)
<1>1. MaxAttempt(m)' = MaxAttempt(m) /\ Numbers(m)' = Numbers(m)
  BY StoreFrame
<1>2. /\ LatestOut(m) <=> \E a \in AttemptsOf(m) : a.attempt = MaxAttempt(m) /\ a.out
      /\ LatestOut(m)' <=> \E a \in AttemptsOf(m)' : a.attempt = MaxAttempt(m)' /\ a.out
  BY DEF LatestOut, AttemptsOf
<1>3. LatestOut(m) \in BOOLEAN /\ LatestOut(m)' \in BOOLEAN
  BY DEF LatestOut
<1> QED BY <1>1, <1>2, <1>3 DEF HasOutput

LEMMA WithheldGrows ==
  ASSUME DurableInv, [RunNext]_runVars PROVE Withheld \subseteq Withheld'
<1>1. ASSUME NEW S \in SUBSET Nodes, Coherent(S) PROVE Coherent(S)'
  <2> SUFFICES ASSUME NEW n \in S PROVE OutOfReach(n, S)'
    BY DEF Coherent
  <2>1. OutOfReach(n, S) /\ n \in Nodes
    BY <1>1 DEF Coherent
  <2>2. ASSUME NEW leaf \in When[n], Closes(leaf, S) PROVE Closes(leaf, S)'
    <3>1. leaf.ref \in Nodes
      BY <2>1, LeafTypes
    <3> QED BY <2>2, <3>1, SucceededKept, OutputKept DEF Closes, WithStatus
  <2> QED BY <2>1, <2>2 DEF OutOfReach
<1> QED BY <1>1 DEF Withheld

LEMMA GroundedKept ==
  ASSUME DurableInv, [RunNext]_runVars, NEW n \in Nodes, Grounded(n) PROVE Grounded(n)'
<1>1. WithStatus({"succeeded"}) \subseteq WithStatus({"succeeded"})'
  BY SucceededKept DEF WithStatus
<1>2. ASSUME NEW leaf \in When[n]
      PROVE  \/ rows'[leaf.ref] = "succeeded" /\ LatestOut(leaf.ref)' = leaf.expect
             \/ leaf.ref \in Withheld' /\ ~leaf.expect
  <2>1. leaf.ref \in Nodes
    BY LeafTypes
  <2>2. CASE rows[leaf.ref] = "succeeded" /\ LatestOut(leaf.ref) = leaf.expect
    BY <2>1, <2>2, SucceededKept, OutputKept DEF WithStatus
  <2>3. CASE leaf.ref \in Withheld /\ ~leaf.expect
    BY <2>3, WithheldGrows
  <2> QED BY <2>2, <2>3 DEF Grounded
<1> QED BY <1>1, <1>2 DEF Grounded

(* What a Node that is considered finds of its needs.                       *)
LEMMA NeedsConsidered ==
  ASSUME DurableInv, ResumeInv, HistoryInv, phase = "launch", NEW n \in Ready
  PROVE  /\ ~Orphaned(n)
         /\ \A m \in Needs[n] :
              /\ m \in Nodes /\ m \in Settled
              /\ m \in Succeeded \cup satisfied => rows[m] = "succeeded"
              /\ m \in skipped => m \in Withheld
<1>1. /\ n \in Nodes /\ n \notin skipped /\ indegree[n] = 0 /\ Looping /\ Live
      /\ IndegreeExact /\ WalkSound
  BY DEF Ready, Looping, Live, Phases, ResumeInv, FatesSound, Moved
<1>2. ~Orphaned(n)
  BY <1>1 DEF WalkSound
<1>3. Needs[n] \subseteq Settled
  <2>1. Cardinality(Needs[n] \ Settled) = 0
    BY <1>1 DEF IndegreeExact
  <2>2. Needs[n] \ Settled \in SUBSET Nodes
    BY <1>1, OrderAssumption
  <2> QED BY <2>1, <2>2, NodeSets
<1>4. ASSUME NEW m \in Needs[n]
      PROVE  /\ m \in Nodes /\ m \in Settled
             /\ m \in Succeeded \cup satisfied => rows[m] = "succeeded"
             /\ m \in skipped => m \in Withheld
  <2>1. m \in Nodes
    BY <1>1, OrderAssumption
  <2>2. m \in Succeeded \cup satisfied => rows[m] = "succeeded"
    BY <1>1, <2>1, SettledRows DEF Executed
  <2>3. m \in skipped => m \in Withheld
    BY <1>1 DEF HistoryInv, CasualtyInv
  <2> QED BY <1>3, <2>1, <2>2, <2>3
<1> QED BY <1>2, <1>4

LEMMA SucceededAreGrounded ==
  ASSUME TriedInv PROVE \A m \in WithStatus({"succeeded"}) : Grounded(m)
BY DEF TriedInv, Tried, WithStatus

LEMMA WithheldHasNoOutput ==
  ASSUME TriedInv, NEW m \in Nodes, m \in Withheld PROVE ~HasOutput(m) /\ LatestOut(m) = FALSE
<1>1. ~HasOutput(m)
  BY SucceededAreGrounded, GroundedIsReached DEF TriedInv, Tried
<1>2. \A a \in attempts : a.node # m
  BY <1>1 DEF HasOutput, Numbers
<1> QED BY <1>1, <1>2 DEF LatestOut

(* What it reads of them.                                                   *)
LEMMA LeafRead ==
  ASSUME DurableInv, ResumeInv, HistoryInv, phase = "launch", NEW n \in Ready, NEW leaf \in When[n]
  PROVE  \/ /\ rows[leaf.ref] = "succeeded" /\ LeafTrue(leaf.ref) = LatestOut(leaf.ref)
            /\ leaf.ref \in Resulted \/ (leaf.ref \in satisfied /\ HasOutput(leaf.ref))
         \/ /\ leaf.ref \in skipped \cap Withheld /\ ~HasOutput(leaf.ref)
            /\ LeafTrue(leaf.ref) = FALSE
<1> DEFINE m == leaf.ref
<1>1. n \in Nodes /\ Live /\ OneFate
  BY DEF Ready, Live, Phases, ResumeInv, FatesSound, Moved, Looping
<1>2. m \in Needs[n] /\ m \in Nodes
  BY <1>1, LeafTypes
<1>3. /\ m \in Settled
      /\ m \in Succeeded \cup satisfied => rows[m] = "succeeded"
      /\ m \in skipped => m \in Withheld
  BY <1>2, NeedsConsidered
<1> HIDE DEF m
<1>4. CASE m \in Succeeded
  <2>1. m \in Resulted
    BY <1>2, <1>4 DEF Succeeded, Resulted, NoResult
  <2>2. results[m].out = LatestOut(m)
    BY <1>1, <1>2, <1>4 DEF HistoryInv, OutputOf
  <2> QED BY <1>3, <1>4, <2>1, <2>2 DEF LeafTrue, m
<1>5. CASE m \in satisfied
  <2>1. m \notin Resulted
    BY <1>1, <1>5 DEF OneFate
  <2>2. HasOutput(m)
    <3>1. Backed(m)
      BY <1>2, <1>3, <1>5 DEF DurableInv, StoreSound, StoreOf
    <3> QED BY <3>1 DEF Backed, HasOutput, Numbers
  <2> QED BY <1>3, <1>5, <2>1, <2>2 DEF LeafTrue, m
<1>6. CASE m \in skipped
  <2>1. m \notin Resulted
    BY <1>1, <1>6 DEF OneFate
  <2>2. ~HasOutput(m) /\ LatestOut(m) = FALSE
    BY <1>2, <1>3, <1>6, WithheldHasNoOutput DEF HistoryInv
  <2> QED BY <1>3, <1>6, <2>1, <2>2 DEF LeafTrue, m
<1> QED BY <1>3, <1>4, <1>5, <1>6 DEF Settled

LEMMA ConsideredIsGrounded ==
  ASSUME DurableInv, ResumeInv, HistoryInv, phase = "launch", NEW n \in Ready, WhenHolds(n)
  PROVE  Grounded(n)
<1>1. \A m \in Needs[n] \ skipped : m \in WithStatus({"succeeded"})
  BY NeedsConsidered DEF Settled, WithStatus
<1>2. n \notin JoinAny => Needs[n] \subseteq WithStatus({"succeeded"})
  BY <1>1, NeedsConsidered DEF Orphaned
<1>3. Needs[n] # {} => Needs[n] \cap WithStatus({"succeeded"}) # {}
  BY <1>1, NeedsConsidered DEF Orphaned
<1>4. ASSUME NEW leaf \in When[n]
      PROVE  \/ rows[leaf.ref] = "succeeded" /\ LatestOut(leaf.ref) = leaf.expect
             \/ leaf.ref \in Withheld /\ ~leaf.expect
  <2>1. LeafTrue(leaf.ref) = leaf.expect
    BY DEF WhenHolds
  <2> QED BY <2>1, LeafRead
<1> QED BY <1>2, <1>3, <1>4 DEF Grounded

LEMMA ClosedIsWithheld ==
  ASSUME DurableInv, ResumeInv, HistoryInv, phase = "launch", NEW n \in Ready, ~WhenHolds(n)
  PROVE  n \in Withheld
<1>1. n \in Nodes
  BY DEF Ready
<1>2. PICK leaf \in When[n] : LeafTrue(leaf.ref) # leaf.expect
  BY DEF WhenHolds
<1>3. leaf.expect \in BOOLEAN
  BY <1>1, LeafTypes
<1>4. Closes(leaf, Withheld)
  BY <1>2, <1>3, LeafRead DEF Closes
<1> QED BY <1>1, <1>4, OutOfReachIsWithheld DEF OutOfReach

LEMMA WalkedIsWithheld ==
  ASSUME DurableInv, ResumeInv, HistoryInv, phase = "walk", origin = NoNode, NEW n \in Nodes, Reaches(n)
  PROVE  n \in Withheld
<1>1. Looping /\ queue # <<>> /\ queue \in Seq(Nodes \X Nodes) /\ n = Target /\ n \notin skipped
  BY DEF Looping, Reaches, Terminal, DurableInv, RunTypeOK, LoopTypeOK
<1>2. \A m \in Needs[n] \cap skipped : m \in Withheld
  BY <1>1 DEF HistoryInv, CasualtyInv
<1>3. Orphaner \in skipped \cap Needs[n]
  <2>1. Head(queue) = queue[1] /\ 1 \in 1..Len(queue)
    BY <1>1, EmptySeq, LenProperties
  <2>2. OrphanedBy(Head(queue)[1], Head(queue)[2])
    BY <1>1, <2>1 DEF ResumeInv, FatesSound, ReasonInv, WalkReasons, Pairs
  <2> QED BY <1>1, <2>2 DEF OrphanedBy, Target, Orphaner
<1>4. n \in JoinAny => Needs[n] \subseteq skipped
  BY DEF Reaches, Tolerates, JoinAware
<1>5. OutOfReach(n, Withheld)
  BY <1>2, <1>3, <1>4 DEF OutOfReach
<1> QED BY <1>5, OutOfReachIsWithheld

LEMMA FlightFrom ==
  ASSUME DurableInv, ResumeInv, [RunNext]_runVars, NEW m \in Nodes, (Live /\ m \in InFlight)'
  PROVE  (Live /\ m \in InFlight) \/ LaunchStart(m)
<1>1. CASE Start \/ Reopen
  BY <1>1 DEF Start, Reopen, Seed, InFlight
<1>2. CASE ~Live /\ ~Start /\ ~Reopen
  <2>1. CASE UNCHANGED runVars \/ AtRest \/ WriteEvent
    BY <1>2, <2>1 DEF AtRest, WriteEvent, runVars, vars, Live
  <2>2. CASE RejectRun \/ Kill \/ (\E g \in Gates : RejectGate(g) \/ ApproveAttempt(g) \/ ApproveGate(g)
               \/ ApproveCollides(g))
             \/ (\E gates \in SUBSET Gates : ResumeApproving(gates) \/ ResumeRejecting(gates))
             \/ (\E n \in Nodes : WalkBreaches(n))
    BY <1>2, <2>2 DEF RejectRun, Kill, RejectGate, ApproveAttempt, ApproveGate, ApproveCollides,
      ResumeApproving, ResumeRejecting, Resume, WalkBreaches, Live, Phases
  <2>3. ~((Step \/ Environment) /\ ~WriteEvent)
    BY <1>2, StepIsLive
  <2> QED BY <1>2, <2>1, <2>2, <2>3 DEF RunNext, Advance, ResumeStep, Human, Cancel, Ends, Environment
<1>3. CASE Live
  BY <1>3, OnlyLaunched
<1> QED BY <1>1, <1>2, <1>3

(* Only a launch takes up a Node that was never tried.                      *)
LEMMA TriedFrom ==
  ASSUME DurableInv, ResumeInv, [RunNext]_runVars, NEW m \in Nodes, Tried(m)'
  PROVE  Tried(m) \/ LaunchStart(m) \/ LaunchPark(m)
<1> SUFFICES ASSUME ~Tried(m), ~LaunchStart(m), ~LaunchPark(m) PROVE FALSE
  OBVIOUS
<1>1. /\ rows \in [Nodes -> NodeStatus \cup {"absent"}] /\ DecisionSound /\ Gates \subseteq Nodes
  BY PolicyAssumption DEF DurableInv, RunTypeOK, StoreTypeOK
<1>2. ASSUME rows'[m] \in {rows[m], "skipped"}, AttemptsOf(m)' = AttemptsOf(m) PROVE FALSE
  BY <1>2, OutputKept, FlightFrom DEF Tried
<1>3. CASE Spares
  BY <1>2, <1>3 DEF Spares, AttemptsOf
<1>4. ASSUME NEW n \in Nodes, n # m, Marks(n) \/ Completes(n) \/ Records(n) PROVE FALSE
  BY <1>1, <1>2, <1>4, RecordsFrame DEF Marks, Completes, Records, AttemptsOf
<1>5. ASSUME NEW n \in Nodes, LaunchSkip(n) \/ WalkSkips(n) PROVE FALSE
  <2>1. rows' = [rows EXCEPT ![n] = "skipped"] /\ UNCHANGED attempts
    BY <1>5, SkippedOnRecord
  <2> QED BY <1>1, <1>2, <2>1 DEF AttemptsOf
<1>6. ASSUME NEW n \in Nodes, LaunchStart(n) \/ LaunchPark(n) PROVE FALSE
  <2>1. rows'[m] = rows[m] \/ n = m
    BY <1>1, <1>6 DEF LaunchStart, LaunchPark, RecordNodeAwaiting, RecordNodeRunning, RecordNodeStarted
  <2>2. UNCHANGED attempts
    BY <1>6 DEF LaunchStart, LaunchPark, RecordNodeAwaiting, RecordNodeRunning, RecordNodeStarted
  <2> QED BY <1>2, <1>6, <2>1, <2>2 DEF AttemptsOf
<1>7. ASSUME NEW n \in Nodes, HandleAttempt(n) \/ DrainAttempt(n) PROVE FALSE
  <2>1. n \in InFlight /\ Live /\ Records(n)
    BY <1>7, HandledNode, StepEffect DEF HandleAttempt, DrainAttempt, Live, Phases, RecordAttempt, Records
  <2> QED BY <1>4, <2>1 DEF Tried
<1>8. ASSUME NEW n \in Nodes, SettleSuccess(n) \/ SettleFailure(n) \/ DrainSettles(n) PROVE FALSE
  <2>1. n \in InFlight /\ rows' = [rows EXCEPT ![n] = task[n].status] /\ UNCHANGED attempts
    BY <1>8, ConcludedOnRecord
  <2>2. Live
    BY <1>8 DEF SettleSuccess, SettleFailure, DrainSettles, Live, Phases
  <2> QED BY <1>1, <1>2, <2>1, <2>2 DEF Tried, AttemptsOf
<1>9. ASSUME NEW n \in Nodes, FinalizeNode(n) PROVE FALSE
  <2>1. n \in InFlight /\ Live
    BY <1>9 DEF FinalizeNode, DurableInv, MemorySound, Live, Phases
  <2>2. (n # m => rows'[m] = rows[m]) /\ UNCHANGED attempts
    BY <1>1, <1>9 DEF FinalizeNode, RecordNodeFinished
  <2> QED BY <1>2, <2>1, <2>2 DEF Tried, AttemptsOf
<1>10. ASSUME NEW g \in Gates, RejectGate(g) \/ ApproveGate(g) \/ ApproveAttempt(g) PROVE FALSE
  <2>1. g \in Nodes /\ rows[g] = "awaiting"
    BY <1>1, <1>10 DEF RejectGate, ApproveGate, ApproveAttempt, DecisionSound, WithStatus
  <2>2. g # m => rows'[m] = rows[m] /\ AttemptsOf(m)' = AttemptsOf(m)
    BY <1>1, <1>10, <2>1 DEF RejectGate, ApproveGate, ApproveAttempt, RecordNodeFinished, RecordAttempt,
      AttemptsOf
  <2> QED BY <1>2, <2>1, <2>2 DEF Tried
<1>11. CASE Start \/ RejectRun \/ Reopen \/ Kill \/ AtRest \/ UNCHANGED runVars
           \/ (\E gates \in SUBSET Gates : ResumeApproving(gates) \/ ResumeRejecting(gates))
           \/ (\E g \in Gates : ApproveCollides(g)) \/ (\E n \in Nodes : WalkBreaches(n))
  BY <1>3, <1>11 DEF Start, RejectRun, Reopen, Kill, AtRest, ResumeApproving, ResumeRejecting, Resume,
    ApproveCollides, WalkBreaches, RecordRunStarted, RecordRunStatus, runVars, vars, storeVars, Spares
<1>12. CASE WriteEvent \/ LaunchReturn \/ WaitReturns \/ BatchDone \/ WalkPasses \/ WalkDone
           \/ DrainDone \/ Interrupt \/ FinalizeRun \/ FinishParked \/ FinishRun
           \/ \E n \in Nodes : AttemptEnds(n) \/ HandleRaised(n) \/ SettleRetry(n)
  BY <1>3, <1>12 DEF WriteEvent, LaunchReturn, WaitReturns, BatchDone, WalkPasses, WalkDone, DrainDone,
    Interrupt, FinalizeRun, FinishParked, FinishRun, AttemptEnds, HandleRaised, SettleRetry,
    RecordRunStatus, storeVars, Spares
<1>13. CASE Step \/ Environment
  BY <1>5, <1>6, <1>7, <1>8, <1>9, <1>12, <1>13 DEF Step, Environment
<1> QED
  BY <1>10, <1>11, <1>13 DEF RunNext, Advance, ResumeStep, Human, Cancel, Ends, Environment

LEMMA TriedStep ==
  ASSUME DurableInv, ResumeInv, HistoryInv, [RunNext]_runVars PROVE TriedInv'
<1> SUFFICES ASSUME NEW m \in Nodes, Tried(m)' PROVE Grounded(m)'
  BY DEF TriedInv
<1>1. CASE Tried(m)
  BY <1>1, GroundedKept DEF HistoryInv, TriedInv
<1>2. CASE LaunchStart(m) \/ LaunchPark(m)
  <2>1. phase = "launch" /\ m \in Ready /\ WhenHolds(m)
    BY <1>2 DEF LaunchStart, LaunchPark, MayConsider, FirstReady
  <2> QED BY <2>1, ConsideredIsGrounded, GroundedKept
<1> QED BY <1>1, <1>2, TriedFrom

(* A walk from a failure takes every dependent of what it skips along, and  *)
(* every other skip is for good.                                            *)
LEMMA WalkedQueue ==
  ASSUME DurableInv, phase = "walk", NEW n \in Nodes, WalkSkips(n)
  PROVE  Queued \subseteq {n} \cup Queued' /\ Needing(n) \subseteq Queued'
<1>1. /\ queue \in Seq(Nodes \X Nodes) /\ queue # <<>> /\ n = Target
      /\ Tail(queue) \in Seq(Nodes \X Nodes) /\ Orphans(n) \in Seq(Nodes \X Nodes)
      /\ queue' = Tail(queue) \o Orphans(n)
  BY QueueStep, OrphansType DEF WalkSkips, Reaches, DurableInv, RunTypeOK, LoopTypeOK
<1>2. Queued' = Entries(Tail(queue)) \cup Needing(n)
  <2>1. Entries(Tail(queue) \o Orphans(n)) = Entries(Tail(queue)) \cup Entries(Orphans(n))
    BY <1>1, ConcatEntries, Zenon
  <2>2. Queued' = Entries(queue')
    BY DEF Queued, Entries
  <2> QED BY <1>1, <2>1, <2>2, OrphansQueued
<1> QED BY <1>1, <1>2, TailEntries DEF Queued, Target

LEMMA PassedQueue ==
  ASSUME DurableInv, ResumeInv, WalkPasses, origin # NoNode
  PROVE  Target \in skipped /\ Queued \subseteq {Target} \cup Queued'
<1>1. queue \in Seq(Nodes \X Nodes) /\ queue # <<>> /\ queue' = Tail(queue) /\ phase = "walk"
  BY DEF WalkPasses, DurableInv, RunTypeOK, LoopTypeOK
<1>2. Target \in Queued /\ Queued \subseteq {Target} \cup Entries(Tail(queue))
  BY <1>1, TailEntries DEF Queued, Target
<1>3. Queued' = Entries(Tail(queue))
  BY <1>1 DEF Queued, Entries
<1>4. Target \notin Resulted
  BY <1>1, <1>2 DEF ResumeInv, FatesSound, WalkSound, TakenUp, Looping
<1> QED BY <1>2, <1>3, <1>4 DEF WalkPasses, Tolerates, JoinAware, Terminal

LEMMA CasualtyStep ==
  ASSUME DurableInv, ResumeInv, HistoryInv, [RunNext]_runVars PROVE CasualtyInv'
<1> SUFFICES ASSUME Looping', NEW n \in skipped' \ Withheld', NEW d \in Nodes, n \in Needs[d]
             PROVE  d \in skipped' \/ (phase' = "walk" /\ origin' # NoNode /\ d \in Queued')
  BY DEF CasualtyInv
<1>1. n \notin Withheld
  BY WithheldGrows
<1>2. CASE Start \/ Reopen
  BY <1>2 DEF Start, Reopen, Seed
<1>3. CASE Looping /\ [SessionNext]_vars
  <2>1. n \in skipped => d \in skipped \/ (phase = "walk" /\ origin # NoNode /\ d \in Queued)
    BY <1>1, <1>3 DEF HistoryInv, CasualtyInv
  <2>2. CASE UNCHANGED skipped /\ (phase # "walk" \/ UNCHANGED <<phase, queue, origin>>)
    BY <2>1, <2>2 DEF Queued, Entries
  <2>3. ASSUME NEW m \in Nodes, LaunchSkip(m) \/ (WalkSkips(m) /\ origin = NoNode)
        PROVE  d \in skipped'
    <3>1. m \in Withheld
      BY <2>3, ClosedIsWithheld, WalkedIsWithheld DEF LaunchSkip, WalkSkips, MayConsider, FirstReady
    <3>2. n \in skipped /\ skipped \subseteq skipped'
      BY <1>1, <2>3, <3>1, SkippedOnRecord
    <3> QED BY <2>1, <2>3, <3>2 DEF LaunchSkip
  <2>4. ASSUME NEW m \in Nodes, WalkSkips(m), origin # NoNode
        PROVE  d \in skipped' \/ (phase' = "walk" /\ origin' # NoNode /\ d \in Queued')
    <3>1. phase = "walk" /\ phase' = "walk" /\ origin' # NoNode /\ skipped' = skipped \cup {m}
      BY <2>4, SkippedOnRecord DEF WalkSkips
    <3> QED BY <2>1, <2>4, <3>1, WalkedQueue DEF Needing
  <2>5. CASE WalkPasses
    <3>1. UNCHANGED <<skipped, phase, origin>> /\ phase = "walk"
      BY <2>5 DEF WalkPasses, fateVars
    <3> QED BY <2>1, <2>5, <3>1, PassedQueue
  <2>6. CASE WalkDone
    <3>1. UNCHANGED skipped /\ Queued = {}
      BY <2>6, EmptySeq DEF WalkDone, fateVars, Queued, Entries
    <3> QED BY <2>1, <3>1
  <2>7. CASE WriteEvent \/ UNCHANGED vars \/ Ended
    BY <2>2, <2>7 DEF WriteEvent, Ended, vars, fateVars, loopVars
  <2>8. CASE LaunchReturn \/ WaitReturns \/ BatchDone \/ DrainDone \/ Interrupt \/ FinalizeRun
             \/ FinishParked \/ FinishRun
    BY <2>2, <2>8 DEF LaunchReturn, WaitReturns, BatchDone, DrainDone, Interrupt, FinalizeRun,
      FinishParked, FinishRun, fateVars
  <2>9. ASSUME NEW m \in Nodes, \/ LaunchPark(m) \/ LaunchStart(m) \/ AttemptEnds(m) \/ HandleRaised(m)
               \/ HandleAttempt(m) \/ SettleRetry(m) \/ SettleSuccess(m) \/ SettleFailure(m)
               \/ DrainAttempt(m) \/ DrainSettles(m) \/ FinalizeNode(m)
        PROVE  UNCHANGED skipped /\ (phase # "walk" \/ UNCHANGED <<phase, queue, origin>>)
    BY <2>9 DEF LaunchPark, LaunchStart, AttemptEnds, HandleRaised, HandleAttempt, SettleRetry,
      SettleSuccess, SettleFailure, DrainAttempt, DrainSettles, FinalizeNode, Conclude, fateVars
  <2> QED BY <1>3, <2>2, <2>3, <2>4, <2>5, <2>6, <2>7, <2>8, <2>9 DEF SessionNext, Step, Environment
<1> QED BY <1>2, <1>3, LoopSteps

(* What a session holds of an output is what it recorded last.              *)
LEMMA OutputFrame ==
  ASSUME NEW m \in Nodes, OutputOf(m), Live, AttemptsOf(m)' = AttemptsOf(m), results'[m] = results[m],
         m = current' => m = current /\ task'[m] = task[m]
  PROVE  OutputOf(m)'
<1>1. LatestOut(m)' = LatestOut(m)
  BY OutputKept
<1>2. m \in Succeeded' <=> m \in Succeeded
  BY DEF Succeeded
<1> QED BY <1>1, <1>2 DEF OutputOf

LEMMA OutputRecorded ==
  ASSUME DurableInv, NEW n \in Nodes, HandleAttempt(n) \/ DrainAttempt(n)
  PROVE  /\ LatestOut(n)' = task[n].out
         /\ Records(n) /\ UNCHANGED <<task, results>> /\ current' = n /\ n \notin Resulted
<1>1. /\ n \notin Resulted /\ nextAttempt[n] = MaxAttempt(n) + 1 /\ StoreOf(n) /\ Records(n)
      /\ UNCHANGED <<task, results>> /\ current' = n
  BY HandledNode, StepEffect DEF DurableInv, StoreSound, HandleAttempt, DrainAttempt, RecordAttempt, Records,
    fateVars
<1>2. attempts' = attempts \cup {[node |-> n, attempt |-> MaxAttempt(n) + 1,
                                  status |-> task[n].status, out |-> task[n].out]}
  BY <1>1 DEF HandleAttempt, DrainAttempt, RecordAttempt
<1>3. task[n].out \in BOOLEAN
  <2>1. n \in Finished /\ task[n].status # "raised" /\ FateTypeOK
    BY DEF HandleAttempt, DrainAttempt, Drainable, DurableInv, MemorySound, HandlingSound, HandlingBatch,
      RunTypeOK, Live, Phases
  <2> QED BY <2>1, FinishedResult DEF NodeResults
<1>4. \A a \in attempts : a.node = n => a.attempt # MaxAttempt(n) + 1
  <2> SUFFICES ASSUME NEW a \in attempts, a.node = n PROVE a.attempt # MaxAttempt(n) + 1
    OBVIOUS
  <2>1. a.attempt \in Numbers(n)
    BY DEF Numbers
  <2>2. MaxAttempt(n) \in Nat /\ a.attempt \in 1..MaxAttempt(n)
    BY <1>1, <2>1 DEF StoreOf
  <2> QED BY <2>2
<1>5. MaxAttempt(n)' = MaxAttempt(n) + 1
  BY <1>1, RecordsNumbers
<1>6. LatestOut(n)' <=> \E a \in attempts' : a.node = n /\ a.attempt = MaxAttempt(n) + 1 /\ a.out
  BY <1>5 DEF LatestOut
<1>7. LatestOut(n)' <=> task[n].out
  <2> DEFINE new == [node |-> n, attempt |-> MaxAttempt(n) + 1, status |-> task[n].status, out |-> task[n].out]
  <2>1. new.node = n /\ new.attempt = MaxAttempt(n) + 1 /\ new.out = task[n].out
    OBVIOUS
  <2>2. attempts' = attempts \cup {new}
    BY <1>2
  <2> HIDE DEF new
  <2> QED BY <1>4, <1>6, <2>1, <2>2
<1>8. LatestOut(n)' \in BOOLEAN
  BY DEF LatestOut
<1> QED BY <1>1, <1>3, <1>7, <1>8

LEMMA OutputStep ==
  ASSUME DurableInv, ResumeInv, HistoryInv, [RunNext]_runVars, NEW m \in Nodes PROVE OutputOf(m)'
<1> SUFFICES ASSUME Live' PROVE OutputOf(m)'
  BY DEF OutputOf
<1>1. OutputOf(m) /\ (Live => HandlingSound) /\ RunTypeOK
  BY DEF HistoryInv, DurableInv, MemorySound
<1>2. CASE Start \/ Reopen
  <2>1. results'[m].status = "none" /\ current' = NoNode
    BY <1>2 DEF Start, Reopen, Seed, NoResult
  <2> QED BY <2>1, NodesAssumption DEF OutputOf, Succeeded
<1>3. CASE UNCHANGED runVars \/ AtRest \/ WriteEvent \/ \E n \in Nodes : WalkBreaches(n)
  <2>1. /\ UNCHANGED <<attempts, results, current, task>>
        /\ Live
    BY <1>3 DEF AtRest, WriteEvent, WalkBreaches, runVars, vars, storeVars, fateVars, loopVars, Live, Phases
  <2> QED BY <1>1, <2>1, OutputFrame DEF AttemptsOf
<1>4. ~(RejectRun \/ Kill \/ (\E g \in Gates : RejectGate(g) \/ ApproveAttempt(g) \/ ApproveGate(g)
             \/ ApproveCollides(g))
           \/ (\E gates \in SUBSET Gates : ResumeApproving(gates) \/ ResumeRejecting(gates)))
  BY DEF RejectRun, Kill, RejectGate, ApproveAttempt, ApproveGate, ApproveCollides, ResumeApproving,
    ResumeRejecting, Resume, Live, Phases
<1>5. CASE LaunchReturn \/ WaitReturns \/ BatchDone \/ WalkPasses \/ WalkDone \/ DrainDone \/ Interrupt
           \/ FinalizeRun \/ FinishParked \/ FinishRun
           \/ \E n \in Nodes : HandleRaised(n) \/ FinalizeNode(n) \/ LaunchPark(n)
  <2>1. UNCHANGED <<attempts, results, current, task>> /\ Live
    BY <1>5 DEF LaunchReturn, WaitReturns, BatchDone, WalkPasses, WalkDone, DrainDone, Interrupt,
      FinalizeRun, FinishParked, FinishRun, HandleRaised, FinalizeNode, LaunchPark, RecordRunStatus,
      RecordNodeFinished, RecordNodeAwaiting, storeVars, fateVars, loopVars, Live, Phases
  <2> QED BY <1>1, <2>1, OutputFrame DEF AttemptsOf
<1>6. ASSUME NEW n \in Nodes, LaunchSkip(n) \/ WalkSkips(n) PROVE OutputOf(m)'
  <2>1. UNCHANGED <<attempts, results, current, task>> /\ Live
    BY <1>6, SkippedOnRecord DEF LaunchSkip, WalkSkips, Live, Phases
  <2> QED BY <1>1, <2>1, OutputFrame DEF AttemptsOf
<1>7. ASSUME NEW n \in Nodes, LaunchStart(n) \/ AttemptEnds(n) \/ SettleRetry(n) PROVE OutputOf(m)'
  <2>1. UNCHANGED <<attempts, results>> /\ Live
    BY <1>7 DEF LaunchStart, AttemptEnds, SettleRetry, RecordNodeRunning, RecordNodeStarted, storeVars,
      Live, Phases
  <2>2. current' = NoNode
    BY <1>1, <1>7, <2>1 DEF HandlingSound, LaunchStart, AttemptEnds, SettleRetry, loopVars
  <2> QED BY <1>1, <2>1, <2>2, OutputFrame, NodesAssumption DEF AttemptsOf
<1>8. ASSUME NEW n \in Nodes, HandleAttempt(n) \/ DrainAttempt(n) PROVE OutputOf(m)'
  <2>1. /\ LatestOut(n)' = task[n].out /\ Records(n) /\ UNCHANGED <<task, results>> /\ current' = n
        /\ n \notin Resulted
    BY <1>8, OutputRecorded
  <2>2. Live
    BY <1>8 DEF HandleAttempt, DrainAttempt, Live, Phases
  <2>3. CASE m # n
    BY <1>1, <2>1, <2>2, <2>3, RecordsFrame, OutputFrame
  <2>4. CASE m = n
    BY <2>1, <2>4 DEF OutputOf, Succeeded, Resulted, NoResult
  <2> QED BY <2>3, <2>4
<1>9. ASSUME NEW n \in Nodes, SettleSuccess(n) \/ SettleFailure(n) \/ DrainSettles(n) PROVE OutputOf(m)'
  <2>1. /\ n = current /\ UNCHANGED attempts /\ results' = [results EXCEPT ![n] = task[n]]
        /\ current' = NoNode /\ results \in [Nodes -> NodeResults \cup {NoResult}]
    BY <1>1, <1>9, ConcludedOnRecord DEF RunTypeOK, FateTypeOK
  <2>2. Live
    BY <1>9 DEF SettleSuccess, SettleFailure, DrainSettles, Live, Phases
  <2>3. CASE m # n
    BY <1>1, <2>1, <2>2, <2>3, OutputFrame, NodesAssumption DEF AttemptsOf
  <2>4. CASE m = n
    <3>1. results'[m] = task[m] /\ task[m].out = LatestOut(m)
      BY <1>1, <2>1, <2>2, <2>4 DEF OutputOf
    <3>2. LatestOut(m)' = LatestOut(m)
      BY <2>1, OutputKept DEF AttemptsOf
    <3> QED BY <2>1, <3>1, <3>2, NodesAssumption DEF OutputOf
  <2> QED BY <2>3, <2>4
<1>10. CASE Step \/ Environment
  BY <1>3, <1>5, <1>6, <1>7, <1>8, <1>9, <1>10 DEF Step, Environment
<1> QED BY <1>2, <1>3, <1>4, <1>10 DEF RunNext, Advance, ResumeStep, Human, Cancel, Ends, Environment

LEMMA HistoryInit == RunInit => HistoryInv
<1> SUFFICES ASSUME RunInit PROVE HistoryInv
  OBVIOUS
<1>1. ~Live /\ ~Looping
  BY DEF RunInit, Live, Looping
<1>2. \A n \in Nodes : ~HasOutput(n) /\ rows[n] = "absent"
  BY DEF RunInit, HasOutput, Numbers
<1> QED BY <1>1, <1>2 DEF HistoryInv, TriedInv, Tried, CasualtyInv, OutputOf

(* Whatever was ever taken up had found its needs and its `when` met in     *)
(* State, and for good: no later session, resume, decision or crash can     *)
(* make it skip such a Node as out of reach, and the outputs a session      *)
(* holds in memory are those on record (_seed_resumed, _evaluate_leaf,      *)
(* _propagate_skips, _handle_result).                                       *)
THEOREM HistoryInvHolds == RunSafety => []HistoryInv
<1>1. DurableInv /\ ResumeInv /\ HistoryInv /\ [RunNext]_runVars => HistoryInv'
  <2> SUFFICES ASSUME DurableInv, ResumeInv, HistoryInv, [RunNext]_runVars PROVE HistoryInv'
    OBVIOUS
  <2>1. TriedInv' /\ CasualtyInv'
    BY TriedStep, CasualtyStep
  <2>2. \A n \in Nodes : OutputOf(n)'
    BY OutputStep
  <2> QED BY <2>1, <2>2 DEF HistoryInv
<1> QED BY <1>1, HistoryInit, DurableInvHolds, ResumeInvHolds, PTL DEF RunSafety

(* A `when` never reads a stale output, and never fails for want of one     *)
(* (_output_of), for every Workflow, any number of sessions, and kills and  *)
(* interrupts at any step: a referenced Node has a result of this session,  *)
(* had succeeded before it, or was skipped and never made an Attempt.       *)
THEOREM OutputsCurrentHolds == RunSafety => []OutputsCurrent
<1>1. DurableInv /\ ResumeInv /\ HistoryInv => OutputsCurrent
  <2> SUFFICES ASSUME DurableInv, ResumeInv, HistoryInv, phase = "launch", NEW n \in Nodes, MayConsider(n),
                      NEW leaf \in When[n]
               PROVE  \/ leaf.ref \in Resulted
                      \/ leaf.ref \in satisfied /\ HasOutput(leaf.ref)
                      \/ leaf.ref \in skipped /\ ~HasOutput(leaf.ref)
    BY DEF OutputsCurrent
  <2> QED BY LeafRead DEF MayConsider, FirstReady
<1> QED BY <1>1, HistoryInvHolds, DurableInvHolds, ResumeInvHolds, PTL
=============================================================================
