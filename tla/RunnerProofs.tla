----------------------------- MODULE RunnerProofs -----------------------------
(***************************************************************************)
(* NodeRunner's safety for every set of Nodes and every number of children *)
(* a command may fork: RunnerInv is inductive, and NothingLeftBehind and   *)
(* VerdictTruthful follow from it.                                         *)
(***************************************************************************)
EXTENDS NodeRunner, TLAPS

Steps ==
  {"dispatch", "invoke", "spawn", "spawning", "communicate", "kill", "reap",
   "normalize", "validate", "over"}
TreeStates == {"unborn", "holding", "quiet", "gone"}

RunnerTypeOK ==
  /\ node \in NodeShape
  /\ step \in Steps
  /\ tree \in [Group -> TreeStates]
  /\ output \in Outputs \cup {NoOutput}
  /\ interrupted \in {"no", "deadline", "cancel"}

(* The group: no command before Spawn, its leader reaped once communicate() *)
(* returned, and nobody left after a kill.                                  *)
GroupInv ==
  /\ step \in {"dispatch", "invoke", "spawn", "normalize", "validate"} => ~Alive(Leader)
  /\ step = "reap" => \A p \in Group : ~Alive(p)

(* An interrupt is known only from the kill on; a deadline needs a timeout. *)
InterruptInv ==
  /\ interrupted # "no" => step \in {"kill", "reap", "over"}
  /\ interrupted = "deadline" => node.timeout

(* Nothing is said before the command ran, and only an invocation that went *)
(* well has its value looked at by the contract.                            *)
VerdictInv ==
  /\ step # "over" => result = NoResult
  /\ step \in {"dispatch", "invoke", "spawn"} => output = NoOutput
  /\ step = "validate" => output.exit = 0 /\ ~SaysFailed /\ Wants

RunnerInv ==
  /\ RunnerTypeOK /\ GroupInv /\ InterruptInv /\ VerdictInv
  /\ NothingLeftBehind /\ VerdictTruthful

(* The verdicts of the Adapters agree with what the output says.            *)
LEMMA FailureSeen ==
  ASSUME AdapterFails PROVE SaysFailed
BY DEF AdapterFails, ClaudeFails, CodexFails, SaysFailed, Parses, Is

LEMMA ErrorSeen ==
  ASSUME AdapterErrs PROVE ~Meets
BY DEF AdapterErrs, ClaudeErrs, CodexErrs, Meets, Parses, Is

LEMMA NothingUnseen ==
  ASSUME ~AdapterErrs, ~InvocationFailed, step = "normalize"
  PROVE  output.exit = 0 /\ ~SaysFailed
BY DEF AdapterErrs, InvocationFailed, AdapterFails, ClaudeErrs, CodexErrs, ClaudeFails,
       CodexFails, SaysFailed, Parses, Is

(* A process step changes only the tree, and the output if the leader exits.*)
LEMMA GroupStepInv ==
  ASSUME RunnerInv, GroupStep PROVE RunnerInv'
<1>1. step # "over" /\ UNCHANGED <<node, step, interrupted, result>>
  BY DEF GroupStep, ClosePipe, Fork, ChildExits, LeaderExits, Over, At
<1>2. tree' \in [Group -> TreeStates] /\ \A p \in Group : step = "reap" => ~Alive(p)'
  <2>1. CASE \E p \in Group : ClosePipe(p)
    BY <2>1 DEF ClosePipe, Holders, Alive, RunnerInv, RunnerTypeOK, GroupInv, TreeStates
  <2>2. CASE \E p \in Group, c \in Children : Fork(p, c)
    BY <2>2 DEF Fork, Alive, RunnerInv, RunnerTypeOK, GroupInv, TreeStates, Group
  <2>3. CASE (\E c \in Children : ChildExits(c)) \/ LeaderExits
    BY <2>3 DEF ChildExits, LeaderExits, Ends, Alive, RunnerInv, RunnerTypeOK, GroupInv,
                TreeStates, Group
  <2>4. QED BY <2>1, <2>2, <2>3 DEF GroupStep
<1>3. ~Alive(Leader) => ~Alive(Leader)' /\ UNCHANGED output
  <2>1. CASE \E p \in Group : ClosePipe(p)
    BY <2>1 DEF ClosePipe, Holders, Alive, RunnerInv, RunnerTypeOK, Group
  <2>2. CASE \E p \in Group, c \in Children : Fork(p, c)
    BY <2>2, ChildrenAssumption DEF Fork, Alive, RunnerInv, RunnerTypeOK, Group
  <2>3. CASE (\E c \in Children : ChildExits(c)) \/ LeaderExits
    BY <2>3 DEF ChildExits, LeaderExits, Ends, Alive, RunnerInv, RunnerTypeOK, Group
  <2>4. QED BY <2>1, <2>2, <2>3 DEF GroupStep
<1>4. output' \in Outputs \cup {NoOutput}
  BY DEF GroupStep, ClosePipe, Fork, ChildExits, LeaderExits, RunnerInv, RunnerTypeOK
<1>5. RunnerTypeOK' /\ GroupInv' /\ InterruptInv' /\ NothingLeftBehind'
  BY <1>1, <1>2, <1>3, <1>4
  DEF RunnerInv, RunnerTypeOK, GroupInv, InterruptInv, NothingLeftBehind, Over, At
<1>6. VerdictInv' /\ VerdictTruthful'
  BY <1>1, <1>3
  DEF RunnerInv, GroupInv, VerdictInv, VerdictTruthful, NoResult, SaysFailed, Wants, Is
<1>7. QED BY <1>5, <1>6 DEF RunnerInv

(* What the runner itself does.                                             *)
LEMMA RunnerStepInv ==
  ASSUME RunnerInv, RunnerStep PROVE RunnerInv'
<1> USE DEF At, Go, Report, Raise, RunnerInv
<1>1. CASE Dispatch \/ MockInvoke \/ SubprocessInvoke \/ SpawnFails
  <2>1. RunnerTypeOK' /\ GroupInv' /\ InterruptInv' /\ NothingLeftBehind'
    BY <1>1 DEF Dispatch, MockInvoke, SubprocessInvoke, SpawnFails, RunnerTypeOK, Steps,
                GroupInv, InterruptInv, NothingLeftBehind, Over, Alive
  <2>2. VerdictInv' /\ VerdictTruthful'
    BY <1>1 DEF Dispatch, MockInvoke, SubprocessInvoke, SpawnFails, VerdictInv,
                VerdictTruthful, Good, NoOutput, NoResult
  <2>3. QED BY <2>1, <2>2
<1>2. CASE Spawn \/ Spawned \/ Communicated
  <2>1. RunnerTypeOK' /\ GroupInv' /\ InterruptInv' /\ NothingLeftBehind'
    BY <1>2 DEF Spawn, Spawned, Communicated, RunnerTypeOK, Steps, TreeStates, Group,
                GroupInv, InterruptInv, NothingLeftBehind, Over, Alive
  <2>2. VerdictInv' /\ VerdictTruthful'
    BY <1>2 DEF Spawn, Spawned, Communicated, VerdictInv, VerdictTruthful, NoResult
  <2>3. QED BY <2>1, <2>2
<1>3. CASE KillGroup \/ Reap
  <2>1. RunnerTypeOK' /\ GroupInv' /\ InterruptInv' /\ NothingLeftBehind'
    BY <1>3 DEF KillGroup, Reap, Ends, RunnerTypeOK, Steps, TreeStates, Group,
                GroupInv, InterruptInv, NothingLeftBehind, Over, Alive
  <2>2. VerdictInv' /\ VerdictTruthful'
    BY <1>3 DEF KillGroup, Reap, InterruptInv, VerdictInv, VerdictTruthful, NoResult
  <2>3. QED BY <2>1, <2>2
<1>4. CASE Normalize
  <2>1. RunnerTypeOK' /\ GroupInv' /\ InterruptInv' /\ NothingLeftBehind'
    BY <1>4 DEF Normalize, RunnerTypeOK, Steps, GroupInv, InterruptInv,
                NothingLeftBehind, Over, Alive
  <2>2. CASE AdapterErrs
    BY <1>4, <2>1, <2>2, ErrorSeen
    DEF Normalize, VerdictInv, VerdictTruthful, Good, Meets, SaysFailed, Wants, Is
  <2>3. CASE ~AdapterErrs /\ InvocationFailed
    BY <1>4, <2>1, <2>3, FailureSeen
    DEF Normalize, InvocationFailed, VerdictInv, VerdictTruthful, Good, Meets, SaysFailed,
        Wants, Is
  <2>4. CASE ~AdapterErrs /\ ~InvocationFailed
    BY <1>4, <2>1, <2>4, NothingUnseen
    DEF Normalize, VerdictInv, VerdictTruthful, Good, Meets, SaysFailed, Wants, Is, NoResult
  <2>5. QED BY <2>2, <2>3, <2>4
<1>5. CASE Validate
  <2>1. RunnerTypeOK' /\ GroupInv' /\ InterruptInv' /\ NothingLeftBehind'
    BY <1>5 DEF Validate, RunnerTypeOK, Steps, GroupInv, InterruptInv,
                NothingLeftBehind, Over, Alive
  <2>2. VerdictInv' /\ VerdictTruthful'
    BY <1>5 DEF Validate, VerdictInv, VerdictTruthful, Good, Meets, SaysFailed, Wants, Is
  <2>3. QED BY <2>1, <2>2
<1>6. QED BY <1>1, <1>2, <1>3, <1>4, <1>5 DEF RunnerStep

(* What interrupts it.                                                      *)
LEMMA InterruptStepInv ==
  ASSUME RunnerInv, Interrupt PROVE RunnerInv'
<1> USE DEF At, Go, Report, Raise, RunnerInv
<1>1. CASE SpawnInterrupted
  <2>1. RunnerTypeOK' /\ GroupInv' /\ InterruptInv' /\ NothingLeftBehind'
    BY <1>1 DEF SpawnInterrupted, Ends, RunnerTypeOK, Steps, TreeStates, GroupInv,
                InterruptInv, NothingLeftBehind, Over, Alive
  <2>2. VerdictInv' /\ VerdictTruthful'
    BY <1>1 DEF SpawnInterrupted, VerdictInv, VerdictTruthful
  <2>3. QED BY <2>1, <2>2
<1>2. CASE DeadlineFires \/ Cancel
  <2>1. RunnerTypeOK' /\ GroupInv' /\ InterruptInv' /\ NothingLeftBehind'
    BY <1>2 DEF DeadlineFires, Cancel, RunnerTypeOK, Steps, GroupInv,
                InterruptInv, NothingLeftBehind, Over, Alive
  <2>2. VerdictInv' /\ VerdictTruthful'
    BY <1>2 DEF DeadlineFires, Cancel, VerdictInv, VerdictTruthful, NoResult
  <2>3. QED BY <2>1, <2>2
<1>3. QED BY <1>1, <1>2 DEF Interrupt

(* RunnerInv holds in every state of every Attempt.                         *)
THEOREM RunnerInvHolds == RunnerSpec => []RunnerInv
<1>1. RunnerInit => RunnerInv
  BY DeclaredAssumption
  DEF RunnerInit, RunnerInv, RunnerTypeOK, Steps, TreeStates, GroupInv, InterruptInv,
      VerdictInv, NothingLeftBehind, VerdictTruthful, Over, At, Alive, Group, NoResult
<1>2. RunnerInv /\ [RunnerNext]_runnerVars => RunnerInv'
  <2>1. CASE RunnerNext
    BY <2>1, GroupStepInv, RunnerStepInv, InterruptStepInv DEF RunnerNext
  <2>2. CASE UNCHANGED runnerVars
    BY <2>2 DEF runnerVars, RunnerInv, RunnerTypeOK, GroupInv, InterruptInv, VerdictInv,
                NothingLeftBehind, VerdictTruthful, Over, At, Alive, SaysFailed, Wants, Is,
                Good, Meets
  <2>3. QED BY <2>1, <2>2
<1>3. QED BY <1>1, <1>2, PTL DEF RunnerSpec

(* Whatever command and children do, a deadline or a cancellation of a wait *)
(* leaves no process of the group (_kill_and_reap, _communicate_or_kill).   *)
THEOREM NothingLeftBehindHolds == RunnerSpec => []NothingLeftBehind
BY RunnerInvHolds, PTL DEF RunnerInv

(* The NodeResult agrees with what command or agent said, for every kind of *)
(* Node, with and without a contract (_execute_node).                       *)
THEOREM VerdictTruthfulHolds == RunnerSpec => []VerdictTruthful
BY RunnerInvHolds, PTL DEF RunnerInv
=============================================================================
