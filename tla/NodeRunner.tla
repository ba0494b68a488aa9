----------------------------- MODULE NodeRunner -----------------------------
(***************************************************************************)
(* One Attempt of an executable Node: _execute_node and what it runs       *)
(* (src/caw/executor.py, subprocess_adapter.py, claude_print.py,           *)
(* codex_exec.py, adapter.py, contract.py).  A shell command or an Agent   *)
(* CLI is a process group of its own: the leader the runner spawned and    *)
(* the children the group forks, any of which may keep the output pipe     *)
(* open after the leader exited.  The Attempt's deadline, its cancellation *)
(* (a sibling crashed the Run) and the group's own steps interleave.       *)
(*                                                                         *)
(* Simplifications.  Text is what the runner distinguishes in it: `output` *)
(* is the exit status, whether the agent says it failed, and its           *)
(* structured value.  The environment, the argument vector, artifacts and  *)
(* what stderr says are left out.  Children that leave the group (setsid)  *)
(* are not modelled; nothing in the code could reach them.                 *)
(***************************************************************************)
EXTENDS Integers, FiniteSets

CONSTANTS
  Declared,  \* the Nodes considered
  Children   \* the processes a command's group may fork

VARIABLES
  node,         \* the Node whose Attempt this is
  step,         \* where the runner is
  tree,         \* tree[p]: whether p lives, and whether it holds the pipe
  output,       \* what the leader (or the fixture) said
  interrupted,  \* why communicate() was abandoned, "no" when it was not
  result        \* the NodeResult, or how the runner raised

runnerVars == <<node, step, tree, output, interrupted, result>>

(* `runner` is the kind of the Node and, for an agent Node, the Adapter's   *)
(* name; "other" is a name no registry entry has.  Only an agent Node can   *)
(* declare an Output Contract.                                              *)
Shell == "shell"
SubprocessAdapters == {"claude", "codex"}
NodeShape ==
  {n \in [runner : {Shell, "mock", "other"} \cup SubprocessAdapters,
          schema : {"none", "sound", "unreadable"}, timeout : BOOLEAN] :
     n.runner = Shell => n.schema = "none"}

Leader == "leader"
Group == {Leader} \cup Children

ASSUME DeclaredAssumption == Declared \subseteq NodeShape
ASSUME ChildrenAssumption == Leader \notin Children

(* `failed`: is_error, turn.failed, adapter_failure.  `value`: the          *)
(* structured value is missing, not JSON, or is JSON that the Output        *)
(* Contract accepts or refuses (an explicit null is one of these two).      *)
Outputs == [exit : {0, 1}, failed : BOOLEAN, value : {"absent", "garbled", "fits", "breaks"}]
NoOutput == [exit |-> -1, failed |-> FALSE, value |-> "absent"]

(* A result is the failure kind (or "succeeded") with the exit status the   *)
(* Attempt is recorded under, or tells how the runner raised.               *)
NoResult == [kind |-> "none", exit |-> -1]

At(s) == step = s
Go(s) == step' = s /\ UNCHANGED result
Report(kind, exit) == step' = "over" /\ result' = [kind |-> kind, exit |-> exit]
Raise(how) == Report(how, -1)
Over == At("over")

Is(runner) == node.runner = runner
Wants == node.schema # "none"
IsAgent == ~Is(Shell)

RunnerInit ==
  /\ node \in Declared
  /\ step = "dispatch"
  /\ tree = [p \in Group |-> "unborn"]
  /\ output = NoOutput
  /\ interrupted = "no"
  /\ result = NoResult

-----------------------------------------------------------------------------
(* The process group, external: it forks, closes its pipe and exits as it   *)
(* likes, whatever the runner is doing.                                     *)

Alive(p) == tree[p] \in {"holding", "quiet"}
Holders == {p \in Group : tree[p] = "holding"}
Ends(processes) == tree' = [p \in Group |-> IF p \in processes /\ Alive(p) THEN "gone" ELSE tree[p]]

Fork(p, c) ==
  /\ ~Over /\ Alive(p) /\ tree[c] = "unborn"
  /\ tree' = [tree EXCEPT ![c] = tree[p]]
  /\ UNCHANGED <<node, step, output, interrupted, result>>

ClosePipe(p) ==
  /\ ~Over /\ p \in Holders
  /\ tree' = [tree EXCEPT ![p] = "quiet"]
  /\ UNCHANGED <<node, step, output, interrupted, result>>

ChildExits(c) ==
  /\ ~Over /\ Alive(c) /\ Ends({c})
  /\ UNCHANGED <<node, step, output, interrupted, result>>

LeaderExits ==
  /\ ~Over /\ Alive(Leader) /\ Ends({Leader})
  /\ output' \in Outputs
  /\ UNCHANGED <<node, step, interrupted, result>>

-----------------------------------------------------------------------------
(* Up to the process.                                                       *)

(* _execute_node picks the runner; AdapterRegistry.resolve refuses a name   *)
(* it does not know, which the generic handler turns into ERRORED.          *)
Dispatch ==
  /\ At("dispatch")
  /\ \/ Is(Shell) /\ Go("spawn")
     \/ IsAgent /\ ~Is("other") /\ Go("invoke")
     \/ Is("other") /\ Report("errored", 1)
  /\ UNCHANGED <<node, tree, output, interrupted>>

(* MockAdapter.invoke: a missing or malformed fixture is an AdapterError,   *)
(* any other is replayed without a process or an await.  A fixture with no  *)
(* structured_output reads as null, which the schema accepts or refuses.    *)
MockInvoke ==
  /\ At("invoke") /\ Is("mock")
  /\ \/ Report("errored", 1) /\ UNCHANGED output
     \/ Go("normalize") /\ output' \in {o \in Outputs : o.value \in {"fits", "breaks"}}
  /\ UNCHANGED <<node, tree, interrupted>>

(* A CLI that is not installed, and for claude a schema that cannot be read *)
(* (its text is an argument), fail before any process exists; codex gets    *)
(* the schema's path and leaves reading it to the CLI.                      *)
SubprocessInvoke ==
  /\ At("invoke") /\ node.runner \in SubprocessAdapters
  /\ \/ Report("errored", 1)
     \/ ~(Is("claude") /\ node.schema = "unreadable") /\ Go("spawn")
  /\ UNCHANGED <<node, tree, output, interrupted>>

(* The new session makes the leader's pid the group's id.                   *)
Spawn ==
  /\ At("spawn")
  /\ tree' = [tree EXCEPT ![Leader] = "holding"]
  /\ Go("spawning")
  /\ UNCHANGED <<node, output, interrupted>>

(* The OS refuses: the shell runner lets the OSError crash the Run, the     *)
(* agent runner normalizes it.                                              *)
SpawnFails ==
  /\ At("spawn")
  /\ IF IsAgent THEN Report("errored", 1) ELSE Raise("crashed")
  /\ UNCHANGED <<node, tree, output, interrupted>>

(* create_subprocess_* returns once the pipes are connected.                *)
Spawned ==
  /\ At("spawning") /\ Go("communicate")
  /\ UNCHANGED <<node, tree, output, interrupted>>

(* asyncio's side of an interrupt before that return, external: it kills    *)
(* the leader it started, not the group.  The deadline of a shell Node does *)
(* not run yet; the Adapter's invocation is inside the agent Node's.        *)
SpawnInterrupted ==
  /\ At("spawning") /\ Ends({Leader})
  /\ \/ Raise("cancelled")
     \/ IsAgent /\ node.timeout /\ Raise("timed_out")
  /\ UNCHANGED <<node, output, interrupted>>

-----------------------------------------------------------------------------
(* Waiting for the process.                                                 *)

(* communicate() returns when the leader was reaped and the pipes are at    *)
(* their end, so a child that holds one keeps it waiting.                   *)
Communicated ==
  /\ At("communicate") /\ ~Alive(Leader) /\ Holders = {}
  /\ Go("normalize")
  /\ UNCHANGED <<node, tree, output, interrupted>>

BugDeadlineFires ==
  /\ At("communicate") /\ node.timeout /\ Alive(Leader)
  /\ interrupted' = "deadline" /\ Go("kill")
  /\ UNCHANGED <<node, tree, output>>

(* asyncio.timeout abandons communicate(), whether or not the leader has    *)
(* exited by then, and even when communicate() was about to return.         *)
DeadlineFires ==
  /\ At("communicate") /\ node.timeout
  /\ interrupted' = "deadline" /\ Go("kill")
  /\ UNCHANGED <<node, tree, output>>

(* The scheduler cancels the task because the Run crashed: it may not have  *)
(* begun, may wait for its process (even while reaping it), or for the      *)
(* contract's thread.                                                       *)
Cancel ==
  /\ \/ At("communicate") /\ interrupted' = "cancel" /\ Go("kill")
     \/ At("reap") /\ interrupted' = "cancel" /\ Raise("cancelled")
     \/ step \in {"dispatch", "validate"} /\ Raise("cancelled") /\ UNCHANGED interrupted
  /\ UNCHANGED <<node, tree, output>>

BugKillGroup ==
  /\ At("kill") /\ Go("reap")
  /\ IF Alive(Leader) THEN Ends(Group) ELSE UNCHANGED tree
  /\ UNCHANGED <<node, output, interrupted>>

(* _kill_and_reap and _communicate_or_kill signal the whole group, without  *)
(* asking whether its leader still runs.                                    *)
KillGroup ==
  /\ At("kill") /\ Go("reap")
  /\ Ends(Group)
  /\ UNCHANGED <<node, output, interrupted>>

(* process.wait(), and what the interrupt then means.                       *)
Reap ==
  /\ At("reap") /\ ~Alive(Leader)
  /\ IF interrupted = "deadline" THEN Report("timed_out", -1) ELSE Raise("cancelled")
  /\ UNCHANGED <<node, tree, output, interrupted>>

-----------------------------------------------------------------------------
(* From the output to the result.                                           *)

(* claude -p is asked for a result wrapper only under a contract, and the   *)
(* wrapper is parsed only after a zero exit: unparsable, it is an error     *)
(* whatever it meant to say; is_error comes before a missing value.         *)
Parses == Wants /\ output.exit = 0

ClaudeFails == Parses /\ output.value # "garbled" /\ output.failed
ClaudeErrs == Parses /\ (output.value = "garbled" \/ (~output.failed /\ output.value = "absent"))

(* codex exec always streams events; a failed turn in them counts with or   *)
(* without a contract, before the final message is looked at.               *)
CodexFails == output.exit = 0 /\ output.failed
CodexErrs == Parses /\ ~output.failed /\ output.value \in {"absent", "garbled"}

AdapterFails ==
  CASE Is("claude") -> ClaudeFails
    [] Is("codex") -> CodexFails
    [] OTHER -> Is("mock") /\ output.failed

AdapterErrs ==
  CASE Is("claude") -> ClaudeErrs
    [] Is("codex") -> CodexErrs
    [] OTHER -> FALSE

BugInvocationFailed == output.exit # 0

(* "the single point that decides whether an agent result is a failed Node" *)
InvocationFailed == output.exit # 0 \/ AdapterFails

(* The Output Contract is looked at only after a successful invocation.     *)
Normalize ==
  /\ At("normalize")
  /\ \/ AdapterErrs /\ Report("errored", 1)
     \/ ~AdapterErrs /\ InvocationFailed /\ Report("failed", output.exit)
     \/ ~AdapterErrs /\ ~InvocationFailed /\
          IF Wants THEN Go("validate") ELSE Report("succeeded", 0)
  /\ UNCHANGED <<node, tree, output, interrupted>>

(* validate_output_contract, in a thread: a schema that cannot be used is a *)
(* breach like a value it refuses, and a breach has no exit status to keep. *)
Validate ==
  /\ At("validate")
  /\ IF node.schema = "sound" /\ output.value = "fits"
       THEN Report("succeeded", 0)
       ELSE Report("failed", 1)
  /\ UNCHANGED <<node, tree, output, interrupted>>

-----------------------------------------------------------------------------
RunnerStep ==
  \/ Dispatch \/ MockInvoke \/ SubprocessInvoke
  \/ Spawn \/ SpawnFails \/ Spawned
  \/ Communicated \/ KillGroup \/ Reap
  \/ Normalize \/ Validate

Interrupt == SpawnInterrupted \/ DeadlineFires \/ Cancel

GroupStep ==
  \/ \E p \in Group : ClosePipe(p) \/ \E c \in Children : Fork(p, c)
  \/ \E c \in Children : ChildExits(c)
  \/ LeaderExits

RunnerNext == RunnerStep \/ Interrupt \/ GroupStep

(* The event loop keeps running the task and fires its timer.  Nothing is   *)
(* assumed of the processes: a command may run, or hold its pipe, forever.  *)
RunnerSpec ==
  /\ RunnerInit /\ [][RunnerNext]_runnerVars
  /\ WF_runnerVars(RunnerStep) /\ WF_runnerVars(DeadlineFires)

-----------------------------------------------------------------------------
(* When a deadline or a cancellation ends an Attempt whose process was      *)
(* being waited for, no process of its group is left, whichever of them     *)
(* exited, forked or let go of the pipe before the kill ("no orphan is left *)
(* behind", _kill_and_reap).                                                *)
NothingLeftBehind == Over /\ interrupted # "no" => \A p \in Group : ~Alive(p)

(* The result tells the truth about the process.  What it should be comes   *)
(* from the output alone: an invocation is good when it exited zero, did    *)
(* not say it failed where the Adapter can see that, and its value meets    *)
(* the contract if there is one.  A good one that was not interrupted is    *)
(* reported succeeded, no other is, and a failure keeps the real exit       *)
(* status unless the contract was breached.                                 *)
SaysFailed == output.failed /\ (Is("codex") \/ Is("mock") \/ (Is("claude") /\ Wants))
Meets == Wants => node.schema = "sound" /\ output.value = "fits"
Good == output.exit = 0 /\ ~SaysFailed /\ Meets

VerdictTruthful ==
  /\ result.kind = "succeeded" => Good
  /\ result.kind \in {"failed", "errored"} => ~Good
  /\ result.kind = "failed" /\ result.exit # output.exit =>
       output.exit = 0 /\ ~SaysFailed /\ result.exit = 1
  /\ result.kind = "timed_out" => node.timeout

(* An Attempt with a timeout ends, and so does one the scheduler cancels,   *)
(* even when a child that outlived the leader holds the pipe for good.      *)
AttemptEnds == node.timeout \/ At("kill") ~> Over
=============================================================================
