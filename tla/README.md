# caw: a verification of the workflow executor

`caw` runs Workflows: acyclic graphs of shell commands, agent calls and Human
Gates. This directory holds TLA+ modules for the parts of the program that
decide what a definition means, what runs, what is skipped, what is recorded,
and what a resume does with the record; TLC configurations that check them on
small instances; and TLAPS proofs of the properties that matter most, for
instances of any size.

Paths such as `executor.py:950` are relative to `src/caw/` of the repository.

## 1. The system

| Component | State it keeps | Operations | Talks to |
|---|---|---|---|
| **Pattern Expanders** (`patterns.py`) | none | expand a `pattern:` block into Nodes | before validation |
| **Workflow IR** (`model.py`) | none (frozen models) | normalize, validate, order, report a cycle | read by everything |
| **Predicate evaluator** (`predicate.py`) | none | `evaluate_predicate` over upstream outputs | called by the scheduler and the controllers |
| **State Store** (`state.py`) | `state.sqlite`: the run row, node rows (status, cause), attempt rows, a membership row | one statement and one commit per method | written by scheduler, resume and controllers |
| **Event trace** (`events.py`) | `events.jsonl`, sequence number | `append`, reopen | written right after each State commit |
| **Scheduler** (`executor.py`, `_Scheduler`) | in memory: indegree, tasks in flight, results, skipped, awaiting, Attempt numbers | launch, handle a batch, retry, skip walk, park, drain | State, trace, node runners |
| **Run lifecycle** (`executor.py`, `execute_run`, `resume_run`, `_drive_scheduler`, `_finalize_crashed_run`) | the run directory | start, resume, approve, reject, finalize | scheduler, State, trace |
| **Node runners** (`executor.py`, `subprocess_adapter.py`) | one process group per Attempt | spawn, await with a timeout, kill and reap, classify | asyncio tasks awaited by the scheduler |
| **Adapters, Output Contract** (`adapter.py`, `claude_print.py`, `codex_exec.py`, `contract.py`) | none | invoke one agent CLI, normalize and validate its output | node runners |
| **Pattern Controllers** (`controller.py`) | `group.json`, a membership row per iteration Run | loop, verify, tournament; resume of a group | `execute_run`, `resume_run`, State, predicates |
| **CLI, Reporter, scaffold, layout, config** | none | arguments, wording, templates, paths | the above |

**What is hard.**

- The scheduler is a single coroutine, so its code between two awaits is atomic
  in memory, but not on disk: every State method commits on its own and the
  Event follows as a separate write, so the process can die between any two of
  them. Attempts finish in any order and in batches; a batch may hold a success,
  a failure whose skips reach other members' dependents, a failure that is
  retried and a task that raised. Two kinds of skip walk (from a skip, respecting
  `join: any`; from a failure, ignoring it) and the successes share one
  dependency counter. A resume rebuilds all of that from the rows, across parks,
  decisions and crashes, and Attempt numbers go on where they stopped.
- A controller keeps its rounds in memory and rewrites `group.json` in place
  between them. Round, Run, membership row, verdict and file are five steps; a
  resume has only the file to go by, resumes the last Run in place, and must feed
  the next round what the round before it produced.
- An Attempt is a process group. The leader's exit, the children that hold its
  pipe, the deadline and a cancellation race each other, and then exit status,
  an agent's own failure flag, its value and its contract may disagree.
- The trace is a file a killed writer may leave with half a line, which the next
  writer goes on with.

**What makes each part correct.**

- *Authoring*: the order is the declared one wherever the needs leave a choice; a
  definition is refused only over a cycle it has; what is accepted is what the
  scheduler relies on; a pattern has the concurrency it promises.
- *Scheduler*: at most `concurrency` Attempts at once; a Node is taken up only
  when its needs are settled as its join asks; each Node has one fate; the
  counter is exact; exactly the skips that are due are made, with a true reason;
  the retry budget is kept; no Node is forgotten behind a vacuous outcome; the
  session ends.
- *Run*: completed work is neither lost nor repeated; decided Runs never change;
  nothing passes a gate that was not approved; the outcome is truthful however
  many sessions it took; an interrupted Run can always be completed.
- *Node runner*: an interrupted wait leaves nobody of the group behind; the
  verdict tells the truth about the output; a deadline ends the Attempt.
- *Trace*: numbers increase for every reader, and a kill costs one Event at most.
- *Controllers*: no round is built on an unfinished one; each is fed by the one
  before it; verdicts are heeded; the cap bounds what is executed; a settled group
  is final; a group that can conclude does.

## 2. The modules

| Module | Models | State |
|---|---|---|
| `PatternExpanders` | `patterns.py`: the params' rules and the five expanders | none: operators |
| `WorkflowDefinition` | `model.py`: `normalize_workflow`, the validators, Kahn's peel, `_find_cycle` | `stage`, `nodes`, `indegree`, `ready`, `ordered`, `path` |
| `WorkflowGraph` | what an accepted definition is to the executor | constants and named assumptions |
| `StateStore` | `state.py`, one operator per write | `runStatus`, `rows`, `causes`, `attempts` |
| `EventTrace` | `events.py` as the executor uses it | `traced`, `runTraced`, `owed` |
| `EventLog` | `events.py` as a file | `lines`, `ended`, `open`, `seq`, ... |
| `Scheduler` | `_Scheduler`, `_drive_scheduler`, `_finalize_crashed_run` | `phase`, `indegree`, `task`, `results`, `skipped`, ... |
| `SchedulerProperties` | properties of one session, and its inductive invariant | |
| `Run` | `execute_run`, `resume_run`, kills | `sessions`, `crashes`, `priorStatus`, `named`, `todo` |
| `RunLifecycle` | the abstract specification of a Run | `status`, `ledger` |
| `RunProperties` | properties of a Run, the refinement mapping | |
| `NodeRunner` | `_execute_node`, the shell and agent runners, the Adapters' normalization, the contract | `step`, `tree`, `output`, `interrupted`, `result` |
| `RunGroup` | what the three controllers share: begin, reload, resume in place, materialize, record, judge, persist, kills | `file`, `runs`, `phase`, `completed`, `feedback`, `current`, ... |
| `LoopUntilDone`, `AdversarialVerification`, `Tournament` | the three controllers | |
| `GroupLifecycle` | the abstract specification of a Run Group | `cap`, `standing`, `rounds` |
| `PatternControllers` | the controllers together, and the properties of a group | |
| `SessionInvariant`, `SessionOutcome` | proofs about a session: its fates, and what it leaves behind | |
| `RunProofs` | proofs about a Run: what is durable, what resumes keep, what a `when` reads, the refinement | |
| `RunnerProofs`, `TraceProofs` | proofs about an Attempt, the trace file | |
| `GroupProofs` | proofs about a group: its rounds, what they are fed, their verdicts | |
| `DefinitionProofs` | proofs about a definition: the peel, the cycle walk, the pattern edges | |
| `NaturalBounds` | least and greatest numbers, for the proofs | |
| `MC...` | small instances for TLC | |

**Composition.** `WorkflowGraph` is extended by `StateStore` and `EventTrace`,
both by `Scheduler`, which `Run` extends: a scheduler action is the conjunction
of the State write and the Event it causes. `WorkflowDefinition` extends
`PatternExpanders`, and what it accepts is what `WorkflowGraph` assumes.
`PatternControllers` extends the three controllers, each of which extends
`RunGroup`. There a Run is only its outcome; that it has one, and what a resume
of it may do, is `Run`'s subject.

### How steps correspond to code

**Sessions.** `phase` is the program counter. Everything outside `wait` is
straight-line code and is cut at each State commit:

- `LaunchSkip`, `LaunchPark`, `LaunchStart`, `LaunchReturn` are `_launch_ready`.
  The code walks a snapshot of the ready list and starts over after a skip; as a
  launch or a park never makes another Node ready, this is the same as taking the
  first ready Node in execution order again and again. A ready Node that finds no
  slot stops the pass, also for a gate behind it (`MayConsider`).
- `AttemptEnds` is the end of a node runner's task; `WaitReturns` is
  `asyncio.wait`, which returns every task that is done by then; the batch is a
  Python set, so it is handled in any order.
- `HandleAttempt` then one of `SettleSuccess`, `SettleRetry`, `SettleFailure`
  are `_handle_result`: the Attempt's commit, then what becomes of the Node.
- `WalkPasses`, `WalkSkips`, `WalkDone` are one turn each of the queue of
  `_propagate_skips`; `origin` tells the walk from a failure from the walk from a
  skip. The turn whose INSERT breaches the primary key, `WalkBreaches`, is in
  `Run`: only a resumed session can come to it.
- `HandleRaised`, `BatchDone`, `Drain...`, `Finalize...` are the crash path. A
  cancellation (`Interrupt`) enters it from the await.
- `WriteEvent` is the append that follows a commit. `At(p)` makes every further
  step wait for it, so its only effect is to give a kill its place.

**Runs.** `Start` is `execute_run`, `Resume...` is `resume_run` up to its
decisions, `RejectGate`/`RejectRun` and `ApproveAttempt`/`ApproveGate` apply
them one commit at a time, and `Reopen` seeds a new session from the rows.
`Kill` ends the process between any two writes and drops the Event it owed.
`Cancel` is Ctrl-C.

**Attempts.** `step` follows `_execute_node` through the runner: dispatch,
invoke, spawn, `communicate()`, kill, reap, normalize, validate. `tree` gives
each process of the group its state, and the group forks, closes its pipe and
exits between any two steps of the runner.

**Groups.** `phase` is where a controller is in its loop. `Materialize` makes
the next round's Run with what is fed into it, `RunSucceeds`, `RunFallsShort`
and `RunRaises` are how `execute_run` or `resume_run` comes back, `Record` writes
the membership row and appends the round (or replaces the last one, after a
resume in place), the controllers' `...Judges`, `RoundWon` and `RoundLost` ask
for the verdict, and `Persist` rewrites `group.json`. `Reload`, `ResumeLast` and
`GoOn` are the three parts of a group's resume. `KillDrive` strikes between any
two of these steps and `KillWrite` inside the write.

**The trace file.** `AppendRecord` and `Reopen` are `append` and `__init__`;
`Torn` is an append cut short, with or without the record's text complete, and
`Extended` is what the next append makes of a line that was never ended.

**Authoring.** `ExpandPattern`, `Validate`, then one `Peel` per round of Kahn's
loop, `PeelDone`, and one `WalkOn` per step of `_find_cycle`.

### Abstractions

- An output is one bit, the truth of the comparison a `when` makes of it; only
  Nodes that some `when` reads have a free bit. `when` is a conjunction of
  leaves, each expecting its bit to be true or, under `not`, false. A leaf over a
  Node without output is false before the negation, as in `_evaluate_leaf`.
- To a controller an output is the set of what it offers: the predicates (done,
  accept, reject) that hold over it, a feedback value, a winner. A value fed
  forward is the number of the Run it came from.
- To the node runner an output is exit status, failure flag and what the value is
  to the contract.
- Names, timestamps, error texts, checksums and layouts are left out. The trace
  as the executor uses it is the last Event per Node and the last Event of the
  Run; `EventLog` has the lines.
- A Node has at most one task, so tasks are a function of the Node.
- Drain and finalization visit Nodes in any order (the code: order of launch).
- Refused resumes and spec files that do not load change nothing and are left out.

## 3. The runs

All runs end with "no error" except those named `v_...`, which show that a
sentence of the repository does not hold (section 5).

| Run | Instance | What it shows |
|---|---|---|
| `session` | eight Nodes on two slots: three roots, two of them with a retry, two conditions, two tolerant joins, one of them behind a blocked one, a gate behind two roots; Attempts that succeed, time out, errored or fail to spawn, and interrupts | `SessionTypeOK`, `SlotBound`, `StatusTruthful`, `RetryBudget`, `TraceAgrees`, `NoNodeForgotten`, `SkipNeverBreaches`, `TakenUpWhenReady`, `OneFate`, `IndegreeExact`, `SkipsJustified`, `SkipsComplete`, `SessionEnds` |
| `regate` | two gates in sequence with work beside them, conditions, two tolerant joins; three sessions, decisions in any combination, an interrupt | `GatesTraced`, `OutcomeHolds`, `ResumedSessionSound`, `RejectionStands` |
| `recover` | a retried Node that routes to a condition or to a gate, and a tolerant join that reads; four sessions, two kills or interrupts anywhere | `SucceededIsBacked`, `OutputsCurrent`, `AttemptNumbersFree`, `CompletedStays`, `GatesHold`, `SessionsEnd`, `RefinesLifecycle`, `EventuallySucceeds` |
| `groups` | eleven specs: loops, verifications and tournaments with caps 1 to 3, with and without feedback, reject, promotion, and with workflows that lack the Node to judge, to feed or to promote to; two kills anywhere | `GroupTypeOK`, `NoRoundOnUnfinished`, `FedByPredecessor`, `VerdictHeeded`, `RunsBounded`, `SettledStays`, `RefinesGroupLifecycle`, `GroupConcludes` |
| `runner` | every kind of Node with and without timeout and contract, a group of up to three processes | `NothingLeftBehind`, `VerdictTruthful`, `AttemptEnds` |
| `trace` | seven appends, four kills inside a line | `TraceRecovers` |
| `authoring` | more than 40,000 definitions: graphs of three and four Nodes with every set of needs, combinations of kinds, conditions, retries and timeouts, pattern blocks of every type, good and bad, ids that clash within a slot and across slots | `OrderOrCycle`, `AcceptedIsGraph`, `PatternShape` |

Each property's meaning is in the comment above it.

**Bounds.** `MaxSessions` bounds how often a Run is started or resumed,
`MaxCrashes` and `MaxKills` how often a process is interrupted or killed,
`MaxAppends` the lines of the trace; nothing else is bounded (Attempts are
bounded by retries and sessions, the walk's queue by the graph, rounds by the
spec's cap). The interesting cases need few: a collision over a gate takes one
kill and two resumes, a Node overtaken by a later failure a park and an
approval, a repeated decision four sessions. The graphs have at most eight Nodes
because the hazards involve at most a failed Node, a skipped one, a tolerant
join with a second branch and what lies behind it. `regate` has one slot: a
walk that meets the row of an earlier session needs a Node that is still waiting
to be judged when another fails. In `groups` the first kill can
spoil a round or the file and the second the repair of it; a cap of 3 has a
first, a middle and a last round. In `runner` one child can outlive the leader
while another lives without the pipe. In `trace` four kills tear a torn line
twice over.

**Kills in `regate`.** `GatesTraced`, `OutcomeHolds` and `RejectionStands` are
checked there with interrupts but without a process killed between two writes
(`HardKills = FALSE`). So neither `GatesTraced` nor `RejectionStands` can show what
such a kill does. That a kill between the gate's and the Run's rejection breaks
`RejectionStands` is what `v_reject` shows, with `HardKills = TRUE`. That a kill
between the commit of `awaiting` and its Event leaves a gate the trace never
announces is no run's subject: it follows from the code at once, State being
written first, and section 5 lists it. `OutcomeHolds` is proved for kills as well
(section 6).

**Deadlock.** An ended session (`Ended`), a Run and a group at rest (`AtRest`,
`GroupAtRest`) are explicit stuttering steps, so any other stop of the
scheduler, a Run or a controller is an error. In `runner`, `trace` and
`authoring` the system ends (an Attempt, the bound on appends, a definition
accepted or refused), and TLC is told not to look for deadlock; that an Attempt
does not stop early is `AttemptEnds`.

**Fairness.**

- *Sessions* (`SessionFairness`): the event loop keeps running the coroutine,
  and every Attempt ends. The second is an assumption about Workflows: a Node
  without `timeout` may run forever, and then so does its session. Interrupts,
  kills, resumes and decisions are never forced. Only `PersistentSpec` (`recover`)
  adds that somebody starts the Run and resumes it whenever that is possible;
  crashes stop because they are bounded.
- *Attempts* (`RunnerSpec`): the event loop runs the task and its timer fires.
  Nothing is assumed of the processes.
- *Groups* (`GroupFairness`): the controller runs on, its Runs end, and somebody
  resumes the group whenever that is possible; strong fairness of `RunSucceeds`
  says that a Run resumed again and again succeeds at last, without which a
  group whose round always fails is never settled. A Run held by a gate is
  exempt.

## 4. What was found to hold, and where

- *Completed work.* A row that says succeeded is never touched again and gets no
  further Attempt, whatever is killed (`CompletedStays`). The promise is about
  the row: a process that dies after the Attempt's commit and before the row's
  leaves a Node that did its work under a row that says `running`, and the resume
  repeats it, as the docstring of `resume_run` says of such rows.
- *Gates.* Nothing runs past a gate that is not approved on disk, under any kill
  (`GatesHold`). A kill between an approval's Attempt and the gate's row makes
  every later approval of that gate collide with the attempt table's primary key
  (`ApproveCollides`): the gate stays closed and the Run can only be rejected.
- *Recovery.* Every crash leaves a Run that resumes, with free Attempt numbers and
  outputs that are there and current.
- *Run refinement.* Every commit of every session and resume is a step of
  `RunLifecycle` or none: work completes only over settled needs, only waiting
  gates are decided on, and each outcome is a true statement about the ledger.
- *Groups.* Whatever is killed, a resume goes on from the last round on record:
  it neither skips nor repeats a number, no round follows one whose Run did not
  succeed, each is fed by its predecessor, and only a kill makes the group cost
  more Runs than its cap. Group refinement: to `group.json` the three controllers
  do only three things, put the next round on record, judge the last one again,
  or lose the file to a kill in the middle of the write.
- *What the group promises do not cover.* A kill before the first write leaves no
  `group.json`, and one inside a write an unreadable one: such a group cannot be
  resumed (`Lose`). A kill between the success of a round resumed in place and
  the write of its verdict makes the next resume pass over that verdict, as it
  takes a succeeded Run to have been judged: the group runs on past a round that
  was done or accepted, or settles as if it had not been (`v_verdict`, section 5).
  `VerdictHeeded` says that nothing else costs a verdict, and that each one lost
  took a kill of its own. A round that parks can never be approved, for `caw resume` finds no
  iteration Run, so its group never concludes (`Held`). A workflow without the
  Node to judge is refused before its first round; one without the Node that
  feedback is fed to, or a winner promoted to, when the second round is made, after
  the first has been executed, and on every resume.
- *Attempts.* An interrupted wait leaves nobody of the process group. Three things
  lie outside that promise: a child that let go of the pipe outlives an Attempt
  that ends normally; without a timeout a child that keeps the pipe keeps the
  Attempt waiting; and an interrupt that arrives while the process is being
  created is asyncio's to handle, which kills the leader alone.
- *Trace.* A torn line costs the next append, which is written behind it on the
  same line, and a record complete but for its newline is spoiled by it as well.

## 5. Where the code and its documentation part

| Run | What the repository says | What the run shows |
|---|---|---|
| `v_row` | `_finalize_crashed_run`: "no Node is left recorded as `running`" | a Node waiting for its retry when a sibling raises has no task and stays `running` |
| `v_breach` | `_record_skip`: "re-skipping never breaches the PK" | after a resume the walk INSERTs over the row of a Node that had succeeded: IntegrityError, and the Run ends errored |
| `v_reject` | ADR 0010: no later approval may override the human's no | a kill between the gate's and the Run's `rejected` leaves the Run resumable, and the gate awaits again |
| `v_winner` | `controller.py:926`: "a winnerless round is a controller FAILURE — never a `complete` with no winner" | a tournament whose last round named no winner is resumed, finds no round left and returns `complete` with winner None |
| `v_verdict` | `controller.py:43`: `exhausted` is reaching the cap "without done"; `controller.py:551`: the cap rejects "without an acceptance" | a round that failed is resumed in place and succeeds, the process dies before the verdict is written (`controller.py:505-515`), and the next resume, which finds the Run succeeded and judges nothing, writes `exhausted` over a round that was done, or `rejected` over one that was accepted |

Seen in the same way, and left without a run:

- `_Scheduler` says a failed Node's transitive dependents are "never attempted";
  the walk stops at a Node already skipped, and a `join: any` Node behind it runs.
- ADR 0010 calls a plain resume of a parked Run "a no-op advance"; it runs the
  Run's failed Nodes again.
- `node_causes` says that "every other Node has no cause", but a gate skipped in
  one session and awaiting in the next keeps its old cause, for no write but
  `record_node_finished` clears the column.
- A process that dies between the commit of `awaiting` and its Event leaves a
  gate the trace never announces, as the resume takes it for one already announced
  (`executor.py:765`, whose comment says "the trace marks the entry once").
- A winnerless round in the middle of a tournament, resumed, is passed over in
  the same way as a last one; and one that failed at the cap and succeeds when
  resumed in place returns `complete` while `group.json` keeps saying `failed`.
- `_last_seq` is documented to return the highest number in the file and returns
  the last readable one; the two agree (`TraceRecovers` says the numbers
  increase), as long as one process writes.

## 6. The proofs

TLAPS checks the following for every value of the constants that satisfies the
named assumptions, about the specifications without fairness (hence also with).

**A session** (`SessionInvariant`, `SessionOutcome`): for every Workflow as in
`WorkflowGraph`, any `Outcomes`, any concurrency; one fresh session.

- `SessionTypeCorrect`: `SessionTypeOK`, together with `HandlingSound`, without
  which the result recorded for the Node being settled would have no type.
- `SlotBoundHolds`: by induction from the types; only `LaunchStart` adds a Node
  to those in flight, and only where `SlotFree` holds.
- `SessionInvHolds`: the inductive invariant `SessionInv`. The properties are not
  inductive alone: that a Node is taken up with its needs settled rests on the
  counter being exact; that the counter is exact rests on no Node being settled
  twice, hence on `OneFate`; that a walk never skips a Node in flight or parked
  rests on the Nodes in its queue not being taken up (`WalkSound`), which in turn
  follows from every taken-up Node having settled needs; and that a walk from a
  skip meets no failure, so that it and a tolerant join never disagree, rests on
  the failures' own walks having been completed.
- `TakenUpWhenReadyHolds`, `OneFateHolds`, `IndegreeExactHolds`,
  `SkipsCompleteHolds` follow.
- `SkipNeverBreachesHolds`: in a fresh session every row belongs to a Node the
  session has started or parked, and a walk meets neither, so no skip inserts a
  row twice. A resumed session starts with rows it does not know of, and there
  the sentence fails (`v_breach`).

The lemmas of `SessionInvariant` are about the counter (how a settled need
changes the cardinality of what is missing) and about the walk's queue.

Three more invariants are inductive together with it (`SessionOutcome`).

- `StoryInv` (`StoryInvHolds`): a Node's row, its result and the last Event that
  names it, written or still owed, tell one story at every step, with the three
  moments at which it is half told (an Attempt recorded and not yet settled, a
  Node waiting for its retry, one left in flight by a crash). When the loop
  returns every Node is accounted for, or stands behind a gate that awaits
  (`Accounted`): of the Nodes that are not, take the least in execution order; its
  needs are settled, so its counter is zero and it would be launched
  (`NobodyForgotten`). `StatusTruthfulHolds`, `TraceAgreesHolds` and
  `NoNodeForgottenHolds` follow.
- `BudgetInv` (`BudgetInvHolds`): the counter `nextAttempt` against the Attempts
  on record. `RetryBudgetHolds` follows.
- `ReasonInv` (`ReasonInvHolds`): each entry in the walk's queue was orphaned by a
  Node that failed or was skipped, and a reason once given stays one, for settled
  Nodes keep the outputs a `when` reads (`SettledLeaf`). `SkipsJustifiedHolds`
  follows; that a blocker is an ancestor needs only that the set of ancestors is
  closed.

**A Run** (`RunProofs`): for every Workflow, any number of sessions, decisions,
interrupts and kills.

- `DurableInv` (`DurableInvHolds`): State is sound by itself, and the session at
  work remembers it rightly. The argument goes through `Effect`: a step leaves
  rows and Attempts alone, marks a row that is not succeeded, completes one that
  is backed, or adds the next Attempt of a Node that has not succeeded.
  `CompletedStaysHolds`, `SucceededIsBackedHolds` and `AttemptNumbersFreeHolds`
  follow.
- `ResumeInv` (`ResumeInvHolds`): a session seeded from such a State starts with
  an exact counter and no fate but the satisfied Nodes' (`SeedFates`), and from
  there on takes the steps the lemmas of `SessionInvariant` and `SessionOutcome`
  are about, which were stated for any seed for this reason (`FatesSound`); State
  shows the fates (`RowOf`), so that what was taken up had earned it on disk, even
  while a crash is drained, when the counter no longer counts (`Earned`); and the
  status of the Run says no more than the rows (`StandingSound`).
  `ResumedSessionSoundHolds`, `OutcomeHoldsAlways` and `GatesHoldAlways` follow.
- `LifecycleOfRunImplemented`: every step is a step of `RunLifecycle` or none. A
  row that turns succeeded was `Earned`; a session that ends concludes what
  `StandingSound` says; only `RejectGate` and `ApproveGate` decide.
- `HistoryInv` (`HistoryInvHolds`): what earlier sessions left behind of a Node is
  what a `when` may rely on. `OutputsCurrent` speaks of one moment, but that a
  Node skipped now has no Attempt on record is a statement about every session
  before: one that ran it, and one that now skips it, must not both be possible.
  Reasons to skip a Node shift from session to session (a failed need may succeed
  on the next try), so the invariant takes only those that last. `Withheld` is
  the largest set of Nodes each of which is closed by an output on record, or by
  needs and leaves that are in the set themselves; outputs of succeeded Nodes
  never change (`CompletedStays`), so it only grows. A Node that was ever taken up
  had found its needs succeeded, or lastingly skipped where its join and `when`
  allow (`Grounded`), and such a Node is not withheld: the least in execution
  order would rest on an earlier one. A skip by a `when`, and every skip of the
  walk it starts, is of a withheld Node; a walk from a failure takes all
  dependents along, so no `when` is evaluated over what it skips (`CasualtyInv`).
  With the results in memory being those on record (`OutputOf`),
  `OutputsCurrentHolds` follows.
- Two properties hold only where no process is killed, and are stated that way.
  `RejectionStandsWithoutKills`: between a gate's rejection and the Run's no
  session can begin, and a rejected Run is never resumed. `GatesTracedWithoutKills`:
  the Event of the park is written before anything else happens, and a session
  that finds the gate awaiting already leaves its last Event as it is, also when
  it never comes to park it again (`AwaitedInv`). A kill between the two writes
  breaks both: `v_reject` shows it of the first, and section 5 says it of the second.

**An Attempt** (`RunnerProofs`): for every set of Nodes and of children a command
may fork. `RunnerInvHolds` says what goes with which moment (no process before
the spawn, nobody after the kill, no verdict before the end);
`NothingLeftBehindHolds` and `VerdictTruthfulHolds` follow.

**A Run Group** (`GroupProofs`): for every set of specs (`RejectAssumption`: only
a verification declares a reject predicate) and any number of kills.
`GroupInvHolds` is the inductive invariant. `MemoryInv` gives, for each point of
the controller's loop, how many rounds it knows of beyond those on record and
which Run it has in hand; `CountInv` charges every Run to a round or a kill;
`OrderInv` has the rounds' Runs strictly ascend, so that the Run in hand, which
alone can change, stands behind no round but the last; `FinishedInv` says where
the last round is finished too. From it:

- `GroupTypeCorrect`, `NoRoundOnUnfinishedHolds`, `RunsBoundedHolds`;
- `SettledStaysHolds`: a settled group has no process, or one that is about to
  return;
- `LifecycleImplemented`: `Persist` is `PutOnRecord` or `JudgeAgain`, as the
  controller knows of one round more than the file or of as many; `KillWrite` is
  `Lose`; every other step leaves the file alone.

Three more invariants are inductive together with it. `FeedInv` (`FeedInvHolds`):
wherever the next round may be made, the value at hand is what that round is due,
and until it is put on the list its Run keeps what it was made with. It needs
`OrderInv`, for the Run in hand is the only one whose output may change, and what
is due to a round on record never comes from it. `FedByPredecessorHolds` follows.
`VerdictInv` (`VerdictInvHolds`): the status on record, and the one about to be
written, is justified by the last round, and where the next round may be made the
last one decides nothing. It needs that a round on record as succeeded has a Run
that did (`Backed`), so that a resume in place changes no decision, and
`FeedInv`, for what a round being judged says of its Run. It lets a group go on
past a round that is on record as failed, whatever its Run offers by now, for that
is what the code does. `LostInv` (`LostInvHolds`), inductive with all three, counts
those of them whose output decides. A round on record as failed can come to offer a
verdict only while it is the Run in hand, resumed in place, and there it replaces
its own record before anything is written; so when the controller stops by itself
no verdict has been lost since it began, and when it is killed at most the one in
hand is. `VerdictHeededHolds` follows from the last two: as many verdicts as kills
at most are passed over. So does `CapWithoutVerdictUnlessKilled`: without a kill or
an interrupt, what `controller.py` says of the cap is true.

**The trace file** (`TraceProofs`): for any number of appends and kills.
`LogInvHolds`: the writer counts on from the last readable line, and the Events
lost, and one more while the last line is unended, are at most the kills;
`TraceRecoversHolds` follows.

**A definition** (`DefinitionProofs`): for every set of definitions as
`DefinitionsAssumption` describes them: lists of Node tables and pattern blocks,
each with a list of needs, the slots that hold one Node with at most one, and no
needs inside a pattern that has no place for them. `model.py` and `patterns.py`
refuse everything else before this code runs. `DefinitionInvariant` is the
inductive invariant:

- `ExpandedInv`: the Nodes a pattern puts in place are its expander's, place by
  place, so `PatternShapeHolds` reads each pattern's edges off their positions.
- `ValidInv`: once the validators passed, ids are unique and needs name Nodes of
  the list, so that places and ids may be exchanged; `AcceptedIsGraphHolds`
  takes it to the accepted Workflow.
- `CountersInv` and `LeastFirst`: an in-degree is the number of needs not peeled
  yet, and the heap holds exactly the eligible Nodes, so each Node that is
  appended comes after its needs and was the first in declaration order of those
  that could come next. When the heap runs empty, what is left has a need that is
  left.
- `WalkInv`: hence the cycle walk always finds a next Node, every step of it is a
  need of the one before, and it can only end by coming back to a Node it has
  passed. `OrderOrCycleHolds` follows.
- `AcceptedMeetsAssumptions` joins the two halves: an accepted Workflow, its Nodes
  taken by their places, meets `NodesAssumption`, `OrderAssumption` and
  `PolicyAssumption` of `WorkflowGraph`, so the theorems about sessions and Runs
  hold of everything that `normalize_workflow` lets through. Two assumptions are
  met elsewhere: the executor builds the lists of dependents itself, in execution
  order, and `concurrency` is at least 1 by the declaration of its field.

**Only model-checked**: liveness, which is out of the prover's reach, and that is
all: sessions, Attempts, resumes and groups end, a deadline or a cancellation ends
an Attempt, an interrupted Run can be completed. Every invariant and every action
property of the runs is proved.

## 7. Not modelled

- **Two processes on one run or group directory.** Nothing locks them, and the
  documentation addresses no second process; with two, nearly every property
  would be false, that of the trace's numbers first.
- **I/O errors** of sqlite, the trace, or `group.json` inside a handler.
- **Predicate algebra**: field addressing, comparison and the folds are pure
  functions; what they are to the scheduler and the controllers is their truth.
- **Adapters' argument vectors, environment allow-list, capability checks,
  artifact lists, JSON Schema**: they change no state and decide nothing but the
  outcome, which is free in the models.
- **Input models**: path anchoring, checksums, the wording of errors.
- **CLI, Reporter, scaffold, layout, configuration**: formatting, templates and
  paths. The CLI's attended gate loop is a sequence of the resumes that `Run`
  allows.
