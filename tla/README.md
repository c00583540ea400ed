# Verification of the Etas interpreter

The Etas interpreter (`crates/etas_interpreter`) runs workflows: programs whose tasks
are structured, that talk to Host services, hand pure work to worker threads, handle
their own effects, ask models and their tools, write to stores under a specification of
what may follow what, and can be stopped at a checkpoint and resumed in another process.
This project models the parts of it that carry that logic in TLA+, checks them with TLC
on small instances, and proves the central properties of the task runtime, the worker
pool, the agent loop and the storage boundary for every instance with TLAPS.

## 1. The system

Paths are relative to `crates/etas_interpreter/src/`.

| Part | State | Operations | Interacts with |
|---|---|---|---|
| Task scheduler `driver/scheduler/{mod,task,group}.rs` | tables of tasks and scopes, ready queue, permit queue, permits held, slot counters, barrier flag | start a group or a task, dispatch, yield, await, wait for Host or CPU, wake, settle, cancel, serialise, raise and lower the barrier | called by the driver and by the task intrinsics |
| Resource guards `driver/scheduler/resource.rs` | none | conflict of two resource keys | scheduler |
| Host reactor `driver/scheduler/host.rs` | futures in flight, one uncommitted answer per owner | start, poll, take an answer | driver, Host services |
| Task driver `driver/task.rs`, `driver/drive.rs` | root machine and its wait, CPU job records | drive one turn, commit answers and completions, settle the run | scheduler, reactor, executor |
| Checkpoint barrier `driver/checkpoint.rs` | none of its own | raise, drain, capture, lower | driver, scheduler, reactor, executor |
| Task intrinsics `eval/task.rs`, `eval/task_resource.rs` | none | build job lists and resource keys, decide whether a job is sent to a worker | scheduler |
| CPU executor `driver/cpu/*` | work and completion channels, tickets, health table, Notify, threads | submit, try_completion, cancel, drop; the worker loop | driver |
| Continuation arena `driver/scheduler/continuation.rs` | one-shot continuations and who owns them | allocate, consume, dispose, validate | evaluator, scheduler, snapshots |
| Snapshots `driver/scheduler/snapshot.rs`, `eval/task_checkpoint.rs`, `eval/machine/snapshot` | a document | capture, validate, restore | checkpoint barrier, codec |
| Evaluator machine `eval/machine`, `eval/handler.rs`, `eval/stmt_retry.rs`, `eval/continuation.rs`, `control` | frames, signal, handler scopes, retry attempts, call counter of one task | step to the next boundary, dispatch an arm, resume, finish, transfer, retry | driver, arena, snapshots |
| Residual monitor `control/residual`, `eval/residual`, `orchestration/residual.rs`, `driver/residual_exit.rs` | scopes, attempts, permits, exit log of one task | activate, preview, commit, dispatch, record the outcome, exit, report | evaluator machine, approval adapter, snapshots |
| Agent and model loop `eval/machine/model.rs`, `eval/agent` | the loop frame of an inference | ask the model, run its tool calls, repair, finish | machine, model and tool adapters, budget, ledger |
| Memory transactions `driver/dispatch/memory*.rs`, `eval/memory_*.rs` | versions read, intents, evidence of writes | read, write, clear, prepare, commit, reconcile | Host stores, checkpoints |
| Orchestration `orchestration`, `eval/boundary_ledger.rs` | request identities, completed boundaries | record, replay | driver, codec |
| Lifecycle `driver/lifecycle` | invocations | start, resume, cancel, shut down | driver, API |
| Dispatch `driver/dispatch` | none | build a request, decode an answer, per service | reactor, Host |
| Plan, values, intrinsics, host, api, diagnostics | | pure translation, data, text and I/O | |

What is hard in it: the coordinator interleaves tasks at every boundary, Host services
answer late, in any order or not at all, worker threads are truly parallel and may
panic, a race or a failure cancels tasks in every state they can be in, continuations
move between frames, an arena and schedulers, every construct can be left in half a dozen
ways, and a checkpoint must catch all of it at rest so that another process can go on.
`PROJECT.json` lists these hazards at their lines, with the properties aimed at them.

What makes the parts correct:

* scheduler: no two conflicting permits, exact slot counters, concurrency within limits,
  exact queues, no lost wakeup, final outcomes, a reported failure that does not depend
  on timing;
* driver: it commits each answer once, ends every run, also when the CPU executor is
  full, leaves nothing behind, swallows no failure;
* barrier and snapshots: nothing starts behind the barrier, what is captured is accepted,
  and what is restored is what was captured;
* CPU pool: no job and no signal is lost, a dropped pool stops its threads;
* evaluator machine: the dynamic scopes agree with the frames, no code runs twice, the
  machine never meets an inconsistency of its own making;
* residual monitor: no guarded action before its guard, one exit for every scope, an
  unsatisfied scope reaches the caller;
* agent loop: every tool call is answered, a required tool is used, rounds and budget are
  bounded;
* storage: a write of the program reaches the store at most once, and what is recorded
  about it is true.

## 2. Modules

| Module | Content |
|---|---|
| `Queues` | `Retain`, the filter that queues and logs share |
| `ResourceGuards` | conflict of resource keys (`conflicts`, `Clash`) |
| `TaskScheduler` | the scheduler: the specification `Spec` and its properties |
| `TaskDriver` | extends `TaskScheduler`: coordinator, reactor, CPU records and barrier; `DriverSpec`, and `LiveDriverSpec` with fairness |
| `CpuPool` | worker threads and the coordinator's side of the pool; `PoolSpec`, `LivePoolSpec` |
| `ContinuationArena` | the arena as a value: its operations and what they refuse |
| `TaskRestore` | extends `TaskScheduler` and `ContinuationArena`: capture and restoration of a scheduler with its continuations |
| `EvalMachine` | extends `ContinuationArena`: the stack machine of one task |
| `ResidualMonitor` | the monitor of one task |
| `AgentLoop` | agents that race and share a budget |
| `Recovery` | storage boundaries under crashes, lost answers and resumption |
| `AtMostOnce` | what `Recovery` promises, as a specification of its own |
| `MC*` | instances for TLC |
| `TaskSchedulerProofs` | theorems about the scheduler and the driver |
| `QueueProofs` | lemmas about `Retain` |
| `TaskRestoreProofs`, `CpuPoolProofs`, `EvalMachineProofs`, `AgentLoopProofs`, `ResidualMonitorProofs` | theorems about those modules |
| `RecoveryProofs` | theorems about `Recovery`, and that it implements `AtMostOnce` |

The type invariants (`TypeOK`, `DriverTypeOK`, `PoolTypeOK`, `RestoreTypeOK`,
`EvalTypeOK`, `ResidualTypeOK`, `RecoveryTypeOK`) hold in the same instances; the
configurations list the properties that could tell more.

### TaskScheduler

State: one function per field of a task (`tstate`, `scopeOf`, `src`, `keys`, `slot`,
`stop`, `waiters`, `inbox`, ...) and of a scope (`anc`, `limit`, `policy`, `active`,
`winner`, `primary`, ...), and the scheduler's own `ready`, `waiting`, `holders`,
`checkpoint_barrier`. The names are those of the code. A scope's ancestors are a set
(`anc`) where the code follows parent links. Task values and error payloads are
abstracted to the kind of an outcome.

An action is one method with every call it makes. `terminal`, for example, settles a
task, frees its slot in all ancestors, hands its permits to the waiters they blocked,
wakes the tasks that await it, and wakes the waiters of its scope when it was the last.
The one exception is the cancellation of a group: the code collects handles and calls
`cancel` on each, and one such call can settle scopes; the handles left are the sequence
`cancelling`, and `CancelNext` is the only action enabled until it is empty.

`dispatch_ready` rotates entries that are blocked to the back of the ready queue;
`Scan` and `Dispatch(n)` do that for the first `n` entries. What a task does next is
nondeterministic. `Doomed` is the one restriction: a task that was told to stop, or
that received a failed outcome, can only finish.

### TaskDriver

Adds the root machine (`root`, `rootScope`, `rootOutcome`), Host answers that are not
committed (`completed`), CPU job records (`cpu_jobs`), unfinished native work
(`native`), the control flow between a checkpoint request and the barrier (`pending`),
and `panicked`, which records a failed assertion of the coordinator instead of stopping
the model. `knows` restricts awaits to task handles the program can have. Each driver
action contains the scheduler action it performs, so what is proved of the scheduler
holds in the driver; the lemma `DriverRunsScheduler` carries it over. A task that finds
the executor full goes back to the ready queue (`DriveCpuFull`).

### CpuPool

Threads are parallel here, so a step is one access to a shared object: the work
channel, the completion channel, the health table, the Notify. `pc` is the last such
access of a worker. `try_completion` is two steps (`Receive`/`ReceiveNothing`, then
`ReportExited`/`EndDrain`), since workers do not take its lock. A drain collects
`batch`, and `Commit` settles the jobs of the sorted batch. `ready` is the one permit a
tokio Notify stores. Work is taken in the order of identities; completions are sorted by
the drain; so both channels are sets. Jobs that a worker executes are opaque: they end
or panic.

### ContinuationArena and TaskRestore

The arena is a record of the next identity and one entry per token ever allocated, and
its operations are functions on that record, so that both modules that use it can.
`TaskRestore` adds to the scheduler what a snapshot carries beside it: the arena, the
continuation a waiting task goes on with (`resume`), what each undelivered wakeup is about
(`reference`), and who started whom (`parent`). Each action of the scheduler is followed
by the bookkeeping the code does in the same call (`DisposeEnded`, `SaveResume`,
`SaveReferences`, `SaveParents`). Tasks that got hold of a token use it whether or not it
is theirs: the arena has to refuse.

A snapshot saves a wakeup as a reference and recomputes its outcome when it is restored;
the stop signals and slots are rebuilt from the task states. `Restart` captures and
restores in one step: a process that dies after a checkpoint comes back as what the
checkpoint restores to, whatever it did in between. `RestartIsExact` says that no task can
tell.

### EvalMachine

State: the control signal, the frames (`stack`, its head is the top), `handler_stack`,
`retry_stack`, the arena, the counters that number scopes and attempts, and the last
checkpoint. The limit on calls is compared with the call frames of the stack; the code keeps
that number in a counter beside it. A continuation is the sequence of its leaves, innermost first, so
composing two is concatenation. Leaves that pass every signal on are one kind of frame
(`Next`). A frame that holds a continuation (`Handle`, `Reenter`, `Dispatch`) holds it as a
link (`Link`): the frames, with what the walks of the code over them find (the scopes,
attempts, blocks and tokens named at any depth, those named twice, and the orders in which
an unwinding visits scopes and attempts), so that no operator recurses through the frames. One action is one iteration of `run_until_yield` for one kind of signal at one
kind of frame.

The program is the environment: where the code evaluates checked source, any form that
is legal in the lexical context may follow until `fuel` is spent. The forms are blocks,
handle, perform, `?`, calls, return, resume, finish, loops with break and continue, retry,
Host calls, checkpoints, and requeue and park of a bound continuation.

The machine does not clean up after four kinds of exits: a break or continue out of a
handler or an attempt, an error or a Host failure that leaves a retry attempt or a handler
inside it, a transfer from inside a handler or an attempt of the arm, and an error caught
at the await of a parked continuation. `Crosses` names them and records that one was made
(`crossed`). The run contains all of them. An error that leaves the program from inside
an attempt starts the next attempt (`UnhandledError`), and a break whose loop is gone is a
fault (`LoopControlEscapes`). `LinearContinuations` is stated for every program;
`TopologyPreserved` and `NoInternalFault` up to the first such exit. What follows when the
guard is dropped is in the list of disagreements.

Calls into another program revision are not modelled: the frame `ProgramReturn`, at which a
search for an attempt ends with a fault (`eval/machine/resume.rs:112-120`), and
`suspend_program_action`, which detaches frames whose calls stay charged
(`eval/machine/suspension.rs:78-90`, `298-322`).

### ResidualMonitor

A callable with a specification `guard >> target` runs its body under a scope of its own.
The stack holds the frames that matter: scopes, `handle` and `?` boundaries, dispatched
arms with the frames they captured, and the outcome correlation of a performed action. A
frame lists the scopes and attempts it owns, so dropping it abandons them, as Rust's
`Drop` does in the code. An action is previewed and committed by all enclosing scopes,
gets one permit that is checked again when it is used, and its outcome is evidence. An
approval is evidence only when the Host gave it in the present process.

The automaton of a specification (`etas_code`) is external and instantiated with one
guard. The order in which `finish_active` settles scopes is by invocation number. The
statuses of rejected attempts are not kept. The exit kinds `NonLocalReturn` and
`HandlerFinish` cannot be reached by the lexical rules. Deferred continuations are left to
`EvalMachine`.

### AgentLoop

Each agent has a phase, its `ModelLoopFrame` (`loop`) and the input that was committed to
its machine; all share the token budget, the request counter and the ledger of completed
boundaries. The frame also carries what the properties compare: the calls the model asked
for, the messages that answer them, the requests sent and the tools that ran. A turn of an
agent is several steps and no other agent moves in between (`MyTurn`); Host answers arrive
between turns. A success or a failure of a racing agent cancels the others: one that waits
for the Host is only told to stop, any other is settled at once.

The budget belongs to `etas_host` and is external: what the run has left is its limit less
what was consumed and reserved, and usage is at most the reservation. An agent may have a
limit of its own (`Limits`), which is a view of the run's budget: a call of such an agent
reserves what the view has left, so that several agents hold reservations at once. How a
view counts is the Host's, so it may be anything up to the agent's limit and to what the
run has left. The Host may find the limits incompatible, which fails the inference before
its request has an identity (`IncompatibleLimits`); that it finds so at a resumption is not
modelled. The cost budget follows the token budget; an unlimited budget is not modelled. Agents have a policy, so each check
takes a request identity; policy and approval are awaited inside the turn, and a denial
ends the task whatever retry surrounds it. Between a checkpoint and its resumption nothing
leaves a trace in this state, so `Resume` is one step.

### Recovery and AtMostOnce

The root program is a straight line of memory operations: get, put in its four
conditional forms, delete, clear (a scan and one delete per entry), prepare, commit and
reconcile of an intent, and checkpoint. A boundary is a request that the Host may answer,
serve without the answer arriving, fail, or serve after its caller is gone; the store
keeps receipts by operation key. Another workflow may write to the same store. The run
may be asked to stop, and the process may die at any point and be resumed from any
checkpoint it has written.

A write is bound to its operation first; then its boundary begins, or does not
(`NotDispatched`): a stop arrives in between, or the registry of operations turns it down, which an
instance allows for some operations of a program (`refused`). A bound operation whose boundary never began has no record, and needs none.
A failure that is known to have changed nothing (a failed read, a refused or rejected write)
goes to an enclosing retry statement (`RetryOrReport`), a typed error to a handler first
(`Raise`), and the next attempt takes new request numbers.

A request takes the next number of the run, and the operation key of a derived write is
that number. So the key depends on how many requests came before: a scan takes one number
per page and a clear one per entry, a retried read or a refused boundary one per attempt,
and all of these may differ when they are replayed (`Recovery_clear`, `Recovery_retry`,
`Recovery_refusal`). Concurrent tasks also shift the numbers and are not modelled. The replay ledger is carried but never hit: a checkpoint is taken at a
barrier, after which every request is new. Session writes follow the same pattern and are
not modelled.

`AtMostOnce` is the promise: `Apply` a write once, `Answer` only what is true and never
withdraw a committed answer, `Keep` what is known at a checkpoint, `Recall` what some
checkpoint knew. `Recovery` implements it under the mapping `Promise`: a write is a program
position (and a version for a clear), and the answer is derived from the evidence by
request identity. Crashes, attempts and late answers map to stuttering. It holds for programs in
which nothing whose number of requests can vary comes before a write; those are the
programs of `Recovery_run`.

## 3. Runs

`AgentLoop_run` and `EvalMachine_run` check for deadlock. The others set
`CHECK_DEADLOCK FALSE`: a run that has returned, and a scheduler with no task left, stop
legitimately.

| Run | Bounds | Shows |
|---|---|---|
| `TaskScheduler_groups` | 3 tasks, 2 scopes, all policies, limits 1 and 2 | queue, wakeups, outcomes, primary failure, barrier |
| `TaskScheduler_permits` | 3 tasks, limit 3, overlapping keys, unresolved selectors, serial scopes | exclusion, no lost permit |
| `TaskDriver_run` | 3 tasks in groups of up to 3, 3 scopes, 2 CPU slots, 2 turns, native work, Join and Race | single answers, snapshots, nothing outlives the run, failures surface |
| `TaskDriver_live` | 3 tasks in groups of up to 3, one key, 2 CPU slots, fairness | termination, deadlock only with a permit, also with a full executor |
| `CpuPool_run` | 2 workers, 3 jobs, 2 panics, fairness | signals, jobs, settlement, threads stop |
| `TaskRestore_run` | 3 tasks, 3 scopes, Race with limit 1, 1 token, 1 restart | one-shot use, restoration, slots, limits, scope outcomes |
| `EvalMachine_run` | every program of 5 forms, call depth 1, 2 attempts, 1 iteration, 1 crash | topology, linearity, no internal fault |
| `ResidualMonitor_run` | 5 forms, 2 active scopes, 1 pending attempt, 1 exit record, 1 restart, plain and approval guards | guards, exits, reports |
| `AgentLoop_run` | 2 agents in a race, 2 tokens, one agent limited to 1, 2 rounds, 2 attempts, 3 replies, 1 suspension, 1 restart | tool calls, required tools, rounds, budget |
| `Recovery_run` | 9 programs of up to 5 operations, 2 keys, 3 receipts, 2 attempts, 2 restarts, 1 foreign write | evidence, clear, `AtMostOnce` |

Why the bounds are enough: two tasks suffice for a conflict, an await or a race; the
third is the bystander that a lost wakeup, a wrong hand-over or a wrong order needs, or
the child of a loser. Three scopes give root, group and nested group, which is as deep as
a counter update can go wrong. Two turns per task let it wait and then act. The root machine reaches two boundaries
in `TaskDriver_run` and one in `TaskDriver_live`. In the pool
two workers are the smallest real pool (one thread selects the inline executor); three
jobs leave one queued while both work; two panics kill the pool. Five forms reach a
captured continuation inside a retry inside a handler, or a checkpoint behind any two
nested constructs. Three tasks fill an executor of two slots and leave one that finds it full. With two tokens and
one agent limited to one, both agents may hold a reservation, or the unlimited one
takes all; two rounds let
a repair or an invalid call precede a good one. One exit record lets a later exit push an
unsatisfied one out of the ring. Two restarts let a resumed run crash again before it has
written anything. The bounds are the constants whose names begin with `Max`, and
`Capacity`, `CpuCapacity`, `Attempts`, `Iterations`, `Tokens` and `Limits`, which are
parameters of the code or of its program.

Fairness. `LiveDriverSpec` has weak fairness of the whole next-state relation: the
coordinator's loop keeps driving, and some Host or CPU answer arrives while one is
outstanding. CPU completions have strong fairness: `drive_one` drains them before anything
else, and a full executor makes the coordinator wait for one (`driver/task.rs:486-492`,
`1152-1166`), so a task that finds the executor full does not do so for ever. That Host services answer is an assumption about the embedder; that tasks
reach finitely many boundaries is the step budget of a run. `LivePoolSpec` has weak
fairness of each worker and of the coordinator; jobs end because of their step budget.
Host answers, the embedder's dropping of a run and the two-second deadline get no
fairness, so that none of them can stand in for a lost signal. The other modules state no
liveness.

### Disagreements found

Two are runs that expect the violation:

| Run | What TLC shows |
|---|---|
| `TaskDriver_barrier` | a Host answer makes a task Ready; a race sibling wins and cancels it; the next checkpoint commits the answer and the assertion of `take_checkpoint_task` (`driver/scheduler/mod.rs:489`) fails |
| `Recovery_source` | a resumption from sources takes request identities for the sources it compiles (`driver/lifecycle/resume/source.rs:88`), so a write after the checkpoint gets a new operation key and a committed one is applied again; `docs/architect/phase1-interpreter-design.md:1369` asks for "no duplicate confirmed writes" |

The others have a configuration each, with which TLC prints the counterexample:

| Configuration, property | What TLC shows |
|---|---|
| `CpuPool_dead`, `JobsSettle` | when the last worker panics between the two halves of `try_completion`, its job is reported twice, the drain fails at the second report, and a job of the dropped rest of the batch never settles. `README.md:137`: "A worker panic settles its jobs as an infrastructure failure." |
| `TaskDriver_native`, `NativeTaskIsReady` | a task is cancelled by a race sibling between two slices of native work; its machine keeps the work (`eval/machine/step.rs:48-50`), the next checkpoint drains it (`driver/checkpoint.rs:114-126`), and the assertion of `take_checkpoint_task` fails |
| `TaskDriver_structured`, `RaceAwaitsSettlement` | a race returns although a loser still waits for the Host (`driver/scheduler/mod.rs:877`); the design document, line 577: "cancel unfinished losers and await settlement before returning" |
| `TaskDriver_reserialize`, `SerialAdmission` | a second `serialize_invocation` admits two tasks of a serialised invocation, against the comment at `driver/scheduler/mod.rs:345` |
| `EvalMachine_checkpoint`, `CheckpointAccepted` | a Host failure inside a handler inside an attempt drops the handler's frame and leaves its scope on `handler_stack` (`eval/machine/resume.rs:125`); the checkpoint of the next attempt is refused (`eval/checkpoint.rs:218-238`); design, lines 1121-1129 |
| `EvalMachine_park`, `TransferEndsArm` | an error raised at the await of a parked continuation is delivered without truncating the arm's frames (`driver/task.rs:438-445`); caught inside the continuation, the value comes back to the arm, which faults (`eval/continuation.rs:956`); design, line 1367 |
| `TaskRestore_waiter`, `CheckpointWritten` | a task cancelled while it waits keeps its waiting continuation (`driver/scheduler/mod.rs:968-1024`), and later checkpoints of the run are refused with "terminal task still owns an executable continuation" (`eval/task_checkpoint.rs:196-212`) |
| `Recovery_clear`, `NoDuplicateWrites` | a clear that is replayed after a crash may scan another number of pages (`driver/dispatch/memory_pages.rs:86`), so a write behind it gets another operation key and is applied again; design, line 1369 |
| `Recovery_retry`, `NoDuplicateWrites` | a read that failed and was tried again took two request numbers (`driver/dispatch/memory.rs:258-277`, `eval/memory_store.rs:23`); replayed after a crash it succeeds at once, and the write behind it, committed before the crash, gets another operation key and is applied again; design, line 1369 |
| `Recovery_refusal`, `NoDuplicateWrites` | the same with a write that the registry of operations refused at first (`driver/dispatch/host_dispatch.rs:48-62`) and that was sent at the second attempt; design, line 1369 |
| `Recovery_intent`, `IntentEvidence` | a stop during the commit of a prepared write ends the run before any evidence is recorded (`driver/dispatch/memory_commit.rs:60`); the design, line 1194, asks for it even then |
| `ResidualMonitor_task`, `TaskScopesSurface` | only the root's driver calls `residual_exit::finish`; a scheduled task completes although one of its scopes ended unsatisfied, and the comments at `driver/residual_exit.rs:7-9` and `control/residual/lifecycle.rs:180-181` say otherwise |
| `AgentLoop_leak`, `ConfirmedResultsRecorded` | an agent that loses the race while its answer lies in the reactor is settled without `dispatch::model::finish`: usage is not charged and the reservation stays; design, lines 930-931: "Record a confirmed external result before abandoning a continuation due to cancellation." |

Met while reading and outside the models: nothing rejects `Unknown` evidence at a
checkpoint or a resumption (`eval/machine/snapshot/validator.rs:158-188`), although the
design, line 1369, asks for "explicit rejection of unreconciled unknown writes".

## 4. Proofs

All theorems hold for every number of tasks, scopes, keys, limits, tokens, restarts, turns,
workers, jobs, panics, agents, replies, programs, crashes and foreign writes; the assumptions are the
typing of the constants (`SchedulerConstants`, `DriverConstants`, `RestoreConstants`,
`PoolConstants`, `MachineConstants`, `AgentConstants`, `RecoveryConstants`,
`MonitorConstants`). Three theorems have a hypothesis of their own,
stated in them and explained below.

**TaskSchedulerProofs.** `PermitExclusion` is not inductive: a permit handed over at
settlement must go to a parked task, and a task that is Ready must not have lost its
permit. `SchedulerInv` adds that identities are allocated in order (`Allocated`), that
holders are alive and not parked (`HoldersAlive`), that whoever was admitted holds its
permits (`AdmittedHold`) and that nothing runs behind the barrier (`Quiet`). The lemma
`GrantedCompatible` shows that one scan of the permit queue grants compatible permits in
whatever order it meets the waiters. From it: `PermitsAreExclusive`, `SettledForGood`
(`OutcomesAreFinal`), `BarrierIsTight` (`BarrierHolds`).

**TaskSchedulerProofs, the queues.** The queues are sequences that the code filters in place;
`Retain` is that filter as a recursive function on positions, and the lemmas about it
(`QueueProofs`: what it keeps, that it repeats nothing) follow from a least position where
they would fail, which avoids induction. On `SchedulerInv` rest:

* `QueueInv`: the ready queue has each Ready task once and otherwise only settled ones;
  the permit queue has each parked task once, and each is blocked by a live holder; a
  task that awaits a task or a scope is registered there once, and something there is
  still alive. It gives `ReadyQueueIsExact`, `PermitsAreHandedOn` and `WakeupsArrive`.
* `SlotInv`: a counter is the cardinality of the tasks charged to its scope, and a slot
  is held only in states that may hold one. It gives `SlotsAreCounted`.
* `FailureInv`: every failed task of a scope is its primary or comes after it in the
  source. It gives `PrimaryIsFirst`.
* `ConcurrencyInv`: ancestors are older than their descendants (`ScopeTree`), so that
  the check along the ancestors covers every counter that an admission raises. It gives
  `ConcurrencyIsBounded`, while the invocation is not serial.
* `InboxInv`, `RolesInv`, `SetupInv`: one undelivered wakeup per task; winner and
  callback belong to their scope; scopes have room. Every step of the scheduler has one
  of three forms, `Grows` (tasks are born), `Ends` (one task settles) or `Steady`, and a
  scope in which nothing is alive is frozen under each. It gives `ScopesSettleForGood`
  (`ScopeOutcomesAreFinal`).

**TaskSchedulerProofs, the driver.** Every step of the coordinator is a step of the
scheduler or leaves it alone (lemma `DriverRunsScheduler`), so what is proved of the
scheduler holds in the driver (`DriverKeepsPermits`, for one). `AnswersAreSingle` needs `AnswersQueued` (an uncommitted
answer belongs to a task that is Ready or settled, never to one that waits for the
Host), `FailuresSurface` needs `DoneAtRest` (how the run ended is decided with the
failures known at that moment, and none comes later). `SnapshotsAreValid` follows from the
scheduler's invariants at a drained barrier. `DeadlocksNeedPermits` needs a reason why awaits
cannot form a cycle: `WaitOrder` says that some relation D from tasks to tasks is
transitive and irreflexive and contains every handle a task knows, every task it awaits
and every member of a scope it awaits. A new task enters D below whoever is above the
task that started it. A live task with the smallest D cannot be waiting for a task or a scope.
`RunsEndSettled` says that a run ends with everything settled, or with a task that waits
for a permit: a deadlock over permits while the run settles ends it as it is
(`driver/task.rs`, the deadlock branch of `settle_tasks`). So `NothingIsLeftBehind`
(`NothingOutlivesRun`) has the hypothesis `NoPermits`, that of its run `TaskDriver_run`.

**TaskRestoreProofs.** A restart recomputes wakeups and stop requests from what the
snapshot has, so the proof is that the snapshot has enough. `RestoreInv` adds to the
scheduler's invariants:

* `TokenInv`: an entry its arm owns has its frames, a live origin, and was handed to
  nobody; any other entry was handed to its origin, if to anybody. It gives
  `ContinuationsAreOneShot` (`OneShot`) and `TokensHaveLiveOwners` (`LiveTokens`).
* `TreeInv`, `ParentInv`, `WaitInv`: scopes are a tree; a task is started from a scope
  above its own, waits for a task of a scope above, or for a scope just below.
* `StopInv`: whoever is told to stop, or is about to be, has a scope above it that is
  `Swept`: everything alive below that scope is told, and the scope has something else than
  a cancellation to report. Nobody ends cancelled, or hears of a cancellation, without
  being told. The second half of `Swept` is what makes this inductive: without it a
  scope could report the cancellation of its tasks to a waiter outside, which would then
  end cancelled for no reason a snapshot can find.
* `ResultInv`: a settled scope reports the outcome of one of its tasks, under every policy
  (`ScopeReports`).
* `ReferenceInv`: a wakeup comes with what it is about, which has settled as the wakeup
  says; `OutcomeKept` and `ReferenceLasts` keep it so.

Restoration tells a task to stop when a task above it was (`StoppedAbove`, a recursive
function along parents). Its equation comes from the least set that is closed under it
(`SolutionExists`), and by `StoppedBelow`, on a least task that fails, whoever is told
again has a told task above. That task's swept scope is above both, so the live ones had
been told: `RestartsAreExact` (`RestartIsExact`). `MetadataValid` and `RefusalKind` go
through the checks of capture and restore: `SnapshotsRestore` (`SnapshotsAreAccepted`); the one
refusal left is that of the run `TaskRestore_waiter`. Slots, limits and scope outcomes are
proved over restarts too (`SlotsAreCountedOverRestarts`,
`ConcurrencyIsBoundedOverRestarts`, `ScopesSettleForGoodOverRestarts`).

**CpuPoolProofs.** `PoolInv` says where each job is while some worker has not panicked
(`Tracked`), ties exits to panics (`Exits`) so that the coordinator's own reports imply
a dead pool, and states the signal property from the moment a drain has found the
channel empty (`Signals`), before the wait that needs it. From it:
`RunningJobsAreTracked`, `SignalsAreKept`, `JobsAreKept`, `LivePoolIsFaultless`,
`DroppedWorkIsCancelled`. `LivePoolIsFaultless` also delimits `CpuPool_dead`: the fault
needs the panic of every worker.

**EvalMachineProofs.** A stack of frames that hold continuations is a tree. `Built` says that
the frames lie in some set that is closed under going into what a frame holds (`Closed`) and
in which every link records what is below it; the rules for concatenation, cutting, and for
each kind of frame (`HoldsCat`, `BuiltCat`, `OrderCat`, `MakeDispatch`, ...) then replace an
induction over the tree. `MachineInv` says of the signal, the stack and the arena together
that they name each block, scope, attempt and token at most once (`Base`), and only names
in use (`Known`): counters hand out fresh ones, and a block leaves the names in use when it
runs. That is what makes `LinearContinuations` inductive: capturing, deferring and resuming
move frames between signal, stack and arena, and `Under` says that a step that only moves or
drops frames keeps all of it. The checkpoint has the same property, and `RestoredCounters`
shows that a restart, which recomputes both counters from the frames and the stacks it
finds, hands out the same names as the run that was checkpointed. From it: `Linear`
(`LinearContinuations`), `MachineTypes`. Both hold for every program, the exits of
`Crosses` included.

**EvalMachineProofs, the topology.** That `handler_stack` and `retry_stack` agree with the
frames is not inductive: whether a scope is closed in order depends on which frames a
signal still passes, and that depends on where in the source the program is. A context
(`Ctx`) is the lexical position, the scopes and attempts that are active, the action the
nearest boundary handles, and what may come next: code, only the end of an arm of
Error.raise (`"tail"`), or only the answer to a request (`"answer"`). `Rule` says for each
kind of frame which context it makes of the one below it, and `Fits(K, s, c, b)` that the
frames s lead from context b up to context c, where K gives the continuations that the
arena keeps for the arms. `Fits` is the greatest relation that follows the rules, witnessed by a
set that does, so frames inside frames and arms whose continuation lies in the arena need no
induction over depth; the lemmas `FitsPop`, `FitsPush`, `FitsCat`, `FitsCut` take stacks apart,
`FitsOrder` reads off the scopes and attempts, and `FitsMove` moves frames to another arena when
no token they mention changes. `TopologyInv` says for each signal which contexts it may
be in (`Placed`): a resume has its arm around it with no attempt on the way, a request knows that
no attempt lies between it and its handler, a parked arm is `Stranded`, still on the stack
while its continuation is in the signal. It is needed for the checkpoint too, which a restart
makes the live state. There is one lemma per action (`HandlePlaced`, `SuspendHandlerPlaced`,
`UnparkRaisedPlaced`, ...); `Descent` walks from a transfer down to the frame at which the arm ends.
From it: `TopologyHolds` (`TopologyPreserved`) and `NoInternalFaults` (`NoInternalFault`),
for every program up to its first exit of `Crosses`; with `Crossings = {}` for every run. The
configurations `EvalMachine_checkpoint` and `EvalMachine_park` show what such an exit leads to,
and so why the hypothesis is there.

**AgentLoopProofs.** `AgentInv` is stated agent by agent: which calls of the reply are
answered and which remain (`Progress`), what a frame may look like in each phase, with the
requests sent counted against the round (`PhaseOK`), that the choice of tools is relaxed
only after a tool that satisfies it (`ChoiceOK`), what an outcome implies (`OutcomeOK`).
Once for all agents: no ledger entry is ahead of the request counter (`LedgerOK`), and what
the run's budget has reserved is what all calls hold together (`BudgetInv`). The total is the
cardinality of the set `Held` of pairs of an agent and a unit it holds, so a reservation or
a release is the union or the difference of finite sets (`HeldGrows`, `HeldShrinks`). From it: `CallsAnswered`, `RequiredToolRan`,
`RoundsAreBounded`, `BudgetIsExact`.

**RecoveryProofs.** `BaseInv` ties four copies of the truth together: the store with its
receipts and effects (`HostInv`), the evidence of the run (`RunInv`), the checkpoints
(`SavedInv`), and the request that is awaited (`PendingInv`). Its centre is that evidence
says what the receipt says (`TrueRecords`), in the run and in every checkpoint, and that
of the derived writes whose boundary has begun only the awaited one lacks evidence (`Covered`). From it:
`EvidenceHolds` (`WriteEvidence`), `ClearSpares`, and the types.

**RecoveryProofs, the refinement.** `Refinement` is the refinement of `AtMostOnce` under `Promise`,
and `NoDuplicates` its consequence for the list of effects. A resumed run must give the
operation it repeats the key it had before the crash. `TrackInv` says so with a trace f, the
request numbers at which the positions of the program were first reached: the run and
every checkpoint are on the trace, each request is about the write that f gives its
operation key (`Fits`), and receipts and effects tell of each other (`Matched`). It needs `Sources = 0`
(a resumption that compiles sources takes numbers, `Recovery_source`) and `Replayable`:
no derived write is at or behind an operation that is `Loose` (but a clear itself), one whose replay may take another
number of requests. Those are a clear (`Recovery_clear`), a retried read or reconciliation
(`Recovery_retry`) and, where the registry may refuse its boundary, any retried operation, a
retried write included (`Recovery_refusal`). Each of these configurations drops one
hypothesis and violates `NoDuplicateWrites`. A write that the store itself turned down may
be tried again: the store keeps a receipt for it, so a replay is turned down too.
`Recovery_run` satisfies both hypotheses.

**ResidualMonitorProofs.** A frame of the stack may hold captured frames, and these
others, to any depth. `FrameInv` needs no induction over that depth: `WellBuilt` says that
the frames lie in some set that is closed under going into captured frames and in which
every frame has the shape of its kind; an arm owns what its captured frames own. Frames
own disjoint sets of scopes and attempts (`Over`), the scopes that saw an attempt lie
below it, and while the program runs the active scopes are those that the stack owns.
The saved document keeps the same (`Kept`), since a restart makes it the live state. What
each step settles is then what it takes off the stack, so the exit of a scope is recorded
when its only owner goes: `ExitsSettledOnce` (`SettledOnce`). On `FrameInv` rest three
more invariants:

* `GuardInv`: evidence a scope holds stands for something that took place (`Proved`), an
  approval only while it is current and then in this run; an attempt that still has a
  frame was not decided by the Host (`Undecided`), so a handler that resumes with true
  approves nothing; the target about to be dispatched has all its guards (`Guarded`). A
  checkpoint keeps evidence but not approvals (`ProvedBefore`). It gives
  `GuardsComeFirst` (`GuardedDispatch`).
* `LogInv`: the ring has records of distinct exited scopes, the counters add up, and the
  first failure is kept apart, where only a full ring can have lost it (`LogOK`); what a
  checkpoint saves is a report that begins with the first failure and is not longer than
  the ring (`Documented`), and restored it is a log again. The lemmas follow `RecordExit`
  through a list of exits as those on `Retain` do, by a least position that fails. It
  gives `UnsatisfiedSurface` (`UnsatisfiedScopesSurface`) for every capacity, zero
  included: a ring without capacity keeps no record and counts every exit as dropped.
* `PermitInv`: an active scope has seen nothing later than the cursor and its evidence is
  not later than its last event (`Sound`); an attempt that has a frame is pending in every
  scope that saw it, which has not gone back to an older version (`Open`); there is room
  for the scopes the frames own (`Room`); every permit was used but for that of the
  attempt at hand, which holds (`Used`). These are the checks of `validate_counters` and of
  the restoration, so with `LogInv` the document of a checkpoint passes them
  (`SaneAccepted`). It gives `MonitorIsSure` (`MonitorNeverConfused`).

Only model-checked:

* liveness (`RunTerminates`, `JobsSettleOrFault`, `DropStopsWorkers`), which needs
  fairness and ENABLED.

## 5. Not modelled

* Values, expressions, patterns, methods, intrinsics and reflection: deterministic
  functions of one task over unbounded data, without shared state. They are most of the
  source by lines.
* Plan: a pure compiler. Codec: the encoding of documents whose content the restoration
  models cover. Host readiness, API, code publisher, diagnostics: I/O and text.
* CPU capsules: freezing and thawing of a pure call.
* Groups without jobs: they settle in the call that creates them.
* Calls across program revisions, and the call counter that they keep charged.
* Awaiting a task handle in the root machine.
* Payloads of Host requests; console, command, HTTP, event and session adapters, which
  differ from the modelled ones in what they encode.
* External cancellation of a run appears as a task that finishes Cancelled at its turn,
  as `NativeCancelled`, as `Stop` in `Recovery` and as `Cancel` in `ResidualMonitor`.
* Deadlines: a deadline that has passed is one of the ways a request fails.

## 6. Plan

Done: the models above, and the proofs about the task runtime, its restoration, the worker
pool, the evaluator's machine, the agent loop, the storage boundary and the residual
monitor; every invariant and every action property of a passing run is proved. Four hazards
have no property of a run, since the code does not meet them: a second unresolved
selector (`TaskDriver_reserialize`), a stop while a prepared write is awaited
(`Recovery_intent`), the waiting continuation of a cancelled task (`TaskRestore_waiter`),
and native work of a cancelled task at a checkpoint (`TaskDriver_native`). Left,
once the code changes there: move those properties, and those of the other configurations
above, into the passing runs; and model calls across program revisions.
