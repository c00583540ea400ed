---------------------------- MODULE TaskScheduler ----------------------------
(***************************************************************************)
(* The coordinator's task scheduler (driver/scheduler): structured scopes, *)
(* the FIFO ready queue, concurrency slots, resource permits, waiters and  *)
(* the completion policies of task groups.                                 *)
(*                                                                         *)
(* The scheduler belongs to one coordinator.  A task it dispatches runs    *)
(* until it hands control back, so at most one task is Running and nothing *)
(* else touches the scheduler meanwhile; Idle is the guard of everything   *)
(* else the coordinator does.  What a task decides to do (start tasks,     *)
(* await, wait for the Host, finish) is nondeterministic here.             *)
(*                                                                         *)
(* A group's cancellation is a loop over handles collected beforehand, in  *)
(* which each iteration is a whole call of cancel.  It is the sequence     *)
(* cancelling, and CancelNext is the only action enabled until it is empty.*)
(***************************************************************************)
EXTENDS Integers, Sequences, FiniteSets, SequencesExt, ResourceGuards, Queues

CONSTANTS
  MaxTasks,        \* bound: number of task ids ever allocated
  MaxScopes,       \* bound: number of scope ids ever allocated, the root included
  MaxGroup,        \* bound: jobs of one task group
  RootLimit,       \* concurrency of the root scope
  Limits,          \* concurrency limits a new scope may have
  GroupPolicies,   \* policies a new scope may have
  SerialScopes,    \* whether a new scope may be one that serializes Host actions
  KeySets,         \* sets of resource keys a task may need
  SourceIndexes,   \* source positions of std.task.start calls
  MayBeUnresolved  \* whether a job's resource keys may be unresolvable

ASSUME SchedulerConstants ==
  /\ MaxTasks \in Nat \ {0} /\ MaxScopes \in Nat \ {0} /\ MaxGroup \in Nat \ {0}
  /\ RootLimit \in Nat \ {0} /\ Limits \subseteq Nat \ {0}
  /\ GroupPolicies \subseteq {"Run", "Join", "TryJoin", "Collect", "Race"}
  /\ SerialScopes \subseteq BOOLEAN
  /\ SourceIndexes \subseteq Nat
  /\ MayBeUnresolved \in BOOLEAN

TaskIds  == 0..(MaxTasks - 1)
ScopeIds == 0..(MaxScopes - 1)
Root     == 0       \* the root scope
NoTask   == -1      \* Option::None of a task id; as a caller, the root machine

\* JoinTuple, JoinArray and Map differ only in the shape of the value they
\* build, and so do Collect and MapCollect.
Policies == {"Run", "Join", "TryJoin", "Collect", "Race"}

Terminal   == {"Completed", "Raised", "Failed", "Cancelled"}
Inert      == Terminal \cup {"Unborn"}    \* settled, or an id that is not in the table
TaskStates == {"Ready", "Running", "WaitTask", "WaitScope", "WaitHost", "WaitCpu",
               "WaitResource"} \cup Inert

VARIABLES
  \* one entry per task
  tstate,      \* TaskState
  target,      \* the task or scope a WaitTask or WaitScope task waits for
  scopeOf,     \* the scope that owns the task
  src,         \* source_index
  keys,        \* resource_keys, frozen before the task is admitted
  slot,        \* active_slot
  stop,        \* the task's execution scope has been told to stop
  waiters,     \* tasks registered on the task, in order
  inbox,       \* wakeups: outcomes delivered and not yet taken
  \* one entry per scope
  anc,         \* the scope and its ancestors
  limit,       \* concurrency
  policy, active, owner, winner, primary,
  swaiters,    \* tasks registered on the scope, in order
  serialHost,  \* serialize_host_actions
  \* the scheduler
  next_task, next_scope,
  serial,      \* serial_task_admission of the root, which every scope inherits
  ready, waiting, holders,
  checkpoint_barrier,
  cancelling   \* handles still to cancel of the group being cancelled

taskVars   == <<tstate, target, scopeOf, src, keys, slot, stop, waiters, inbox>>
scopeVars  == <<anc, limit, policy, active, owner, winner, primary, swaiters, serialHost>>
schedVars  == <<next_task, next_scope, serial, ready, waiting, holders,
                checkpoint_barrier, cancelling>>
vars       == <<taskVars, scopeVars, schedVars>>

\* What a task is, and what a scope is, never change after creation.
taskShape  == <<scopeOf, src, keys, next_task>>
scopeShape == <<anc, limit, policy, owner, serialHost, next_scope, serial>>

TypeOK ==
  /\ tstate \in [TaskIds -> TaskStates]
  /\ target \in [TaskIds -> Int]
  /\ scopeOf \in [TaskIds -> ScopeIds]
  /\ src \in [TaskIds -> Nat]
  /\ keys \in [TaskIds -> KeySets]
  /\ slot \in [TaskIds -> BOOLEAN]
  /\ stop \in [TaskIds -> BOOLEAN]
  /\ waiters \in [TaskIds -> Seq(TaskIds)]
  /\ inbox \in [TaskIds -> Seq(Terminal)]
  /\ anc \in [ScopeIds -> SUBSET ScopeIds]
  /\ limit \in [ScopeIds -> Nat]
  /\ policy \in [ScopeIds -> Policies]
  /\ active \in [ScopeIds -> Nat]
  /\ owner \in [ScopeIds -> TaskIds \cup {NoTask}]
  /\ winner \in [ScopeIds -> TaskIds \cup {NoTask}]
  /\ primary \in [ScopeIds -> TaskIds \cup {NoTask}]
  /\ swaiters \in [ScopeIds -> Seq(TaskIds)]
  /\ serialHost \in [ScopeIds -> BOOLEAN]
  /\ next_task \in 0..MaxTasks /\ next_scope \in 1..MaxScopes
  /\ serial \in BOOLEAN
  /\ ready \in Seq(TaskIds) /\ waiting \in Seq(TaskIds)
  /\ holders \in SUBSET TaskIds
  /\ checkpoint_barrier \in BOOLEAN
  /\ cancelling \in Seq(TaskIds)

Init ==
  /\ tstate = [t \in TaskIds |-> "Unborn"]
  /\ target = [t \in TaskIds |-> NoTask]
  /\ scopeOf = [t \in TaskIds |-> Root]
  /\ src = [t \in TaskIds |-> 0]
  /\ keys = [t \in TaskIds |-> {}]
  /\ slot = [t \in TaskIds |-> FALSE]
  /\ stop = [t \in TaskIds |-> FALSE]
  /\ waiters = [t \in TaskIds |-> <<>>]
  /\ inbox = [t \in TaskIds |-> <<>>]
  /\ anc = [s \in ScopeIds |-> IF s = Root THEN {Root} ELSE {}]
  /\ limit = [s \in ScopeIds |-> RootLimit]
  /\ policy = [s \in ScopeIds |-> "Run"]
  /\ active = [s \in ScopeIds |-> 0]
  /\ owner = [s \in ScopeIds |-> NoTask]
  /\ winner = [s \in ScopeIds |-> NoTask]
  /\ primary = [s \in ScopeIds |-> NoTask]
  /\ swaiters = [s \in ScopeIds |-> <<>>]
  /\ serialHost = [s \in ScopeIds |-> FALSE]
  /\ next_task = 0 /\ next_scope = 1
  /\ serial = FALSE
  /\ ready = <<>> /\ waiting = <<>> /\ holders = {}
  /\ checkpoint_barrier = FALSE
  /\ cancelling = <<>>

-----------------------------------------------------------------------------
(***************************************************************************)
(* Helpers                                                                 *)
(***************************************************************************)
Running(t) == t \in TaskIds /\ tstate[t] = "Running" /\ cancelling = <<>>

Idle == cancelling = <<>> /\ \A t \in TaskIds : tstate[t] # "Running"

\* The caller of a start: a running task, or the root machine between turns.
Caller(p) == IF p = NoTask THEN Idle /\ ~checkpoint_barrier ELSE Running(p)

\* Mutant: only the task's own scope is asked for room.
can_admit_locally(s) == active[s] < limit[s]

\* can_admit: every scope from the task's own up to the root has room.
can_admit(s) == \A a \in anc[s] : active[a] < limit[a]

scope_serialized(s) == \E a \in anc[s] : serialHost[a]

\* Mutant: only the scope of the task itself is counted, not its ancestors.
change_active_locally(gain, lose) ==
  [s \in ScopeIds |->
     active[s] + Cardinality({t \in gain : s = scopeOf[t]})
               - Cardinality({t \in lose : s = scopeOf[t]})]
\* change_active for the tasks that gain and the tasks that lose a slot.
change_active(gain, lose) ==
  [s \in ScopeIds |->
     active[s] + Cardinality({t \in gain : s \in anc[scopeOf[t]]})
               - Cardinality({t \in lose : s \in anc[scopeOf[t]]})]

\* The order of ordered_tasks and of record_primary_failure.
SourceBefore(t, u) == src[t] < src[u] \/ (src[t] = src[u] /\ t < u)

Members(s, st) == {t \in TaskIds : scopeOf[t] = s /\ st[t] # "Unborn"}

\* Non-terminal tasks of the scope and its descendants, in the order in which
\* cancel_scope_unsettled collects their handles.
Unsettled(s, st) ==
  {t \in TaskIds : st[t] \notin Inert /\ s \in anc[scopeOf[t]]}

CancelBefore(t, u) == scopeOf[t] < scopeOf[u] \/ (scopeOf[t] = scopeOf[u] /\ t < u)

\* The sequence, the only one, that lists S in that order.
CancelOrder(S) ==
  {q \in SetToSeqs(S) : \A i, j \in DOMAIN q : i < j => CancelBefore(q[i], q[j])}
\* first_cancelled, or else completed_values.
joined(kinds) ==
  IF "Cancelled" \in kinds THEN "Cancelled"
  ELSE IF kinds \subseteq {"Completed"} THEN "Completed" ELSE "Error"

\* Mutant: members that wait for the Host are not waited for.
settled_but_host(kinds) == kinds \subseteq Terminal \cup {"WaitHost"}

settled(kinds) == kinds \subseteq Terminal

\* The kind of scope_outcome when tasks are in states st: Pending for Ok(None),
\* Error for Err(InvalidTransition).
scope_outcome(s, st, win, prim) ==
  LET kinds == {st[t] : t \in Members(s, st)}
      primaryKind == IF prim = NoTask THEN "Error" ELSE st[prim]
  IN IF ~settled(kinds) THEN "Pending"
     ELSE CASE policy[s] = "Run" ->
                 IF prim # NoTask THEN primaryKind
                 ELSE IF owner[s] = NoTask THEN "Error" ELSE st[owner[s]]
            [] policy[s] = "Join" ->
                 IF prim # NoTask THEN primaryKind ELSE joined(kinds)
            [] policy[s] = "TryJoin" ->
                 IF primaryKind = "Raised" THEN "Completed"
                 ELSE IF prim # NoTask THEN primaryKind ELSE joined(kinds)
            [] policy[s] = "Collect" ->
                 IF "Failed" \in kinds THEN "Failed"
                 ELSE IF kinds \subseteq {"Completed", "Raised"} THEN "Completed"
                 ELSE "Cancelled"
            [] policy[s] = "Race" ->
                 IF win # NoTask THEN st[win]
                 ELSE IF prim # NoTask THEN primaryKind
                 ELSE IF "Cancelled" \in kinds THEN "Cancelled" ELSE "Error"

\* take_wakeup: the running task takes the oldest outcome delivered to it.
take_wakeup(t) == inbox' = [inbox EXCEPT ![t] = IF @ = <<>> THEN @ ELSE Tail(@)]

\* A failed or cancelled outcome ends the task it is delivered to, and so does
\* a stop request: the machine looks at it before it evaluates anything.
Doomed(t) == stop[t] \/ (inbox[t] # <<>> /\ Head(inbox[t]) \in {"Failed", "Cancelled"})

\* What the task may do in its turn other than finish.
Acts(t) == Running(t) /\ ~Doomed(t)

-----------------------------------------------------------------------------
(***************************************************************************)
(* Starting tasks                                                          *)
(***************************************************************************)
\* serialize_invocation, called when some job's resource selectors cannot be
\* resolved: admitted tasks that are Ready or wait for the Host take their slot
\* back, so that nothing new is admitted beside them.  The caller is out of the
\* task table while it runs.
serialize_invocation(p, unresolved) ==
  IF unresolved = {} THEN {}
  ELSE {t \in holders \ {p} : ~slot[t] /\ tstate[t] \in {"Ready", "WaitHost"}}

\* spawn_in_scope and attach_resources for a sequence of jobs in scope s.  The
\* keys of a job whose selectors cannot be resolved are empty; first is the source
\* index of the first job.
spawn_in_scope(s, jobs, unresolved, first) ==
  LET born == next_task .. (next_task + Len(jobs) - 1)
      job(t) == t - next_task + 1
  IN /\ next_task + Len(jobs) <= MaxTasks
     /\ next_task' = next_task + Len(jobs)
     /\ scopeOf' = [t \in TaskIds |-> IF t \in born THEN s ELSE scopeOf[t]]
     /\ src' = [t \in TaskIds |-> IF t \in born THEN first + t - next_task ELSE src[t]]
     /\ keys' = [t \in TaskIds |->
                   IF t \notin born THEN keys[t]
                   ELSE IF job(t) \in unresolved THEN {} ELSE jobs[job(t)]]
     /\ ready' = ready \o [i \in 1..Len(jobs) |-> next_task + i - 1]

Born(t) == t \in next_task .. (next_task' - 1)

\* std.task.run and the group combinators: create the scope, spawn its jobs and
\* wait for it, all in the caller's turn.  The callback of run becomes the owner
\* of its scope and takes no permits.
StartGroup(p, pol, lim, serialScope, jobs, unresolved) ==
  LET s == next_scope
      isTask == p # NoTask
      retained == serialize_invocation(p, unresolved)
  IN /\ Caller(p) /\ (isTask => Acts(p))
     /\ next_scope < MaxScopes
     /\ pol = "Run" => Len(jobs) = 1 /\ jobs[1] = {}
     /\ next_scope' = s + 1
     /\ anc' = [anc EXCEPT ![s] = {s} \cup anc[IF isTask THEN scopeOf[p] ELSE Root]]
     /\ policy' = [policy EXCEPT ![s] = pol]
     /\ limit' = [limit EXCEPT ![s] = lim, ![Root] = IF unresolved # {} THEN 1 ELSE @]
     /\ owner' = [owner EXCEPT ![s] = IF pol = "Run" THEN next_task ELSE NoTask]
     /\ serial' = (serial \/ unresolved # {})
     /\ serialHost' = [serialHost EXCEPT ![s] = serialScope, ![Root] = @ \/ unresolved # {}]
     /\ spawn_in_scope(s, jobs, unresolved, 0)
     /\ tstate' = [t \in TaskIds |-> IF Born(t) THEN "Ready"
                                     ELSE IF t = p THEN "WaitScope" ELSE tstate[t]]
     /\ target' = [t \in TaskIds |-> IF t = p THEN s ELSE target[t]]
     /\ swaiters' = [swaiters EXCEPT ![s] = IF isTask THEN <<p>> ELSE <<>>]
     /\ slot' = [t \in TaskIds |-> t # p /\ (slot[t] \/ t \in retained)]
     /\ active' = change_active(retained, {t \in {p} : isTask /\ slot[p]})
     /\ IF isTask THEN take_wakeup(p) ELSE UNCHANGED inbox
     /\ UNCHANGED <<stop, waiters, winner, primary, waiting, holders,
                    checkpoint_barrier, cancelling>>

\* std.task.start: one more task in the scope of the running task.
Start(p, job, unresolved, index) ==
  LET retained == serialize_invocation(p, unresolved)
  IN /\ Acts(p)
     /\ spawn_in_scope(scopeOf[p], <<job>>, unresolved, index)
     /\ tstate' = [t \in TaskIds |-> IF Born(t) THEN "Ready" ELSE tstate[t]]
     /\ slot' = [t \in TaskIds |-> slot[t] \/ t \in retained]
     /\ active' = change_active(retained, {})
     /\ limit' = [limit EXCEPT ![Root] = IF unresolved # {} THEN 1 ELSE @]
     /\ serial' = (serial \/ unresolved # {})
     /\ serialHost' = [serialHost EXCEPT ![Root] = @ \/ unresolved # {}]
     /\ take_wakeup(p)
     /\ UNCHANGED <<target, stop, waiters, anc, policy, owner, winner, primary, swaiters,
                    next_scope, waiting, holders, checkpoint_barrier, cancelling>>

-----------------------------------------------------------------------------
(***************************************************************************)
(* Admission                                                               *)
(***************************************************************************)
\* What dispatch_ready makes of an entry of the ready queue.  Nothing these
\* depend on changes while the queue is scanned: the scan stops at the first
\* task it admits.
Blocked(t)    == tstate[t] = "Ready" /\ ~slot[t] /\ ~can_admit(scopeOf[t])
Parks(t)      == /\ tstate[t] = "Ready" /\ ~Blocked(t)
                 /\ ~can_acquire(t, keys, holders)
Admissible(t) == /\ t \in TaskIds /\ tstate[t] = "Ready" /\ ~Blocked(t)
                 /\ can_acquire(t, keys, holders)

\* The scan of dispatch_ready over the first n entries: those without room go to
\* the back of the queue, those whose permits are taken park on the permit
\* table, and stale ones (cancelled while queued) are dropped.
Scan(n) ==
  LET prefix == SubSeq(ready, 1, n)
      parked == {t \in Range(prefix) : Parks(t)}
  IN [ready  |-> Retain(prefix, {t \in Range(prefix) : Blocked(t)}),
      parked |-> parked,
      queue  |-> waiting \o Retain(prefix, parked)]

\* Mutant: the barrier is not looked at.
admission_always_open == Idle

\* The early return of dispatch_ready.
admission_open == Idle /\ ~checkpoint_barrier

\* dispatch_ready that admits the task at position n.
Dispatch(n) ==
  LET t == ready[n]
      scan == Scan(n - 1)
  IN /\ admission_open
     /\ Admissible(t)
     /\ \A i \in 1..(n - 1) : ~Admissible(ready[i])
     /\ tstate' = [u \in TaskIds |-> IF u = t THEN "Running"
                                     ELSE IF u \in scan.parked THEN "WaitResource"
                                     ELSE tstate[u]]
     /\ holders' = holders \cup {t}
     /\ slot' = [slot EXCEPT ![t] = TRUE]
     /\ active' = change_active({u \in {t} : ~slot[u]}, {})
     /\ ready' = SubSeq(ready, n + 1, Len(ready)) \o scan.ready
     /\ waiting' = scan.queue
     /\ UNCHANGED <<target, stop, waiters, inbox, winner, primary, swaiters,
                    checkpoint_barrier, cancelling, taskShape, scopeShape>>

\* dispatch_ready that finds nothing to admit.
DispatchNone ==
  LET scan == Scan(Len(ready))
  IN /\ admission_open
     /\ \A i \in DOMAIN ready : ~Admissible(ready[i])
     /\ scan.ready # ready
     /\ tstate' = [u \in TaskIds |-> IF u \in scan.parked THEN "WaitResource" ELSE tstate[u]]
     /\ ready' = scan.ready
     /\ waiting' = scan.queue
     /\ UNCHANGED <<target, slot, stop, waiters, inbox, active, winner, primary, swaiters,
                    holders, checkpoint_barrier, cancelling, taskShape, scopeShape>>

-----------------------------------------------------------------------------
(***************************************************************************)
(* A task gives up its turn                                                *)
(***************************************************************************)
\* The task leaves Running for state st; keep says whether it keeps its slot.
Yields(t, st, keep) ==
  /\ Acts(t)
  /\ tstate' = [tstate EXCEPT ![t] = st]
  /\ slot' = [slot EXCEPT ![t] = keep /\ @]
  /\ active' = change_active({}, {u \in {t} : ~keep /\ slot[u]})
  /\ take_wakeup(t)
  /\ UNCHANGED <<stop, winner, primary, waiting, holders, checkpoint_barrier,
                 cancelling, taskShape, scopeShape>>

\* Mutant: the task becomes Ready and is not queued.
requeue_unqueued(t) ==
  /\ Yields(t, "Ready", serial)
  /\ UNCHANGED <<target, waiters, swaiters, ready>>

\* CooperativeYield, std.task.scheduler.requeue, a checkpoint request, and a CPU
\* job that the worker pool has no room for.
requeue(t) ==
  /\ Yields(t, "Ready", serial)
  /\ ready' = Append(ready, t)
  /\ UNCHANGED <<target, waiters, swaiters>>

\* Mutant: the waiter parks without looking at the outcome of the target.
await_unchecked(t, u) ==
  /\ u # t /\ tstate[u] # "Unborn"
  /\ Yields(t, "WaitTask", FALSE)
  /\ target' = [target EXCEPT ![t] = u]
  /\ waiters' = [waiters EXCEPT ![u] = Append(@, t)]
  /\ UNCHANGED <<ready, swaiters>>

\* await and park on a task without an outcome.
await_task(t, u) ==
  /\ u # t /\ tstate[u] \notin Inert
  /\ Yields(t, "WaitTask", FALSE)
  /\ target' = [target EXCEPT ![t] = u]
  /\ waiters' = [waiters EXCEPT ![u] = Append(@, t)]
  /\ UNCHANGED <<ready, swaiters>>

wait_for_host(t) ==
  /\ Yields(t, "WaitHost", scope_serialized(scopeOf[t]))
  /\ UNCHANGED <<target, waiters, ready, swaiters>>

wait_for_cpu(t) ==
  /\ Yields(t, "WaitCpu", TRUE)
  /\ UNCHANGED <<target, waiters, ready, swaiters>>

wake_from_host(t) ==
  /\ Idle
  /\ tstate[t] = "WaitHost"
  /\ tstate' = [tstate EXCEPT ![t] = "Ready"]
  /\ ready' = Append(ready, t)
  /\ UNCHANGED <<target, slot, stop, waiters, inbox, active, winner, primary, swaiters,
                 waiting, holders, checkpoint_barrier, cancelling, taskShape, scopeShape>>

-----------------------------------------------------------------------------
(***************************************************************************)
(* Settling                                                                *)
(***************************************************************************)
\* Mutant: a waiter is compared with the old holders only.
grant_all(queue, held, G) ==
  G = {t \in Range(queue) : compatible(t, keys, held)}

\* Mutant: the queue is not scanned.
grant_none(queue, held, G) == G = {}

\* The permit waiters that one pass over the queue admits when the tasks in held
\* keep their permits: each exactly when it clashes neither with them nor with a
\* waiter admitted before it.
Granted(queue, held, G) ==
  /\ G \subseteq {queue[i] : i \in 1..Len(queue)}
  /\ \A i \in 1..Len(queue) :
       queue[i] \in G <=>
         compatible(queue[i], keys, held \cup {queue[j] : j \in {k \in 1..(i - 1) : queue[k] \in G}})

\* terminal: the task takes its outcome, gives back its slot and its permits,
\* the permit queue is scanned once in order, then the waiters of the task and,
\* when the scope has settled, the waiters of the scope become Ready.  Nothing
\* reads the wakeups of a terminal task again.
terminal(t, out, win, prim) ==
  LET s == scopeOf[t]
      st1 == [tstate EXCEPT ![t] = out]
      queue == Retain(waiting, {u \in TaskIds : st1[u] = "WaitResource"})
      onTask(u) == st1[u] = "WaitTask" /\ target[u] = t
  IN \E G \in SUBSET {u \in TaskIds : st1[u] = "WaitResource"} :
       /\ Granted(queue, holders \ {t}, G)
       /\ LET awaiting == {u \in Range(waiters[t]) : onTask(u)}
              st2 == [u \in TaskIds |-> IF u \in G \cup awaiting THEN "Ready" ELSE st1[u]]
              result == scope_outcome(s, st2, win[s], prim[s])
              onScope(u) == result # "Pending" /\ st2[u] = "WaitScope" /\ target[u] = s
              joining == {u \in Range(swaiters[s]) : onScope(u)}
          IN /\ tstate' = [u \in TaskIds |-> IF u \in joining THEN "Ready" ELSE st2[u]]
             /\ target' = [u \in TaskIds |-> IF u \in awaiting \cup joining \cup {t}
                                               THEN NoTask ELSE target[u]]
             /\ holders' = (holders \ {t}) \cup G
             /\ waiting' = Retain(queue, TaskIds \ G)
             /\ ready' = ready \o Retain(queue, G)
                               \o Retain(waiters[t], awaiting)
                               \o Retain(swaiters[s], joining)
             /\ inbox' = [u \in TaskIds |->
                            IF u \in awaiting THEN Append(inbox[u], out)
                            ELSE IF u \in joining THEN Append(inbox[u], result)
                            ELSE IF u = t THEN <<>> ELSE inbox[u]]
             /\ swaiters' = [swaiters EXCEPT ![s] = IF result = "Pending" THEN @ ELSE <<>>]
       /\ waiters' = [waiters EXCEPT ![t] = <<>>]
       /\ slot' = [slot EXCEPT ![t] = FALSE]
       /\ active' = change_active({}, {u \in {t} : slot[u]})
       /\ winner' = win /\ primary' = prim
       /\ UNCHANGED <<checkpoint_barrier, taskShape, scopeShape>>

\* Mutant: the first failure to settle wins.
record_first_failure(t) ==
  IF primary[scopeOf[t]] = NoTask THEN [primary EXCEPT ![scopeOf[t]] = t] ELSE primary

\* record_primary_failure: the earliest in the source wins.
record_primary_failure(t) ==
  LET p == primary[scopeOf[t]]
  IN IF p = NoTask \/ SourceBefore(t, p)
       THEN [primary EXCEPT ![scopeOf[t]] = t] ELSE primary

\* apply_group_policy: does this outcome of a task cancel the rest of its scope?
CancelsScope(t, out) ==
  LET s == scopeOf[t]
  IN CASE out = "Completed" -> policy[s] = "Race" /\ winner[s] = NoTask
       [] out = "Raised"    -> policy[s] \in {"Run", "Join", "TryJoin"}
       [] out = "Failed"    -> TRUE
       [] out = "Cancelled" -> FALSE

\* complete, raise, fail or cancelled, then apply_group_policy.
settle(t, out) ==
  LET s == scopeOf[t]
  IN /\ terminal(t, out,
                 IF out = "Completed" /\ policy[s] = "Race" /\ winner[s] = NoTask
                   THEN [winner EXCEPT ![s] = t] ELSE winner,
                 IF out \in {"Raised", "Failed"} THEN record_primary_failure(t) ELSE primary)
     /\ cancelling' \in IF CancelsScope(t, out) THEN CancelOrder(Unsettled(s, tstate')) ELSE {<<>>}
     /\ UNCHANGED stop

\* finish_task and finish_raised_task at the end of the task's turn.  A delivered
\* failure or cancellation is passed on; a stopped task is cancelled unless it
\* fails first.  The wakeup is taken at the start of the turn.
Finish(t, out) ==
  /\ Running(t)
  /\ IF inbox[t] # <<>> /\ Head(inbox[t]) \in {"Failed", "Cancelled"}
       THEN out = Head(inbox[t])
       ELSE stop[t] => out \in {"Failed", "Cancelled"}
  /\ settle(t, out)

\* Mutant: the state of the task is not checked when its completion arrives.
cpu_finish_unchecked(t, out) ==
  /\ Idle
  /\ tstate[t] \in {"WaitCpu", "Cancelled"}
  /\ out \in {"Completed", "Failed", "Cancelled"}
  /\ settle(t, out)

\* drain_cpu_completions for a task that still waits for its job: the task is
\* Running only inside this call.  A worker never raises a language error.
CpuFinish(t, out) ==
  /\ Idle
  /\ tstate[t] = "WaitCpu"
  /\ out \in {"Completed", "Failed", "Cancelled"}
  /\ settle(t, out)

\* drain_native for a Ready task that is stopped in the middle of native work; its
\* entry in the ready queue becomes stale.
NativeCancelled(t) ==
  /\ Idle /\ checkpoint_barrier
  /\ tstate[t] = "Ready"
  /\ settle(t, "Cancelled")
\* One iteration of cancel_scope_unsettled or cancel_unsettled: cancel.  A task
\* that waits for the Host is only told to stop.
CancelNext ==
  LET t == Head(cancelling)
  IN /\ cancelling # <<>> /\ t \in TaskIds
     /\ cancelling' = Tail(cancelling)
     /\ stop' = [stop EXCEPT ![t] = @ \/ tstate[t] \notin Inert]
     /\ IF tstate[t] \in Inert \cup {"WaitHost"}
          THEN UNCHANGED <<tstate, target, slot, waiters, inbox, active, winner, primary,
                           swaiters, ready, waiting, holders, checkpoint_barrier,
                           taskShape, scopeShape>>
          ELSE terminal(t, "Cancelled", winner, primary)

\* cancel_unsettled, called by the root machine when a task has failed or the
\* root itself does not complete.
cancel_unsettled ==
  /\ Idle /\ ~checkpoint_barrier
  /\ Unsettled(Root, tstate) # {}
  /\ cancelling' = SetToSortSeq(Unsettled(Root, tstate), <)
  /\ UNCHANGED <<taskVars, scopeVars, next_task, next_scope, serial, ready, waiting,
                 holders, checkpoint_barrier>>

begin_checkpoint_barrier ==
  /\ Idle /\ ~checkpoint_barrier
  /\ checkpoint_barrier' = TRUE
  /\ UNCHANGED <<taskVars, scopeVars, next_task, next_scope, serial, ready, waiting,
                 holders, cancelling>>

end_checkpoint_barrier ==
  /\ Idle /\ checkpoint_barrier
  /\ checkpoint_barrier' = FALSE
  /\ UNCHANGED <<taskVars, scopeVars, next_task, next_scope, serial, ready, waiting,
                 holders, cancelling>>

-----------------------------------------------------------------------------
\* A group without jobs settles in the call that creates it (a race without jobs
\* is rejected) and touches neither queue nor counter: it is left out.
JobLists == UNION {[1..n -> KeySets] : n \in 1..MaxGroup}

UnresolvedJobs(n) == IF MayBeUnresolved THEN {{}, {n}} ELSE {{}}

TaskStep(t) ==
  \/ \E pol \in GroupPolicies, lim \in Limits, ser \in SerialScopes, jobs \in JobLists :
       \E u \in UnresolvedJobs(Len(jobs)) : StartGroup(t, pol, lim, ser, jobs, u)
  \/ \E job \in KeySets, u \in UnresolvedJobs(1), i \in SourceIndexes : Start(t, job, u, i)
  \/ requeue(t)
  \/ \E u \in TaskIds : await_task(t, u)
  \/ wait_for_host(t)
  \/ wait_for_cpu(t)
  \/ \E out \in Terminal : Finish(t, out)

Coordinator ==
  \/ \E pol \in GroupPolicies, lim \in Limits, ser \in SerialScopes, jobs \in JobLists :
       \E u \in UnresolvedJobs(Len(jobs)) : StartGroup(NoTask, pol, lim, ser, jobs, u)
  \/ \E n \in DOMAIN ready : Dispatch(n)
  \/ DispatchNone
  \/ \E t \in TaskIds : wake_from_host(t)
  \/ \E t \in TaskIds, out \in Terminal : CpuFinish(t, out)
  \/ \E t \in TaskIds : NativeCancelled(t)
  \/ CancelNext
  \/ cancel_unsettled
  \/ begin_checkpoint_barrier
  \/ end_checkpoint_barrier

Next == Coordinator \/ \E t \in TaskIds : TaskStep(t)

Spec == Init /\ [][Next]_vars

-----------------------------------------------------------------------------
(***************************************************************************)
(* Properties                                                              *)
(***************************************************************************)
Alive(t) == tstate[t] \notin Inert
Settled(s) == \A t \in Members(s, tstate) : tstate[t] \in Terminal

\* Two tasks never hold conflicting permits, whatever the order of admission,
\* permit hand-over at settlement, and cancellation (acquire, release and the
\* scan of the permit queue in terminal); and a running task holds its permits.
PermitExclusion ==
  /\ \A t, u \in holders : t # u => ~Clash(keys[t], keys[u])
  /\ \A t \in TaskIds : tstate[t] \in {"Running", "WaitTask", "WaitScope", "WaitHost", "WaitCpu"}
                          => t \in holders

\* No permit is lost: a holder is alive, the permit queue lists exactly the
\* parked tasks, each once, and a task stays parked only while a holder's
\* permits clash with its own (terminal wakes everyone it can).
NoLostPermit ==
  /\ \A t \in holders : Alive(t)
  /\ \A t \in TaskIds : tstate[t] = "WaitResource" =>
       /\ \E h \in holders : Clash(keys[t], keys[h])
       /\ Cardinality({i \in DOMAIN waiting : waiting[i] = t}) = 1
  /\ \A i \in DOMAIN waiting : tstate[waiting[i]] = "WaitResource"

\* The ready queue holds every Ready task exactly once, and beside them only
\* tasks that were cancelled while queued (the stale entries dispatch_ready
\* skips): no task is lost by the rotation and none is queued twice.
ReadyQueueExact ==
  /\ \A t \in TaskIds : tstate[t] = "Ready" =>
       Cardinality({i \in DOMAIN ready : ready[i] = t}) = 1
  /\ \A i \in DOMAIN ready : tstate[ready[i]] \in Terminal \cup {"Ready"}

\* The active counter of a scope is the number of slots held below it, so the
\* checked_sub of change_active never underflows, and only a task that can use
\* a slot holds one.
SlotAccounting ==
  /\ \A s \in ScopeIds :
       active[s] = Cardinality({t \in TaskIds : slot[t] /\ s \in anc[scopeOf[t]]})
  /\ \A t \in TaskIds :
       /\ slot[t] => tstate[t] \in {"Ready", "Running", "WaitHost", "WaitCpu"}
       /\ tstate[t] \in {"Running", "WaitCpu"} => slot[t]

\* Concurrency(n) bounds the active tasks of a scope and its descendants as long
\* as the invocation has not been serialized.
ConcurrencyBound == ~serial => \A s \in ScopeIds : active[s] <= limit[s]

\* No lost wakeup: a task waits for another task, or for a scope, only while
\* that has not settled, and it is registered there exactly once.
NoLostWakeup ==
  \A t \in TaskIds :
    /\ tstate[t] = "WaitTask" =>
         /\ Alive(target[t])
         /\ Cardinality({i \in DOMAIN waiters[target[t]] : waiters[target[t]][i] = t}) = 1
    /\ tstate[t] = "WaitScope" =>
         /\ \E u \in Members(target[t], tstate) : Alive(u)
         /\ Cardinality({i \in DOMAIN swaiters[target[t]] : swaiters[target[t]][i] = t}) = 1
\* The failure a scope reports does not depend on the order of settlement: it is
\* the raised or failed member that comes first in the source.
PrimaryIsFirstInSource ==
  \A s \in ScopeIds :
    LET bad == {t \in Members(s, tstate) : tstate[t] \in {"Raised", "Failed"}}
    IN IF primary[s] = NoTask THEN bad = {}
       ELSE primary[s] \in bad /\ \A t \in bad \ {primary[s]} : SourceBefore(primary[s], t)
\* An outcome is final: no late completion, wakeup or cancellation changes the
\* state of a task that has settled (the is_terminal checks of terminal and
\* cancel, and the state checks of every wakeup).
OutcomesAreFinal ==
  [][\A t \in TaskIds : tstate[t] \in Terminal => tstate'[t] = tstate[t]]_vars

\* The outcome of a scope is final once its waiters have been told: no task is
\* started in it any more, and nothing that settles later changes what
\* scope_outcome computes.
ScopeOutcomesAreFinal ==
  [][\A s \in ScopeIds \ {Root} : s < next_scope =>
       LET before == scope_outcome(s, tstate, winner[s], primary[s])
           after == scope_outcome(s, tstate, winner[s], primary[s])'
       IN before # "Pending" => after = before]_vars

\* While the checkpoint barrier is up nothing is admitted and nothing starts.
BarrierHolds ==
  [][checkpoint_barrier =>
       /\ next_task' = next_task
       /\ \A t \in TaskIds : tstate'[t] = "Running" => tstate[t] = "Running"]_vars

\* The design says of race: "cancel unfinished losers and await settlement before
\* returning".  A race that has its result has nothing unsettled below it.
RaceAwaitsSettlement ==
  \A s \in ScopeIds \ {Root} :
    policy[s] = "Race" /\ winner[s] # NoTask /\ Settled(s) /\ cancelling = <<>>
      => Unsettled(s, tstate) = {}

\* Serial invocation admission: once the invocation is serialized, no task is
\* admitted while another one holds a slot.
SerialAdmission ==
  [][serial /\ active[Root] > 0 => active'[Root] <= active[Root]]_vars

=============================================================================
