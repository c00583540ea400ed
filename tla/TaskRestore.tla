------------------------------ MODULE TaskRestore ------------------------------
(***************************************************************************)
(* Checkpoint and restart of the task scheduler (scheduler/snapshot.rs,    *)
(* eval/task_checkpoint.rs): the scheduler of TaskScheduler, with what the *)
(* snapshot carries beside it: the one-shot continuations of every task's  *)
(* handler arms, the continuation a waiting task resumes with, and the     *)
(* task that started each task.                                            *)
(*                                                                         *)
(* A run that dies after a checkpoint comes back as what the snapshot      *)
(* restores to, whatever it did in between; Restart therefore captures and *)
(* restores in one step, and the run that goes on instead is the step not  *)
(* taken.                                                                  *)
(***************************************************************************)
EXTENDS TaskScheduler, ContinuationArena

CONSTANTS
  MaxTokens,     \* bound: continuation tokens ever allocated
  MaxRestarts    \* bound: restarts of the process

ASSUME RestoreConstants == MaxTokens \in Nat /\ MaxRestarts \in Nat

VARIABLES
  arena,         \* the scheduler's continuation arena; an origin is a task, or NoTask for Root
  resume,        \* waiting_continuation of a task: its kind, or "None"
  reference,     \* what each wakeup in a task's inbox is about, in the same order
  parent,        \* local.parent: the task that started this one, or NoTask for Root
  handed,        \* history: the tasks a token's frames were handed to
  refused,       \* why a snapshot was refused, "" if none was
  restarts

restoreVars == <<arena, resume, reference, parent, handed, refused, restarts>>
allVars == <<vars, restoreVars>>

Resumes == {"None", "Await", "Run", "Transfer"}
Frames  == <<[k |-> "Body"]>>
----------------------------------------------------------------------------
(* What a step of the scheduler does to the rest of the snapshot.          *)

\* terminal calls dispose_origin first.
Ended == {t \in TaskIds : tstate[t] \notin Terminal /\ tstate'[t] \in Terminal}

\* Mutant: only a task that completes gives its continuations up.
DisposeEnded_Completed(a) ==
  [a EXCEPT !.entries =
     [i \in DOMAIN a.entries |->
        IF a.entries[i].origin \in {t \in Ended : tstate'[t] = "Completed"}
        THEN DisposeOrigin(a, a.entries[i].origin).entries[i] ELSE a.entries[i]]]

DisposeEnded(a) ==
  [a EXCEPT !.entries =
     [i \in DOMAIN a.entries |->
        IF a.entries[i].origin \in Ended
        THEN DisposeOrigin(a, a.entries[i].origin).entries[i] ELSE a.entries[i]]]
\* A task that starts to wait saves how it goes on; a dispatched task takes it.
\* Nothing clears it when a waiting task is cancelled.
SaveResume(kind) ==
  resume' = [t \in TaskIds |->
    CASE tstate[t] = "Running" /\ tstate'[t] = "WaitTask"  -> kind
      [] tstate[t] = "Running" /\ tstate'[t] = "WaitScope" -> "Run"
      [] tstate[t] = "Ready" /\ tstate'[t] = "Running"     -> "None"
      [] OTHER -> resume[t]]
\* terminal and wake_scope_if_settled: TaskWakeup::Task and TaskWakeup::Scope.
SaveReferences ==
  reference' = [t \in TaskIds |->
    CASE Len(inbox'[t]) > Len(inbox[t]) ->
           Append(reference[t], [kind |-> IF tstate[t] = "WaitTask" THEN "Task" ELSE "Scope",
                                 id |-> target[t]])
      [] Len(inbox'[t]) < Len(inbox[t]) ->
           IF inbox'[t] = <<>> THEN <<>> ELSE Tail(reference[t])
      [] OTHER -> reference[t]]

\* child_in_scope: the task that runs, or the root machine, is the parent.
SaveParents(caller) ==
  parent' = [t \in TaskIds |-> IF Born(t) THEN caller ELSE parent[t]]

Bookkeeping(kind, caller) ==
  /\ SaveResume(kind) /\ SaveReferences /\ SaveParents(caller)
  /\ UNCHANGED <<refused, restarts>>

\* The handle of a task does not leave the scope that owns the task.
HandleInScope(t, u) == scopeOf[u] \in anc[scopeOf[t]]
----------------------------------------------------------------------------
(* Tokens.                                                                 *)

TokenRoom == arena.next < MaxTokens

\* dispatch_handler with a continuation binder, in the caller's turn.
BindContinuation(p) ==
  /\ IF p = NoTask THEN Caller(p) ELSE Acts(p)
  /\ TokenRoom
  /\ arena' = Allocate(arena, IF p = NoTask THEN Root ELSE scopeOf[p], p, Frames)
  /\ UNCHANGED <<vars, resume, reference, parent, handed, refused, restarts>>

HandOut(t, tok) == handed' = [handed EXCEPT ![tok] = Append(@, t)]

Owner(t) == IF t = NoTask THEN Root ELSE scopeOf[t]

Accepts(t, tok) == Refusal(arena, tok, Owner(t), t) = "Accepted"

\* resume in an arm.
ResumeToken(t, tok) ==
  /\ IF t = NoTask THEN Caller(t) ELSE Acts(t)
  /\ Accepts(t, tok)
  /\ arena' = Consume(arena, tok, "Resume")
  /\ HandOut(t, tok)
  /\ UNCHANGED <<vars, resume, reference, parent, refused, restarts>>

\* finish in an arm.
DisposeToken(t, tok) ==
  /\ IF t = NoTask THEN Caller(t) ELSE Acts(t)
  /\ Accepts(t, tok)
  /\ arena' = Dispose(arena, tok)
  /\ UNCHANGED <<vars, resume, reference, parent, handed, refused, restarts>>

\* std.task.scheduler.requeue.
RequeueToken(t, tok) ==
  /\ Accepts(t, tok)
  /\ requeue(t)
  /\ arena' = Consume(arena, tok, "Requeue")
  /\ HandOut(t, tok)
  /\ Bookkeeping("Await", t)

\* std.task.scheduler.park on a task without an outcome.  With an outcome the
\* continuation is resumed in the same turn.
ParkToken(t, tok, u) ==
  /\ Accepts(t, tok) /\ HandleInScope(t, u)
  /\ IF tstate[u] \in Terminal
     THEN Acts(t) /\ UNCHANGED vars ELSE await_task(t, u)
  /\ arena' = Consume(arena, tok, "Park")
  /\ HandOut(t, tok)
  /\ Bookkeeping("Transfer", t)

\* A token that is refused is a runtime fault of the task that used it.
RefusedToken(t, tok) ==
  /\ Acts(t) /\ ~ Accepts(t, tok)
  /\ settle(t, "Failed")
  /\ arena' = DisposeEnded(arena)
  /\ Bookkeeping("Await", t)
  /\ UNCHANGED handed
----------------------------------------------------------------------------
(* Capture and restore.                                                    *)

Known(t) == tstate[t] # "Unborn"

\* enter and drain have run: nothing executes, on the Host or on a worker.
AtBarrier ==
  /\ Idle /\ checkpoint_barrier
  /\ \A t \in TaskIds : tstate[t] \notin {"WaitHost", "WaitCpu"}

\* capture_task_checkpoint puts the frames of a task's tokens and the
\* continuation it waits with into the auxiliary table of its machine.
Auxiliary(t) ==
  \/ resume[t] # "None"
  \/ \E i \in DOMAIN arena.entries :
       arena.entries[i].origin = t /\ arena.entries[i].frames # NoFrames

\* TaskSchedulerMetadataSnapshot::validate, called by capture and by restore.
ValidMetadata ==
  /\ ValidArena(arena)
  /\ \A s \in 0..(next_scope - 1) :
       /\ \A a \in anc[s] : a <= s
       /\ {owner[s], primary[s], winner[s]} \subseteq Members(s, tstate) \cup {NoTask}
       /\ active[s] = Cardinality({t \in TaskIds : slot[t] /\ s \in anc[scopeOf[t]]})
       /\ \A i \in DOMAIN swaiters[s] : Known(swaiters[s][i])
  /\ \A t \in TaskIds : Known(t) => t < next_task /\ scopeOf[t] < next_scope
  /\ \A i \in DOMAIN ready : Known(ready[i])
  /\ \A i \in DOMAIN waiting : Known(waiting[i])
  /\ \A t \in holders : tstate[t] \notin Terminal
  /\ \A i \in DOMAIN arena.entries :
       /\ arena.entries[i].owner < next_scope
       /\ arena.entries[i].origin # NoTask => Known(arena.entries[i].origin)

\* The outcome a wakeup is restored to: its task's, or its scope's.
RestoredOutcome(ref) ==
  IF ref.kind = "Task" THEN tstate[ref.id]
  ELSE scope_outcome(ref.id, tstate, winner[ref.id], primary[ref.id])

\* Mutant: a scope's wakeup is restored to what its owner came to.
RestoredInbox_Owner ==
  [t \in TaskIds |-> [i \in DOMAIN reference[t] |->
     LET ref == reference[t][i] IN
     IF ref.kind = "Task" THEN tstate[ref.id]
     ELSE IF owner[ref.id] = NoTask THEN "Completed" ELSE tstate[owner[ref.id]]]]

RestoredInbox ==
  [t \in TaskIds |-> [i \in DOMAIN reference[t] |-> RestoredOutcome(reference[t][i])]]

\* Every saved cause stops the scope it came from, and so what that scope
\* started: the task itself and the tasks below it.
StoppedAbove[t \in TaskIds] == stop[t] \/ (parent[t] # NoTask /\ StoppedAbove[parent[t]])

\* Mutant: only a task that is still queued is told to stop again.
RestoredStop_ReadyOnly == [t \in TaskIds |-> stop[t] /\ tstate[t] = "Ready"]

RestoredStop == [t \in TaskIds |-> StoppedAbove[t]]

\* Why the snapshot cannot be written or read back, in the order of the checks.
SnapshotRefusal ==
  IF \E t \in TaskIds : tstate[t] \in Terminal /\ Auxiliary(t)
    THEN "terminal task still owns an executable continuation"
  ELSE IF ~ValidMetadata THEN "inconsistent scheduler"
  ELSE IF \E t \in TaskIds : Known(t) /\ parent[t] >= t
    THEN "checkpoint task parent is missing"
  ELSE IF \E t \in TaskIds : tstate[t] = "Cancelled" /\ ~RestoredStop[t]
    THEN "cancelled checkpoint task has no restored cancellation cause"
  ELSE IF \E t \in TaskIds : \E i \in DOMAIN RestoredInbox[t] : RestoredInbox[t][i] \notin Terminal
    THEN "checkpoint wakeup refers to an unfinished task"
  ELSE ""

\* restore_metadata and restore_task_checkpoint, after a checkpoint at the barrier.
Restart ==
  /\ AtBarrier /\ restarts < MaxRestarts /\ refused = ""
  /\ refused' = SnapshotRefusal
  /\ restarts' = restarts + 1
  /\ checkpoint_barrier' = FALSE
  /\ IF SnapshotRefusal = ""
     THEN inbox' = RestoredInbox /\ stop' = RestoredStop
     ELSE UNCHANGED <<inbox, stop>>
  /\ UNCHANGED <<tstate, target, slot, waiters, active, winner, primary, swaiters, ready,
                 waiting, holders, cancelling, taskShape, scopeShape, arena, resume,
                 reference, parent, handed>>
----------------------------------------------------------------------------
\* A cancelled outcome of a task's own is the answer to a stop request.
OwnCancellation(t, out) ==
  out = "Cancelled" => stop[t] \/ (inbox[t] # <<>> /\ Head(inbox[t]) = "Cancelled")

TaskTurn(t) ==
  \/ \E pol \in GroupPolicies, lim \in Limits, ser \in SerialScopes, jobs \in JobLists :
       StartGroup(t, pol, lim, ser, jobs, {})
  \/ \E job \in KeySets, i \in SourceIndexes : Start(t, job, {}, i)
  \/ requeue(t)
  \/ \E u \in TaskIds : HandleInScope(t, u) /\ await_task(t, u)
  \/ wait_for_host(t)
  \/ wait_for_cpu(t)
  \/ \E out \in Terminal : OwnCancellation(t, out) /\ Finish(t, out)

Coordination ==
  \/ \E n \in DOMAIN ready : Dispatch(n)
  \/ DispatchNone
  \/ \E t \in TaskIds : wake_from_host(t)
  \/ \E t \in TaskIds, out \in Terminal : OwnCancellation(t, out) /\ CpuFinish(t, out)
  \/ \E t \in TaskIds : stop[t] /\ NativeCancelled(t)
  \/ CancelNext
  \/ begin_checkpoint_barrier
  \/ end_checkpoint_barrier

RestoreInit ==
  /\ Init
  /\ arena = NewArena
  /\ resume = [t \in TaskIds |-> "None"]
  /\ reference = [t \in TaskIds |-> <<>>]
  /\ parent = [t \in TaskIds |-> NoTask]
  /\ handed = [i \in 0..(MaxTokens - 1) |-> <<>>]
  /\ refused = "" /\ restarts = 0

SchedulerStep ==
  /\ refused = ""
  /\ \/ \E t \in TaskIds : TaskTurn(t) /\ Bookkeeping("Await", t)
     \/ /\ \E pol \in GroupPolicies, lim \in Limits, ser \in SerialScopes, jobs \in JobLists :
             StartGroup(NoTask, pol, lim, ser, jobs, {})
        /\ Bookkeeping("Await", NoTask)
     \/ Coordination /\ Bookkeeping("Await", NoTask)
  /\ arena' = DisposeEnded(arena)
  /\ UNCHANGED handed

TokenStep ==
  /\ refused = ""
  /\ \E t \in TaskIds \cup {NoTask} :
       \/ BindContinuation(t)
       \/ \E tok \in DOMAIN arena.entries : ResumeToken(t, tok) \/ DisposeToken(t, tok)
  
TransferStep ==
  /\ refused = ""
  /\ \E t \in TaskIds, tok \in DOMAIN arena.entries :
       \/ RequeueToken(t, tok)
       \/ RefusedToken(t, tok)
       \/ \E u \in TaskIds : ParkToken(t, tok, u)

RestoreNext == SchedulerStep \/ TokenStep \/ TransferStep \/ Restart

RestoreSpec == RestoreInit /\ [][RestoreNext]_allVars
----------------------------------------------------------------------------
(* Properties.                                                             *)

\* Type invariant of what the snapshot adds to the scheduler.
RestoreTypeOK ==
  /\ resume \in [TaskIds -> Resumes]
  /\ parent \in [TaskIds -> TaskIds \cup {NoTask}]
  /\ \A t \in TaskIds : Len(reference[t]) = Len(inbox[t])
  /\ arena.next \in 0..MaxTokens /\ DOMAIN arena.entries = 0..(arena.next - 1)
  /\ restarts \in 0..MaxRestarts

\* A continuation is used once, by the task whose arm bound it: neither another
\* task that got hold of the token, nor a second use, nor a restart hands its
\* frames out again (consume, and its checks of owner, origin and state).
OneShot ==
  \A tok \in DOMAIN arena.entries :
    /\ Len(handed[tok]) <= 1
    /\ handed[tok] # <<>> =>
         /\ handed[tok][1] = arena.entries[tok].origin
         /\ arena.entries[tok].state # "ArmOwned"

\* A token that can still be used belongs to a task that is still there to use
\* it: no way to end a task (completion, failure, a cancellation, a CPU job's
\* completion) leaves an executable continuation of it in the arena.
LiveTokens ==
  \A i \in DOMAIN arena.entries :
    arena.entries[i].state = "ArmOwned" =>
      arena.entries[i].origin = NoTask \/ Alive(arena.entries[i].origin)
\* A restart changes nothing a task can see: every wakeup that was delivered and
\* not yet taken is recomputed to the outcome that was delivered, and the tasks
\* that are told to stop are those that had been.
RestartIsExact ==
  [][restarts' # restarts =>
       /\ inbox' = inbox
       /\ \A t \in TaskIds : Alive(t) => stop'[t] = stop[t]]_allVars

\* Apart from the continuation a cancelled waiter keeps, every snapshot taken at
\* the barrier is accepted, by capture and by restore.
SnapshotsAreAccepted ==
  refused \in {"", "terminal task still owns an executable continuation"}

\* A checkpoint at the barrier can be written.
CheckpointWritten == refused = ""
=============================================================================
