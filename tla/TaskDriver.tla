------------------------------ MODULE TaskDriver ------------------------------
(***************************************************************************)
(* The coordinator that drives the scheduler (driver/task.rs, drive.rs,    *)
(* checkpoint.rs): the root machine, the reactor that owns Host requests,  *)
(* the records of CPU jobs, and the checkpoint barrier.                    *)
(*                                                                         *)
(* Host services and CPU workers answer in any order and at any time; that *)
(* is the choice of the next HostCompletion or CpuCompletion.  A machine   *)
(* reaches finitely many boundaries because every run has a step budget;   *)
(* MaxTurns and MaxRootTurns bound them.                                   *)
(***************************************************************************)
EXTENDS TaskScheduler

CONSTANTS
  RootPolicies,  \* policies of the groups the root machine may start
  TaskPolicies,  \* policies of the groups a task may start
  NativeWork,    \* whether a cooperative yield may be in the middle of native work
  CpuCapacity,   \* capacity of the CPU executor; 1 is the inline executor
  MaxTurns,      \* bound: boundaries a task reaches before it finishes
  MaxRootTurns   \* bound: boundaries the root machine reaches before it finishes

ASSUME DriverConstants ==
  /\ RootPolicies \subseteq GroupPolicies /\ TaskPolicies \subseteq GroupPolicies
  /\ NativeWork \subseteq BOOLEAN
  /\ CpuCapacity \in Nat \ {0} /\ MaxTurns \in Nat /\ MaxRootTurns \in Nat

VARIABLES
  root,        \* Body, WaitScope, WaitHost, Settling or Done
  rootScope,   \* the scope a WaitScope root waits for
  rootOutcome, \* how the body ended, Pending before
  rootTurns,
  turns,       \* per task
  knows,       \* per task, the task handles its program can reach
  completed,   \* tasks with a Host answer in the reactor that is not committed
  cpu_jobs,    \* tasks with a job record
  native,      \* tasks whose machine holds unfinished native work
  pending,     \* what the coordinator does next without driving: nothing, raise
               \* the barrier for a task, or end the run after a failed checkpoint
  panicked     \* the assertion of the coordinator that has failed

driverVars == <<root, rootScope, rootOutcome, rootTurns, turns, knows, completed,
                cpu_jobs, native, pending, panicked>>
coordinatorVars == <<vars, driverVars>>

DriverTypeOK ==
  /\ root \in {"Body", "WaitScope", "WaitHost", "Settling", "Done"}
  /\ rootScope \in ScopeIds /\ rootOutcome \in Terminal \cup {"Pending"}
  /\ rootTurns \in 0..MaxRootTurns
  /\ turns \in [TaskIds -> 0..MaxTurns]
  /\ knows \in [TaskIds -> SUBSET TaskIds]
  /\ completed \in SUBSET TaskIds /\ cpu_jobs \in SUBSET TaskIds /\ native \in SUBSET TaskIds
  /\ pending \in {"none", "enter", "abort"}
  /\ panicked \in {"no", "two answers", "commit to a settled task", "native work of a settled task"}

DriverInit ==
  /\ Init
  /\ root = "Body" /\ rootScope = Root /\ rootOutcome = "Pending" /\ rootTurns = 0
  /\ turns = [t \in TaskIds |-> 0]
  /\ knows = [t \in TaskIds |-> {}]
  /\ completed = {} /\ cpu_jobs = {} /\ native = {}
  /\ pending = "none" /\ panicked = "no"

-----------------------------------------------------------------------------
(***************************************************************************)
(* When the coordinator does what                                          *)
(***************************************************************************)
Sound == panicked = "no"
Free == Idle /\ Sound /\ pending = "none" /\ ~checkpoint_barrier

AllUnsettled == Unsettled(Root, tstate)

RootScopeOutcome == scope_outcome(rootScope, tstate, winner[rootScope], primary[rootScope])

\* primary_failure of the whole scheduler
primary_failure == \E t \in TaskIds : tstate[t] = "Failed"

\* The root loops call drive_one only while what they wait for is open: the
\* conditions of await_scope_outcome, await_root_host, settle_tasks and
\* cancel_and_drain.
Driving ==
  /\ Free
  /\ \/ root = "WaitScope" /\ RootScopeOutcome = "Pending"
     \/ root = "WaitHost" /\ ~primary_failure
     \/ /\ root = "Settling" /\ (AllUnsettled # {} \/ cpu_jobs # {})
        /\ rootOutcome = "Completed" => ~primary_failure

Draining == Idle /\ Sound /\ checkpoint_barrier

-----------------------------------------------------------------------------
(***************************************************************************)
(* The root machine                                                        *)
(***************************************************************************)
RootBody == Free /\ root = "Body" /\ rootTurns < MaxRootTurns /\ rootTurns' = rootTurns + 1

RootStart(pol, lim, ser, jobs, u) ==
  /\ RootBody
  /\ StartGroup(NoTask, pol, lim, ser, jobs, u)
  /\ root' = "WaitScope" /\ rootScope' = next_scope
  /\ UNCHANGED <<rootOutcome, turns, knows, completed, cpu_jobs, native, pending, panicked>>

RootHost ==
  /\ RootBody
  /\ root' = "WaitHost"
  /\ UNCHANGED <<vars, rootScope, rootOutcome, turns, knows, completed, cpu_jobs, native, pending, panicked>>

RootCheckpoint ==
  /\ RootBody
  /\ begin_checkpoint_barrier
  /\ UNCHANGED <<root, rootScope, rootOutcome, turns, knows, completed, cpu_jobs, native, pending, panicked>>

\* The body ends; a root that does not complete first cancels every task
\* (settle, settle_tasks and cancel_and_drain).
RootEnds(out) ==
  /\ root' = "Settling" /\ rootOutcome' = out
  /\ IF out = "Completed" \/ AllUnsettled = {} THEN UNCHANGED vars ELSE cancel_unsettled
  /\ UNCHANGED <<rootScope, rootTurns, turns, knows, completed, cpu_jobs, native, panicked>>

RootFinish(out) ==
  /\ Free /\ root = "Body"
  /\ out \in {"Completed", "Failed", "Cancelled"}
  /\ RootEnds(out)
  /\ UNCHANGED pending

\* await_scope_outcome returns: a value or a typed error goes to the body, a
\* failure or a cancellation ends it.
RootResume ==
  /\ Free /\ root = "WaitScope" /\ RootScopeOutcome # "Pending"
  /\ IF RootScopeOutcome \in {"Completed", "Raised"}
       THEN /\ root' = "Body"
            /\ UNCHANGED <<vars, rootScope, rootOutcome, rootTurns, turns, knows, completed,
                           cpu_jobs, native, pending, panicked>>
       ELSE RootEnds(RootScopeOutcome) /\ UNCHANGED pending

\* await_root_host: the root's own Host answer, or a failed task.  The failed
\* case cancels the tasks at once; settle does it again, which changes nothing.
RootHostAnswer ==
  /\ Free /\ root = "WaitHost"
  /\ \/ /\ root' = "Body"
        /\ UNCHANGED <<vars, rootScope, rootOutcome, rootTurns, turns, knows, completed,
                       cpu_jobs, native, pending, panicked>>
     \/ primary_failure /\ RootEnds("Failed") /\ UNCHANGED pending

\* settle_tasks sees a task that failed while it waits for the rest.
SettleFailure ==
  /\ Free /\ root = "Settling" /\ rootOutcome = "Completed" /\ primary_failure
  /\ AllUnsettled # {} \/ cpu_jobs # {}
  /\ RootEnds("Failed")
  /\ UNCHANGED pending

\* Mutant: the body's end is the run's end.
root_done_at_once ==
  /\ Free /\ root = "Settling"
  /\ root' = "Done"
  /\ rootOutcome' = IF rootOutcome = "Completed" /\ primary_failure THEN "Failed" ELSE rootOutcome
  /\ UNCHANGED <<vars, rootScope, rootTurns, turns, knows, completed, cpu_jobs, native, pending, panicked>>

\* Mutant: failures of the last tasks are not looked for.
root_done_blindly ==
  /\ Free /\ root = "Settling" /\ AllUnsettled = {} /\ cpu_jobs = {}
  /\ root' = "Done"
  /\ UNCHANGED <<vars, rootScope, rootOutcome, rootTurns, turns, knows, completed, cpu_jobs, native,
                 pending, panicked>>

RootDone ==
  /\ Free /\ root = "Settling" /\ AllUnsettled = {} /\ cpu_jobs = {}
  /\ root' = "Done"
  /\ rootOutcome' = IF rootOutcome = "Completed" /\ primary_failure THEN "Failed" ELSE rootOutcome
  /\ UNCHANGED <<vars, rootScope, rootTurns, turns, knows, completed, cpu_jobs, native, pending, panicked>>

-----------------------------------------------------------------------------
(***************************************************************************)
(* drive_one                                                               *)
(***************************************************************************)
rootVars == <<root, rootScope, rootOutcome, rootTurns>>

\* Mutant: the answer stays in the reactor.
dispatch_keeps_answer(n) ==
  /\ Driving
  /\ Dispatch(n)
  /\ UNCHANGED driverVars

\* The dispatched task commits its Host answer, or takes up its native work,
\* before it runs on.
DriveDispatch(n) ==
  /\ Driving
  /\ Dispatch(n)
  /\ completed' = completed \ {ready[n]} /\ native' = native \ {ready[n]}
  /\ UNCHANGED <<rootVars, turns, knows, cpu_jobs, pending, panicked>>

DriveNothing ==
  /\ Driving
  /\ DispatchNone
  /\ UNCHANGED driverVars

\* Mutant: the barrier does not poll the reactor.
host_unpolled(t) ==
  /\ Driving
  /\ wake_from_host(t)
  /\ completed' = completed \cup {t}
  /\ UNCHANGED <<rootVars, turns, knows, cpu_jobs, native, pending, panicked>>

\* poll_one, which asserts that the "task cannot own two completed host
\* operations", and wake_from_host.
HostCompletion(t) ==
  /\ Driving \/ Draining
  /\ wake_from_host(t)
  /\ completed' = completed \cup {t}
  /\ panicked' = IF t \in completed THEN "two answers" ELSE panicked
  /\ UNCHANGED <<rootVars, turns, knows, cpu_jobs, native, pending>>

\* A completion of a job whose task has been cancelled meanwhile is dropped.
CpuCompletion(t, out) ==
  /\ Driving \/ Draining
  /\ t \in cpu_jobs
  /\ cpu_jobs' = cpu_jobs \ {t}
  /\ IF tstate[t] \in Terminal THEN out = "Cancelled" /\ UNCHANGED vars ELSE CpuFinish(t, out)
  /\ UNCHANGED <<rootVars, turns, knows, completed, native, pending, panicked>>

DriveCancel ==
  /\ Sound
  /\ CancelNext
  /\ UNCHANGED driverVars

\* A boundary that the running task reaches in its turn.
Boundary(t) ==
  /\ Sound
  /\ turns[t] < MaxTurns
  /\ turns' = [turns EXCEPT ![t] = @ + 1]
  /\ UNCHANGED <<rootVars, completed, panicked>>

\* A job's closure captures the handles its creator can reach; a task does not
\* have its own handle or that of its creator.
DriveStartGroup(t, pol, lim, ser, jobs, u) ==
  /\ Boundary(t)
  /\ StartGroup(t, pol, lim, ser, jobs, u)
  /\ knows' = [x \in TaskIds |-> IF Born(x) THEN knows[t] ELSE knows[x]]
  /\ UNCHANGED <<cpu_jobs, native, pending>>

DriveStart(t, job, u, i) ==
  /\ Boundary(t)
  /\ policy[scopeOf[t]] = "Run"
  /\ Start(t, job, u, i)
  /\ knows' = [x \in TaskIds |-> IF Born(x) THEN knows[t]
                                 ELSE IF x = t THEN knows[x] \cup {next_task} ELSE knows[x]]
  /\ UNCHANGED <<cpu_jobs, native, pending>>

DriveAwait(t, u) ==
  /\ Boundary(t)
  /\ u \in knows[t]
  /\ await_task(t, u)
  /\ UNCHANGED <<knows, cpu_jobs, native, pending>>

\* A cooperative yield, at a safe point or in the middle of native work.
DriveYield(t, inNative) ==
  /\ Boundary(t)
  /\ requeue(t)
  /\ native' = IF inNative THEN native \cup {t} ELSE native
  /\ UNCHANGED <<knows, cpu_jobs, pending>>

DriveHost(t) ==
  /\ Boundary(t)
  /\ wait_for_host(t)
  /\ UNCHANGED <<knows, cpu_jobs, native, pending>>

\* A task with a CPU capsule is submitted in its first turn when there is room.
DriveCpu(t) ==
  /\ Boundary(t)
  /\ CpuCapacity > 1 /\ turns[t] = 0 /\ Cardinality(cpu_jobs) < CpuCapacity
  /\ wait_for_cpu(t)
  /\ cpu_jobs' = cpu_jobs \cup {t}
  /\ UNCHANGED <<knows, native, pending>>

\* Mutant: a task that finds the executor full waits for a job it has not got.
cpu_full_waits(t) ==
  /\ Sound
  /\ CpuCapacity > 1 /\ turns[t] = 0 /\ Cardinality(cpu_jobs) >= CpuCapacity
  /\ wait_for_cpu(t)
  /\ UNCHANGED driverVars

\* A task with a capsule that finds the executor full keeps it for a later turn.
DriveCpuFull(t) ==
  /\ Sound
  /\ CpuCapacity > 1 /\ turns[t] = 0 /\ Cardinality(cpu_jobs) >= CpuCapacity
  /\ requeue(t)
  /\ UNCHANGED driverVars

\* A checkpoint boundary: the task is requeued and the barrier goes up before
\* anything else happens.
DriveCheckpoint(t) ==
  /\ Boundary(t)
  /\ requeue(t)
  /\ pending' = "enter"
  /\ UNCHANGED <<knows, cpu_jobs, native>>

DriveFinish(t, out) ==
  /\ Sound
  /\ Finish(t, out)
  /\ UNCHANGED driverVars

-----------------------------------------------------------------------------
(***************************************************************************)
(* The checkpoint barrier                                                  *)
(***************************************************************************)
Enter ==
  /\ Sound /\ pending = "enter"
  /\ begin_checkpoint_barrier
  /\ pending' = "none"
  /\ UNCHANGED <<rootVars, turns, knows, completed, cpu_jobs, native, panicked>>

\* An error of the barrier lowers it; the error ends the run.
CheckpointFails == end_checkpoint_barrier /\ pending' = "abort"

\* take_next_completed_task, take_checkpoint_task, commit_host_completion and
\* restore_checkpoint_task: the task must be Ready.
DrainCommit ==
  LET t == CHOOSE x \in completed : \A y \in completed : x <= y
  IN /\ Draining /\ completed # {}
     /\ completed' = completed \ {t}
     /\ IF tstate[t] = "Ready"
          THEN \/ UNCHANGED <<vars, pending, panicked>>
               \/ CheckpointFails /\ UNCHANGED panicked
          ELSE panicked' = "commit to a settled task" /\ UNCHANGED <<vars, pending>>
     /\ UNCHANGED <<rootVars, turns, knows, cpu_jobs, native>>

\* Mutant: jobs on the workers are not waited for.
drained_early ==
  /\ Draining /\ completed = {}
  /\ \A t \in TaskIds : tstate[t] # "WaitHost"

Drained ==
  /\ Draining /\ completed = {} /\ cpu_jobs = {}
  /\ \A t \in TaskIds : tstate[t] # "WaitHost"

\* drain_native, for one task of those whose machine holds native work, settled
\* ones included: take_checkpoint_task, the work runs to its end or is cancelled
\* from outside, restore_checkpoint_task.  A task cancelled here is listed no more,
\* since a run that has been stopped from outside reaches no other checkpoint.
DrainNative(t) ==
  /\ Drained
  /\ t \in native
  /\ native' = native \ {t}
  /\ IF tstate[t] = "Ready"
       THEN (UNCHANGED vars \/ NativeCancelled(t)) /\ UNCHANGED panicked
       ELSE panicked' = "native work of a settled task" /\ UNCHANGED vars
  /\ UNCHANGED <<rootVars, turns, knows, completed, cpu_jobs, pending>>

\* capture_task_checkpoint and record_checkpoint succeed or fail.
Capture ==
  /\ Drained /\ native = {}
  /\ \/ end_checkpoint_barrier /\ UNCHANGED pending
     \/ CheckpointFails
  /\ UNCHANGED <<rootVars, turns, knows, completed, cpu_jobs, native, panicked>>

Abort ==
  /\ Idle /\ Sound /\ pending = "abort"
  /\ pending' = "none"
  /\ \E out \in {"Failed", "Cancelled"} : RootEnds(out)

\* drive_one finds nothing to run and nothing to wait for, with the ready queue
\* already scanned: scheduler_deadlock.
Stuck ==
  /\ Driving /\ root # "WaitHost"
  /\ cpu_jobs = {}
  /\ \A t \in TaskIds : tstate[t] # "WaitHost"
  /\ \A i \in DOMAIN ready : Blocked(ready[i])

Deadlock ==
  /\ Stuck
  /\ UNCHANGED pending
  /\ IF root = "Settling"
       THEN /\ root' = "Done" /\ rootOutcome' = "Failed"
            /\ UNCHANGED <<vars, rootScope, rootTurns, turns, knows, completed, cpu_jobs, native, panicked>>
       ELSE RootEnds("Failed")

-----------------------------------------------------------------------------
DriverTaskStep(t) ==
  \/ \E pol \in TaskPolicies, lim \in Limits, ser \in SerialScopes, jobs \in JobLists :
       \E u \in UnresolvedJobs(Len(jobs)) : DriveStartGroup(t, pol, lim, ser, jobs, u)
  \/ \E job \in KeySets, u \in UnresolvedJobs(1), i \in SourceIndexes : DriveStart(t, job, u, i)
  \/ \E u \in TaskIds : DriveAwait(t, u)
  \/ \E inNative \in NativeWork : DriveYield(t, inNative)
  \/ DriveHost(t) \/ DriveCpu(t) \/ DriveCpuFull(t)
  \/ DriveCheckpoint(t)
  \/ \E out \in Terminal : DriveFinish(t, out)

RootStep ==
  \/ \E pol \in RootPolicies, lim \in Limits, ser \in SerialScopes, jobs \in JobLists :
       \E u \in UnresolvedJobs(Len(jobs)) : RootStart(pol, lim, ser, jobs, u)
  \/ RootHost \/ RootCheckpoint \/ RootResume \/ RootHostAnswer \/ SettleFailure \/ RootDone
  \/ \E out \in Terminal : RootFinish(out)

DriverNext ==
  \/ RootStep
  \/ \E n \in DOMAIN ready : DriveDispatch(n)
  \/ DriveNothing \/ DriveCancel
  \/ \E t \in TaskIds : HostCompletion(t)
  \/ \E t \in TaskIds, out \in Terminal : CpuCompletion(t, out)
  \/ \E t \in TaskIds : DriverTaskStep(t)
  \/ Enter \/ DrainCommit \/ (\E t \in TaskIds : DrainNative(t)) \/ Capture \/ Abort \/ Deadlock

DriverSpec == DriverInit /\ [][DriverNext]_coordinatorVars

\* The coordinator keeps driving, and Host services and workers answer.  It looks
\* for completions at the start of every drive_one and waits for one when the
\* executor is full, so a turn that only finds it full does not repeat for ever.
LiveDriverSpec ==
  /\ DriverSpec
  /\ WF_coordinatorVars(DriverNext)
  /\ SF_coordinatorVars(\E t \in TaskIds, out \in Terminal : CpuCompletion(t, out))

-----------------------------------------------------------------------------
(***************************************************************************)
(* Properties                                                              *)
(***************************************************************************)
\* A task owns at most one Host answer: poll_one's assertion never fails.
OneAnswerPerTask == panicked # "two answers"

\* The assertion of take_checkpoint_task, assert_eq!(task.state, TaskState::Ready),
\* for its first caller: every answer that the barrier commits belongs to a task
\* that is Ready.
CheckpointTaskIsReady == panicked # "commit to a settled task"

\* The same assertion for its second caller, drain_native: all native work that
\* the barrier finishes belongs to a task that is Ready.
NativeTaskIsReady == panicked # "native work of a settled task"

\* What TaskSchedulerSnapshot::validate demands when it is restored holds
\* whenever the barrier lets a capture happen: no task is running or outside the
\* coordinator, slots and counters agree, queues and permits name live tasks.
SnapshotIsValid ==
  Drained =>
    /\ \A t \in TaskIds : tstate[t] \notin {"Running", "WaitCpu", "WaitHost"}
    /\ \A s \in ScopeIds :
         active[s] = Cardinality({t \in TaskIds : slot[t] /\ s \in anc[scopeOf[t]]})
    /\ \A t \in holders : Alive(t)
    /\ \A i \in DOMAIN waiting : tstate[waiting[i]] = "WaitResource"
    /\ \A t \in TaskIds : inbox[t] # <<>> => tstate[t] = "Ready"

\* The coordinator runs out of work with tasks unsettled only when a task waits
\* for a permit: awaits and scope waits alone never close a cycle.
DeadlockNeedsPermit == Stuck => \E t \in TaskIds : tstate[t] = "WaitResource"

\* Nothing outlives the run: when the coordinator returns, every task has an
\* outcome and no job is left on the workers, whatever was orphaned by a race or
\* a cancellation on the way (settle_tasks and cancel_and_drain).
NothingOutlivesRun == root = "Done" => AllUnsettled = {} /\ cpu_jobs = {}

\* A failure is never swallowed: a run in which some task failed does not report
\* success, even when the task failed after the body had completed.
FailureSurfaces == root = "Done" /\ primary_failure => rootOutcome # "Completed"

\* Every run ends: no wakeup, permit or completion is lost on the way, whatever
\* fails or is cancelled.
RunTerminates == <>(root = "Done" \/ ~Sound)

=============================================================================
