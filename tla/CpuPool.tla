------------------------------- MODULE CpuPool -------------------------------
(***************************************************************************)
(* The worker threads behind CPU jobs (driver/cpu/worker_pool.rs) and the  *)
(* coordinator's use of them (driver/task.rs: submission, the drain of     *)
(* completions, the wait for the completion signal, settlement).           *)
(*                                                                         *)
(* Worker threads run truly in parallel with the coordinator, so every     *)
(* access of a shared object is a step: the two channels, the health table *)
(* and the tokio Notify.  Only the coordinator touches the tickets and the *)
(* job records; what it does between two such accesses is one step.        *)
(*                                                                         *)
(* The work channel delivers jobs in the order of their identities, which  *)
(* is the order of submission, and Stop messages after them: a set and a   *)
(* counter.  The coordinator sorts what it receives in one drain, so the   *)
(* order in the completion channel does not matter: a set.                 *)
(***************************************************************************)
EXTENDS Integers, FiniteSets

CONSTANTS
  Workers,    \* the threads of the pool; one job record per worker is the capacity
  MaxJobs,    \* bound: identities given out by submit
  MaxPanics   \* bound: workers that panic

ASSUME PoolConstants ==
  /\ IsFiniteSet(Workers) /\ Cardinality(Workers) \in Nat \ {0}
  /\ MaxJobs \in Nat /\ MaxPanics \in Nat

VARIABLES
  next_job,  \* identities given out
  work,      \* jobs in the work channel
  stops,     \* Stop messages in the work channel
  pc,        \* per worker, the last thing it did to a shared object
  job,       \* per worker, current: the job it executes
  panicked,  \* workers that have panicked
  chan,      \* completions in the channel, by job
  ready,     \* the Notify holds a permit
  pending,   \* jobs with a ticket
  cancelled, \* jobs whose cancellation flag is set
  cpu_jobs,  \* jobs with a record
  batch,     \* completions received in the drain under way
  twice,     \* those of them received two times
  at,        \* where the coordinator is
  mode,      \* what the run is doing
  failed     \* a drain met a completion without a record

coordinatorVars == <<cpu_jobs, batch, twice, at, mode, failed>>
workerVars == <<pc, job, panicked>>
vars == <<next_job, work, stops, workerVars, chan, ready, pending, cancelled, coordinatorVars>>

Jobs == 0..(MaxJobs - 1)
NoJob == -1
capacity == Cardinality(Workers)
First(S) == CHOOSE j \in S : \A k \in S : j =< k

PoolTypeOK ==
  /\ next_job \in 0..MaxJobs /\ stops \in 0..capacity
  /\ work \in SUBSET Jobs /\ chan \in SUBSET Jobs /\ pending \in SUBSET Jobs
  /\ cancelled \in SUBSET Jobs /\ cpu_jobs \in SUBSET Jobs
  /\ batch \in SUBSET Jobs /\ twice \in SUBSET Jobs
  /\ pc \in [Workers -> {"Idle", "Running", "Sent", "Exiting", "Exited", "Notified", "Gone"}]
  /\ job \in [Workers -> Jobs \cup {NoJob}] /\ panicked \in SUBSET Workers
  /\ at \in {"drive", "receive", "health", "commit", "turn", "wait", "joining", "gone"}
  /\ mode \in {"Body", "Settling", "Draining"}
  /\ ready \in BOOLEAN /\ failed \in BOOLEAN

PoolInit ==
  /\ next_job = 0 /\ work = {} /\ stops = 0
  /\ pc = [w \in Workers |-> "Idle"] /\ job = [w \in Workers |-> NoJob] /\ panicked = {}
  /\ chan = {} /\ ready = FALSE
  /\ pending = {} /\ cancelled = {} /\ cpu_jobs = {}
  /\ batch = {} /\ twice = {} /\ at = "drive" /\ mode = "Body" /\ failed = FALSE

-----------------------------------------------------------------------------
(* Workers. *)

\* The executor, and with it the sender of work and the receiver of
\* completions, has been destroyed.
Destroyed == at = "gone"

\* A mutant: a worker does not take a cancelled job.
take_uncancelled(w) ==
  /\ pc[w] = "Idle" /\ work # {} /\ First(work) \notin cancelled
  /\ work' = work \ {First(work)}
  /\ job' = [job EXCEPT ![w] = First(work)]
  /\ pc' = [pc EXCEPT ![w] = "Running"]
  /\ UNCHANGED <<next_job, stops, panicked, chan, ready, pending, cancelled, coordinatorVars>>

\* Cancellation is cooperative: a cancelled job is taken too, and ends early.
Take(w) ==
  /\ pc[w] = "Idle" /\ work # {}
  /\ work' = work \ {First(work)}
  /\ job' = [job EXCEPT ![w] = First(work)]
  /\ pc' = [pc EXCEPT ![w] = "Running"]
  /\ UNCHANGED <<next_job, stops, panicked, chan, ready, pending, cancelled, coordinatorVars>>
\* Stop comes after all jobs.  Once the executor is destroyed, recv fails on the
\* empty channel.
TakeStop(w) ==
  /\ pc[w] = "Idle" /\ work = {} /\ (stops > 0 \/ Destroyed)
  /\ stops' = IF stops > 0 THEN stops - 1 ELSE stops
  /\ pc' = [pc EXCEPT ![w] = "Exiting"]
  /\ UNCHANGED <<next_job, work, job, panicked, chan, ready, pending, cancelled, coordinatorVars>>

\* The capsule returns and its completion is sent; without a receiver the
\* worker leaves.
Execute(w) ==
  /\ pc[w] = "Running"
  /\ IF Destroyed
     THEN chan' = chan /\ pc' = [pc EXCEPT ![w] = "Exiting"]
     ELSE chan' = chan \cup {job[w]} /\ pc' = [pc EXCEPT ![w] = "Sent"]
  /\ job' = [job EXCEPT ![w] = NoJob]
  /\ UNCHANGED <<next_job, work, stops, panicked, ready, pending, cancelled, coordinatorVars>>

\* The capsule panics; the worker reports the job as failed and leaves.
Panic(w) ==
  /\ pc[w] = "Running" /\ Cardinality(panicked) < MaxPanics
  /\ panicked' = panicked \cup {w}
  /\ chan' = IF Destroyed THEN chan ELSE chan \cup {job[w]}
  /\ pc' = [pc EXCEPT ![w] = "Exiting"]
  /\ job' = [job EXCEPT ![w] = NoJob]
  /\ UNCHANGED <<next_job, work, stops, ready, pending, cancelled, coordinatorVars>>

\* A mutant: a worker that leaves does not notify.
notify_completions_only(w) ==
  /\ pc[w] \in {"Sent", "Exited"}
  /\ ready' = (ready \/ pc[w] = "Sent")
  /\ pc' = [pc EXCEPT ![w] = IF pc[w] = "Sent" THEN "Idle" ELSE "Notified"]
  /\ UNCHANGED <<next_job, work, stops, job, panicked, chan, pending, cancelled, coordinatorVars>>

\* The three other steps of a worker's loop: after the completion it
\* notifies; when it leaves it records its exit and then notifies.
Notify(w) ==
  /\ pc[w] \in {"Sent", "Exited"}
  /\ ready' = TRUE
  /\ pc' = [pc EXCEPT ![w] = IF pc[w] = "Sent" THEN "Idle" ELSE "Notified"]
  /\ UNCHANGED <<next_job, work, stops, job, panicked, chan, pending, cancelled, coordinatorVars>>

RecordExit(w) ==
  /\ pc[w] = "Exiting"
  /\ pc' = [pc EXCEPT ![w] = "Exited"]
  /\ UNCHANGED <<next_job, work, stops, job, panicked, chan, ready, pending, cancelled,
                 coordinatorVars>>

\* The closure of the thread is dropped, and with the last one the receiver of work.
Vanish(w) ==
  /\ pc[w] = "Notified"
  /\ pc' = [pc EXCEPT ![w] = "Gone"]
  /\ UNCHANGED <<next_job, work, stops, job, panicked, chan, ready, pending, cancelled,
                 coordinatorVars>>

-----------------------------------------------------------------------------
(* The coordinator. *)
AllExited == \A w \in Workers : pc[w] \in {"Exited", "Notified", "Gone"}

Report(j) ==
  /\ batch' = batch \cup {j}
  /\ twice' = IF j \in batch THEN twice \cup {j} ELSE twice
  /\ pending' = pending \ {j}
  /\ UNCHANGED <<next_job, work, stops, workerVars, ready, cancelled, cpu_jobs, mode, failed>>

StartDrain ==
  /\ at = "drive"
  /\ at' = "receive"
  /\ UNCHANGED <<next_job, work, stops, workerVars, chan, ready, pending, cancelled,
                 cpu_jobs, batch, twice, mode, failed>>

\* try_completion, first half: the completion channel.
Receive ==
  /\ at = "receive"
  /\ \E j \in chan : chan' = chan \ {j} /\ at' = "receive" /\ Report(j)

ReceiveNothing ==
  /\ at = "receive" /\ chan = {}
  /\ at' = "health"
  /\ UNCHANGED <<next_job, work, stops, workerVars, chan, ready, pending, cancelled,
                 cpu_jobs, batch, twice, mode, failed>>

\* try_completion, second half: when every worker has exited, the tickets that
\* are left are reported as failed, one per call.
ReportExited ==
  /\ at = "health" /\ AllExited /\ pending # {}
  /\ at' = "receive" /\ chan' = chan
  /\ Report(First(pending))

EndDrain ==
  /\ at = "health" /\ ~(AllExited /\ pending # {})
  /\ at' = IF batch = {} THEN "turn" ELSE "commit"
  /\ UNCHANGED <<next_job, work, stops, workerVars, chan, ready, pending, cancelled,
                 cpu_jobs, batch, twice, mode, failed>>

\* Completions that have no record when the sorted batch is committed.
Unknown == twice \cup (batch \ cpu_jobs)

\* The batch settles its jobs; a task that fails cancels others.  A drive then
\* returns, a checkpoint barrier waits for the jobs that are left.
Commit ==
  /\ at = "commit" /\ Unknown = {}
  /\ cpu_jobs' = cpu_jobs \ batch
  /\ batch' = {} /\ twice' = {}
  /\ \E c \in SUBSET cpu_jobs' : cancelled' = cancelled \cup c
  /\ at' \in IF cpu_jobs' = {} THEN {"drive"} ELSE {"drive", "wait"}
  /\ UNCHANGED <<next_job, work, stops, workerVars, chan, ready, pending, mode, failed>>
\* A mutant: one Stop message for all threads.
drop_one_stop ==
  /\ at' = "joining"
  /\ cancelled' = cancelled \cup pending
  /\ stops' = 1

DropExecutor ==
  /\ at' = "joining"
  /\ cancelled' = cancelled \cup pending
  /\ stops' = capacity

\* The first unknown job ends the drain with a fault and the rest of the batch
\* is dropped.  The body fails and is settled; a settlement ends.
CommitUnknown ==
  /\ at = "commit" /\ Unknown # {}
  /\ cpu_jobs' = {j \in cpu_jobs : j \notin batch \/ j > First(Unknown)}
  /\ batch' = {} /\ twice' = {} /\ failed' = TRUE /\ mode' = "Draining"
  /\ IF mode = "Body"
     THEN at' = "drive" /\ cancelled' = cancelled \cup cpu_jobs' /\ stops' = stops
     ELSE DropExecutor
  /\ UNCHANGED <<next_job, work, workerVars, chan, ready, pending>>

\* A mutant: no ticket is kept for the job.
submit_unticketed ==
  /\ at = "turn" /\ mode # "Draining" /\ next_job < MaxJobs
  /\ Cardinality(cpu_jobs) < capacity
  /\ \E w \in Workers : pc[w] # "Gone"
  /\ next_job' = next_job + 1
  /\ work' = work \cup {next_job}
  /\ cpu_jobs' = cpu_jobs \cup {next_job}
  /\ at' = "drive"
  /\ UNCHANGED <<stops, workerVars, chan, ready, pending, cancelled, batch, twice, mode, failed>>

\* A task with a capsule is dispatched and the executor has room for its job.
Submit ==
  /\ at = "turn" /\ mode # "Draining" /\ next_job < MaxJobs
  /\ Cardinality(cpu_jobs) < capacity
  /\ \E w \in Workers : pc[w] # "Gone"
  /\ next_job' = next_job + 1
  /\ work' = work \cup {next_job} /\ pending' = pending \cup {next_job}
  /\ cpu_jobs' = cpu_jobs \cup {next_job}
  /\ at' = "drive"
  /\ UNCHANGED <<stops, workerVars, chan, ready, cancelled, batch, twice, mode, failed>>

\* The work channel has no receiver: the task stays on the coordinator.
SubmitStopped ==
  /\ at = "turn" /\ mode # "Draining" /\ next_job < MaxJobs
  /\ Cardinality(cpu_jobs) < capacity
  /\ \A w \in Workers : pc[w] = "Gone"
  /\ next_job' = next_job + 1
  /\ at' = "drive"
  /\ UNCHANGED <<work, stops, workerVars, chan, ready, pending, cancelled,
                 cpu_jobs, batch, twice, mode, failed>>

\* Any other turn; it may cancel tasks that have jobs.
Turn ==
  /\ at = "turn"
  /\ \E c \in SUBSET cpu_jobs : cancelled' = cancelled \cup c
  /\ at' = "drive"
  /\ UNCHANGED <<next_job, work, stops, workerVars, chan, ready, pending,
                 cpu_jobs, batch, twice, mode, failed>>

\* Nothing is ready, or the executor is full.
Wait ==
  /\ at = "turn" /\ cpu_jobs # {}
  /\ at' = "wait"
  /\ UNCHANGED <<next_job, work, stops, workerVars, chan, ready, pending, cancelled,
                 cpu_jobs, batch, twice, mode, failed>>

Wake ==
  /\ at = "wait" /\ ready
  /\ ready' = FALSE /\ at' = "drive"
  /\ UNCHANGED <<next_job, work, stops, workerVars, chan, pending, cancelled,
                 cpu_jobs, batch, twice, mode, failed>>

\* The other branch of the select: a Host answer, when one is awaited.
HostAnswers ==
  /\ at = "wait"
  /\ at' = "drive"
  /\ UNCHANGED <<next_job, work, stops, workerVars, chan, ready, pending, cancelled,
                 cpu_jobs, batch, twice, mode, failed>>

\* The body has completed; its tasks are driven to their end.
Settle ==
  /\ at = "drive" /\ mode = "Body"
  /\ mode' = "Settling"
  /\ UNCHANGED <<next_job, work, stops, workerVars, chan, ready, pending, cancelled,
                 cpu_jobs, batch, twice, at, failed>>
\* The body or one of its tasks has failed: every task that is left is cancelled.
CancelAndDrain ==
  /\ at = "drive" /\ mode # "Draining"
  /\ mode' = "Draining"
  /\ cancelled' = cancelled \cup cpu_jobs
  /\ UNCHANGED <<next_job, work, stops, workerVars, chan, ready, pending,
                 cpu_jobs, batch, twice, at, failed>>

Finish ==
  /\ at = "drive" /\ mode # "Body" /\ cpu_jobs = {}
  /\ DropExecutor
  /\ UNCHANGED <<next_job, work, workerVars, chan, ready, pending,
                 cpu_jobs, batch, twice, mode, failed>>

\* The embedder drops the future of the run.
Abandon ==
  /\ at \in {"drive", "wait"}
  /\ DropExecutor
  /\ UNCHANGED <<next_job, work, workerVars, chan, ready, pending,
                 cpu_jobs, batch, twice, mode, failed>>

\* Drop waits until its threads have finished, or gives up after two seconds; then
\* both channels are closed.
Joined ==
  /\ at = "joining" /\ \A w \in Workers : pc[w] = "Gone"
  /\ at' = "gone"
  /\ UNCHANGED <<next_job, work, stops, workerVars, chan, ready, pending, cancelled,
                 cpu_jobs, batch, twice, mode, failed>>

Deadline ==
  /\ at = "joining" /\ \E w \in Workers : pc[w] # "Gone"
  /\ at' = "gone"
  /\ UNCHANGED <<next_job, work, stops, workerVars, chan, ready, pending, cancelled,
                 cpu_jobs, batch, twice, mode, failed>>

-----------------------------------------------------------------------------
Worker(w) ==
  \/ Take(w) \/ TakeStop(w) \/ Execute(w) \/ Panic(w)
  \/ Notify(w) \/ RecordExit(w) \/ Vanish(w)

Coordinator ==
  \/ StartDrain \/ Receive \/ ReceiveNothing \/ ReportExited \/ EndDrain
  \/ Commit \/ CommitUnknown \/ Submit \/ SubmitStopped \/ Turn \/ Wait \/ Wake
  \/ Settle \/ CancelAndDrain \/ Finish \/ Joined

PoolNext == (\E w \in Workers : Worker(w)) \/ Coordinator \/ HostAnswers \/ Abandon \/ Deadline

PoolSpec == PoolInit /\ [][PoolNext]_vars

\* A thread that can run does (jobs end, they have a step budget), and so does
\* the coordinator.  Neither a Host answer nor the deadline may be counted on.
LivePoolSpec == PoolSpec /\ WF_vars(Coordinator) /\ \A w \in Workers : WF_vars(Worker(w))

-----------------------------------------------------------------------------
(* Properties. *)

\* A job that a worker executes has its ticket and its record, waits in neither
\* channel and in no batch, and no other worker executes it: until the worker
\* answers, the coordinator can cancel the job and never takes it for settled
\* (try_completion's pop_first, drain_cpu_completions).
RunningIsTracked ==
  \A w \in Workers : pc[w] = "Running" =>
    /\ job[w] \in pending \cap cpu_jobs
    /\ job[w] \notin work \cup chan \cup batch
    /\ \A v \in Workers \ {w} : pc[v] = "Running" => job[v] # job[w]

\* When the coordinator waits and the Notify holds no permit, a worker is still
\* to notify for every completion it could receive and for the exit of the pool
\* (the order of send, health and notify_one in the worker loop).
NoLostSignal ==
  at = "wait" /\ ~ready =>
    /\ chan # {} => \E w \in Workers : pc[w] \in {"Sent", "Exiting", "Exited"}
    /\ AllExited /\ pending # {} => \E w \in Workers : pc[w] = "Exited"

\* Until a drain fails or the executor is destroyed, every job record can still be settled: its
\* completion has been received or sent, or it has a ticket and is queued or
\* executed (submit, try_completion, a panic while other jobs are queued).
NoJobForgotten ==
  ~failed /\ ~Destroyed => \A j \in cpu_jobs :
    \/ j \in batch \cup chan
    \/ j \in pending /\ (j \in work \/ \E w \in Workers : pc[w] = "Running" /\ job[w] = j)

\* The coordinator meets a completion without a record only when every worker of
\* the pool has panicked; as long as one lives, each completion settles one job.
FaultNeedsDeadPool == failed \/ Unknown # {} => panicked = Workers

\* Once the executor is dropped, what its workers still execute or may still take
\* is cancelled (Drop), so that a cooperative job ends before the deadline.
AbandonedWorkIsCancelled ==
  at \in {"joining", "gone"} =>
    \A w \in Workers : pc[w] = "Running" => job[w] \in cancelled

\* A job record is settled, unless the run is dropped: no completion, signal or
\* panic is lost between the worker and drain_cpu_completions.
JobsSettle == \A j \in Jobs : j \in cpu_jobs ~> (j \notin cpu_jobs \/ at \in {"joining", "gone"})

\* The same up to the first drain that fails: the loss of workers, even of all of
\* them, is no other reason for a job to wait for ever.
JobsSettleOrFault ==
  \A j \in Jobs : j \in cpu_jobs ~> (j \notin cpu_jobs \/ at \in {"joining", "gone"} \/ failed)

\* The threads of a dropped executor end, without the help of the deadline ("a
\* broken internal invariant" is its only purpose) and also when it passes first.
DropStopsWorkers == at = "joining" ~> (\A w \in Workers : pc[w] = "Gone")

=============================================================================
