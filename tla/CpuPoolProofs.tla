---------------------------- MODULE CpuPoolProofs ----------------------------
(***************************************************************************)
(* Theorems about CpuPool for every number of workers, jobs and panics.    *)
(*                                                                         *)
(* As long as one worker has not panicked, each outstanding job is in      *)
(* exactly one place (Tracked); the tie between exits and panics (Exits)   *)
(* shows that only a dead pool makes the coordinator report tickets        *)
(* itself.  Signals holds from the moment a drain has found the channel    *)
(* empty, before the wait that it protects.                                *)
(***************************************************************************)
EXTENDS CpuPool, TLAPS, WellFoundedInduction

Dropped == at \in {"joining", "gone"}
Leaving == {"Exiting", "Exited", "Notified", "Gone"}

\* Identities are handed out in order.
Fresh == \A j \in work \cup chan \cup pending \cup cpu_jobs \cup batch : j < next_job

\* Before the drop a worker leaves only by a panic, and one that panicked has left.
Exits ==
  /\ ~Dropped => stops = 0
  /\ \A w \in Workers : pc[w] \in Leaving => Dropped \/ w \in panicked
  /\ \A w \in panicked : pc[w] \in Leaving

\* Where the jobs are while a worker of the pool is alive.
Tracked ==
  panicked # Workers =>
    /\ ~failed /\ twice = {}
    /\ work \subseteq pending \cap cpu_jobs
    /\ chan \subseteq pending \cap cpu_jobs
    /\ batch \subseteq cpu_jobs \ pending
    /\ work \cap chan = {}

\* A running job that has its ticket cannot be lost when its executor is dropped.
CancelledAtDrop == Dropped => pending \subseteq cancelled

Signals ==
  /\ at \in {"health", "commit", "turn", "wait"} /\ ~ready /\ chan # {} =>
       \E w \in Workers : pc[w] \in {"Sent", "Exiting", "Exited"}
  /\ at \in {"commit", "turn", "wait"} /\ ~ready /\ AllExited /\ pending # {} =>
       \E w \in Workers : pc[w] = "Exited"

PoolInv ==
  /\ PoolTypeOK /\ Fresh /\ Exits /\ Tracked /\ RunningIsTracked
  /\ CancelledAtDrop /\ Signals /\ NoJobForgotten

-----------------------------------------------------------------------------
\* A set of identities that is not empty has a first one: the channel and the
\* tickets yield the job that the code pops.
LEMMA FirstIsMember ==
  ASSUME NEW S \in SUBSET Jobs, S # {}
  PROVE  First(S) \in S /\ First(S) \in Nat
<1> DEFINE R == {ss \in Nat \X Nat : ss[1] < ss[2]}
<1>1. S \subseteq Nat BY PoolConstants DEF Jobs
<1>2. R = OpToRel(<, Nat) BY Zenon DEF OpToRel
<1>3. IsWellFoundedOn(R, Nat) BY <1>2, NatLessThanWellFounded
<1>4. PICK x \in S : \A y \in S : ~(<<y, x>> \in R)
  <2> HIDE DEF R
  <2> QED BY <1>1, <1>3, WFMin, Zenon
<1>5. ASSUME NEW y \in S PROVE x =< y
  <2>1. <<y, x>> \in Nat \X Nat BY <1>1
  <2>2. ~(y < x) BY <1>4, <2>1
  <2> QED BY <1>1, <2>2
<1> QED BY <1>1, <1>5 DEF First

\* The initial state satisfies the invariant.
LEMMA PoolInitInv == PoolInit => PoolInv
<1> SUFFICES ASSUME PoolInit PROVE PoolInv
  OBVIOUS
<1> USE DEF PoolInit
<1>1. PoolTypeOK
  <2>1. 0 \in 0..MaxJobs /\ 0 \in 0..capacity
    BY PoolConstants DEF capacity
  <2> QED BY <2>1 DEF PoolTypeOK
<1>2. Fresh /\ RunningIsTracked BY DEF Fresh, RunningIsTracked
<1>3. Exits BY DEF Exits, Leaving
<1>4. Tracked /\ CancelledAtDrop BY DEF Tracked, CancelledAtDrop
<1>5. Signals /\ NoJobForgotten BY DEF Signals, NoJobForgotten
<1> QED BY <1>1, <1>2, <1>3, <1>4, <1>5 DEF PoolInv

\* Every step keeps the types.
LEMMA TypesPreserved ==
  ASSUME PoolInv, PoolNext PROVE PoolTypeOK'
<1> USE DEF PoolInv, PoolTypeOK
<1>a. capacity \in Nat BY PoolConstants DEF capacity
<1>b. next_job < MaxJobs => next_job \in Jobs BY PoolConstants DEF Jobs
<1>1. ASSUME NEW w \in Workers, Take(w) PROVE PoolTypeOK'
  BY <1>1, FirstIsMember DEF Take, coordinatorVars
<1>2. ASSUME NEW w \in Workers, TakeStop(w) PROVE PoolTypeOK'
  BY <1>2, <1>a DEF TakeStop, coordinatorVars
<1>3. ASSUME NEW w \in Workers, Execute(w) PROVE PoolTypeOK'
  BY <1>3 DEF Execute, coordinatorVars, RunningIsTracked
<1>4. ASSUME NEW w \in Workers, Panic(w) PROVE PoolTypeOK'
  BY <1>4 DEF Panic, coordinatorVars, RunningIsTracked
<1>5. ASSUME NEW w \in Workers, Notify(w) PROVE PoolTypeOK'
  BY <1>5 DEF Notify, coordinatorVars
<1>6. ASSUME NEW w \in Workers, RecordExit(w) PROVE PoolTypeOK'
  BY <1>6 DEF RecordExit, coordinatorVars
<1>7. ASSUME NEW w \in Workers, Vanish(w) PROVE PoolTypeOK'
  BY <1>7 DEF Vanish, coordinatorVars
<1>8. CASE StartDrain \/ ReceiveNothing \/ EndDrain
  BY <1>8 DEF StartDrain, workerVars, ReceiveNothing, EndDrain
<1>9. CASE Receive
  BY <1>9 DEF Receive, workerVars, Report
<1>10. CASE ReportExited
  BY <1>10, FirstIsMember DEF ReportExited, workerVars, Report
<1>11. CASE Commit
  BY <1>11 DEF Commit, workerVars
<1>12. CASE CommitUnknown
  BY <1>12, <1>a DEF CommitUnknown, workerVars, DropExecutor
<1>13. CASE Submit
  BY <1>13, <1>b, PoolConstants DEF Submit, workerVars
<1>14. CASE SubmitStopped
  BY <1>14, PoolConstants DEF SubmitStopped, workerVars
<1>15. CASE Settle \/ Turn
  BY <1>15 DEF Settle, workerVars, Turn
<1>16. CASE Wait \/ Wake \/ HostAnswers
  BY <1>16 DEF Wait, workerVars, Wake, HostAnswers
<1>17. CASE CancelAndDrain
  BY <1>17 DEF CancelAndDrain, workerVars
<1>18. CASE Finish \/ Abandon
  BY <1>18, <1>a DEF Finish, workerVars, DropExecutor, Abandon
<1>19. CASE Joined \/ Deadline
  BY <1>19 DEF Joined, workerVars, Deadline
<1> QED BY <1>1, <1>2, <1>3, <1>4, <1>5, <1>6, <1>7, <1>8, <1>9, <1>10, <1>11, <1>12, <1>13,
   <1>14, <1>15, <1>16, <1>17, <1>18, <1>19, Zenon DEF PoolNext, Worker, Coordinator

\* Submit is the only source of identities.
LEMMA FreshPreserved ==
  ASSUME PoolInv, PoolNext PROVE Fresh'
<1> USE DEF PoolInv, PoolTypeOK, Fresh, Jobs
<1>1. ASSUME NEW w \in Workers, Take(w) PROVE Fresh'
  BY <1>1, FirstIsMember DEF Take, coordinatorVars
<1>2. ASSUME NEW w \in Workers, TakeStop(w) PROVE Fresh'
  BY <1>2 DEF TakeStop, coordinatorVars
<1>3. ASSUME NEW w \in Workers, Execute(w) PROVE Fresh'
  BY <1>3 DEF Execute, coordinatorVars, RunningIsTracked
<1>4. ASSUME NEW w \in Workers, Panic(w) PROVE Fresh'
  BY <1>4 DEF Panic, coordinatorVars, RunningIsTracked
<1>5. ASSUME NEW w \in Workers, Notify(w) PROVE Fresh'
  BY <1>5 DEF Notify, coordinatorVars
<1>6. ASSUME NEW w \in Workers, RecordExit(w) PROVE Fresh'
  BY <1>6 DEF RecordExit, coordinatorVars
<1>7. ASSUME NEW w \in Workers, Vanish(w) PROVE Fresh'
  BY <1>7 DEF Vanish, coordinatorVars
<1>8. CASE StartDrain \/ ReceiveNothing \/ EndDrain
  BY <1>8 DEF StartDrain, workerVars, ReceiveNothing, EndDrain
<1>9. CASE Receive
  BY <1>9 DEF Receive, workerVars, Report
<1>10. CASE ReportExited
  BY <1>10, FirstIsMember DEF ReportExited, workerVars, Report
<1>11. CASE Commit
  BY <1>11 DEF Commit, workerVars
<1>12. CASE CommitUnknown
  BY <1>12 DEF CommitUnknown, workerVars, DropExecutor, Unknown
<1>13. CASE Submit
  BY <1>13, PoolConstants DEF Submit, workerVars
<1>14. CASE SubmitStopped
  BY <1>14, PoolConstants DEF SubmitStopped, workerVars
<1>15. CASE Settle \/ Turn
  BY <1>15 DEF Settle, workerVars, Turn
<1>16. CASE Wait \/ Wake \/ HostAnswers
  BY <1>16 DEF Wait, workerVars, Wake, HostAnswers
<1>17. CASE CancelAndDrain
  BY <1>17 DEF CancelAndDrain, workerVars
<1>18. CASE Finish \/ Abandon
  BY <1>18 DEF Finish, workerVars, DropExecutor, Abandon
<1>19. CASE Joined \/ Deadline
  BY <1>19 DEF Joined, workerVars, Deadline
<1> QED BY <1>1, <1>2, <1>3, <1>4, <1>5, <1>6, <1>7, <1>8, <1>9, <1>10, <1>11, <1>12, <1>13,
   <1>14, <1>15, <1>16, <1>17, <1>18, <1>19, Zenon DEF PoolNext, Worker, Coordinator

\* A worker leaves by a panic or after the drop.
LEMMA ExitsPreserved ==
  ASSUME PoolInv, PoolNext PROVE Exits'
<1> USE DEF PoolInv, PoolTypeOK, Exits, Dropped, Leaving
<1>0. capacity \in Nat BY PoolConstants DEF capacity
<1>1. ASSUME NEW w \in Workers, Take(w) PROVE Exits'
  BY <1>1 DEF Take, coordinatorVars
<1>2. ASSUME NEW w \in Workers, TakeStop(w) PROVE Exits'
  BY <1>2, <1>0 DEF TakeStop, coordinatorVars, Destroyed
<1>3. ASSUME NEW w \in Workers, Execute(w) PROVE Exits'
  BY <1>3 DEF Execute, coordinatorVars, RunningIsTracked, Destroyed
<1>4. ASSUME NEW w \in Workers, Panic(w) PROVE Exits'
  BY <1>4 DEF Panic, coordinatorVars, RunningIsTracked
<1>5. ASSUME NEW w \in Workers, Notify(w) PROVE Exits'
  BY <1>5 DEF Notify, coordinatorVars
<1>6. ASSUME NEW w \in Workers, RecordExit(w) PROVE Exits'
  BY <1>6 DEF RecordExit, coordinatorVars
<1>7. ASSUME NEW w \in Workers, Vanish(w) PROVE Exits'
  BY <1>7 DEF Vanish, coordinatorVars
<1>8. CASE StartDrain \/ ReceiveNothing \/ EndDrain
  BY <1>8 DEF StartDrain, workerVars, ReceiveNothing, EndDrain
<1>9. CASE Receive
  BY <1>9 DEF Receive, workerVars, Report
<1>10. CASE ReportExited
  BY <1>10 DEF ReportExited, workerVars, Report
<1>11. CASE Commit
  BY <1>11 DEF Commit, workerVars, Unknown
<1>12. CASE CommitUnknown
  BY <1>12 DEF CommitUnknown, workerVars, DropExecutor, Unknown
<1>13. CASE Submit
  BY <1>13 DEF Submit, workerVars
<1>14. CASE SubmitStopped
  BY <1>14 DEF SubmitStopped, workerVars
<1>15. CASE Settle \/ Turn
  BY <1>15 DEF Settle, workerVars, Turn
<1>16. CASE Wait \/ Wake \/ HostAnswers
  BY <1>16 DEF Wait, workerVars, Wake, HostAnswers
<1>17. CASE CancelAndDrain
  BY <1>17 DEF CancelAndDrain, workerVars
<1>18. CASE Finish \/ Abandon
  BY <1>18 DEF Finish, workerVars, DropExecutor, Abandon
<1>19. CASE Joined \/ Deadline
  BY <1>19 DEF Joined, workerVars, Deadline
<1> QED BY <1>1, <1>2, <1>3, <1>4, <1>5, <1>6, <1>7, <1>8, <1>9, <1>10, <1>11, <1>12, <1>13,
   <1>14, <1>15, <1>16, <1>17, <1>18, <1>19, Zenon DEF PoolNext, Worker, Coordinator

\* A step moves a job from one place to the next.
LEMMA TrackedPreserved ==
  ASSUME PoolInv, PoolNext PROVE Tracked'
<1> USE DEF PoolInv, PoolTypeOK, Tracked, Fresh, Exits, Dropped, Leaving
<1>1. ASSUME NEW w \in Workers, Take(w) PROVE Tracked'
  BY <1>1, FirstIsMember DEF Take, coordinatorVars
<1>2. ASSUME NEW w \in Workers, TakeStop(w) PROVE Tracked'
  BY <1>2 DEF TakeStop, coordinatorVars, Destroyed
<1>3. ASSUME NEW w \in Workers, Execute(w) PROVE Tracked'
  BY <1>3 DEF Execute, coordinatorVars, RunningIsTracked, Destroyed
<1>4. ASSUME NEW w \in Workers, Panic(w) PROVE Tracked'
  BY <1>4 DEF Panic, coordinatorVars, RunningIsTracked
<1>5. ASSUME NEW w \in Workers, Notify(w) PROVE Tracked'
  BY <1>5 DEF Notify, coordinatorVars
<1>6. ASSUME NEW w \in Workers, RecordExit(w) PROVE Tracked'
  BY <1>6 DEF RecordExit, coordinatorVars
<1>7. ASSUME NEW w \in Workers, Vanish(w) PROVE Tracked'
  BY <1>7 DEF Vanish, coordinatorVars
<1>8. CASE StartDrain \/ ReceiveNothing \/ EndDrain
  BY <1>8 DEF StartDrain, workerVars, ReceiveNothing, EndDrain
<1>9. CASE Receive
  BY <1>9 DEF Receive, workerVars, Report
<1>10. CASE ReportExited
  BY <1>10, FirstIsMember DEF ReportExited, workerVars, Report, AllExited
<1>11. CASE Commit
  BY <1>11 DEF Commit, workerVars, Unknown
<1>12. CASE CommitUnknown
  BY <1>12 DEF CommitUnknown, workerVars, DropExecutor, Unknown
<1>13. CASE Submit
  BY <1>13 DEF Submit, workerVars
<1>14. CASE SubmitStopped
  BY <1>14 DEF SubmitStopped, workerVars
<1>15. CASE Settle \/ Turn
  BY <1>15 DEF Settle, workerVars, Turn
<1>16. CASE Wait \/ Wake \/ HostAnswers
  BY <1>16 DEF Wait, workerVars, Wake, HostAnswers
<1>17. CASE CancelAndDrain
  BY <1>17 DEF CancelAndDrain, workerVars
<1>18. CASE Finish \/ Abandon
  BY <1>18 DEF Finish, workerVars, DropExecutor, Abandon
<1>19. CASE Joined \/ Deadline
  BY <1>19 DEF Joined, workerVars, Deadline
<1> QED BY <1>1, <1>2, <1>3, <1>4, <1>5, <1>6, <1>7, <1>8, <1>9, <1>10, <1>11, <1>12, <1>13,
   <1>14, <1>15, <1>16, <1>17, <1>18, <1>19, Zenon DEF PoolNext, Worker, Coordinator

\* A running job stays tracked.
LEMMA RunningPreserved ==
  ASSUME PoolInv, PoolNext PROVE RunningIsTracked'
<1> USE DEF PoolInv, PoolTypeOK, Tracked, Fresh, RunningIsTracked, Exits, Leaving, Dropped
<1>1. ASSUME NEW w \in Workers, Take(w) PROVE RunningIsTracked'
  BY <1>1, FirstIsMember DEF Take, coordinatorVars
<1>2. ASSUME NEW w \in Workers, TakeStop(w) PROVE RunningIsTracked'
  BY <1>2 DEF TakeStop, coordinatorVars, Destroyed
<1>3. ASSUME NEW w \in Workers, Execute(w) PROVE RunningIsTracked'
  BY <1>3 DEF Execute, coordinatorVars, RunningIsTracked, Destroyed
<1>4. ASSUME NEW w \in Workers, Panic(w) PROVE RunningIsTracked'
  BY <1>4 DEF Panic, coordinatorVars, RunningIsTracked
<1>5. ASSUME NEW w \in Workers, Notify(w) PROVE RunningIsTracked'
  BY <1>5 DEF Notify, coordinatorVars
<1>6. ASSUME NEW w \in Workers, RecordExit(w) PROVE RunningIsTracked'
  BY <1>6 DEF RecordExit, coordinatorVars
<1>7. ASSUME NEW w \in Workers, Vanish(w) PROVE RunningIsTracked'
  BY <1>7 DEF Vanish, coordinatorVars
<1>8. CASE StartDrain \/ ReceiveNothing \/ EndDrain
  BY <1>8 DEF StartDrain, workerVars, ReceiveNothing, EndDrain
<1>9. CASE Receive
  BY <1>9 DEF Receive, workerVars, Report
<1>10. CASE ReportExited
  BY <1>10, FirstIsMember DEF ReportExited, workerVars, Report, AllExited
<1>11. CASE Commit
  BY <1>11 DEF Commit, workerVars, Unknown
<1>12. CASE CommitUnknown
  BY <1>12 DEF CommitUnknown, workerVars, DropExecutor, Unknown
<1>13. CASE Submit
  BY <1>13 DEF Submit, workerVars
<1>14. CASE SubmitStopped
  BY <1>14 DEF SubmitStopped, workerVars
<1>15. CASE Settle \/ Turn
  BY <1>15 DEF Settle, workerVars, Turn
<1>16. CASE Wait \/ Wake \/ HostAnswers
  BY <1>16 DEF Wait, workerVars, Wake, HostAnswers
<1>17. CASE CancelAndDrain
  BY <1>17 DEF CancelAndDrain, workerVars
<1>18. CASE Finish \/ Abandon
  BY <1>18 DEF Finish, workerVars, DropExecutor, Abandon
<1>19. CASE Joined \/ Deadline
  BY <1>19 DEF Joined, workerVars, Deadline
<1> QED BY <1>1, <1>2, <1>3, <1>4, <1>5, <1>6, <1>7, <1>8, <1>9, <1>10, <1>11, <1>12, <1>13,
   <1>14, <1>15, <1>16, <1>17, <1>18, <1>19, Zenon DEF PoolNext, Worker, Coordinator

\* The drop cancels every ticket, and none is issued after it.
LEMMA CancelledPreserved ==
  ASSUME PoolInv, PoolNext PROVE CancelledAtDrop'
<1> USE DEF PoolInv, PoolTypeOK, CancelledAtDrop, Dropped
<1>1. ASSUME NEW w \in Workers, Take(w) PROVE CancelledAtDrop'
  BY <1>1, FirstIsMember DEF Take, coordinatorVars
<1>2. ASSUME NEW w \in Workers, TakeStop(w) PROVE CancelledAtDrop'
  BY <1>2 DEF TakeStop, coordinatorVars, Destroyed
<1>3. ASSUME NEW w \in Workers, Execute(w) PROVE CancelledAtDrop'
  BY <1>3 DEF Execute, coordinatorVars, RunningIsTracked, Destroyed
<1>4. ASSUME NEW w \in Workers, Panic(w) PROVE CancelledAtDrop'
  BY <1>4 DEF Panic, coordinatorVars, RunningIsTracked
<1>5. ASSUME NEW w \in Workers, Notify(w) PROVE CancelledAtDrop'
  BY <1>5 DEF Notify, coordinatorVars
<1>6. ASSUME NEW w \in Workers, RecordExit(w) PROVE CancelledAtDrop'
  BY <1>6 DEF RecordExit, coordinatorVars
<1>7. ASSUME NEW w \in Workers, Vanish(w) PROVE CancelledAtDrop'
  BY <1>7 DEF Vanish, coordinatorVars
<1>8. CASE StartDrain \/ ReceiveNothing \/ EndDrain
  BY <1>8 DEF StartDrain, workerVars, ReceiveNothing, EndDrain
<1>9. CASE Receive
  BY <1>9 DEF Receive, workerVars, Report
<1>10. CASE ReportExited
  BY <1>10, FirstIsMember DEF ReportExited, workerVars, Report, AllExited
<1>11. CASE Commit
  BY <1>11 DEF Commit, workerVars, Unknown
<1>12. CASE CommitUnknown
  BY <1>12 DEF CommitUnknown, workerVars, DropExecutor, Unknown
<1>13. CASE Submit
  BY <1>13 DEF Submit, workerVars
<1>14. CASE SubmitStopped
  BY <1>14 DEF SubmitStopped, workerVars
<1>15. CASE Settle \/ Turn
  BY <1>15 DEF Settle, workerVars, Turn
<1>16. CASE Wait \/ Wake \/ HostAnswers
  BY <1>16 DEF Wait, workerVars, Wake, HostAnswers
<1>17. CASE CancelAndDrain
  BY <1>17 DEF CancelAndDrain, workerVars
<1>18. CASE Finish \/ Abandon
  BY <1>18 DEF Finish, workerVars, DropExecutor, Abandon
<1>19. CASE Joined \/ Deadline
  BY <1>19 DEF Joined, workerVars, Deadline
<1> QED BY <1>1, <1>2, <1>3, <1>4, <1>5, <1>6, <1>7, <1>8, <1>9, <1>10, <1>11, <1>12, <1>13,
   <1>14, <1>15, <1>16, <1>17, <1>18, <1>19, Zenon DEF PoolNext, Worker, Coordinator

\* A send or an exit is followed by a notification.
LEMMA SignalsPreserved ==
  ASSUME PoolInv, PoolNext PROVE Signals'
<1> USE DEF PoolInv, PoolTypeOK, Signals, AllExited
<1>1. ASSUME NEW w \in Workers, Take(w) PROVE Signals'
  BY <1>1, FirstIsMember DEF Take, coordinatorVars
<1>2. ASSUME NEW w \in Workers, TakeStop(w) PROVE Signals'
  BY <1>2 DEF TakeStop, coordinatorVars, Destroyed
<1>3. ASSUME NEW w \in Workers, Execute(w) PROVE Signals'
  BY <1>3 DEF Execute, coordinatorVars, RunningIsTracked, Destroyed
<1>4. ASSUME NEW w \in Workers, Panic(w) PROVE Signals'
  BY <1>4 DEF Panic, coordinatorVars, RunningIsTracked
<1>5. ASSUME NEW w \in Workers, Notify(w) PROVE Signals'
  BY <1>5 DEF Notify, coordinatorVars
<1>6. ASSUME NEW w \in Workers, RecordExit(w) PROVE Signals'
  BY <1>6 DEF RecordExit, coordinatorVars
<1>7. ASSUME NEW w \in Workers, Vanish(w) PROVE Signals'
  BY <1>7 DEF Vanish, coordinatorVars
<1>8. CASE StartDrain \/ ReceiveNothing \/ EndDrain
  BY <1>8 DEF StartDrain, workerVars, ReceiveNothing, EndDrain
<1>9. CASE Receive
  BY <1>9 DEF Receive, workerVars, Report
<1>10. CASE ReportExited
  BY <1>10, FirstIsMember DEF ReportExited, workerVars, Report, AllExited
<1>11. CASE Commit
  BY <1>11 DEF Commit, workerVars, Unknown
<1>12. CASE CommitUnknown
  BY <1>12 DEF CommitUnknown, workerVars, DropExecutor, Unknown
<1>13. CASE Submit
  BY <1>13 DEF Submit, workerVars
<1>14. CASE SubmitStopped
  BY <1>14 DEF SubmitStopped, workerVars
<1>15. CASE Settle \/ Turn
  BY <1>15 DEF Settle, workerVars, Turn
<1>16. CASE Wait \/ Wake \/ HostAnswers
  BY <1>16 DEF Wait, workerVars, Wake, HostAnswers
<1>17. CASE CancelAndDrain
  BY <1>17 DEF CancelAndDrain, workerVars
<1>18. CASE Finish \/ Abandon
  BY <1>18 DEF Finish, workerVars, DropExecutor, Abandon
<1>19. CASE Joined \/ Deadline
  BY <1>19 DEF Joined, workerVars, Deadline
<1> QED BY <1>1, <1>2, <1>3, <1>4, <1>5, <1>6, <1>7, <1>8, <1>9, <1>10, <1>11, <1>12, <1>13,
   <1>14, <1>15, <1>16, <1>17, <1>18, <1>19, Zenon DEF PoolNext, Worker, Coordinator

\* A job that is not settled stays where it can be.
LEMMA JobsKept ==
  ASSUME PoolInv, PoolNext PROVE NoJobForgotten'
<1> USE DEF PoolInv, PoolTypeOK, NoJobForgotten, Destroyed
<1>1. ASSUME NEW w \in Workers, Take(w) PROVE NoJobForgotten'
  BY <1>1, FirstIsMember DEF Take, coordinatorVars
<1>2. ASSUME NEW w \in Workers, TakeStop(w) PROVE NoJobForgotten'
  BY <1>2 DEF TakeStop, coordinatorVars, Destroyed
<1>3. ASSUME NEW w \in Workers, Execute(w) PROVE NoJobForgotten'
  BY <1>3 DEF Execute, coordinatorVars, RunningIsTracked, Destroyed
<1>4. ASSUME NEW w \in Workers, Panic(w) PROVE NoJobForgotten'
  BY <1>4 DEF Panic, coordinatorVars, RunningIsTracked
<1>5. ASSUME NEW w \in Workers, Notify(w) PROVE NoJobForgotten'
  BY <1>5 DEF Notify, coordinatorVars
<1>6. ASSUME NEW w \in Workers, RecordExit(w) PROVE NoJobForgotten'
  BY <1>6 DEF RecordExit, coordinatorVars
<1>7. ASSUME NEW w \in Workers, Vanish(w) PROVE NoJobForgotten'
  BY <1>7 DEF Vanish, coordinatorVars
<1>8. CASE StartDrain \/ ReceiveNothing \/ EndDrain
  BY <1>8 DEF StartDrain, workerVars, ReceiveNothing, EndDrain
<1>9. CASE Receive
  BY <1>9 DEF Receive, workerVars, Report
<1>10. CASE ReportExited
  BY <1>10, FirstIsMember DEF ReportExited, workerVars, Report, AllExited
<1>11. CASE Commit
  BY <1>11 DEF Commit, workerVars, Unknown
<1>12. CASE CommitUnknown
  BY <1>12 DEF CommitUnknown, workerVars, DropExecutor, Unknown
<1>13. CASE Submit
  BY <1>13 DEF Submit, workerVars
<1>14. CASE SubmitStopped
  BY <1>14 DEF SubmitStopped, workerVars
<1>15. CASE Settle \/ Turn
  BY <1>15 DEF Settle, workerVars, Turn
<1>16. CASE Wait \/ Wake \/ HostAnswers
  BY <1>16 DEF Wait, workerVars, Wake, HostAnswers
<1>17. CASE CancelAndDrain
  BY <1>17 DEF CancelAndDrain, workerVars
<1>18. CASE Finish \/ Abandon
  BY <1>18 DEF Finish, workerVars, DropExecutor, Abandon
<1>19. CASE Joined \/ Deadline
  BY <1>19 DEF Joined, workerVars, Deadline
<1> QED BY <1>1, <1>2, <1>3, <1>4, <1>5, <1>6, <1>7, <1>8, <1>9, <1>10, <1>11, <1>12, <1>13,
   <1>14, <1>15, <1>16, <1>17, <1>18, <1>19, Zenon DEF PoolNext, Worker, Coordinator

\* A step that changes nothing keeps the invariant.
LEMMA StutterInv == ASSUME PoolInv, UNCHANGED vars PROVE PoolInv'
<1> USE DEF PoolInv, vars, workerVars, coordinatorVars
<1>1. PoolTypeOK' BY DEF PoolTypeOK
<1>2. Fresh' /\ RunningIsTracked' BY DEF Fresh, RunningIsTracked
<1>3. Exits' BY DEF Exits, Dropped
<1>4. Tracked' /\ CancelledAtDrop' BY DEF Tracked, CancelledAtDrop, Dropped
<1>5. Signals' BY DEF Signals, AllExited
<1>6. NoJobForgotten' BY DEF NoJobForgotten, Destroyed
<1> QED BY <1>1, <1>2, <1>3, <1>4, <1>5, <1>6

\* Every reachable state of the pool satisfies the inductive invariant.
THEOREM PoolInvariant == PoolSpec => []PoolInv
<1>1. PoolInv /\ [PoolNext]_vars => PoolInv'
  <2> SUFFICES ASSUME PoolInv, [PoolNext]_vars PROVE PoolInv'
    OBVIOUS
  <2>1. CASE PoolNext
    BY <2>1, TypesPreserved, FreshPreserved, ExitsPreserved, TrackedPreserved, RunningPreserved,
       CancelledPreserved, SignalsPreserved, JobsKept, Zenon DEF PoolInv
  <2>2. CASE UNCHANGED vars
    BY <2>2, StutterInv
  <2> QED BY <2>1, <2>2
<1> QED BY <1>1, PoolInitInv, PTL DEF PoolSpec

\* A job that a worker executes can be cancelled and is not settled behind its
\* back, whatever the number of workers, jobs and panics (try_completion).
THEOREM RunningJobsAreTracked == PoolSpec => []RunningIsTracked
<1>1. PoolInv => RunningIsTracked BY DEF PoolInv
<1> QED BY <1>1, PoolInvariant, PTL

\* A waiting coordinator is always woken for a completion and for the exit of
\* the pool (notify_one after the send and after the health update).
THEOREM SignalsAreKept == PoolSpec => []NoLostSignal
<1>1. PoolInv => NoLostSignal BY DEF PoolInv, Signals, NoLostSignal
<1> QED BY <1>1, PoolInvariant, PTL

\* No panic, cancellation or late submission makes the pool lose a job before a
\* drain fails (submit, try_completion).
THEOREM JobsAreKept == PoolSpec => []NoJobForgotten
<1>1. PoolInv => NoJobForgotten BY DEF PoolInv
<1> QED BY <1>1, PoolInvariant, PTL

\* drain_cpu_completions meets an unknown job only after the panic of the last worker.
THEOREM LivePoolIsFaultless == PoolSpec => []FaultNeedsDeadPool
<1>1. PoolInv => FaultNeedsDeadPool
  <2> SUFFICES ASSUME PoolInv, panicked # Workers PROVE ~failed /\ Unknown = {}
    BY DEF FaultNeedsDeadPool
  <2> QED BY DEF PoolInv, Tracked, Unknown
<1> QED BY <1>1, PoolInvariant, PTL

\* What a dropped executor leaves running is cancelled (Drop).
THEOREM DroppedWorkIsCancelled == PoolSpec => []AbandonedWorkIsCancelled
<1>1. PoolInv => AbandonedWorkIsCancelled
  BY DEF PoolInv, CancelledAtDrop, Dropped, RunningIsTracked, AbandonedWorkIsCancelled
<1> QED BY <1>1, PoolInvariant, PTL

=============================================================================
