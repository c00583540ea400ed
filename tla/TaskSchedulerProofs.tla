------------------------- MODULE TaskSchedulerProofs -------------------------
(***************************************************************************)
(* Theorems about TaskScheduler and TaskDriver for every number of tasks,  *)
(* scopes and keys and every concurrency limit.                            *)
(*                                                                         *)
(* The inductive invariant SchedulerInv speaks of sets of tasks only: the  *)
(* queues decide in which order things happen, and exclusion, finality and *)
(* the barrier must not depend on it.  The second part adds what the       *)
(* queues and counters hold, and the third is about the coordinator.       *)
(***************************************************************************)
EXTENDS TaskDriver, TLAPS, QueueProofs, FiniteSetTheorems

Ids == tstate \in [TaskIds -> TaskStates] /\ holders \in SUBSET TaskIds /\ next_task \in Nat

\* Task ids are handed out in order.
Allocated == \A t \in TaskIds : t >= next_task => tstate[t] = "Unborn"

\* Permits belong to live tasks, and a parked task has none.
HoldersAlive == \A t \in holders : tstate[t] \notin Inert \cup {"WaitResource"}

Exclusive == \A t, u \in holders : t # u => ~Clash(keys[t], keys[u])

\* The states a task enters only through dispatch_ready.
Admitted == {"Running", "WaitTask", "WaitScope", "WaitHost", "WaitCpu"}

AdmittedHold == \A t \in TaskIds : tstate[t] \in Admitted => t \in holders

\* Nothing runs behind the barrier.
Quiet == checkpoint_barrier => \A t \in TaskIds : tstate[t] # "Running"

SchedulerInv == Ids /\ Allocated /\ HoldersAlive /\ Exclusive /\ AdmittedHold /\ Quiet

-----------------------------------------------------------------------------
\* Conflict of permits is symmetric, so the order of acquisition is irrelevant.
LEMMA ClashSymmetric == ASSUME NEW K, NEW L, Clash(K, L) PROVE Clash(L, K)
  BY DEF Clash, conflicts

\* The initial state satisfies the invariant.
LEMMA InitInv == Init => SchedulerInv
  BY SchedulerConstants DEF Init, SchedulerInv, Ids, Allocated, HoldersAlive, Exclusive, AdmittedHold,
     Admitted, Quiet, TaskIds, TaskStates, Inert

\* The waiters admitted by one scan of the permit queue clash neither with the
\* remaining holders nor with each other.
LEMMA GrantedCompatible ==
  ASSUME NEW queue, NEW held, NEW G, Granted(queue, held, G),
         \A t, u \in held : t # u => ~Clash(keys[t], keys[u])
  PROVE  \A t, u \in held \cup G : t # u => ~Clash(keys[t], keys[u])
<1> DEFINE before(i) == {queue[j] : j \in {k \in 1..(i - 1) : queue[k] \in G}}
<1>1. \A i \in 1..Len(queue) : queue[i] \in G =>
        \A h \in held \cup before(i) : h # queue[i] => ~Clash(keys[queue[i]], keys[h])
  BY DEF Granted, compatible
<1>2. ASSUME NEW g \in G, NEW h \in held, g # h PROVE ~Clash(keys[g], keys[h])
  <2>1. PICK i \in 1..Len(queue) : queue[i] = g
    BY DEF Granted
  <2> QED BY <1>1, <1>2, <2>1
<1>3. ASSUME NEW g \in G, NEW h \in G, g # h PROVE ~Clash(keys[g], keys[h])
  <2>1. PICK i \in 1..Len(queue) : queue[i] = g
    BY DEF Granted
  <2>2. PICK j \in 1..Len(queue) : queue[j] = h
    BY DEF Granted
  <2>3. i # j
    BY <2>1, <2>2, <1>3
  <2>4. CASE i < j
    <3>1. i \in {k \in 1..(j - 1) : queue[k] \in G}
      BY <2>1, <2>4
    <3>2. g \in before(j)
      BY <3>1, <2>1
    <3> QED BY <1>1, <1>3, <2>2, <3>2, ClashSymmetric
  <2>5. CASE j < i
    <3>1. j \in {k \in 1..(i - 1) : queue[k] \in G}
      BY <2>2, <2>5
    <3>2. h \in before(i)
      BY <3>1, <2>2
    <3> QED BY <1>1, <1>3, <2>1, <3>2
  <2> QED BY <2>3, <2>4, <2>5
<1> QED BY <1>2, <1>3, ClashSymmetric

-----------------------------------------------------------------------------
\* What the settlement of task t does: tasks that wait for a permit, a task or a
\* scope may become Ready, and G are those of the first kind that get theirs.
Settlement(t, out, G) ==
  /\ holders' = (holders \ {t}) \cup G
  /\ \E queue : Granted(queue, holders \ {t}, G)
  /\ \A u \in G : u # t /\ tstate[u] = "WaitResource" /\ tstate'[u] = "Ready"
  /\ tstate' \in [TaskIds -> TaskStates]
  /\ \A u \in TaskIds : u = t => tstate'[u] = out
  /\ \A u \in TaskIds : u # t /\ tstate'[u] # tstate[u] =>
       /\ tstate'[u] = "Ready"
       /\ tstate[u] \in {"WaitResource", "WaitTask", "WaitScope"}
  /\ UNCHANGED <<keys, next_task, checkpoint_barrier, scopeOf>>

\* terminal has that effect on the other tasks, and no other.
LEMMA TerminalEffect ==
  ASSUME Ids, NEW t, NEW out \in Terminal, NEW win, NEW prim, terminal(t, out, win, prim)
  PROVE  \E G \in SUBSET TaskIds : Settlement(t, out, G)
<1> DEFINE st1 == [tstate EXCEPT ![t] = out]
           queue == Retain(waiting, {u \in TaskIds : st1[u] = "WaitResource"})
           onTask(u) == st1[u] = "WaitTask" /\ target[u] = t
           awaiting == {u \in Range(waiters[t]) : onTask(u)}
           st2(G) == [u \in TaskIds |-> IF u \in G \cup awaiting THEN "Ready" ELSE st1[u]]
           s == scopeOf[t]
           result(G) == scope_outcome(s, st2(G), win[s], prim[s])
           onScope(G, u) == result(G) # "Pending" /\ st2(G)[u] = "WaitScope" /\ target[u] = s
           joining(G) == {u \in Range(swaiters[s]) : onScope(G, u)}
<1>1. PICK G \in SUBSET {u \in TaskIds : st1[u] = "WaitResource"} :
        /\ Granted(queue, holders \ {t}, G)
        /\ tstate' = [u \in TaskIds |-> IF u \in joining(G) THEN "Ready" ELSE st2(G)[u]]
        /\ holders' = (holders \ {t}) \cup G
        /\ UNCHANGED <<checkpoint_barrier, taskShape>>
  BY Zenon DEF terminal
<1>2. UNCHANGED <<keys, next_task, checkpoint_barrier, scopeOf>>
  BY <1>1 DEF taskShape
<1>3. \A u \in TaskIds : st1[u] = IF u = t THEN out ELSE tstate[u]
  BY DEF Ids
<1>4. \A u \in G : u # t /\ tstate[u] = "WaitResource"
  BY <1>1, <1>3 DEF Terminal
<1>5. \A u \in TaskIds : u \in awaiting => u # t /\ tstate[u] = "WaitTask"
  BY <1>3 DEF Terminal
<1>6. \A u \in TaskIds : st2(G)[u] = IF u \in G \cup awaiting THEN "Ready" ELSE st1[u]
  OBVIOUS
<1>7. \A u \in TaskIds : u \in joining(G) => u # t /\ tstate[u] = "WaitScope"
  <2> SUFFICES ASSUME NEW u \in TaskIds, u \in joining(G)
               PROVE  u # t /\ tstate[u] = "WaitScope"
    OBVIOUS
  <2>1. st2(G)[u] = "WaitScope"
    OBVIOUS
  <2> QED BY <2>1, <1>3, <1>6 DEF Terminal
<1> HIDE DEF st1, queue, awaiting, st2, joining
<1>8. \A u \in TaskIds : tstate'[u] = IF u \in joining(G) THEN "Ready" ELSE st2(G)[u]
  BY <1>1
<1>9. \A u \in TaskIds : u # t /\ tstate'[u] # tstate[u] =>
        tstate'[u] = "Ready" /\ tstate[u] \in {"WaitResource", "WaitTask", "WaitScope"}
  BY <1>3, <1>4, <1>5, <1>6, <1>7, <1>8
<1>10. \A u \in TaskIds : u = t => tstate'[u] = out
  BY <1>3, <1>4, <1>5, <1>6, <1>7, <1>8
<1>11. \A u \in G : tstate'[u] = "Ready"
  BY <1>1, <1>6, <1>8
<1>12. tstate' \in [TaskIds -> TaskStates]
  <2>1. \A u \in TaskIds : tstate'[u] \in TaskStates
    BY <1>9, <1>10 DEF Ids, TaskStates, Inert
  <2> QED BY <2>1, <1>1
<1> QED BY <1>1, <1>2, <1>4, <1>9, <1>10, <1>11, <1>12 DEF Settlement

\* Settling a live task keeps the invariant.
LEMMA TerminalInv ==
  ASSUME SchedulerInv, NEW t, NEW out \in Terminal, NEW win, NEW prim, terminal(t, out, win, prim),
         t \in TaskIds => tstate[t] \notin Inert
  PROVE  SchedulerInv'
<1>1. PICK G \in SUBSET TaskIds : Settlement(t, out, G)
  BY TerminalEffect DEF SchedulerInv
<1> USE DEF Settlement
<1>2. Ids'
  BY <1>1 DEF SchedulerInv, Ids
<1>3. Allocated'
  BY <1>1 DEF SchedulerInv, Allocated, Inert
<1>4. HoldersAlive'
  <2> SUFFICES ASSUME NEW u \in holders' PROVE tstate'[u] \notin Inert \cup {"WaitResource"}
    BY DEF HoldersAlive
  <2>1. CASE u \in G
    BY <1>1, <2>1 DEF Inert, Terminal
  <2>2. CASE u \in holders \ {t}
    BY <1>1, <2>2 DEF SchedulerInv, Ids, HoldersAlive, Inert, Terminal
  <2> QED BY <1>1, <2>1, <2>2
<1>5. Exclusive'
  <2>1. \A u, v \in holders \ {t} : u # v => ~Clash(keys[u], keys[v])
    BY DEF SchedulerInv, Exclusive
  <2>2. \A u, v \in (holders \ {t}) \cup G : u # v => ~Clash(keys[u], keys[v])
    BY <1>1, <2>1, GrantedCompatible
  <2> QED BY <1>1, <2>2 DEF Exclusive
<1>6. AdmittedHold'
  BY <1>1 DEF SchedulerInv, AdmittedHold, Admitted, Terminal
<1>7. Quiet'
  BY <1>1 DEF SchedulerInv, Quiet, Terminal
<1> QED BY <1>2, <1>3, <1>4, <1>5, <1>6, <1>7 DEF SchedulerInv

-----------------------------------------------------------------------------
\* An admitted task moves to another admitted state, or back to the ready queue,
\* with its permits.
LEMMA MoveInv ==
  ASSUME SchedulerInv, NEW t \in TaskIds, tstate[t] \in Admitted,
         NEW st \in {"Ready", "WaitTask", "WaitScope", "WaitHost", "WaitCpu"},
         tstate' = [tstate EXCEPT ![t] = st],
         UNCHANGED <<holders, keys, next_task, checkpoint_barrier>>
  PROVE  SchedulerInv'
<1>1. \A u \in TaskIds : tstate'[u] = IF u = t THEN st ELSE tstate[u]
  BY DEF SchedulerInv, Ids
<1>2. Ids'
  BY DEF SchedulerInv, Ids, TaskStates
<1>3. Allocated'
  BY <1>1 DEF SchedulerInv, Allocated, Admitted
<1>4. HoldersAlive'
  BY <1>1 DEF SchedulerInv, Ids, HoldersAlive, Inert, Terminal
<1>5. Exclusive'
  BY DEF SchedulerInv, Exclusive
<1>6. AdmittedHold'
  BY <1>1 DEF SchedulerInv, AdmittedHold
<1>7. Quiet'
  BY <1>1 DEF SchedulerInv, Quiet
<1> QED BY <1>2, <1>3, <1>4, <1>5, <1>6, <1>7 DEF SchedulerInv

\* New tasks are Ready, hold nothing and leave the keys of older tasks alone; the
\* caller, if it is a task, keeps running or waits for the new scope.
LEMMA SpawnInv ==
  ASSUME SchedulerInv, NEW p, NEW n \in Nat, next_task' = next_task + n,
         p \in TaskIds => tstate[p] = "Running",
         NEW st \in {"Running", "WaitScope"},
         tstate' = [t \in TaskIds |-> IF t \in next_task .. (next_task' - 1) THEN "Ready"
                                      ELSE IF t = p THEN st ELSE tstate[t]],
         \A t \in TaskIds : t < next_task => keys'[t] = keys[t],
         UNCHANGED <<holders, checkpoint_barrier>>
  PROVE  SchedulerInv'
<1> DEFINE born == next_task .. (next_task' - 1)
<1>1. next_task \in Nat /\ next_task' \in Nat /\ next_task' >= next_task
  BY DEF SchedulerInv, Ids
<1>2. \A t \in TaskIds : t \in Int
  BY SchedulerConstants DEF TaskIds
<1>3. \A t \in TaskIds : t \in born => t >= next_task /\ t < next_task'
  BY <1>1, <1>2
<1>4. \A t \in TaskIds : tstate[t] # "Unborn" => t < next_task /\ t \notin born
  BY <1>1, <1>2, <1>3 DEF SchedulerInv, Allocated
<1>5. \A t \in TaskIds : tstate'[t] = IF t \in born THEN "Ready" ELSE IF t = p THEN st ELSE tstate[t]
  OBVIOUS
<1>6. Ids'
  BY <1>1 DEF SchedulerInv, Ids, TaskStates
<1>7. Allocated'
  <2> SUFFICES ASSUME NEW t \in TaskIds, t >= next_task' PROVE tstate'[t] = "Unborn"
    BY DEF Allocated
  <2>1. t \notin born /\ t >= next_task
    BY <1>1, <1>2, <1>3
  <2>2. tstate[t] = "Unborn"
    BY <2>1 DEF SchedulerInv, Allocated
  <2> QED BY <1>5, <2>1, <2>2
<1> HIDE DEF born
<1>8. HoldersAlive'
  BY <1>4, <1>5 DEF SchedulerInv, Ids, HoldersAlive, Inert, Terminal
<1>9. \A t \in holders : t \in TaskIds /\ keys'[t] = keys[t]
  BY <1>4 DEF SchedulerInv, Ids, HoldersAlive, Inert
<1>10. Exclusive'
  BY <1>9 DEF SchedulerInv, Exclusive
<1>11. AdmittedHold'
  BY <1>5 DEF SchedulerInv, AdmittedHold, Admitted
<1>12. Quiet'
  BY <1>5 DEF SchedulerInv, Quiet
<1> QED BY <1>6, <1>7, <1>8, <1>10, <1>11, <1>12 DEF SchedulerInv

\* The scan of dispatch_ready parks Ready tasks and, with t, admits one that can
\* take its permits.
LEMMA DispatchInv ==
  ASSUME SchedulerInv, NEW t \in TaskIds, Admissible(t), ~checkpoint_barrier, NEW parked,
         \A u \in parked : Parks(u),
         tstate' = [u \in TaskIds |-> IF u = t THEN "Running"
                                      ELSE IF u \in parked THEN "WaitResource" ELSE tstate[u]],
         holders' = holders \cup {t},
         UNCHANGED <<keys, next_task, checkpoint_barrier>>
  PROVE  SchedulerInv'
<1>1. \A u \in TaskIds : tstate'[u] = IF u = t THEN "Running"
                             ELSE IF u \in parked THEN "WaitResource" ELSE tstate[u]
  OBVIOUS
<1>2. \A u \in parked : tstate[u] = "Ready" /\ u \notin holders
  BY DEF Parks, can_acquire
<1>3. Ids'
  BY DEF SchedulerInv, Ids, TaskStates
<1>4. Allocated'
  BY <1>1, <1>2 DEF SchedulerInv, Allocated, Admissible
<1>5. HoldersAlive'
  BY <1>1, <1>2 DEF SchedulerInv, Ids, HoldersAlive, Inert, Terminal
<1>6. Exclusive'
  <2>1. \A h \in holders : h # t => ~Clash(keys[t], keys[h])
    BY DEF SchedulerInv, Exclusive, Admissible, can_acquire, compatible
  <2> QED BY <2>1, ClashSymmetric DEF SchedulerInv, Exclusive
<1>7. AdmittedHold'
  BY <1>1 DEF SchedulerInv, AdmittedHold, Admitted
<1>8. Quiet'
  BY DEF Quiet
<1> QED BY <1>3, <1>4, <1>5, <1>6, <1>7, <1>8 DEF SchedulerInv

\* dispatch_ready that admits nobody only parks Ready tasks.
LEMMA ParkInv ==
  ASSUME SchedulerInv, NEW parked, \A u \in parked : Parks(u),
         tstate' = [u \in TaskIds |-> IF u \in parked THEN "WaitResource" ELSE tstate[u]],
         UNCHANGED <<holders, keys, next_task, checkpoint_barrier>>
  PROVE  SchedulerInv'
<1>1. \A u \in TaskIds : tstate'[u] = IF u \in parked THEN "WaitResource" ELSE tstate[u]
  OBVIOUS
<1>2. \A u \in parked : tstate[u] = "Ready" /\ u \notin holders
  BY DEF Parks, can_acquire
<1>3. Ids'
  BY DEF SchedulerInv, Ids, TaskStates
<1>4. Allocated'
  BY <1>1, <1>2 DEF SchedulerInv, Allocated
<1>5. HoldersAlive'
  BY <1>1, <1>2 DEF SchedulerInv, Ids, HoldersAlive
<1>6. Exclusive'
  BY DEF SchedulerInv, Exclusive
<1>7. AdmittedHold'
  BY <1>1 DEF SchedulerInv, AdmittedHold, Admitted
<1>8. Quiet'
  BY <1>1 DEF SchedulerInv, Quiet
<1> QED BY <1>3, <1>4, <1>5, <1>6, <1>7, <1>8 DEF SchedulerInv

-----------------------------------------------------------------------------
\* StartGroup is an instance of SpawnInv in which the caller waits for the scope.
LEMMA StartGroupInv ==
  ASSUME SchedulerInv, NEW p \in TaskIds \cup {NoTask}, NEW pol, NEW lim, NEW ser,
         NEW jobs \in JobLists, NEW unresolved,
         StartGroup(p, pol, lim, ser, jobs, unresolved)
  PROVE  SchedulerInv'
<1>1. Len(jobs) \in Nat
  BY DEF JobLists
<1>2. next_task' = next_task + Len(jobs)
  BY DEF StartGroup, spawn_in_scope
<1>3. \A t \in TaskIds : t < next_task => keys'[t] = keys[t]
  <2>1. keys' = [t \in TaskIds |->
                   IF t \notin next_task .. (next_task + Len(jobs) - 1) THEN keys[t]
                   ELSE IF (t - next_task + 1) \in unresolved THEN {} ELSE jobs[t - next_task + 1]]
    BY Zenon DEF StartGroup, spawn_in_scope
  <2>2. \A t \in TaskIds : t < next_task => t \notin next_task .. (next_task + Len(jobs) - 1)
    BY <1>1, SchedulerConstants DEF TaskIds, SchedulerInv, Ids
  <2> QED BY <2>1, <2>2
<1>4. tstate' = [t \in TaskIds |-> IF t \in next_task .. (next_task' - 1) THEN "Ready"
                                   ELSE IF t = p THEN "WaitScope" ELSE tstate[t]]
  BY DEF StartGroup, Born
<1>5. p \in TaskIds => tstate[p] = "Running"
  <2>1. p # NoTask => Acts(p)
    BY Zenon DEF StartGroup
  <2>2. NoTask \notin TaskIds
    BY SchedulerConstants DEF NoTask, TaskIds
  <2> QED BY <2>1, <2>2 DEF Acts, Running
<1>6. UNCHANGED <<holders, checkpoint_barrier>>
  BY DEF StartGroup
<1> QED BY <1>1, <1>2, <1>3, <1>4, <1>5, <1>6, SpawnInv

\* Start is an instance of SpawnInv in which the caller keeps running.
LEMMA StartInv ==
  ASSUME SchedulerInv, NEW p \in TaskIds, NEW job, NEW unresolved, NEW index,
         Start(p, job, unresolved, index)
  PROVE  SchedulerInv'
<1>1. next_task' = next_task + 1
  BY DEF Start, spawn_in_scope
<1>2. \A t \in TaskIds : t < next_task => keys'[t] = keys[t]
  <2>1. keys' = [t \in TaskIds |->
                   IF t \notin next_task .. (next_task + Len(<<job>>) - 1) THEN keys[t]
                   ELSE IF (t - next_task + 1) \in unresolved THEN {}
                   ELSE <<job>>[t - next_task + 1]]
    BY Zenon DEF Start, spawn_in_scope
  <2>2. Len(<<job>>) = 1
    OBVIOUS
  <2>3. \A t \in TaskIds : t < next_task => t \notin next_task .. (next_task + Len(<<job>>) - 1)
    BY <2>2, SchedulerConstants DEF TaskIds, SchedulerInv, Ids
  <2> QED BY <2>1, <2>3
<1>3. NoTask \notin TaskIds
  BY SchedulerConstants DEF NoTask, TaskIds
<1>4. tstate' = [t \in TaskIds |-> IF t \in next_task .. (next_task' - 1) THEN "Ready"
                                   ELSE IF t = NoTask THEN "Running" ELSE tstate[t]]
  BY <1>3 DEF Start, Born
<1>5. UNCHANGED <<holders, checkpoint_barrier>>
  BY DEF Start
<1> QED BY <1>1, <1>2, <1>3, <1>4, <1>5, SpawnInv

\* Every step keeps the invariant.
LEMMA NextInv == SchedulerInv /\ [Next]_vars => SchedulerInv'
<1> SUFFICES ASSUME SchedulerInv, [Next]_vars PROVE SchedulerInv'
  OBVIOUS
<1>1. ASSUME NEW p \in TaskIds \cup {NoTask}, NEW pol, NEW lim, NEW ser,
             NEW jobs \in JobLists, NEW u, StartGroup(p, pol, lim, ser, jobs, u)
      PROVE  SchedulerInv'
  BY <1>1, StartGroupInv
<1>2. ASSUME NEW p \in TaskIds, NEW job, NEW u, NEW i, Start(p, job, u, i) PROVE SchedulerInv'
  BY <1>2, StartInv
<1>3. ASSUME NEW n, Dispatch(n) PROVE SchedulerInv'
  <2>1. /\ ready[n] \in TaskIds /\ Admissible(ready[n]) /\ ~checkpoint_barrier
        /\ \A u \in Scan(n - 1).parked : Parks(u)
    BY <1>3 DEF Dispatch, Admissible, admission_open, Scan
  <2>2. /\ tstate' = [u \in TaskIds |-> IF u = ready[n] THEN "Running"
                        ELSE IF u \in Scan(n - 1).parked THEN "WaitResource" ELSE tstate[u]]
        /\ holders' = holders \cup {ready[n]}
        /\ UNCHANGED <<keys, next_task, checkpoint_barrier>>
    BY <1>3 DEF Dispatch, taskShape
  <2> QED BY <2>1, <2>2, DispatchInv
<1>4. CASE DispatchNone
  <2>1. \A u \in Scan(Len(ready)).parked : Parks(u)
    BY DEF Scan
  <2>2. /\ tstate' = [u \in TaskIds |-> IF u \in Scan(Len(ready)).parked THEN "WaitResource"
                                         ELSE tstate[u]]
        /\ UNCHANGED <<holders, keys, next_task, checkpoint_barrier>>
    BY <1>4 DEF DispatchNone, taskShape
  <2> QED BY <2>1, <2>2, ParkInv
<1>5. ASSUME NEW t \in TaskIds,
             NEW st \in {"Ready", "WaitTask", "WaitScope", "WaitHost", "WaitCpu"},
             NEW keep, Yields(t, st, keep)
      PROVE  SchedulerInv'
  <2>1. /\ tstate[t] \in Admitted /\ tstate' = [tstate EXCEPT ![t] = st]
        /\ UNCHANGED <<holders, keys, next_task, checkpoint_barrier>>
    BY <1>5 DEF Yields, Acts, Running, Admitted, taskShape
  <2> QED BY <2>1, MoveInv
<1>6. ASSUME NEW t \in TaskIds, wake_from_host(t) PROVE SchedulerInv'
  <2>1. /\ tstate[t] \in Admitted /\ tstate' = [tstate EXCEPT ![t] = "Ready"]
        /\ UNCHANGED <<holders, keys, next_task, checkpoint_barrier>>
    BY <1>6 DEF wake_from_host, Admitted, taskShape
  <2> QED BY <2>1, MoveInv
<1>7. ASSUME NEW t \in TaskIds, NEW out \in Terminal, settle(t, out), tstate[t] \notin Inert
      PROVE  SchedulerInv'
  <2>1. \E win, prim : terminal(t, out, win, prim)
    BY <1>7 DEF settle
  <2> QED BY <2>1, <1>7, TerminalInv
<1>8. CASE CancelNext
  <2> DEFINE t == Head(cancelling)
  <2>1. CASE tstate[t] \in Inert \cup {"WaitHost"}
    <3>1. UNCHANGED <<tstate, holders, keys, next_task, checkpoint_barrier>>
      BY <1>8, <2>1 DEF CancelNext, taskShape
    <3> QED BY <3>1 DEF SchedulerInv, Ids, Allocated, HoldersAlive, Exclusive, AdmittedHold, Quiet
  <2>2. CASE tstate[t] \notin Inert \cup {"WaitHost"}
    <3>1. terminal(t, "Cancelled", winner, primary)
      BY <1>8, <2>2 DEF CancelNext
    <3>2. "Cancelled" \in Terminal
      BY DEF Terminal
    <3> QED BY <2>2, <3>1, <3>2, TerminalInv
  <2> QED BY <2>1, <2>2
<1>9. ASSUME UNCHANGED <<tstate, holders, keys, next_task>>,
             checkpoint_barrier' => checkpoint_barrier \/ Idle
      PROVE  SchedulerInv'
  BY <1>9 DEF SchedulerInv, Ids, Allocated, HoldersAlive, Exclusive, AdmittedHold, Quiet, Idle
<1>10. CASE cancel_unsettled \/ begin_checkpoint_barrier \/ end_checkpoint_barrier \/ UNCHANGED vars
  <2>1. CASE cancel_unsettled
    BY <1>9, <2>1 DEF cancel_unsettled, taskVars
  <2>2. CASE begin_checkpoint_barrier
    BY <1>9, <2>2 DEF begin_checkpoint_barrier, taskVars
  <2>3. CASE end_checkpoint_barrier
    BY <1>9, <2>3 DEF end_checkpoint_barrier, taskVars
  <2>4. CASE UNCHANGED vars
    BY <1>9, <2>4 DEF vars, taskVars, schedVars
  <2> QED BY <1>10, <2>1, <2>2, <2>3, <2>4
<1>11. ASSUME NEW t \in TaskIds, TaskStep(t) PROVE SchedulerInv'
  <2>1. ASSUME NEW out \in Terminal, Finish(t, out) PROVE SchedulerInv'
    BY <2>1, <1>7 DEF Finish, Running, Inert, Terminal
  <2>2. requeue(t) => SchedulerInv'
    BY <1>5 DEF requeue
  <2>3. ASSUME NEW u, await_task(t, u) PROVE SchedulerInv'
    BY <2>3, <1>5 DEF await_task
  <2>4. wait_for_host(t) => SchedulerInv'
    BY <1>5 DEF wait_for_host
  <2>5. wait_for_cpu(t) => SchedulerInv'
    BY <1>5 DEF wait_for_cpu
  <2> QED BY <1>1, <1>2, <1>11, <2>1, <2>2, <2>3, <2>4, <2>5 DEF TaskStep
<1>12. CASE Coordinator
  <2>1. ASSUME NEW t \in TaskIds, NEW out \in Terminal, CpuFinish(t, out) PROVE SchedulerInv'
    BY <2>1, <1>7 DEF CpuFinish, Inert, Terminal
  <2>2. ASSUME NEW t \in TaskIds, NativeCancelled(t) PROVE SchedulerInv'
    BY <2>2, <1>7 DEF NativeCancelled, Inert, Terminal
  <2> QED BY <1>1, <1>3, <1>4, <1>6, <1>8, <1>10, <1>12, <2>1, <2>2 DEF Coordinator
<1> QED BY <1>10, <1>11, <1>12 DEF Next

-----------------------------------------------------------------------------
\* The invariant holds in every reachable state of every instance.
THEOREM SchedulerInvariant == Spec => []SchedulerInv
  BY InitInv, NextInv, PTL DEF Spec

\* Two tasks never hold conflicting permits, and whatever has been admitted holds
\* its own: acquisition in dispatch_ready, the hand-over in terminal and
\* cancellation preserve this for any number of tasks and any keys.
THEOREM PermitsAreExclusive == Spec => []PermitExclusion
<1>1. SchedulerInv => PermitExclusion
  BY DEF SchedulerInv, Exclusive, AdmittedHold, Admitted, PermitExclusion
<1> QED BY <1>1, SchedulerInvariant, PTL

\* Creating tasks leaves settled tasks alone.
LEMMA SpawnFinal ==
  ASSUME SchedulerInv, NEW p, NEW n \in Nat, next_task' = next_task + n,
         p \in TaskIds => tstate[p] \notin Terminal, NEW st,
         tstate' = [t \in TaskIds |-> IF t \in next_task .. (next_task' - 1) THEN "Ready"
                                      ELSE IF t = p THEN st ELSE tstate[t]],
         NEW t \in TaskIds, tstate[t] \in Terminal
  PROVE  tstate'[t] = tstate[t]
<1>1. next_task \in Nat /\ next_task' \in Nat /\ t \in Int
  BY SchedulerConstants DEF SchedulerInv, Ids, TaskIds
<1>2. ~(t >= next_task)
  BY DEF SchedulerInv, Allocated, Terminal
<1>3. t \notin next_task .. (next_task' - 1)
  BY <1>1, <1>2
<1> QED BY <1>3

\* What a step may do to the state of a task: a settled task does not move, and
\* behind the barrier nothing is created and nothing starts to run.
LEMMA StepEffect ==
  ASSUME SchedulerInv, [Next]_vars
  PROVE  /\ \A t \in TaskIds : tstate[t] \in Terminal => tstate'[t] = tstate[t]
         /\ checkpoint_barrier =>
              /\ next_task' = next_task
              /\ \A t \in TaskIds : tstate'[t] = "Running" => tstate[t] = "Running"
<1> DEFINE Final == \A t \in TaskIds : tstate[t] \in Terminal => tstate'[t] = tstate[t]
           Barred == checkpoint_barrier =>
                       /\ next_task' = next_task
                       /\ \A t \in TaskIds : tstate'[t] = "Running" => tstate[t] = "Running"
<1>0. NoTask \notin TaskIds
  BY SchedulerConstants DEF NoTask, TaskIds
<1>1. ASSUME NEW p \in TaskIds \cup {NoTask}, NEW pol, NEW lim, NEW ser,
             NEW jobs \in JobLists, NEW u, StartGroup(p, pol, lim, ser, jobs, u)
      PROVE  Final /\ Barred
  <2>1. Caller(p)
    BY <1>1, Zenon DEF StartGroup
  <2>2. ~checkpoint_barrier /\ (p \in TaskIds => tstate[p] = "Running")
    BY <1>0, <2>1 DEF Caller, Running, SchedulerInv, Quiet
  <2>3. tstate' = [t \in TaskIds |-> IF t \in next_task .. (next_task' - 1) THEN "Ready"
                                   ELSE IF t = p THEN "WaitScope" ELSE tstate[t]]
    BY <1>1 DEF StartGroup, Born
  <2>4. next_task' = next_task + Len(jobs) /\ Len(jobs) \in Nat
    BY <1>1 DEF StartGroup, spawn_in_scope, JobLists
  <2>5. p \in TaskIds => tstate[p] \notin Terminal
    BY <2>2 DEF Terminal
  <2> QED BY <2>2, <2>3, <2>4, <2>5, SpawnFinal
<1>2. ASSUME NEW p \in TaskIds, NEW job, NEW u, NEW i, Start(p, job, u, i) PROVE Final /\ Barred
  <2>1. ~checkpoint_barrier
    BY <1>2 DEF Start, Acts, Running, SchedulerInv, Quiet
  <2>2. tstate' = [t \in TaskIds |-> IF t \in next_task .. (next_task' - 1) THEN "Ready"
                                     ELSE IF t = NoTask THEN "Running" ELSE tstate[t]]
    BY <1>0, <1>2 DEF Start, Born
  <2>3. next_task' = next_task + 1
    BY <1>2 DEF Start, spawn_in_scope
  <2> QED BY <1>0, <2>1, <2>2, <2>3, SpawnFinal
<1>3. ASSUME NEW n, Dispatch(n) PROVE Final /\ Barred
  <2>1. /\ tstate[ready[n]] = "Ready" /\ ~checkpoint_barrier
        /\ \A u \in Scan(n - 1).parked : tstate[u] = "Ready"
    BY <1>3 DEF Dispatch, Admissible, admission_open, Scan, Parks
  <2>2. \A t \in TaskIds : tstate'[t] = IF t = ready[n] THEN "Running"
                             ELSE IF t \in Scan(n - 1).parked THEN "WaitResource" ELSE tstate[t]
    BY <1>3 DEF Dispatch
  <2> QED BY <2>1, <2>2 DEF Terminal
<1>4. ASSUME DispatchNone PROVE Final /\ Barred
  <2>1. /\ ~checkpoint_barrier
        /\ \A u \in Scan(Len(ready)).parked : tstate[u] = "Ready"
    BY <1>4 DEF DispatchNone, admission_open, Scan, Parks
  <2>2. \A t \in TaskIds : tstate'[t] = IF t \in Scan(Len(ready)).parked THEN "WaitResource"
                                         ELSE tstate[t]
    BY <1>4 DEF DispatchNone
  <2> QED BY <2>1, <2>2 DEF Terminal
<1>5. ASSUME NEW t \in TaskIds, tstate[t] \notin Terminal,
             NEW st \in {"Ready", "WaitTask", "WaitScope", "WaitHost", "WaitCpu"},
             tstate' = [tstate EXCEPT ![t] = st], next_task' = next_task
      PROVE  Final /\ Barred
  BY <1>5 DEF SchedulerInv, Ids
<1>6. ASSUME NEW t, NEW out \in Terminal, NEW win, NEW prim, terminal(t, out, win, prim),
             t \in TaskIds => tstate[t] \notin Terminal
      PROVE  Final /\ Barred
  <2>1. /\ \A u \in TaskIds : u = t => tstate'[u] = out
        /\ \A u \in TaskIds : u # t /\ tstate'[u] # tstate[u] =>
              tstate'[u] = "Ready" /\ tstate[u] \in {"WaitResource", "WaitTask", "WaitScope"}
        /\ next_task' = next_task
    <3>1. PICK G \in SUBSET TaskIds : Settlement(t, out, G)
      BY <1>6, TerminalEffect DEF SchedulerInv
    <3> QED BY <3>1 DEF Settlement
  <2> QED BY <1>6, <2>1 DEF Terminal
<1>7. ASSUME UNCHANGED <<tstate, next_task>> PROVE Final /\ Barred
  BY <1>7
<1> HIDE DEF Final, Barred
<1>8. ASSUME NEW t \in TaskIds, NEW out \in Terminal, settle(t, out), tstate[t] \notin Terminal
      PROVE  Final /\ Barred
  BY <1>6, <1>8 DEF settle
<1>9. ASSUME CancelNext PROVE Final /\ Barred
  <2> DEFINE t == Head(cancelling)
  <2>1. CASE tstate[t] \in Inert \cup {"WaitHost"}
    BY <1>7, <1>9, <2>1 DEF CancelNext, taskShape
  <2>2. CASE tstate[t] \notin Inert \cup {"WaitHost"}
    <3>1. terminal(t, "Cancelled", winner, primary)
      BY <1>9, <2>2 DEF CancelNext
    <3>2. "Cancelled" \in Terminal /\ tstate[t] \notin Terminal
      BY <2>2 DEF Terminal, Inert
    <3> QED BY <1>6, <3>1, <3>2
  <2> QED BY <2>1, <2>2
<1>10. ASSUME NEW t \in TaskIds,
              NEW st \in {"Ready", "WaitTask", "WaitScope", "WaitHost", "WaitCpu"},
              NEW keep, Yields(t, st, keep)
      PROVE  Final /\ Barred
  BY <1>5, <1>10 DEF Yields, Acts, Running, Terminal, taskShape
<1>11. ASSUME NEW t \in TaskIds, TaskStep(t) PROVE Final /\ Barred
  <2>1. ASSUME NEW out \in Terminal, Finish(t, out) PROVE Final /\ Barred
    BY <2>1, <1>8 DEF Finish, Running, Terminal
  <2>2. requeue(t) => Final /\ Barred
    BY <1>10 DEF requeue
  <2>3. ASSUME NEW u, await_task(t, u) PROVE Final /\ Barred
    BY <2>3, <1>10 DEF await_task
  <2>4. wait_for_host(t) => Final /\ Barred
    BY <1>10 DEF wait_for_host
  <2>5. wait_for_cpu(t) => Final /\ Barred
    BY <1>10 DEF wait_for_cpu
  <2> QED BY <1>1, <1>2, <1>11, <2>1, <2>2, <2>3, <2>4, <2>5 DEF TaskStep
<1>12. ASSUME Coordinator PROVE Final /\ Barred
  <2>1. ASSUME NEW t \in TaskIds, wake_from_host(t) PROVE Final /\ Barred
    BY <2>1, <1>5 DEF wake_from_host, Terminal, taskShape
  <2>2. ASSUME NEW t \in TaskIds, NEW out \in Terminal, CpuFinish(t, out) PROVE Final /\ Barred
    BY <2>2, <1>8 DEF CpuFinish, Terminal
  <2>6. ASSUME NEW t \in TaskIds, NativeCancelled(t) PROVE Final /\ Barred
    BY <2>6, <1>8 DEF NativeCancelled, Terminal
  <2>3. cancel_unsettled => Final /\ Barred
    BY <1>7 DEF cancel_unsettled, taskVars
  <2>4. begin_checkpoint_barrier => Final /\ Barred
    BY <1>7 DEF begin_checkpoint_barrier, taskVars
  <2>5. end_checkpoint_barrier => Final /\ Barred
    BY <1>7 DEF end_checkpoint_barrier, taskVars
  <2> QED BY <1>1, <1>3, <1>4, <1>9, <1>12, <2>1, <2>2, <2>3, <2>4, <2>5, <2>6
          DEF Coordinator
<1>13. UNCHANGED vars => Final /\ Barred
  BY <1>7 DEF vars, taskVars, schedVars
<1>14. Final /\ Barred
  BY <1>11, <1>12, <1>13 DEF Next
<1> QED BY <1>14 DEF Final, Barred

\* No step changes the outcome of a task that has settled, whatever completes,
\* wakes or is cancelled afterwards.
THEOREM SettledForGood == Spec => OutcomesAreFinal
<1>1. SchedulerInv /\ [Next]_vars =>
        [\A t \in TaskIds : tstate[t] \in Terminal => tstate'[t] = tstate[t]]_vars
  BY StepEffect
<1> QED BY <1>1, SchedulerInvariant, PTL DEF Spec, OutcomesAreFinal

\* Between begin_checkpoint_barrier and end_checkpoint_barrier no task is created
\* and none starts to run, so what is captured does not move.
THEOREM BarrierIsTight == Spec => BarrierHolds
<1>1. SchedulerInv /\ [Next]_vars =>
        [checkpoint_barrier =>
           /\ next_task' = next_task
           /\ \A t \in TaskIds : tstate'[t] = "Running" => tstate[t] = "Running"]_vars
  BY StepEffect
<1> QED BY <1>1, SchedulerInvariant, PTL DEF Spec, BarrierHolds

-----------------------------------------------------------------------------
(***************************************************************************)
(* What the queues and counters of the scheduler hold, for every number of *)
(* tasks, scopes and keys and every limit.                                 *)
(*                                                                         *)
(* QueueInv says what each queue lists: the ready queue every Ready task   *)
(* once (ReadyListed), the permit queue the parked tasks, each blocked by  *)
(* a holder (ParkedListed), the waiters of a task or a scope those that    *)
(* wait for it while it is alive (AwaitListed, JoinListed).  An entry may  *)
(* outlive its task, which cancellation settles where it waits.  SlotInv   *)
(* adds that a task with a slot holds its permits, so that the task a      *)
(* settlement makes Ready again is charged nothing twice.  FailureInv says *)
(* which failure a scope reports.  ConcurrencyInv bounds the counters.     *)
(*                                                                         *)
(* Then every step is put into one of three forms: it starts tasks         *)
(* (Grows), settles one (Ends) or does neither (Steady).  From them follow *)
(* how many outcomes a task has not taken yet (InboxInv), who a scope's    *)
(* callback and winner are (RolesInv), and that the outcome of a scope     *)
(* without live tasks is final.                                            *)
(*                                                                         *)
(* That Retain lists the entries wanted, once each, follows from the       *)
(* lemmas of QueueProofs.                                                  *)
(***************************************************************************)

-----------------------------------------------------------------------------
\* Queues.  Lists(q, S): q holds the tasks of S, each once.
Lists(q, S) ==
  /\ q \in Seq(TaskIds) /\ Entries(q) = S
  /\ \A i, j \in 1..Len(q) : q[i] = q[j] => i = j

\* A task that is not listed is appended.
LEMMA AppendLists ==
  ASSUME NEW q, NEW Q, Lists(q, Q), NEW t \in TaskIds, t \notin Q PROVE Lists(Append(q, t), Q \cup {t})
<1>1. PICK n \in Nat : n = Len(q)
  BY DEF Lists
<1>2. PICK r : r = Append(q, t)
  OBVIOUS
<1>3. q \in Seq(TaskIds)
  BY DEF Lists
<1>4. r \in Seq(TaskIds) /\ Len(r) = n + 1 /\ r[n + 1] = t /\ \A i \in 1..n : r[i] = q[i]
  BY <1>1, <1>2, <1>3
<1>5. \A i \in 1..n : q[i] \in Q
  BY <1>1 DEF Lists, Entries
<1>6. \A i \in 1..(n + 1) : i \in 1..n \/ i = n + 1
  BY <1>1
<1>7. \A i, j \in 1..Len(r) : r[i] = r[j] => i = j
  BY <1>1, <1>4, <1>5, <1>6 DEF Lists
<1>8. Entries(r) = Q \cup {t}
  <2>1. \A x \in Entries(r) : x \in Q \cup {t}
    BY <1>1, <1>4, <1>5, <1>6 DEF Entries
  <2>2. \A x \in Q : x \in Entries(r)
    <3> SUFFICES ASSUME NEW x \in Q PROVE x \in Entries(r)
      OBVIOUS
    <3>1. PICK i \in 1..n : x = q[i]
      BY <1>1 DEF Lists, Entries
    <3>2. i \in 1..(n + 1) /\ r[i] = x
      BY <1>4, <3>1
    <3> QED BY <1>4, <3>2 DEF Entries
  <2>3. t \in Entries(r)
    <3>1. n + 1 \in 1..(n + 1)
      OBVIOUS
    <3> QED BY <1>4, <3>1 DEF Entries
  <2> QED BY <2>1, <2>2, <2>3
<1> QED BY <1>2, <1>4, <1>7, <1>8 DEF Lists

\* Retain lists the entries that are in S, each once.
LEMMA RetainLists ==
  ASSUME NEW q, NEW Q, Lists(q, Q), NEW S PROVE Lists(Retain(q, S), Q \cap S)
<1>1. q \in Seq(TaskIds) /\ Len(q) \in Nat
  BY DEF Lists
<1>2. PICK f : Keeps(f, q, S, Len(q)) /\ Retain(q, S) = f[Len(q)]
  BY <1>1, RetainValue
<1>3. \A i \in 0..Len(q) :
        f[i] = IF i = 0 THEN <<>> ELSE IF q[i] \in S THEN Append(f[i - 1], q[i]) ELSE f[i - 1]
  BY <1>2 DEF Keeps
<1> DEFINE seen(n) == {q[i] : i \in 1..n} \cap S
           T == {n \in 0..Len(q) : ~Lists(f[n], seen(n))}
<1>4. T = {}
  <2> SUFFICES ASSUME T # {} PROVE FALSE
    OBVIOUS
  <2>1. PICK n \in T : \A k \in T : n <= k
    <3>1. T \in SUBSET Nat
      BY <1>1
    <3> QED BY <3>1, LeastNat
  <2>2. n \in 0..Len(q) /\ n \in Nat
    BY <1>1
  <2>3. CASE n = 0
    <3>1. f[0] = <<>> /\ seen(0) = {}
      BY <1>1, <1>3
    <3>2. Lists(<<>>, {})
      BY DEF Lists, Entries
    <3> QED BY <2>1, <2>3, <3>1, <3>2
  <2>4. CASE n # 0
    <3>1. n - 1 \in 0..Len(q) /\ n - 1 \notin T /\ n \in 1..Len(q)
      <4> HIDE DEF T
      <4>1. n - 1 \in 0..Len(q) /\ n \in 1..Len(q)
        BY <1>1, <2>2, <2>4
      <4>2. ~(n <= n - 1)
        BY <2>2
      <4> QED BY <2>1, <4>1, <4>2
    <3>2. PICK r, R : r = f[n - 1] /\ R = seen(n - 1) /\ Lists(r, R)
      BY <3>1
    <3>3. q[n] \notin R /\ q[n] \in TaskIds
      <4>1. \A i \in 1..(n - 1) : q[i] # q[n]
        BY <1>1, <2>2, <3>1 DEF Lists
      <4> QED BY <1>1, <3>1, <3>2, <4>1
    <3>4. seen(n) = IF q[n] \in S THEN R \cup {q[n]} ELSE R
      <4>1. 1..n = 1..(n - 1) \cup {n}
        BY <2>2, <2>4
      <4> QED BY <3>2, <4>1
    <3>5. f[n] = IF q[n] \in S THEN Append(r, q[n]) ELSE r
      BY <1>3, <2>2, <2>4, <3>2
    <3>6. Lists(Append(r, q[n]), R \cup {q[n]})
      BY <3>2, <3>3, AppendLists
    <3> HIDE DEF seen
    <3>7. Lists(f[n], seen(n))
      BY <3>2, <3>4, <3>5, <3>6
    <3> QED BY <2>1, <3>7
  <2> QED BY <2>3, <2>4
<1>5. Lists(f[Len(q)], seen(Len(q)))
  <2>1. Len(q) \in 0..Len(q)
    BY <1>1
  <2>2. Len(q) \notin T
    <3> HIDE DEF T
    <3> QED BY <1>4
  <2> HIDE DEF seen
  <2> QED BY <2>1, <2>2
<1>6. seen(Len(q)) = Q \cap S
  BY DEF Lists, Entries
<1> QED BY <1>2, <1>5, <1>6

\* Two queues without a common entry.
LEMMA ConcatLists ==
  ASSUME NEW q, NEW Q, Lists(q, Q), NEW r, NEW R, Lists(r, R), Q \cap R = {} PROVE Lists(q \o r, Q \cup R)
<1>1. PICK n \in Nat, m \in Nat : n = Len(q) /\ m = Len(r)
  BY DEF Lists
<1>2. q \in Seq(TaskIds) /\ r \in Seq(TaskIds)
  BY DEF Lists
<1>3. PICK x : x = q \o r
  OBVIOUS
<1>4. /\ x \in Seq(TaskIds) /\ Len(x) = n + m
      /\ \A i \in 1..n : x[i] = q[i]
      /\ \A i \in 1..(n + m) : ~(i <= n) => i - n \in 1..m /\ x[i] = r[i - n]
  BY <1>1, <1>2, <1>3
<1>5. (\A i \in 1..n : q[i] \in Q) /\ (\A i \in 1..m : r[i] \in R)
  BY <1>1 DEF Lists, Entries
<1>6. /\ \A i, j \in 1..n : q[i] = q[j] => i = j
      /\ \A i, j \in 1..m : r[i] = r[j] => i = j
  BY <1>1 DEF Lists
<1>7. ASSUME NEW i \in 1..(n + m), NEW j \in 1..(n + m), x[i] = x[j] PROVE i = j
  <2>1. CASE i <= n /\ j <= n
    <3>1. i \in 1..n /\ j \in 1..n
      BY <2>1
    <3> QED BY <1>4, <1>6, <1>7, <3>1
  <2>2. CASE ~(i <= n) /\ ~(j <= n)
    <3>1. i - n \in 1..m /\ j - n \in 1..m /\ r[i - n] = r[j - n]
      BY <1>4, <1>7, <2>2
    <3>2. i - n = j - n
      BY <1>6, <3>1
    <3> QED BY <3>2
  <2>3. CASE i <= n /\ ~(j <= n)
    <3>1. x[i] \in Q /\ x[j] \in R
      BY <1>4, <1>5, <2>3
    <3> QED BY <1>7, <3>1
  <2>4. CASE ~(i <= n) /\ j <= n
    <3>1. x[i] \in R /\ x[j] \in Q
      BY <1>4, <1>5, <2>4
    <3> QED BY <1>7, <3>1
  <2> QED BY <2>1, <2>2, <2>3, <2>4
<1>8. ASSUME NEW y \in Entries(x) PROVE y \in Q \cup R
  <2>1. PICK i \in 1..(n + m) : y = x[i]
    BY <1>4 DEF Entries
  <2>2. CASE i <= n
    BY <1>4, <1>5, <2>1, <2>2
  <2>3. CASE ~(i <= n)
    BY <1>4, <1>5, <2>1, <2>3
  <2> QED BY <2>2, <2>3
<1>9. ASSUME NEW y \in Q PROVE y \in Entries(x)
  <2>1. PICK i \in 1..n : y = q[i]
    BY <1>1 DEF Lists, Entries
  <2>2. i \in 1..Len(x) /\ x[i] = y
    BY <1>4, <2>1
  <2> QED BY <2>2 DEF Entries
<1>10. ASSUME NEW y \in R PROVE y \in Entries(x)
  <2>1. PICK i \in 1..m : y = r[i]
    BY <1>1 DEF Lists, Entries
  <2>2. n + i \in 1..(n + m) /\ ~(n + i <= n) /\ (n + i) - n = i
    OBVIOUS
  <2>3. n + i \in 1..Len(x) /\ x[n + i] = y
    BY <1>4, <2>1, <2>2
  <2> QED BY <2>3 DEF Entries
<1> QED BY <1>3, <1>4, <1>7, <1>8, <1>9, <1>10 DEF Lists

\* What lies before and behind an entry.
LEMMA SplitLists ==
  ASSUME NEW q, NEW Q, Lists(q, Q), NEW n \in 1..Len(q)
  PROVE  \E A, B : /\ Lists(SubSeq(q, 1, n - 1), A) /\ Lists(SubSeq(q, n + 1, Len(q)), B)
                   /\ A \cup B = Q \ {q[n]} /\ A \cap B = {} /\ A = {q[i] : i \in 1..(n - 1)}
<1>1. PICK k \in Nat : k = Len(q)
  BY DEF Lists
<1>2. q \in Seq(TaskIds) /\ n \in 1..k /\ Q = {q[i] : i \in 1..k}
      /\ \A i, j \in 1..k : q[i] = q[j] => i = j
  BY <1>1 DEF Lists, Entries
<1>3. PICK a, b : a = SubSeq(q, 1, n - 1) /\ b = SubSeq(q, n + 1, k)
  OBVIOUS
<1>4. /\ a \in Seq(TaskIds) /\ Len(a) = n - 1 /\ \A i \in 1..(n - 1) : a[i] = q[i]
  BY <1>1, <1>2, <1>3
<1>5. /\ b \in Seq(TaskIds) /\ Len(b) = k - n /\ \A i \in 1..(k - n) : b[i] = q[n + i]
  BY <1>1, <1>2, <1>3
<1>6. PICK A, B : A = {q[i] : i \in 1..(n - 1)} /\ B = {q[n + i] : i \in 1..(k - n)}
  OBVIOUS
<1>7. Lists(a, A)
  <2>1. \A i, j \in 1..(n - 1) : a[i] = a[j] => i = j
    <3> SUFFICES ASSUME NEW i \in 1..(n - 1), NEW j \in 1..(n - 1), a[i] = a[j] PROVE i = j
      OBVIOUS
    <3>1. i \in 1..k /\ j \in 1..k
      BY <1>2
    <3> QED BY <1>2, <1>4, <3>1
  <2>2. Entries(a) = A
    BY <1>4, <1>6 DEF Entries
  <2> QED BY <1>4, <2>1, <2>2 DEF Lists
<1>8. Lists(b, B)
  <2>1. \A i, j \in 1..(k - n) : b[i] = b[j] => i = j
    <3> SUFFICES ASSUME NEW i \in 1..(k - n), NEW j \in 1..(k - n), b[i] = b[j] PROVE i = j
      OBVIOUS
    <3>1. n + i \in 1..k /\ n + j \in 1..k /\ q[n + i] = q[n + j]
      BY <1>2, <1>5
    <3>2. n + i = n + j
      BY <1>2, <3>1
    <3> QED BY <1>2, <3>2
  <2>2. Entries(b) = B
    BY <1>5, <1>6 DEF Entries
  <2> QED BY <1>5, <2>1, <2>2 DEF Lists
<1>9. A \cap B = {}
  <2> SUFFICES ASSUME NEW i \in 1..(n - 1), NEW j \in 1..(k - n), q[i] = q[n + j] PROVE FALSE
    BY <1>6
  <2>1. i \in 1..k /\ n + j \in 1..k /\ i # n + j
    BY <1>2
  <2> QED BY <1>2, <2>1
<1>10. ASSUME NEW x \in A \cup B PROVE x \in Q /\ x # q[n]
  <2>1. PICK i \in 1..k : x = q[i] /\ i # n
    <3>1. CASE x \in A
      <4>1. PICK i \in 1..(n - 1) : x = q[i]
        BY <1>6, <3>1
      <4>2. i \in 1..k /\ i # n
        BY <1>2
      <4> QED BY <4>1, <4>2
    <3>2. CASE x \in B
      <4>1. PICK i \in 1..(k - n) : x = q[n + i]
        BY <1>6, <3>2
      <4>2. n + i \in 1..k /\ n + i # n
        BY <1>2
      <4> QED BY <4>1, <4>2
    <3> QED BY <1>10, <3>1, <3>2
  <2> QED BY <1>2, <2>1
<1>11. ASSUME NEW x \in Q, x # q[n] PROVE x \in A \cup B
  <2>1. PICK i \in 1..k : x = q[i]
    BY <1>2
  <2>2. CASE i < n
    <3>1. i \in 1..(n - 1)
      BY <1>2, <2>2
    <3> QED BY <1>6, <2>1, <3>1
  <2>3. CASE i > n
    <3>1. i - n \in 1..(k - n) /\ n + (i - n) = i
      BY <1>2, <2>3
    <3> QED BY <1>6, <2>1, <3>1
  <2>4. i # n
    BY <1>11, <2>1
  <2> QED BY <1>2, <2>2, <2>3, <2>4
<1>12. A \cup B = Q \ {q[n]}
  BY <1>10, <1>11
<1> QED BY <1>1, <1>3, <1>6, <1>7, <1>8, <1>9, <1>12

\* A listed task occurs once.
LEMMA ListedOnce ==
  ASSUME NEW q, NEW Q, Lists(q, Q), NEW t \in Q PROVE Cardinality({i \in DOMAIN q : q[i] = t}) = 1
<1>1. DOMAIN q = 1..Len(q)
  BY DEF Lists
<1>2. PICK i \in 1..Len(q) : q[i] = t
  BY DEF Lists, Entries
<1>3. {j \in DOMAIN q : q[j] = t} = {i}
  BY <1>1, <1>2 DEF Lists
<1> QED BY <1>3, FS_Singleton

\* The empty queue, and that of one task.
LEMMA SmallLists == Lists(<<>>, {}) /\ \A t \in TaskIds : Lists(<<t>>, {t})
<1>1. Lists(<<>>, {})
  BY DEF Lists, Entries
<1>2. ASSUME NEW t \in TaskIds PROVE Lists(<<t>>, {t})
  <2>1. <<t>> \in Seq(TaskIds) /\ Len(<<t>>) = 1 /\ <<t>>[1] = t
    OBVIOUS
  <2>2. 1..1 = {1}
    OBVIOUS
  <2> QED BY <2>1, <2>2 DEF Lists, Entries
<1> QED BY <1>1, <1>2

-----------------------------------------------------------------------------
(***************************************************************************)
(* The inductive invariant: what each queue lists.                         *)
(***************************************************************************)
QueueTypes ==
  /\ target \in [TaskIds -> Int] /\ scopeOf \in [TaskIds -> ScopeIds]
  /\ policy \in [ScopeIds -> Policies] /\ owner \in [ScopeIds -> TaskIds \cup {NoTask}]
  /\ winner \in [ScopeIds -> TaskIds \cup {NoTask}] /\ primary \in [ScopeIds -> TaskIds \cup {NoTask}]
  /\ waiters \in [TaskIds -> Seq(TaskIds)] /\ swaiters \in [ScopeIds -> Seq(TaskIds)]
  /\ next_scope \in 1..MaxScopes /\ \A t \in TaskIds : scopeOf[t] < next_scope

\* Every Ready task is queued, and beside them only tasks that have settled.
ReadyListed ==
  /\ Lists(ready, Entries(ready))
  /\ \A t \in TaskIds : tstate[t] = "Ready" => t \in Entries(ready)
  /\ \A t \in Entries(ready) : tstate[t] \in Terminal \cup {"Ready"}

\* The permit queue lists the parked tasks, and a holder is in the way of each.
ParkedListed ==
  /\ Lists(waiting, {t \in TaskIds : tstate[t] = "WaitResource"})
  /\ \A t \in TaskIds : tstate[t] = "WaitResource" => \E h \in holders : Clash(keys[t], keys[h])

\* A task that waits for a task is registered there, and the task is alive; an
\* entry whose task does not wait there has settled.
AwaitListed ==
  /\ \A u \in TaskIds : Lists(waiters[u], Entries(waiters[u]))
  /\ \A u \in TaskIds : \A w \in Entries(waiters[u]) :
       tstate[w] \in Terminal \/ (tstate[w] = "WaitTask" /\ target[w] = u)
  /\ \A t \in TaskIds : tstate[t] = "WaitTask" =>
       target[t] \in TaskIds /\ tstate[target[t]] \notin Inert /\ t \in Entries(waiters[target[t]])

\* The same for scopes, one of whose members is alive.
JoinListed ==
  /\ \A s \in ScopeIds : Lists(swaiters[s], Entries(swaiters[s]))
  /\ \A s \in ScopeIds : \A w \in Entries(swaiters[s]) :
       tstate[w] \in Terminal \/ (tstate[w] = "WaitScope" /\ target[w] = s)
  /\ \A t \in TaskIds : tstate[t] = "WaitScope" =>
       /\ target[t] \in ScopeIds /\ t \in Entries(swaiters[target[t]])
       /\ \E u \in TaskIds : scopeOf[u] = target[t] /\ tstate[u] \notin Inert

QueueInv == QueueTypes /\ ReadyListed /\ ParkedListed /\ AwaitListed /\ JoinListed

\* The initial state satisfies the invariant.
LEMMA InitQueue == Init => QueueInv
<1> SUFFICES ASSUME Init PROVE QueueInv
  OBVIOUS
<1>0. \A t \in TaskIds : t \in Int
  BY SchedulerConstants DEF TaskIds
<1>1. Root \in ScopeIds /\ 1 \in 1..MaxScopes /\ NoTask \in Int
  BY SchedulerConstants DEF Root, ScopeIds, NoTask
<1>2. QueueTypes
  <2>1. <<>> \in Seq(TaskIds) /\ "Run" \in Policies /\ \A t \in TaskIds : Root < 1
    BY DEF Policies, Root
  <2> QED BY <1>1, <2>1 DEF Init, QueueTypes
<1>3. Entries(<<>>) = {}
  BY DEF Entries
<1>4. \A t \in TaskIds : tstate[t] = "Unborn"
  BY DEF Init
<1>5. ready = <<>> /\ waiting = <<>> /\ (\A t \in TaskIds : waiters[t] = <<>>) /\ (\A s \in ScopeIds : swaiters[s] = <<>>)
  BY DEF Init
<1>6. {t \in TaskIds : tstate[t] = "WaitResource"} = {}
  BY <1>4
<1>7. ReadyListed
  BY <1>3, <1>4, <1>5, SmallLists DEF ReadyListed
<1>8. ParkedListed
  BY <1>4, <1>5, <1>6, SmallLists DEF ParkedListed
<1>9. AwaitListed
  BY <1>3, <1>4, <1>5, SmallLists DEF AwaitListed
<1>10. JoinListed
  BY <1>3, <1>4, <1>5, SmallLists DEF JoinListed
<1> QED BY <1>2, <1>7, <1>8, <1>9, <1>10 DEF QueueInv

\* Whether a scope is pending depends on its members only.
PendingByMembers(s, st, win, prim) ==
  scope_outcome(s, st, win, prim) = "Pending" <=> \E t \in TaskIds : scopeOf[t] = s /\ st[t] \notin Inert

\* It holds of every outcome scope_outcome computes.
LEMMA OutcomePending ==
  ASSUME NEW s \in ScopeIds, NEW st \in [TaskIds -> TaskStates],
         NEW win \in TaskIds \cup {NoTask}, NEW prim \in TaskIds \cup {NoTask},
         policy[s] \in Policies, owner[s] \in TaskIds \cup {NoTask}
  PROVE  PendingByMembers(s, st, win, prim)
<1> SUFFICES scope_outcome(s, st, win, prim) = "Pending"
               <=> \E t \in TaskIds : scopeOf[t] = s /\ st[t] \notin Inert
  BY DEF PendingByMembers
<1> DEFINE kinds == {st[t] : t \in Members(s, st)}
<1>1. ~settled(kinds) <=> \E t \in TaskIds : scopeOf[t] = s /\ st[t] \notin Inert
  BY DEF settled, Members, Inert, Terminal
<1>2. \A t \in TaskIds : st[t] # "Pending"
  BY DEF TaskStates, Inert, Terminal
<1>3. joined(kinds) # "Pending"
  BY DEF joined
<1>4. CASE ~settled(kinds)
  BY <1>1, <1>4 DEF scope_outcome
<1>5. CASE settled(kinds)
  <2> DEFINE pk == IF prim = NoTask THEN "Error" ELSE st[prim]
  <2>1. pk # "Pending"
    BY <1>2
  <2>2. win # NoTask => st[win] # "Pending"
    BY <1>2
  <2>3. owner[s] # NoTask => st[owner[s]] # "Pending"
    BY <1>2
  <2>4. prim # NoTask => pk # "Pending"
    BY <2>1
  <2> HIDE DEF kinds, pk
  <2>5. scope_outcome(s, st, win, prim) =
        CASE policy[s] = "Run" ->
               IF prim # NoTask THEN pk
               ELSE IF owner[s] = NoTask THEN "Error" ELSE st[owner[s]]
          [] policy[s] = "Join" ->
               IF prim # NoTask THEN pk ELSE joined(kinds)
          [] policy[s] = "TryJoin" ->
               IF pk = "Raised" THEN "Completed"
               ELSE IF prim # NoTask THEN pk ELSE joined(kinds)
          [] policy[s] = "Collect" ->
               IF "Failed" \in kinds THEN "Failed"
               ELSE IF kinds \subseteq {"Completed", "Raised"} THEN "Completed"
               ELSE "Cancelled"
          [] policy[s] = "Race" ->
               IF win # NoTask THEN st[win]
               ELSE IF prim # NoTask THEN pk
               ELSE IF "Cancelled" \in kinds THEN "Cancelled" ELSE "Error"
    BY <1>5, Zenon DEF scope_outcome, kinds, pk
  <2>6. policy[s] \in {"Run", "Join", "TryJoin", "Collect", "Race"}
    BY DEF Policies
  <2>7. scope_outcome(s, st, win, prim) # "Pending"
    BY <1>3, <2>1, <2>2, <2>3, <2>5, <2>6
  <2> QED BY <1>1, <1>5, <2>7
<1> QED BY <1>4, <1>5

-----------------------------------------------------------------------------
(***************************************************************************)
(* What leaves a queue alone.                                              *)
(***************************************************************************)
\* Nothing settles, nothing that exists changes its scope or its keys.
Quietly ==
  \A u \in TaskIds :
    /\ tstate[u] \in Terminal => tstate'[u] \in Terminal
    /\ tstate[u] \notin Inert => tstate'[u] \notin Inert
    /\ tstate[u] # "Unborn" => scopeOf'[u] = scopeOf[u] /\ keys'[u] = keys[u]

\* The same tasks are in state st.
Same(st) == \A u \in TaskIds : tstate[u] = st <=> tstate'[u] = st

\* A queue lists tasks.
LEMMA ListsTasks == ASSUME NEW q, NEW Q, Lists(q, Q) PROVE Q \subseteq TaskIds
<1>1. q \in Seq(TaskIds) /\ Q = {q[i] : i \in 1..Len(q)}
  BY DEF Lists, Entries
<1> QED BY <1>1

\* The waiters of tasks are left alone.
LEMMA AwaitKept ==
  ASSUME AwaitListed, Quietly, Same("WaitTask"), waiters' = waiters,
         \A u \in TaskIds : tstate[u] = "WaitTask" => target'[u] = target[u]
  PROVE  AwaitListed'
<1>1. \A u \in TaskIds : Entries(waiters[u]) \subseteq TaskIds
  BY ListsTasks DEF AwaitListed
<1>2. \A u \in TaskIds : Lists(waiters'[u], Entries(waiters'[u]))
  BY DEF AwaitListed
<1>3. ASSUME NEW u \in TaskIds, NEW w \in Entries(waiters'[u])
      PROVE  tstate'[w] \in Terminal \/ (tstate'[w] = "WaitTask" /\ target'[w] = u)
  BY <1>1, <1>3 DEF AwaitListed, Quietly, Same
<1>4. ASSUME NEW t \in TaskIds, tstate'[t] = "WaitTask"
      PROVE  target'[t] \in TaskIds /\ tstate'[target'[t]] \notin Inert /\ t \in Entries(waiters'[target'[t]])
  BY <1>4 DEF AwaitListed, Quietly, Same
<1> QED BY <1>2, <1>3, <1>4 DEF AwaitListed

\* The waiters of scopes are left alone.
LEMMA JoinKept ==
  ASSUME JoinListed, Quietly, Same("WaitScope"), swaiters' = swaiters,
         \A u \in TaskIds : tstate[u] = "WaitScope" => target'[u] = target[u]
  PROVE  JoinListed'
<1>1. \A s \in ScopeIds : Entries(swaiters[s]) \subseteq TaskIds
  BY ListsTasks DEF JoinListed
<1>2. \A s \in ScopeIds : Lists(swaiters'[s], Entries(swaiters'[s]))
  BY DEF JoinListed
<1>3. ASSUME NEW s \in ScopeIds, NEW w \in Entries(swaiters'[s])
      PROVE  tstate'[w] \in Terminal \/ (tstate'[w] = "WaitScope" /\ target'[w] = s)
  BY <1>1, <1>3 DEF JoinListed, Quietly, Same
<1>4. ASSUME NEW t \in TaskIds, tstate'[t] = "WaitScope"
      PROVE  /\ target'[t] \in ScopeIds /\ t \in Entries(swaiters'[target'[t]])
             /\ \E u \in TaskIds : scopeOf'[u] = target'[t] /\ tstate'[u] \notin Inert
  <2>1. PICK u \in TaskIds : scopeOf[u] = target[t] /\ tstate[u] \notin Inert
    BY <1>4 DEF JoinListed, Same
  <2>2. scopeOf'[u] = target'[t] /\ tstate'[u] \notin Inert
    BY <1>4, <2>1 DEF Quietly, Same, Inert
  <2> QED BY <1>4, <2>2 DEF JoinListed, Same
<1> QED BY <1>2, <1>3, <1>4 DEF JoinListed

\* The permit queue is left alone.
LEMMA ParkedKept ==
  ASSUME SchedulerInv, ParkedListed, Quietly, Same("WaitResource"), waiting' = waiting,
         holders \subseteq holders'
  PROVE  ParkedListed'
<1>1. {t \in TaskIds : tstate'[t] = "WaitResource"} = {t \in TaskIds : tstate[t] = "WaitResource"}
  BY DEF Same
<1>2. \A h \in holders : h \in TaskIds /\ keys'[h] = keys[h]
  BY DEF SchedulerInv, Ids, HoldersAlive, Quietly, Inert
<1>3. ASSUME NEW t \in TaskIds, tstate'[t] = "WaitResource"
      PROVE  \E h \in holders' : Clash(keys'[t], keys'[h])
  <2>1. tstate[t] = "WaitResource" /\ keys'[t] = keys[t]
    BY <1>3 DEF Same, Quietly
  <2> QED BY <1>2, <2>1 DEF ParkedListed
<1> QED BY <1>1, <1>3 DEF ParkedListed

\* The ready queue is left alone.
LEMMA ReadyKept ==
  ASSUME ReadyListed, Quietly, Same("Ready"), ready' = ready PROVE ReadyListed'
<1>1. Entries(ready) \subseteq TaskIds
  BY ListsTasks DEF ReadyListed
<1> QED BY <1>1 DEF ReadyListed, Quietly, Same

\* One task becomes Ready and is queued.
LEMMA ReadyAppended ==
  ASSUME ReadyListed, NEW t \in TaskIds, tstate[t] \notin Terminal \cup {"Ready"}, ready' = Append(ready, t),
         \A u \in TaskIds : tstate'[u] = IF u = t THEN "Ready" ELSE tstate[u]
  PROVE  ReadyListed'
<1>1. Entries(ready) \subseteq TaskIds /\ t \notin Entries(ready) /\ Lists(ready, Entries(ready))
  BY ListsTasks DEF ReadyListed
<1>2. Lists(ready', Entries(ready) \cup {t})
  BY <1>1, AppendLists
<1>3. Entries(ready') = Entries(ready) \cup {t}
  BY <1>2 DEF Lists
<1> QED BY <1>1, <1>2, <1>3 DEF ReadyListed

-----------------------------------------------------------------------------
(***************************************************************************)
(* A task gives up its turn, or comes back from the Host.                  *)
(***************************************************************************)
\* The types when no task or scope is created.
LEMMA TypesKept ==
  ASSUME QueueTypes, UNCHANGED <<taskShape, scopeShape, winner, primary>>, target' \in [TaskIds -> Int],
         waiters' \in [TaskIds -> Seq(TaskIds)], swaiters' \in [ScopeIds -> Seq(TaskIds)]
  PROVE  QueueTypes'
  BY DEF QueueTypes, taskShape, scopeShape

\* The part of a move of one live task that all its queues rest on.
LEMMA MoveQuietly ==
  ASSUME SchedulerInv, NEW t \in TaskIds, tstate[t] \notin Inert, NEW st, st \notin Inert,
         tstate' = [tstate EXCEPT ![t] = st], UNCHANGED <<scopeOf, keys>>
  PROVE  Quietly /\ \A u \in TaskIds : tstate'[u] = IF u = t THEN st ELSE tstate[u]
<1>1. \A u \in TaskIds : tstate'[u] = IF u = t THEN st ELSE tstate[u]
  BY DEF SchedulerInv, Ids
<1> QED BY <1>1 DEF Quietly, Inert

\* requeue and wake_from_host: the task is Ready at the end of the queue.
LEMMA RequeueQueue ==
  ASSUME SchedulerInv, QueueInv, NEW t \in TaskIds, tstate[t] \in {"Running", "WaitHost"},
         tstate' = [tstate EXCEPT ![t] = "Ready"], ready' = Append(ready, t),
         UNCHANGED <<target, waiters, swaiters, waiting, holders, winner, primary, taskShape, scopeShape>>
  PROVE  QueueInv'
<1>1. UNCHANGED <<scopeOf, keys>>
  BY DEF taskShape
<1>2. Quietly /\ \A u \in TaskIds : tstate'[u] = IF u = t THEN "Ready" ELSE tstate[u]
  BY <1>1, MoveQuietly DEF Inert, Terminal
<1>3. Same("WaitTask") /\ Same("WaitScope") /\ Same("WaitResource")
  BY <1>2 DEF Same
<1>4. QueueTypes'
  BY TypesKept DEF QueueInv, QueueTypes
<1>5. ReadyListed'
  BY <1>2, ReadyAppended DEF QueueInv, Terminal
<1>6. ParkedListed'
  BY <1>2, <1>3, ParkedKept DEF QueueInv
<1>7. AwaitListed'
  BY <1>2, <1>3, AwaitKept DEF QueueInv
<1>8. JoinListed'
  BY <1>2, <1>3, JoinKept DEF QueueInv
<1> QED BY <1>4, <1>5, <1>6, <1>7, <1>8 DEF QueueInv

\* wait_for_host and wait_for_cpu: the task leaves every queue of the scheduler.
LEMMA LeaveQueue ==
  ASSUME SchedulerInv, QueueInv, NEW t \in TaskIds, tstate[t] = "Running", NEW st \in {"WaitHost", "WaitCpu"},
         tstate' = [tstate EXCEPT ![t] = st],
         UNCHANGED <<ready, target, waiters, swaiters, waiting, holders, winner, primary, taskShape, scopeShape>>
  PROVE  QueueInv'
<1>1. UNCHANGED <<scopeOf, keys>>
  BY DEF taskShape
<1>2. Quietly /\ \A u \in TaskIds : tstate'[u] = IF u = t THEN st ELSE tstate[u]
  BY <1>1, MoveQuietly DEF Inert, Terminal
<1>3. Same("WaitTask") /\ Same("WaitScope") /\ Same("WaitResource") /\ Same("Ready")
  BY <1>2 DEF Same
<1>4. QueueTypes'
  BY TypesKept DEF QueueInv, QueueTypes
<1>5. ReadyListed'
  BY <1>2, <1>3, ReadyKept DEF QueueInv
<1>6. ParkedListed'
  BY <1>2, <1>3, ParkedKept DEF QueueInv
<1>7. AwaitListed'
  BY <1>2, <1>3, AwaitKept DEF QueueInv
<1>8. JoinListed'
  BY <1>2, <1>3, JoinKept DEF QueueInv
<1> QED BY <1>4, <1>5, <1>6, <1>7, <1>8 DEF QueueInv

\* await_task: the task is registered on a live task.
LEMMA AwaitQueue ==
  ASSUME SchedulerInv, QueueInv, NEW t \in TaskIds, tstate[t] = "Running", NEW u \in TaskIds, u # t,
         tstate[u] \notin Inert, tstate' = [tstate EXCEPT ![t] = "WaitTask"],
         target' = [target EXCEPT ![t] = u], waiters' = [waiters EXCEPT ![u] = Append(@, t)],
         UNCHANGED <<ready, swaiters, waiting, holders, winner, primary, taskShape, scopeShape>>
  PROVE  QueueInv'
<1>0. u \in Int /\ target \in [TaskIds -> Int] /\ waiters \in [TaskIds -> Seq(TaskIds)]
  <2>1. u \in Int
    BY SchedulerConstants DEF TaskIds
  <2>2. target \in [TaskIds -> Int] /\ waiters \in [TaskIds -> Seq(TaskIds)]
    BY DEF QueueInv, QueueTypes
  <2> QED BY <2>1, <2>2
<1>1. UNCHANGED <<scopeOf, keys>>
  BY DEF taskShape
<1>2. Quietly /\ \A v \in TaskIds : tstate'[v] = IF v = t THEN "WaitTask" ELSE tstate[v]
  BY <1>1, MoveQuietly DEF Inert, Terminal
<1>3. Same("WaitScope") /\ Same("WaitResource") /\ Same("Ready")
  BY <1>2 DEF Same
<1>4. QueueTypes'
  <2>1. waiters' \in [TaskIds -> Seq(TaskIds)] /\ target' \in [TaskIds -> Int]
    BY <1>0
  <2> QED BY <2>1, TypesKept DEF QueueInv, QueueTypes
<1>5. ReadyListed'
  BY <1>2, <1>3, ReadyKept DEF QueueInv
<1>6. ParkedListed'
  BY <1>2, <1>3, ParkedKept DEF QueueInv
<1>7. \A v \in TaskIds : target'[v] = IF v = t THEN u ELSE target[v]
  BY <1>0
<1>8. JoinListed'
  BY <1>2, <1>3, <1>7, JoinKept DEF QueueInv
<1>9. AwaitListed'
  <2> USE DEF QueueInv
  <2>1. \A v \in TaskIds : Lists(waiters[v], Entries(waiters[v])) /\ Entries(waiters[v]) \subseteq TaskIds
    BY ListsTasks DEF AwaitListed
  <2>2. t \notin Entries(waiters[u])
    BY DEF AwaitListed, Terminal
  <2>3. Lists(Append(waiters[u], t), Entries(waiters[u]) \cup {t})
    BY <2>1, <2>2, AppendLists
  <2>4. \A v \in TaskIds : waiters'[v] = IF v = u THEN Append(waiters[u], t) ELSE waiters[v]
    BY <1>0
  <2>5. \A v \in TaskIds : Entries(waiters'[v]) = IF v = u THEN Entries(waiters[u]) \cup {t} ELSE Entries(waiters[v])
    <3>1. Entries(Append(waiters[u], t)) = Entries(waiters[u]) \cup {t}
      BY <2>3 DEF Lists
    <3> SUFFICES ASSUME NEW v \in TaskIds
                 PROVE  Entries(waiters'[v]) = IF v = u THEN Entries(waiters[u]) \cup {t} ELSE Entries(waiters[v])
      OBVIOUS
    <3>2. CASE v = u
      <4>1. waiters'[v] = Append(waiters[u], t)
        BY <2>4, <3>2
      <4> QED BY <3>1, <3>2, <4>1
    <3>3. CASE v # u
      <4>1. waiters'[v] = waiters[v]
        BY <2>4, <3>3
      <4> QED BY <3>3, <4>1
    <3> QED BY <3>2, <3>3
  <2>6. \A v \in TaskIds : Lists(waiters'[v], Entries(waiters'[v]))
    BY <2>1, <2>3, <2>4, <2>5
  <2>7. ASSUME NEW v \in TaskIds, NEW w \in Entries(waiters'[v])
        PROVE  tstate'[w] \in Terminal \/ (tstate'[w] = "WaitTask" /\ target'[w] = v)
    <3>1. CASE w = t
      <4>1. v = u
        BY <2>5, <2>7, <3>1 DEF AwaitListed, Terminal
      <4> QED BY <1>2, <1>7, <3>1, <4>1
    <3>2. CASE w # t
      <4>1. w \in Entries(waiters[v])
        BY <2>5, <2>7, <3>2
      <4>2. w \in TaskIds
        BY <2>1, <4>1
      <4> QED BY <1>2, <1>7, <3>2, <4>1, <4>2 DEF AwaitListed
    <3> QED BY <3>1, <3>2
  <2>8. ASSUME NEW v \in TaskIds, tstate'[v] = "WaitTask"
        PROVE  target'[v] \in TaskIds /\ tstate'[target'[v]] \notin Inert /\ v \in Entries(waiters'[target'[v]])
    <3>1. CASE v = t
      BY <1>2, <1>7, <2>5, <3>1
    <3>2. CASE v # t
      <4>1. tstate[v] = "WaitTask" /\ target'[v] = target[v]
        BY <1>2, <1>7, <2>8, <3>2
      <4>2. target[v] \in TaskIds /\ tstate[target[v]] \notin Inert /\ v \in Entries(waiters[target[v]])
        BY <4>1 DEF AwaitListed
      <4> QED BY <1>2, <2>5, <4>1, <4>2 DEF Quietly
    <3> QED BY <3>1, <3>2
  <2> QED BY <2>6, <2>7, <2>8 DEF AwaitListed
<1> QED BY <1>4, <1>5, <1>6, <1>8, <1>9 DEF QueueInv

\* Nothing moves.
LEMMA StillQueue ==
  ASSUME QueueInv, UNCHANGED <<tstate, ready, target, waiters, swaiters, waiting, holders, winner, primary,
                               taskShape, scopeShape>>
  PROVE  QueueInv'
<1>1. UNCHANGED <<scopeOf, keys>>
  BY DEF taskShape
<1>2. QueueTypes'
  BY TypesKept DEF QueueInv, QueueTypes
<1>3. ReadyListed'
  BY DEF QueueInv, ReadyListed
<1>4. ParkedListed'
  BY <1>1 DEF QueueInv, ParkedListed
<1>5. AwaitListed'
  BY DEF QueueInv, AwaitListed
<1>6. JoinListed'
  BY <1>1 DEF QueueInv, JoinListed
<1> QED BY <1>2, <1>3, <1>4, <1>5, <1>6 DEF QueueInv

-----------------------------------------------------------------------------
(***************************************************************************)
(* Tasks are created.                                                      *)
(***************************************************************************)
\* The handles of n new tasks, in the order in which they are queued.
LEMMA BornLists ==
  ASSUME NEW b \in Nat, NEW n \in Nat, b + n <= MaxTasks
  PROVE  Lists([i \in 1..n |-> b + i - 1], b .. (b + n - 1))
<1>1. PICK e : e = [i \in 1..n |-> b + i - 1]
  OBVIOUS
<1>2. MaxTasks \in Nat
  BY SchedulerConstants
<1>3. \A i \in 1..n : e[i] = b + i - 1 /\ b + i - 1 \in TaskIds
  BY <1>1, <1>2 DEF TaskIds
<1>4. e \in Seq(TaskIds) /\ Len(e) = n
  <2>1. e \in [1..n -> TaskIds]
    BY <1>1, <1>3
  <2> QED BY <2>1
<1>5. \A i, j \in 1..Len(e) : e[i] = e[j] => i = j
  BY <1>3, <1>4
<1>6. Entries(e) = b .. (b + n - 1)
  <2>1. ASSUME NEW x \in Entries(e) PROVE x \in b .. (b + n - 1)
    BY <1>3, <1>4, <2>1 DEF Entries
  <2>2. ASSUME NEW x \in b .. (b + n - 1) PROVE x \in Entries(e)
    <3>1. x - b + 1 \in 1..n /\ b + (x - b + 1) - 1 = x
      OBVIOUS
    <3> QED BY <1>3, <1>4, <3>1 DEF Entries
  <2> QED BY <2>1, <2>2
<1> QED BY <1>1, <1>4, <1>5, <1>6 DEF Lists

\* spawn_in_scope: the tasks from next_task to next_task' - 1 are Ready and queued
\* in scope sc; the caller p goes on, or waits in state st.
Spawned(p, st, sc, n) ==
  /\ next_task' = next_task + n /\ next_task + n <= MaxTasks
  /\ p \in TaskIds => tstate[p] = "Running"
  /\ tstate' = [t \in TaskIds |-> IF t \in next_task .. (next_task' - 1) THEN "Ready"
                                  ELSE IF t = p THEN st ELSE tstate[t]]
  /\ scopeOf' = [t \in TaskIds |-> IF t \in next_task .. (next_task + n - 1) THEN sc ELSE scopeOf[t]]
  /\ \A t \in TaskIds : t < next_task => keys'[t] = keys[t]
  /\ ready' = ready \o [i \in 1..n |-> next_task + i - 1]
  /\ UNCHANGED <<waiters, waiting, holders>>

\* Its effect on the tasks, born being the new ones.
NewTasks(born, p, st, sc, n) ==
  /\ born = next_task .. (next_task + n - 1)
  /\ \A t \in born : tstate[t] = "Unborn"
  /\ \A t \in TaskIds : tstate'[t] = IF t \in born THEN "Ready" ELSE IF t = p THEN st ELSE tstate[t]
  /\ \A t \in TaskIds : scopeOf'[t] = IF t \in born THEN sc ELSE scopeOf[t]
  /\ Quietly

\* spawn_in_scope has that effect.
LEMMA SpawnEffect ==
  ASSUME SchedulerInv, NEW p, NEW st \in {"Running", "WaitScope"}, NEW sc, NEW n \in Nat, Spawned(p, st, sc, n)
  PROVE  \E born \in SUBSET TaskIds : NewTasks(born, p, st, sc, n)
<1>1. PICK born : born = next_task .. (next_task + n - 1)
  OBVIOUS
<1>2. next_task \in Nat /\ MaxTasks \in Nat /\ next_task' = next_task + n /\ next_task + n <= MaxTasks
  BY SchedulerConstants DEF SchedulerInv, Ids, Spawned
<1>3. born \in SUBSET TaskIds
  BY <1>1, <1>2 DEF TaskIds
<1>4. \A t \in born : tstate[t] = "Unborn"
  BY <1>1, <1>2, <1>3 DEF SchedulerInv, Allocated
<1>5. born = next_task .. (next_task' - 1)
  BY <1>1, <1>2
<1>6. \A t \in TaskIds : tstate'[t] = IF t \in born THEN "Ready" ELSE IF t = p THEN st ELSE tstate[t]
  BY <1>5 DEF Spawned
<1>7. \A t \in TaskIds : scopeOf'[t] = IF t \in born THEN sc ELSE scopeOf[t]
  BY <1>1 DEF Spawned
<1>8. \A t \in TaskIds : tstate[t] # "Unborn" => t < next_task
  BY <1>2, SchedulerConstants DEF TaskIds, SchedulerInv, Allocated
<1>9. ASSUME NEW u \in TaskIds PROVE
        /\ tstate[u] \in Terminal => tstate'[u] \in Terminal
        /\ tstate[u] \notin Inert => tstate'[u] \notin Inert
        /\ tstate[u] # "Unborn" => scopeOf'[u] = scopeOf[u] /\ keys'[u] = keys[u]
  <2>1. tstate[u] # "Unborn" => u \notin born /\ keys'[u] = keys[u]
    BY <1>4, <1>8 DEF Spawned
  <2>2. u = p => tstate[u] = "Running"
    BY DEF Spawned
  <2> QED BY <1>6, <1>7, <2>1, <2>2 DEF Inert, Terminal
<1>10. Quietly
  BY <1>9 DEF Quietly
<1> QED BY <1>1, <1>3, <1>4, <1>6, <1>7, <1>10 DEF NewTasks

\* Its effect on the ready queue and on the permit queue.
LEMMA SpawnQueues ==
  ASSUME SchedulerInv, QueueInv, NEW p, NEW st \in {"Running", "WaitScope"}, NEW sc, NEW n \in Nat,
         Spawned(p, st, sc, n)
  PROVE  ReadyListed' /\ ParkedListed'
<1>1. PICK born \in SUBSET TaskIds : NewTasks(born, p, st, sc, n)
  BY SpawnEffect
<1> USE DEF NewTasks
<1>2. \A t \in TaskIds : t = p => tstate[t] = "Running"
  BY DEF Spawned
<1>3. Same("WaitResource")
  BY <1>1, <1>2 DEF Same
<1>4. ParkedListed'
  BY <1>1, <1>3, ParkedKept DEF QueueInv, Spawned
<1>5. Lists(ready, Entries(ready)) /\ Entries(ready) \subseteq TaskIds
  BY ListsTasks DEF QueueInv, ReadyListed
<1>6. Entries(ready) \cap born = {}
  BY <1>1 DEF QueueInv, ReadyListed, Terminal
<1>7. Lists(ready', Entries(ready) \cup born)
  <2>1. next_task \in Nat /\ next_task + n <= MaxTasks /\ ready' = ready \o [i \in 1..n |-> next_task + i - 1]
    BY DEF SchedulerInv, Ids, Spawned
  <2>2. Lists([i \in 1..n |-> next_task + i - 1], born)
    BY <1>1, <2>1, BornLists
  <2> QED BY <1>5, <1>6, <2>1, <2>2, ConcatLists
<1>8. Entries(ready') = Entries(ready) \cup born
  BY <1>7 DEF Lists
<1>9. ASSUME NEW t \in TaskIds, tstate'[t] = "Ready" PROVE t \in Entries(ready')
  BY <1>1, <1>8, <1>9 DEF QueueInv, ReadyListed
<1>10. ASSUME NEW t \in Entries(ready') PROVE tstate'[t] \in Terminal \cup {"Ready"}
  <2>1. CASE t \in born
    BY <1>1, <2>1
  <2>2. CASE t \in Entries(ready)
    <3>1. t \in TaskIds /\ tstate[t] \in Terminal \cup {"Ready"} /\ t \notin born
      BY <1>5, <1>6, <2>2 DEF QueueInv, ReadyListed
    <3>2. t # p
      BY <1>2, <3>1 DEF Terminal
    <3> QED BY <1>1, <3>1, <3>2
  <2> QED BY <1>8, <1>10, <2>1, <2>2
<1> QED BY <1>4, <1>7, <1>8, <1>9, <1>10 DEF ReadyListed

\* std.task.start: one task in the scope of its caller.
LEMMA StartSpawns ==
  ASSUME SchedulerInv, NEW p \in TaskIds, NEW job, NEW unresolved, NEW index, Start(p, job, unresolved, index)
  PROVE  Spawned(p, "Running", scopeOf[p], 1)
<1>0. Len(<<job>>) = 1
  OBVIOUS
<1>1. /\ next_task' = next_task + 1 /\ next_task + 1 <= MaxTasks
      /\ scopeOf' = [t \in TaskIds |-> IF t \in next_task .. (next_task + 1 - 1) THEN scopeOf[p] ELSE scopeOf[t]]
      /\ ready' = ready \o [i \in 1..1 |-> next_task + i - 1]
  BY <1>0 DEF Start, spawn_in_scope
<1>2. tstate[p] = "Running"
  BY DEF Start, Acts, Running
<1>3. tstate' = [t \in TaskIds |-> IF t \in next_task .. (next_task' - 1) THEN "Ready"
                                   ELSE IF t = p THEN "Running" ELSE tstate[t]]
  BY <1>2 DEF Start, Born
<1>4. \A t \in TaskIds : t < next_task => keys'[t] = keys[t]
  <2>1. \A t \in TaskIds : t \notin next_task .. (next_task + Len(<<job>>) - 1) => keys'[t] = keys[t]
    BY DEF Start, spawn_in_scope
  <2>2. \A t \in TaskIds : t < next_task => t \notin next_task .. (next_task + 1 - 1)
    BY SchedulerConstants DEF TaskIds, SchedulerInv, Ids
  <2> QED BY <1>0, <2>1, <2>2
<1>5. UNCHANGED <<waiters, waiting, holders>>
  BY DEF Start
<1> QED BY <1>1, <1>2, <1>3, <1>4, <1>5 DEF Spawned

\* Start: one more task in the scope of the caller.
LEMMA StartQueue ==
  ASSUME SchedulerInv, QueueInv, NEW p \in TaskIds, NEW job, NEW unresolved, NEW index,
         Start(p, job, unresolved, index)
  PROVE  QueueInv'
<1>1. Spawned(p, "Running", scopeOf[p], 1)
  BY StartSpawns
<1>2. PICK born \in SUBSET TaskIds : NewTasks(born, p, "Running", scopeOf[p], 1)
  BY <1>1, SpawnEffect
<1> USE DEF NewTasks
<1>3. UNCHANGED <<target, waiters, policy, owner, winner, primary, swaiters, next_scope>>
  BY DEF Start
<1>4. tstate[p] = "Running"
  BY DEF Start, Acts, Running
<1>5. Same("WaitTask") /\ Same("WaitScope")
  BY <1>2, <1>4 DEF Same
<1>6. ReadyListed' /\ ParkedListed'
  BY <1>1, SpawnQueues
<1>7. AwaitListed'
  BY <1>2, <1>3, <1>5, AwaitKept DEF QueueInv
<1>8. JoinListed'
  BY <1>2, <1>3, <1>5, JoinKept DEF QueueInv
<1>9. QueueTypes'
  <2>1. \A t \in TaskIds : scopeOf'[t] \in ScopeIds /\ scopeOf'[t] < next_scope
    BY <1>2 DEF QueueInv, QueueTypes
  <2>2. scopeOf' \in [TaskIds -> ScopeIds]
    <3>1. scopeOf' = [t \in TaskIds |-> scopeOf'[t]]
      BY <1>1 DEF Spawned
    <3> QED BY <2>1, <3>1
  <2> QED BY <1>3, <2>1, <2>2 DEF QueueInv, QueueTypes
<1> QED BY <1>6, <1>7, <1>8, <1>9 DEF QueueInv

\* std.task.run and the group combinators: tasks in a new scope.
LEMMA GroupSpawns ==
  ASSUME SchedulerInv, QueueInv, NEW p \in TaskIds \cup {NoTask}, NEW pol, NEW lim, NEW ser,
         NEW jobs \in JobLists, NEW unresolved, StartGroup(p, pol, lim, ser, jobs, unresolved)
  PROVE  next_scope \in ScopeIds /\ \E n \in Nat : n # 0 /\ Spawned(p, "WaitScope", next_scope, n)
<1>0. NoTask \notin TaskIds /\ \A t \in TaskIds : t \in Int
  BY SchedulerConstants DEF NoTask, TaskIds
<1>1. PICK n \in Nat : n = Len(jobs) /\ n # 0
  <2>1. PICK m \in 1..MaxGroup : jobs \in [1..m -> KeySets]
    BY DEF JobLists
  <2>2. Len(jobs) = m /\ m \in Nat /\ m # 0
    BY <2>1, SchedulerConstants
  <2> QED BY <2>2
<1>2. PICK s \in ScopeIds : s = next_scope
  <2>1. next_scope < MaxScopes
    BY Zenon DEF StartGroup
  <2> QED BY <2>1, SchedulerConstants DEF QueueInv, QueueTypes, ScopeIds
<1>3. p \in TaskIds => tstate[p] = "Running"
  <2>1. p # NoTask => Acts(p)
    BY Zenon DEF StartGroup
  <2> QED BY <1>0, <2>1 DEF Acts, Running
<1>4. Spawned(p, "WaitScope", s, n)
  <2>1. /\ next_task' = next_task + n /\ next_task + n <= MaxTasks
        /\ scopeOf' = [t \in TaskIds |-> IF t \in next_task .. (next_task + n - 1) THEN s ELSE scopeOf[t]]
        /\ ready' = ready \o [i \in 1..n |-> next_task + i - 1]
    BY <1>1, <1>2 DEF StartGroup, spawn_in_scope
  <2>3. tstate' = [t \in TaskIds |-> IF t \in next_task .. (next_task' - 1) THEN "Ready"
                                     ELSE IF t = p THEN "WaitScope" ELSE tstate[t]]
    BY DEF StartGroup, Born
  <2>4. \A t \in TaskIds : t < next_task => keys'[t] = keys[t]
    <3>1. keys' = [t \in TaskIds |->
                     IF t \notin next_task .. (next_task + Len(jobs) - 1) THEN keys[t]
                     ELSE IF (t - next_task + 1) \in unresolved THEN {} ELSE jobs[t - next_task + 1]]
      BY Zenon DEF StartGroup, spawn_in_scope
    <3>2. \A t \in TaskIds : t < next_task => t \notin next_task .. (next_task + n - 1)
      BY SchedulerConstants DEF TaskIds, SchedulerInv, Ids
    <3> QED BY <1>1, <3>1, <3>2
  <2>5. UNCHANGED <<waiters, waiting, holders>>
    BY DEF StartGroup
  <2> QED BY <1>3, <2>1, <2>3, <2>4, <2>5 DEF Spawned
<1> QED BY <1>1, <1>2, <1>4

\* StartGroup: the tasks of a new scope; a caller that is a task waits for it.
LEMMA StartGroupQueue ==
  ASSUME SchedulerInv, QueueInv, NEW p \in TaskIds \cup {NoTask}, NEW pol \in GroupPolicies, NEW lim, NEW ser,
         NEW jobs \in JobLists, NEW unresolved, StartGroup(p, pol, lim, ser, jobs, unresolved)
  PROVE  QueueInv'
<1>0. NoTask \notin TaskIds /\ \A t \in TaskIds : t \in Int
  BY SchedulerConstants DEF NoTask, TaskIds
<1>1. PICK n \in Nat : n # 0 /\ Spawned(p, "WaitScope", next_scope, n)
  BY GroupSpawns
<1>2. PICK s \in ScopeIds : s = next_scope
  BY GroupSpawns
<1>3. p \in TaskIds => tstate[p] = "Running"
  <2>1. p # NoTask => Acts(p)
    BY Zenon DEF StartGroup
  <2> QED BY <1>0, <2>1 DEF Acts, Running
<1>4. Spawned(p, "WaitScope", s, n)
  BY <1>1, <1>2
<1>5. PICK born \in SUBSET TaskIds : NewTasks(born, p, "WaitScope", s, n)
  BY <1>4, SpawnEffect
<1> USE DEF NewTasks
<1>6. next_task \in born
  BY <1>1, <1>5 DEF SchedulerInv, Ids
<1>7. UNCHANGED <<waiters, winner, primary>>
  BY DEF StartGroup
<1>8. /\ next_scope' = s + 1 /\ policy' = [policy EXCEPT ![s] = pol]
      /\ owner' = [owner EXCEPT ![s] = IF pol = "Run" THEN next_task ELSE NoTask]
      /\ target' = [t \in TaskIds |-> IF t = p THEN s ELSE target[t]]
      /\ swaiters' = [swaiters EXCEPT ![s] = IF p # NoTask THEN <<p>> ELSE <<>>]
  BY <1>2, Zenon DEF StartGroup
<1>9. ReadyListed' /\ ParkedListed'
  BY <1>4, SpawnQueues
<1>10. /\ \A t \in TaskIds : target'[t] = IF t = p THEN s ELSE target[t]
       /\ swaiters \in [ScopeIds -> Seq(TaskIds)]
       /\ \A x \in ScopeIds : x # s => swaiters'[x] = swaiters[x]
       /\ p \in TaskIds => swaiters'[s] = <<p>>
       /\ p \notin TaskIds => swaiters'[s] = <<>>
  BY <1>0, <1>8 DEF QueueInv, QueueTypes
<1>11. Same("WaitTask")
  BY <1>3, <1>5 DEF Same
<1>12. AwaitListed'
  BY <1>3, <1>5, <1>7, <1>10, <1>11, AwaitKept DEF QueueInv
<1>13. QueueTypes'
  <2>0. s \in 1..MaxScopes /\ s + 1 \in 1..MaxScopes /\ s \in Int
    <3>1. next_scope < MaxScopes
      BY Zenon DEF StartGroup
    <3> QED BY <1>2, <3>1, SchedulerConstants DEF QueueInv, QueueTypes
  <2>1. \A t \in TaskIds : scopeOf'[t] \in ScopeIds /\ scopeOf'[t] < s + 1
    <3> SUFFICES ASSUME NEW t \in TaskIds PROVE scopeOf'[t] \in ScopeIds /\ scopeOf'[t] < s + 1
      OBVIOUS
    <3>1. CASE t \in born
      BY <1>5, <2>0, <3>1
    <3>2. CASE t \notin born
      <4>1. scopeOf'[t] = scopeOf[t] /\ scopeOf[t] \in ScopeIds /\ scopeOf[t] < s
        BY <1>2, <1>5, <3>2 DEF QueueInv, QueueTypes
      <4> QED BY <2>0, <4>1, SchedulerConstants DEF ScopeIds
    <3> QED BY <3>1, <3>2
  <2>2. scopeOf' \in [TaskIds -> ScopeIds]
    <3>1. scopeOf' = [t \in TaskIds |-> scopeOf'[t]]
      BY <1>4 DEF Spawned
    <3> QED BY <2>1, <3>1
  <2>3. policy' \in [ScopeIds -> Policies]
    <3>1. pol \in Policies
      BY SchedulerConstants DEF Policies
    <3> QED BY <1>8, <3>1 DEF QueueInv, QueueTypes
  <2>4. owner' \in [ScopeIds -> TaskIds \cup {NoTask}]
    BY <1>5, <1>6, <1>8 DEF QueueInv, QueueTypes
  <2>5. target' \in [TaskIds -> Int]
    BY <1>8, <2>0 DEF QueueInv, QueueTypes
  <2>6. swaiters' \in [ScopeIds -> Seq(TaskIds)]
    <3>1. (IF p # NoTask THEN <<p>> ELSE <<>>) \in Seq(TaskIds)
      BY <1>0
    <3> QED BY <1>8, <1>10, <3>1
  <2> QED BY <1>7, <1>8, <2>0, <2>1, <2>2, <2>3, <2>4, <2>5, <2>6 DEF QueueInv, QueueTypes
<1>14. JoinListed'
  <2> USE DEF QueueInv
  <2>1. \A x \in ScopeIds : Lists(swaiters[x], Entries(swaiters[x])) /\ Entries(swaiters[x]) \subseteq TaskIds
    BY ListsTasks DEF JoinListed
  <2>2. Lists(swaiters'[s], {t \in TaskIds : t = p})
    <3>1. CASE p \in TaskIds
      <4>1. {t \in TaskIds : t = p} = {p}
        BY <3>1
      <4> QED BY <1>10, <3>1, <4>1, SmallLists
    <3>2. CASE p \notin TaskIds
      <4>1. {t \in TaskIds : t = p} = {}
        BY <3>2
      <4> QED BY <1>10, <3>2, <4>1, SmallLists
    <3> QED BY <3>1, <3>2
  <2>3. Entries(swaiters'[s]) = {t \in TaskIds : t = p}
    BY <2>2 DEF Lists
  <2>4. \A x \in ScopeIds : Lists(swaiters'[x], Entries(swaiters'[x]))
    <3> SUFFICES ASSUME NEW x \in ScopeIds PROVE Lists(swaiters'[x], Entries(swaiters'[x]))
      OBVIOUS
    <3>1. CASE x = s
      BY <2>2, <2>3, <3>1
    <3>2. CASE x # s
      <4>1. swaiters'[x] = swaiters[x]
        BY <1>10, <3>2
      <4> QED BY <2>1, <4>1
    <3> QED BY <3>1, <3>2
  <2>5. ASSUME NEW x \in ScopeIds, NEW w \in Entries(swaiters'[x])
        PROVE  tstate'[w] \in Terminal \/ (tstate'[w] = "WaitScope" /\ target'[w] = x)
    <3>1. CASE x = s
      <4>1. w = p /\ w \in TaskIds
        BY <2>3, <2>5, <3>1
      <4>2. w \notin born
        BY <1>3, <1>5, <4>1
      <4> QED BY <1>5, <1>10, <3>1, <4>1, <4>2
    <3>2. CASE x # s
      <4>1. swaiters'[x] = swaiters[x]
        BY <1>10, <3>2
      <4>2. w \in Entries(swaiters[x]) /\ w \in TaskIds
        BY <2>1, <2>5, <4>1
      <4>3. tstate[w] \in Terminal \/ (tstate[w] = "WaitScope" /\ target[w] = x)
        BY <4>2 DEF JoinListed
      <4>4. w # p /\ w \notin born
        BY <1>3, <1>5, <4>2, <4>3 DEF Terminal
      <4> QED BY <1>5, <1>10, <4>2, <4>3, <4>4
    <3> QED BY <3>1, <3>2
  <2>6. ASSUME NEW t \in TaskIds, tstate'[t] = "WaitScope"
        PROVE  /\ target'[t] \in ScopeIds /\ t \in Entries(swaiters'[target'[t]])
               /\ \E u \in TaskIds : scopeOf'[u] = target'[t] /\ tstate'[u] \notin Inert
    <3>1. CASE t = p
      <4>1. target'[t] = s /\ t \in Entries(swaiters'[s])
        BY <1>10, <2>3, <3>1
      <4>2. next_task \in TaskIds /\ scopeOf'[next_task] = s /\ tstate'[next_task] = "Ready"
        BY <1>5, <1>6
      <4> QED BY <4>1, <4>2 DEF Inert, Terminal
    <3>2. CASE t # p
      <4>1. tstate[t] = "WaitScope" /\ target'[t] = target[t]
        BY <1>5, <1>10, <2>6, <3>2
      <4>2. target[t] \in ScopeIds /\ t \in Entries(swaiters[target[t]])
        BY <4>1 DEF JoinListed
      <4>3. PICK u \in TaskIds : scopeOf[u] = target[t] /\ tstate[u] \notin Inert
        BY <4>1 DEF JoinListed
      <4>4. target[t] # s
        <5>1. scopeOf[u] < s /\ s \in Int
          BY <1>2, SchedulerConstants DEF QueueTypes, ScopeIds
        <5> QED BY <4>3, <5>1
      <4>5. swaiters'[target[t]] = swaiters[target[t]]
        BY <1>10, <4>2, <4>4
      <4>6. scopeOf'[u] = target[t] /\ tstate'[u] \notin Inert
        BY <1>5, <4>3 DEF Quietly, Inert
      <4> QED BY <4>1, <4>2, <4>5, <4>6
    <3> QED BY <3>1, <3>2
  <2> QED BY <2>4, <2>5, <2>6 DEF JoinListed
<1> QED BY <1>9, <1>12, <1>13, <1>14 DEF QueueInv

-----------------------------------------------------------------------------
(***************************************************************************)
(* dispatch_ready                                                          *)
(***************************************************************************)
\* The scan of the first m entries, which list A: those without room stay, those
\* whose permits are taken are parked behind the ones that wait already.
LEMMA ScanLists ==
  ASSUME QueueInv, NEW m, NEW A, Lists(SubSeq(ready, 1, m), A), A \subseteq Entries(ready)
  PROVE  /\ Scan(m).parked = {t \in A : Parks(t)}
         /\ Lists(Scan(m).ready, {t \in A : Blocked(t)})
         /\ Lists(Scan(m).queue, {t \in TaskIds : tstate[t] = "WaitResource"} \cup {t \in A : Parks(t)})
<1> DEFINE prefix == SubSeq(ready, 1, m)
           W == {t \in TaskIds : tstate[t] = "WaitResource"}
           P == {t \in A : Parks(t)}
           B == {t \in A : Blocked(t)}
<1>1. Range(prefix) = A
  <2>1. prefix \in Seq(TaskIds) /\ A = {prefix[i] : i \in 1..Len(prefix)}
    BY DEF Lists, Entries
  <2>2. DOMAIN prefix = 1..Len(prefix)
    BY <2>1
  <2> QED BY <2>1, <2>2 DEF Range
<1>2. /\ Scan(m).parked = {t \in Range(prefix) : Parks(t)}
      /\ Scan(m).ready = Retain(prefix, {t \in Range(prefix) : Blocked(t)})
      /\ Scan(m).queue = waiting \o Retain(prefix, {t \in Range(prefix) : Parks(t)})
  BY DEF Scan
<1>3. Lists(prefix, A)
  OBVIOUS
<1> HIDE DEF prefix
<1>4. /\ Scan(m).parked = P /\ Scan(m).ready = Retain(prefix, B) /\ Scan(m).queue = waiting \o Retain(prefix, P)
  BY <1>1, <1>2
<1>5. A \cap P = P /\ A \cap B = B
  OBVIOUS
<1>6. W \cap P = {}
  BY DEF Parks
<1>7. Lists(waiting, W)
  BY DEF QueueInv, ParkedListed
<1> HIDE DEF W, P, B
<1>8. Lists(Retain(prefix, P), P) /\ Lists(Retain(prefix, B), B)
  BY <1>3, <1>5, RetainLists
<1>9. Lists(waiting \o Retain(prefix, P), W \cup P)
  BY <1>6, <1>7, <1>8, ConcatLists
<1> QED BY <1>4, <1>8, <1>9 DEF W, P, B

\* Parking: a holder is in the way of every task the scan parks.
LEMMA ParkedByScan ==
  ASSUME SchedulerInv, QueueInv, NEW P \in SUBSET TaskIds, \A t \in P : Parks(t), holders \subseteq holders', keys' = keys,
         \A u \in TaskIds : tstate'[u] = "WaitResource" <=> tstate[u] = "WaitResource" \/ u \in P,
         Lists(waiting', {t \in TaskIds : tstate[t] = "WaitResource"} \cup P)
  PROVE  ParkedListed'
<1>1. {t \in TaskIds : tstate'[t] = "WaitResource"} = {t \in TaskIds : tstate[t] = "WaitResource"} \cup P
  OBVIOUS
<1>2. ASSUME NEW t \in TaskIds, tstate'[t] = "WaitResource" PROVE \E h \in holders : Clash(keys[t], keys[h])
  <2>1. CASE t \in P
    BY <2>1 DEF Parks, can_acquire, compatible
  <2>2. CASE tstate[t] = "WaitResource"
    BY <2>2 DEF QueueInv, ParkedListed
  <2> QED BY <1>2, <2>1, <2>2
<1> QED BY <1>1, <1>2 DEF ParkedListed

\* The scan stops at the first task it can admit.
LEMMA DispatchQueue ==
  ASSUME SchedulerInv, QueueInv, NEW n \in DOMAIN ready, Dispatch(n) PROVE QueueInv'
<1>1. Lists(ready, Entries(ready)) /\ n \in 1..Len(ready) /\ Entries(ready) \subseteq TaskIds
  <2>1. Lists(ready, Entries(ready)) /\ ready \in Seq(TaskIds)
    BY DEF QueueInv, ReadyListed, Lists
  <2> QED BY <2>1, ListsTasks
<1>2. PICK A, B : /\ Lists(SubSeq(ready, 1, n - 1), A) /\ Lists(SubSeq(ready, n + 1, Len(ready)), B)
                  /\ A \cup B = Entries(ready) \ {ready[n]} /\ A \cap B = {} /\ A = {ready[i] : i \in 1..(n - 1)}
  BY <1>1, SplitLists
<1>3. PICK t : t = ready[n]
  OBVIOUS
<1>4. PICK P : P = Scan(n - 1).parked
  OBVIOUS
<1>5. PICK R : R = {x \in A : Blocked(x)}
  OBVIOUS
<1>6. /\ P = {x \in A : Parks(x)} /\ Lists(Scan(n - 1).ready, R)
      /\ Lists(Scan(n - 1).queue, {x \in TaskIds : tstate[x] = "WaitResource"} \cup P)
  BY <1>2, <1>4, <1>5, ScanLists
<1>7. /\ Admissible(t) /\ \A i \in 1..(n - 1) : ~Admissible(ready[i])
      /\ tstate' = [u \in TaskIds |-> IF u = t THEN "Running" ELSE IF u \in P THEN "WaitResource" ELSE tstate[u]]
      /\ holders' = holders \cup {t}
      /\ ready' = SubSeq(ready, n + 1, Len(ready)) \o Scan(n - 1).ready /\ waiting' = Scan(n - 1).queue
      /\ UNCHANGED <<target, waiters, winner, primary, swaiters, taskShape, scopeShape>>
  BY <1>3, <1>4 DEF Dispatch
<1>8. UNCHANGED <<scopeOf, keys>>
  BY <1>7 DEF taskShape
<1>9. t \in TaskIds /\ tstate[t] = "Ready" /\ A \subseteq TaskIds /\ t \notin A
  BY <1>1, <1>2, <1>3, <1>7 DEF Admissible
<1>10. \A u \in P : tstate[u] = "Ready" /\ u \in TaskIds /\ u # t /\ Parks(u)
  BY <1>6, <1>9 DEF Parks
<1>11. \A u \in TaskIds : tstate'[u] = IF u = t THEN "Running" ELSE IF u \in P THEN "WaitResource" ELSE tstate[u]
  BY <1>7
<1>12. Quietly
  BY <1>8, <1>9, <1>10, <1>11 DEF Quietly, Inert, Terminal
<1>13. Same("WaitTask") /\ Same("WaitScope")
  BY <1>9, <1>10, <1>11 DEF Same
<1>14. QueueTypes'
  BY <1>7, TypesKept DEF QueueInv, QueueTypes
<1>15. AwaitListed' /\ JoinListed'
  BY <1>7, <1>12, <1>13, AwaitKept, JoinKept DEF QueueInv
<1>16. ParkedListed'
  <2>1. \A u \in TaskIds : tstate'[u] = "WaitResource" <=> tstate[u] = "WaitResource" \/ u \in P
    BY <1>9, <1>10, <1>11
  <2>2. P \in SUBSET TaskIds /\ (\A u \in P : Parks(u)) /\ holders \subseteq holders'
    BY <1>7, <1>10
  <2>3. Lists(waiting', {x \in TaskIds : tstate[x] = "WaitResource"} \cup P)
    BY <1>6, <1>7
  <2> QED BY <1>8, <2>1, <2>2, <2>3, ParkedByScan
<1>17. ReadyListed'
  <2>1. B \cap R = {}
    BY <1>2, <1>5
  <2>2. Lists(ready', B \cup R)
    BY <1>2, <1>6, <1>7, <2>1, ConcatLists
  <2>3. Entries(ready') = B \cup R
    BY <2>2 DEF Lists
  <2>4. ASSUME NEW u \in TaskIds, tstate'[u] = "Ready" PROVE u \in B \cup R
    <3>1. tstate[u] = "Ready" /\ u # t /\ u \notin P
      BY <1>10, <1>11, <2>4
    <3>2. u \in A \cup B
      BY <1>2, <1>3, <3>1 DEF QueueInv, ReadyListed
    <3>3. CASE u \in A
      <4>1. ~Admissible(u)
        BY <1>2, <1>7, <3>3
      <4>2. ~Parks(u)
        BY <1>6, <3>1, <3>3
      <4>3. Blocked(u)
        BY <3>1, <4>1, <4>2 DEF Admissible, Parks
      <4> QED BY <1>5, <3>3, <4>3
    <3> QED BY <3>2, <3>3
  <2>5. ASSUME NEW u \in B \cup R PROVE tstate'[u] \in Terminal \cup {"Ready"}
    <3>1. u \in Entries(ready) /\ u # t /\ u \in TaskIds
      BY <1>1, <1>2, <1>3, <1>5
    <3>2. u \notin P
      BY <1>2, <1>5, <1>6 DEF Parks
    <3>3. tstate'[u] = tstate[u]
      BY <1>11, <3>1, <3>2
    <3> QED BY <3>1, <3>3 DEF QueueInv, ReadyListed
  <2> QED BY <2>2, <2>3, <2>4, <2>5 DEF ReadyListed
<1> QED BY <1>14, <1>15, <1>16, <1>17 DEF QueueInv

\* The scan finds nothing to admit.
LEMMA DispatchNoneQueue == ASSUME SchedulerInv, QueueInv, DispatchNone PROVE QueueInv'
<1>1. PICK A : A = Entries(ready)
  OBVIOUS
<1>2. Lists(ready, A) /\ A \subseteq TaskIds /\ ready \in Seq(TaskIds)
  BY <1>1, ListsTasks DEF QueueInv, ReadyListed, Lists
<1>3. Lists(SubSeq(ready, 1, Len(ready)), A)
  <2>1. SubSeq(ready, 1, Len(ready)) = ready
    BY <1>2
  <2> QED BY <1>2, <2>1
<1>4. PICK P : P = Scan(Len(ready)).parked
  OBVIOUS
<1>5. PICK R : R = {x \in A : Blocked(x)}
  OBVIOUS
<1>6. /\ P = {x \in A : Parks(x)} /\ Lists(Scan(Len(ready)).ready, R)
      /\ Lists(Scan(Len(ready)).queue, {x \in TaskIds : tstate[x] = "WaitResource"} \cup P)
  BY <1>1, <1>3, <1>4, <1>5, ScanLists
<1>7. /\ \A i \in DOMAIN ready : ~Admissible(ready[i])
      /\ tstate' = [u \in TaskIds |-> IF u \in P THEN "WaitResource" ELSE tstate[u]]
      /\ ready' = Scan(Len(ready)).ready /\ waiting' = Scan(Len(ready)).queue
      /\ UNCHANGED <<target, waiters, winner, primary, swaiters, holders, taskShape, scopeShape>>
  BY <1>4 DEF DispatchNone
<1>8. UNCHANGED <<scopeOf, keys>>
  BY <1>7 DEF taskShape
<1>9. \A u \in P : tstate[u] = "Ready" /\ u \in TaskIds /\ Parks(u)
  BY <1>2, <1>6 DEF Parks
<1>10. \A u \in TaskIds : tstate'[u] = IF u \in P THEN "WaitResource" ELSE tstate[u]
  BY <1>7
<1>11. Quietly
  BY <1>8, <1>9, <1>10 DEF Quietly, Inert, Terminal
<1>12. Same("WaitTask") /\ Same("WaitScope")
  BY <1>9, <1>10 DEF Same
<1>13. QueueTypes'
  BY <1>7, TypesKept DEF QueueInv, QueueTypes
<1>14. AwaitListed' /\ JoinListed'
  BY <1>7, <1>11, <1>12, AwaitKept, JoinKept DEF QueueInv
<1>15. ParkedListed'
  <2>1. \A u \in TaskIds : tstate'[u] = "WaitResource" <=> tstate[u] = "WaitResource" \/ u \in P
    BY <1>9, <1>10
  <2>2. P \in SUBSET TaskIds /\ (\A u \in P : Parks(u)) /\ holders \subseteq holders'
    BY <1>7, <1>9
  <2>3. Lists(waiting', {x \in TaskIds : tstate[x] = "WaitResource"} \cup P)
    BY <1>6, <1>7
  <2> QED BY <1>8, <2>1, <2>2, <2>3, ParkedByScan
<1>16. ReadyListed'
  <2>1. Lists(ready', R)
    BY <1>6, <1>7
  <2>2. Entries(ready') = R
    BY <2>1 DEF Lists
  <2>3. ASSUME NEW u \in TaskIds, tstate'[u] = "Ready" PROVE u \in R
    <3>1. tstate[u] = "Ready" /\ u \notin P
      BY <1>10, <2>3
    <3>2. u \in A
      BY <1>1, <3>1 DEF QueueInv, ReadyListed
    <3>3. ~Admissible(u)
      <4>1. PICK i \in 1..Len(ready) : u = ready[i]
        BY <1>1, <3>2 DEF Entries
      <4>2. DOMAIN ready = 1..Len(ready)
        BY <1>2
      <4> QED BY <1>7, <4>1, <4>2
    <3>4. Blocked(u)
      BY <1>6, <3>1, <3>2, <3>3 DEF Admissible, Parks
    <3> QED BY <1>5, <3>2, <3>4
  <2>4. ASSUME NEW u \in R PROVE tstate'[u] \in Terminal \cup {"Ready"}
    <3>1. u \in A /\ u \in TaskIds /\ u \notin P
      BY <1>2, <1>5, <1>6 DEF Parks
    <3>2. tstate'[u] = tstate[u]
      BY <1>10, <3>1
    <3> QED BY <1>1, <3>1, <3>2 DEF QueueInv, ReadyListed
  <2> QED BY <2>1, <2>2, <2>3, <2>4 DEF ReadyListed
<1> QED BY <1>13, <1>14, <1>15, <1>16 DEF QueueInv

-----------------------------------------------------------------------------
(***************************************************************************)
(* terminal                                                                *)
(***************************************************************************)
\* What terminal does to the queues: G get their permits, F waited for the task,
\* and J for its scope, when nothing in it is left alive.
SettlesQueues(t, out, G, F, J) ==
  LET s == scopeOf[t]
      parked == {u \in TaskIds : u # t /\ tstate[u] = "WaitResource"}
  IN /\ G \subseteq parked
     /\ F = {u \in TaskIds : u # t /\ tstate[u] = "WaitTask" /\ target[u] = t}
     /\ J \subseteq {u \in TaskIds : u # t /\ tstate[u] = "WaitScope" /\ target[u] = s}
     /\ \A u \in TaskIds : tstate'[u] = IF u \in G \cup F \cup J THEN "Ready"
                                         ELSE IF u = t THEN out ELSE tstate[u]
     /\ \A u \in TaskIds : target'[u] = IF u \in F \cup J \cup {t} THEN NoTask ELSE target[u]
     /\ target' \in [TaskIds -> Int]
     /\ Lists(waiting', parked \ G)
     /\ \A u \in parked \ G : \E h \in (holders \ {t}) \cup G : Clash(keys[u], keys[h])
     /\ holders' = (holders \ {t}) \cup G
     /\ Lists(ready', Entries(ready) \cup G \cup F \cup J)
     /\ waiters' = [waiters EXCEPT ![t] = <<>>]
     /\ \/ /\ swaiters' = swaiters /\ J = {}
           /\ \E u \in TaskIds : scopeOf[u] = s /\ tstate'[u] \notin Inert
        \/ /\ swaiters' = [swaiters EXCEPT ![s] = <<>>]
           /\ J = {u \in TaskIds : u # t /\ tstate[u] = "WaitScope" /\ target[u] = s}

\* A waiter that one pass over the queue leaves behind is blocked by somebody.
LEMMA LeftBehind ==
  ASSUME NEW queue, NEW held, NEW G, Granted(queue, held, G), NEW u \in Entries(queue), u \notin G
  PROVE  \E h \in held \cup G : Clash(keys[u], keys[h])
<1>1. PICK i \in 1..Len(queue) : queue[i] = u
  BY DEF Entries
<1> DEFINE before == {queue[j] : j \in {k \in 1..(i - 1) : queue[k] \in G}}
<1>2. ~compatible(u, keys, held \cup before)
  BY <1>1 DEF Granted
<1>3. before \subseteq G
  OBVIOUS
<1> QED BY <1>2, <1>3 DEF compatible

\* terminal has that effect.
LEMMA TerminalQueues ==
  ASSUME SchedulerInv, QueueInv, NEW t \in TaskIds, tstate[t] \notin Inert, NEW out \in Terminal,
         NEW win \in [ScopeIds -> TaskIds \cup {NoTask}], NEW prim \in [ScopeIds -> TaskIds \cup {NoTask}],
         terminal(t, out, win, prim)
  PROVE  \E G, F, J : SettlesQueues(t, out, G, F, J)
<1> DEFINE st1 == [tstate EXCEPT ![t] = out]
           queue == Retain(waiting, {u \in TaskIds : st1[u] = "WaitResource"})
           onTask(u) == st1[u] = "WaitTask" /\ target[u] = t
           awaiting == {u \in Range(waiters[t]) : onTask(u)}
           st2(G) == [u \in TaskIds |-> IF u \in G \cup awaiting THEN "Ready" ELSE st1[u]]
           s == scopeOf[t]
           result(G) == scope_outcome(s, st2(G), win[s], prim[s])
           onScope(G, u) == result(G) # "Pending" /\ st2(G)[u] = "WaitScope" /\ target[u] = s
           joining(G) == {u \in Range(swaiters[s]) : onScope(G, u)}
           parked == {u \in TaskIds : u # t /\ tstate[u] = "WaitResource"}
<1>0. PICK G : G \in SUBSET {u \in TaskIds : st1[u] = "WaitResource"} /\
        /\ Granted(queue, holders \ {t}, G)
        /\ tstate' = [u \in TaskIds |-> IF u \in joining(G) THEN "Ready" ELSE st2(G)[u]]
        /\ target' = [u \in TaskIds |-> IF u \in awaiting \cup joining(G) \cup {t} THEN NoTask ELSE target[u]]
        /\ holders' = (holders \ {t}) \cup G
        /\ waiting' = Retain(queue, TaskIds \ G)
        /\ ready' = ready \o Retain(queue, G) \o Retain(waiters[t], awaiting) \o Retain(swaiters[s], joining(G))
        /\ swaiters' = [swaiters EXCEPT ![s] = IF result(G) = "Pending" THEN @ ELSE <<>>]
        /\ waiters' = [waiters EXCEPT ![t] = <<>>]
  BY ZenonT(40) DEF terminal
<1>1. PICK F, J, q, st : F = awaiting /\ J = joining(G) /\ q = queue /\ st = st2(G)
  OBVIOUS
<1>2. \A u \in TaskIds : st1[u] = IF u = t THEN out ELSE tstate[u]
  BY DEF SchedulerInv, Ids
<1>3. s \in ScopeIds /\ waiters \in [TaskIds -> Seq(TaskIds)] /\ swaiters \in [ScopeIds -> Seq(TaskIds)]
      /\ target \in [TaskIds -> Int] /\ policy[s] \in Policies /\ owner[s] \in TaskIds \cup {NoTask}
  BY DEF QueueInv, QueueTypes
<1>4. {u \in TaskIds : st1[u] = "WaitResource"} = parked
  BY <1>2 DEF Terminal
<1>5. Lists(q, parked)
  <2>1. Lists(waiting, {u \in TaskIds : tstate[u] = "WaitResource"})
    BY DEF QueueInv, ParkedListed
  <2>2. {u \in TaskIds : tstate[u] = "WaitResource"} \cap parked = parked
    OBVIOUS
  <2>3. q = Retain(waiting, parked)
    BY <1>1, <1>4
  <2> HIDE DEF parked
  <2> QED BY <2>1, <2>2, <2>3, RetainLists
<1>6. G \subseteq parked
  BY <1>0, <1>4
<1>7. Range(waiters[t]) = Entries(waiters[t]) /\ Range(swaiters[s]) = Entries(swaiters[s])
  <2>1. DOMAIN waiters[t] = 1..Len(waiters[t]) /\ DOMAIN swaiters[s] = 1..Len(swaiters[s])
    BY <1>3
  <2> QED BY <2>1 DEF Range, Entries
<1>8. /\ Lists(waiters[t], Entries(waiters[t])) /\ Entries(waiters[t]) \subseteq TaskIds
      /\ Lists(swaiters[s], Entries(swaiters[s])) /\ Entries(swaiters[s]) \subseteq TaskIds
      /\ Lists(ready, Entries(ready)) /\ Entries(ready) \subseteq TaskIds
  BY <1>3, ListsTasks DEF QueueInv, AwaitListed, JoinListed, ReadyListed
<1>9. F = {u \in TaskIds : u # t /\ tstate[u] = "WaitTask" /\ target[u] = t} /\ F \subseteq Entries(waiters[t])
  <2>1. ASSUME NEW u \in F PROVE u \in TaskIds /\ u # t /\ tstate[u] = "WaitTask" /\ target[u] = t /\ u \in Entries(waiters[t])
    <3>1. u \in Entries(waiters[t]) /\ st1[u] = "WaitTask" /\ target[u] = t
      BY <1>1, <1>7
    <3> QED BY <1>2, <1>8, <3>1 DEF Terminal
  <2>2. ASSUME NEW u \in TaskIds, u # t, tstate[u] = "WaitTask", target[u] = t PROVE u \in F
    <3>1. u \in Entries(waiters[t])
      BY <2>2 DEF QueueInv, AwaitListed
    <3> QED BY <1>1, <1>2, <1>7, <2>2, <3>1
  <2> QED BY <2>1, <2>2
<1>10. \A u \in TaskIds : st[u] = IF u \in G \cup F THEN "Ready" ELSE IF u = t THEN out ELSE tstate[u]
  BY <1>1, <1>2
<1>11. st \in [TaskIds -> TaskStates]
  <2>1. \A u \in TaskIds : st[u] \in TaskStates
    BY <1>10 DEF SchedulerInv, Ids, TaskStates, Inert
  <2>2. st = [u \in TaskIds |-> st[u]]
    BY <1>1
  <2> QED BY <2>1, <2>2
<1>12. PICK r : r = scope_outcome(s, st, win[s], prim[s])
  OBVIOUS
<1>13. r = "Pending" <=> \E u \in TaskIds : scopeOf[u] = s /\ st[u] \notin Inert
  <2>1. win[s] \in TaskIds \cup {NoTask} /\ prim[s] \in TaskIds \cup {NoTask}
    BY <1>3
  <2> HIDE DEF s
  <2>2. PICK x \in ScopeIds : x = s
    BY <1>3
  <2>3. PICK w \in TaskIds \cup {NoTask}, p \in TaskIds \cup {NoTask} : w = win[s] /\ p = prim[s]
    BY <2>1
  <2>4. policy[x] \in Policies /\ owner[x] \in TaskIds \cup {NoTask}
    BY <1>3, <2>2
  <2>5. PendingByMembers(x, st, w, p)
    BY <1>11, <2>4, OutcomePending
  <2>6. scope_outcome(x, st, w, p) = "Pending" <=> \E u \in TaskIds : scopeOf[u] = x /\ st[u] \notin Inert
    BY <2>5 DEF PendingByMembers
  <2> QED BY <1>12, <2>2, <2>3, <2>6
<1>14. \A u : u \in J <=> u \in Entries(swaiters[s]) /\ r # "Pending" /\ st[u] = "WaitScope" /\ target[u] = s
  BY <1>1, <1>7, <1>12
<1>15. swaiters' = [swaiters EXCEPT ![s] = IF r = "Pending" THEN @ ELSE <<>>]
  BY <1>0, <1>1, <1>12
<1>16. \A u \in TaskIds : tstate'[u] = IF u \in J THEN "Ready" ELSE st[u]
  BY <1>0, <1>1
<1>17. \A u \in TaskIds : target'[u] = IF u \in F \cup J \cup {t} THEN NoTask ELSE target[u]
  BY <1>0, <1>1
<1>18. target' \in [TaskIds -> Int]
  <2>1. \A u \in TaskIds : target'[u] \in Int
    BY <1>3, <1>17 DEF NoTask
  <2>2. target' = [u \in TaskIds |-> target'[u]]
    BY <1>0
  <2> QED BY <2>1, <2>2
<1>19. waiting' = Retain(q, TaskIds \ G) /\ Granted(q, holders \ {t}, G) /\ holders' = (holders \ {t}) \cup G
       /\ waiters' = [waiters EXCEPT ![t] = <<>>]
       /\ ready' = ready \o Retain(q, G) \o Retain(waiters[t], F) \o Retain(swaiters[s], J)
  BY <1>0, <1>1
<1> HIDE DEF st1, queue, awaiting, st2, result, joining, s
<1>20. \A u \in J : u \in TaskIds /\ u # t /\ tstate[u] = "WaitScope" /\ target[u] = s /\ u \in Entries(swaiters[s])
  BY <1>8, <1>10, <1>14 DEF Terminal
<1>21. \A u \in TaskIds : tstate'[u] = IF u \in G \cup F \cup J THEN "Ready" ELSE IF u = t THEN out ELSE tstate[u]
  BY <1>10, <1>16
<1>22. Lists(waiting', parked \ G)
  <2>1. parked \cap (TaskIds \ G) = parked \ G
    OBVIOUS
  <2> HIDE DEF parked
  <2> QED BY <1>5, <1>19, <2>1, RetainLists
<1>23. \A u \in parked \ G : \E h \in (holders \ {t}) \cup G : Clash(keys[u], keys[h])
  <2>1. Entries(q) = parked
    BY <1>5 DEF Lists
  <2> HIDE DEF parked
  <2> QED BY <1>19, <2>1, LeftBehind
<1>24. Lists(ready', Entries(ready) \cup G \cup F \cup J)
  <2>1. parked \cap G = G /\ Entries(waiters[t]) \cap F = F /\ Entries(swaiters[s]) \cap J = J
    BY <1>6, <1>9, <1>20
  <2>2. \A u \in Entries(ready) : u \notin parked /\ u \notin F /\ u \notin J
    BY <1>9, <1>20 DEF QueueInv, ReadyListed, Terminal
  <2>3. parked \cap F = {} /\ parked \cap J = {} /\ F \cap J = {}
    BY <1>9, <1>20
  <2> HIDE DEF parked
  <2>4. Lists(Retain(q, G), G) /\ Lists(Retain(waiters[t], F), F) /\ Lists(Retain(swaiters[s], J), J)
    BY <1>5, <1>8, <2>1, RetainLists
  <2>5. Entries(ready) \cap G = {} /\ (Entries(ready) \cup G) \cap F = {} /\ (Entries(ready) \cup G \cup F) \cap J = {}
    BY <1>6, <2>2, <2>3
  <2>6. Lists(ready \o Retain(q, G), Entries(ready) \cup G)
    BY <1>8, <2>4, <2>5, ConcatLists
  <2>7. Lists(ready \o Retain(q, G) \o Retain(waiters[t], F), Entries(ready) \cup G \cup F)
    BY <2>4, <2>5, <2>6, ConcatLists
  <2>8. Lists(ready \o Retain(q, G) \o Retain(waiters[t], F) \o Retain(swaiters[s], J), Entries(ready) \cup G \cup F \cup J)
    BY <2>4, <2>5, <2>7, ConcatLists
  <2> QED BY <1>19, <2>8
<1>25. \/ /\ swaiters' = swaiters /\ J = {}
          /\ \E u \in TaskIds : scopeOf[u] = s /\ tstate'[u] \notin Inert
       \/ /\ swaiters' = [swaiters EXCEPT ![s] = <<>>]
          /\ J = {u \in TaskIds : u # t /\ tstate[u] = "WaitScope" /\ target[u] = s}
  <2>1. CASE r = "Pending"
    <3>1. J = {}
      BY <1>14, <2>1
    <3>2. swaiters' = swaiters
      BY <1>3, <1>15, <2>1
    <3>3. \E u \in TaskIds : scopeOf[u] = s /\ tstate'[u] \notin Inert
      BY <1>13, <1>16, <2>1, <3>1
    <3> QED BY <3>1, <3>2, <3>3
  <2>2. CASE r # "Pending"
    <3>1. swaiters' = [swaiters EXCEPT ![s] = <<>>]
      BY <1>15, <2>2
    <3>2. ASSUME NEW u \in TaskIds, u # t, tstate[u] = "WaitScope", target[u] = s PROVE u \in J
      <4>1. u \in Entries(swaiters[s])
        BY <3>2 DEF QueueInv, JoinListed
      <4>2. st[u] = "WaitScope"
        BY <1>6, <1>9, <1>10, <3>2
      <4> QED BY <1>14, <2>2, <3>2, <4>1, <4>2
    <3>3. J = {u \in TaskIds : u # t /\ tstate[u] = "WaitScope" /\ target[u] = s}
      BY <1>20, <3>2
    <3> QED BY <3>1, <3>3
  <2> QED BY <2>1, <2>2
<1>26. J \subseteq {u \in TaskIds : u # t /\ tstate[u] = "WaitScope" /\ target[u] = s}
  BY <1>20
<1>27. SettlesQueues(t, out, G, F, J)
  BY <1>6, <1>9, <1>17, <1>18, <1>19, <1>21, <1>22, <1>23, <1>24, <1>25, <1>26 DEF SettlesQueues, s
<1> QED BY <1>27

\* Settling a live task keeps the invariant.
LEMMA TerminalQueue ==
  ASSUME SchedulerInv, QueueInv, NEW t \in TaskIds, tstate[t] \notin Inert, NEW out \in Terminal,
         NEW win \in [ScopeIds -> TaskIds \cup {NoTask}], NEW prim \in [ScopeIds -> TaskIds \cup {NoTask}],
         terminal(t, out, win, prim)
  PROVE  QueueInv'
<1>1. PICK G, F, J : SettlesQueues(t, out, G, F, J)
  BY TerminalQueues
<1>2. PICK s \in ScopeIds : s = scopeOf[t]
  BY DEF QueueInv, QueueTypes
<1>3. PICK parked : parked = {u \in TaskIds : u # t /\ tstate[u] = "WaitResource"}
  OBVIOUS
<1>4. /\ G \subseteq parked
      /\ F = {u \in TaskIds : u # t /\ tstate[u] = "WaitTask" /\ target[u] = t}
      /\ J \subseteq {u \in TaskIds : u # t /\ tstate[u] = "WaitScope" /\ target[u] = s}
      /\ \A u \in TaskIds : tstate'[u] = IF u \in G \cup F \cup J THEN "Ready"
                                         ELSE IF u = t THEN out ELSE tstate[u]
      /\ \A u \in TaskIds : target'[u] = IF u \in F \cup J \cup {t} THEN NoTask ELSE target[u]
      /\ target' \in [TaskIds -> Int]
  BY <1>1, <1>2, <1>3 DEF SettlesQueues
<1>5. /\ Lists(waiting', parked \ G)
      /\ \A u \in parked \ G : \E h \in (holders \ {t}) \cup G : Clash(keys[u], keys[h])
      /\ holders' = (holders \ {t}) \cup G
      /\ Lists(ready', Entries(ready) \cup G \cup F \cup J)
      /\ waiters' = [waiters EXCEPT ![t] = <<>>]
  BY <1>1, <1>3 DEF SettlesQueues
<1>6. \/ /\ swaiters' = swaiters /\ J = {}
         /\ \E u \in TaskIds : scopeOf[u] = s /\ tstate'[u] \notin Inert
      \/ /\ swaiters' = [swaiters EXCEPT ![s] = <<>>]
         /\ J = {u \in TaskIds : u # t /\ tstate[u] = "WaitScope" /\ target[u] = s}
  BY <1>1, <1>2 DEF SettlesQueues
<1>7. UNCHANGED <<taskShape, scopeShape>> /\ winner' = win /\ primary' = prim
  BY DEF terminal
<1>8. UNCHANGED <<keys, scopeOf, policy, owner, next_scope>>
  BY <1>7 DEF taskShape, scopeShape
<1>9. waiters \in [TaskIds -> Seq(TaskIds)] /\ swaiters \in [ScopeIds -> Seq(TaskIds)]
  BY DEF QueueInv, QueueTypes
<1>10. (\A u \in TaskIds : waiters'[u] = IF u = t THEN <<>> ELSE waiters[u]) /\ waiters' \in [TaskIds -> Seq(TaskIds)]
  BY <1>5, <1>9
<1>11. /\ swaiters' \in [ScopeIds -> Seq(TaskIds)]
       /\ \A x \in ScopeIds : x # s => swaiters'[x] = swaiters[x]
       /\ swaiters'[s] = swaiters[s] \/ swaiters'[s] = <<>>
  <2>1. CASE swaiters' = swaiters
    BY <1>9, <2>1
  <2>2. CASE swaiters' = [swaiters EXCEPT ![s] = <<>>]
    <3>1. <<>> \in Seq(TaskIds)
      OBVIOUS
    <3>2. swaiters'[s] = <<>> /\ \A x \in ScopeIds : x # s => swaiters'[x] = swaiters[x]
      BY <1>9, <2>2
    <3>3. swaiters' \in [ScopeIds -> Seq(TaskIds)]
      BY <1>9, <2>2, <3>1
    <3> QED BY <3>2, <3>3
  <2> QED BY <1>6, <2>1, <2>2
<1>12. QueueTypes'
  BY <1>4, <1>7, <1>8, <1>10, <1>11 DEF QueueInv, QueueTypes
<1>13. Entries(<<>>) = {}
  BY DEF Entries
<1>14. \A u \in TaskIds : u \in G \cup F \cup J => u # t /\ tstate[u] \in {"WaitResource", "WaitTask", "WaitScope"}
  BY <1>3, <1>4
<1>15. \A u \in TaskIds : tstate[u] \in Terminal => tstate'[u] = tstate[u]
  BY <1>4, <1>14 DEF Inert, Terminal
<1>16. \A u \in TaskIds : u # t /\ tstate[u] \notin Inert => tstate'[u] \notin Inert
  BY <1>4 DEF Inert, Terminal
<1>17. tstate'[t] = out
  BY <1>4, <1>14
<1>18. \A st \in {"WaitResource", "WaitTask", "WaitScope"} : \A u \in TaskIds :
         tstate'[u] = st <=> u # t /\ tstate[u] = st /\ u \notin G \cup F \cup J
  BY <1>4, <1>17 DEF Terminal
<1>19. ReadyListed'
  <2>1. Entries(ready') = Entries(ready) \cup G \cup F \cup J
    BY <1>5 DEF Lists
  <2>2. ASSUME NEW u \in TaskIds, tstate'[u] = "Ready" PROVE u \in Entries(ready')
    <3>1. u \in G \cup F \cup J \/ tstate[u] = "Ready"
      BY <1>4, <2>2 DEF Terminal
    <3> QED BY <2>1, <3>1 DEF QueueInv, ReadyListed
  <2>3. ASSUME NEW u \in Entries(ready') PROVE tstate'[u] \in Terminal \cup {"Ready"}
    <3>1. CASE u \in G \cup F \cup J
      <4>1. u \in TaskIds
        BY <1>3, <1>4, <3>1
      <4> QED BY <1>4, <3>1, <4>1
    <3>2. CASE u \in Entries(ready) /\ u \notin G \cup F \cup J
      <4>1. u \in TaskIds /\ tstate[u] \in Terminal \cup {"Ready"}
        BY <3>2, ListsTasks DEF QueueInv, ReadyListed
      <4> QED BY <1>4, <3>2, <4>1
    <3> QED BY <2>1, <2>3, <3>1, <3>2
  <2> QED BY <1>5, <2>1, <2>2, <2>3 DEF ReadyListed
<1>20. ParkedListed'
  <2>1. F \cap parked = {} /\ J \cap parked = {}
    BY <1>3, <1>4
  <2>2. {u \in TaskIds : tstate'[u] = "WaitResource"} = parked \ G
    BY <1>3, <1>18, <2>1
  <2> QED BY <1>5, <1>8, <2>2 DEF ParkedListed
<1>21. AwaitListed'
  <2>1. \A u \in TaskIds : Lists(waiters[u], Entries(waiters[u])) /\ Entries(waiters[u]) \subseteq TaskIds
    BY ListsTasks DEF QueueInv, AwaitListed
  <2>2. ASSUME NEW u \in TaskIds PROVE Lists(waiters'[u], Entries(waiters'[u]))
    <3>1. CASE u = t
      <4>1. waiters'[u] = <<>>
        BY <1>10, <3>1
      <4> QED BY <1>13, <4>1, SmallLists
    <3>2. CASE u # t
      <4>1. waiters'[u] = waiters[u]
        BY <1>10, <3>2
      <4> QED BY <2>1, <4>1
    <3> QED BY <3>1, <3>2
  <2>3. ASSUME NEW u \in TaskIds, NEW w \in Entries(waiters'[u])
        PROVE  tstate'[w] \in Terminal \/ (tstate'[w] = "WaitTask" /\ target'[w] = u)
    <3>1. u # t /\ waiters'[u] = waiters[u]
      BY <1>10, <1>13, <2>3
    <3>2. w \in Entries(waiters[u]) /\ w \in TaskIds
      BY <2>1, <2>3, <3>1
    <3>3. CASE tstate[w] \in Terminal
      BY <1>15, <3>2, <3>3
    <3>4. CASE tstate[w] = "WaitTask" /\ target[w] = u
      <4>1. CASE w = t
        BY <1>17, <4>1
      <4>2. CASE w # t
        <5>1. w \notin G \cup F \cup J
          BY <1>3, <1>4, <3>1, <3>4
        <5>2. tstate'[w] = "WaitTask"
          BY <1>18, <3>2, <3>4, <4>2, <5>1
        <5>3. target'[w] = target[w]
          BY <1>4, <3>2, <4>2, <5>1
        <5> QED BY <3>4, <5>2, <5>3
      <4> QED BY <4>1, <4>2
    <3> QED BY <3>2, <3>3, <3>4 DEF QueueInv, AwaitListed
  <2>4. ASSUME NEW v \in TaskIds, tstate'[v] = "WaitTask"
        PROVE  target'[v] \in TaskIds /\ tstate'[target'[v]] \notin Inert /\ v \in Entries(waiters'[target'[v]])
    <3>1. v # t /\ tstate[v] = "WaitTask" /\ v \notin G \cup F \cup J
      BY <1>18, <2>4
    <3>2. target'[v] = target[v] /\ target[v] # t
      BY <1>4, <3>1
    <3>3. target[v] \in TaskIds /\ tstate[target[v]] \notin Inert /\ v \in Entries(waiters[target[v]])
      BY <3>1 DEF QueueInv, AwaitListed
    <3>4. tstate'[target[v]] \notin Inert
      BY <1>16, <3>2, <3>3
    <3>5. waiters'[target[v]] = waiters[target[v]]
      BY <1>10, <3>2, <3>3
    <3> QED BY <3>2, <3>3, <3>4, <3>5
  <2> QED BY <2>2, <2>3, <2>4 DEF AwaitListed
<1>22. JoinListed'
  <2>1. \A x \in ScopeIds : Lists(swaiters[x], Entries(swaiters[x])) /\ Entries(swaiters[x]) \subseteq TaskIds
    BY ListsTasks DEF QueueInv, JoinListed
  <2>2. ASSUME NEW x \in ScopeIds PROVE Lists(swaiters'[x], Entries(swaiters'[x]))
    <3>1. swaiters'[x] = <<>> \/ swaiters'[x] = swaiters[x]
      BY <1>11
    <3>2. CASE swaiters'[x] = <<>>
      BY <1>13, <3>2, SmallLists
    <3>3. CASE swaiters'[x] = swaiters[x]
      BY <2>1, <3>3
    <3> QED BY <3>1, <3>2, <3>3
  <2>3. \A w \in J : target[w] = s /\ swaiters'[s] = <<>>
    <3>1. J # {} => swaiters'[s] = <<>>
      BY <1>6, <1>9
    <3> QED BY <1>4, <3>1
  <2>4. ASSUME NEW x \in ScopeIds, NEW w \in Entries(swaiters'[x])
        PROVE  tstate'[w] \in Terminal \/ (tstate'[w] = "WaitScope" /\ target'[w] = x)
    <3>1. swaiters'[x] # <<>> /\ swaiters'[x] = swaiters[x]
      BY <1>11, <1>13, <2>4
    <3>2. w \in Entries(swaiters[x]) /\ w \in TaskIds
      BY <2>1, <2>4, <3>1
    <3>3. CASE tstate[w] \in Terminal
      BY <1>15, <3>2, <3>3
    <3>4. CASE tstate[w] = "WaitScope" /\ target[w] = x
      <4>1. CASE w = t
        BY <1>17, <4>1
      <4>2. CASE w # t
        <5>0. w \notin J
          BY <2>3, <3>1, <3>4
        <5>1. w \notin G \cup F \cup J
          BY <1>3, <1>4, <3>4, <5>0
        <5>2. tstate'[w] = "WaitScope"
          BY <1>18, <3>2, <3>4, <4>2, <5>1
        <5>3. target'[w] = target[w]
          BY <1>4, <3>2, <4>2, <5>1
        <5> QED BY <3>4, <5>2, <5>3
      <4> QED BY <4>1, <4>2
    <3> QED BY <3>2, <3>3, <3>4 DEF QueueInv, JoinListed
  <2>5. ASSUME NEW v \in TaskIds, tstate'[v] = "WaitScope"
        PROVE  /\ target'[v] \in ScopeIds /\ v \in Entries(swaiters'[target'[v]])
               /\ \E u \in TaskIds : scopeOf'[u] = target'[v] /\ tstate'[u] \notin Inert
    <3>1. v # t /\ tstate[v] = "WaitScope" /\ v \notin G \cup F \cup J
      BY <1>18, <2>5
    <3>2. target'[v] = target[v]
      BY <1>4, <3>1
    <3>3. target[v] \in ScopeIds /\ v \in Entries(swaiters[target[v]])
      BY <3>1 DEF QueueInv, JoinListed
    <3>4. PICK u \in TaskIds : scopeOf[u] = target[v] /\ tstate[u] \notin Inert
      BY <3>1 DEF QueueInv, JoinListed
    <3>5. CASE target[v] = s
      <4>1. swaiters' = swaiters /\ \E x \in TaskIds : scopeOf[x] = s /\ tstate'[x] \notin Inert
        BY <1>6, <3>1, <3>5
      <4> QED BY <1>8, <3>2, <3>3, <3>5, <4>1
    <3>6. CASE target[v] # s
      <4>1. u # t
        BY <1>2, <3>4, <3>6
      <4>2. scopeOf'[u] = target[v] /\ tstate'[u] \notin Inert
        BY <1>8, <1>16, <3>4, <4>1
      <4>3. swaiters'[target[v]] = swaiters[target[v]]
        BY <1>11, <3>3, <3>6
      <4> QED BY <3>2, <3>3, <4>2, <4>3
    <3> QED BY <3>5, <3>6
  <2> QED BY <2>2, <2>4, <2>5 DEF JoinListed
<1> QED BY <1>12, <1>19, <1>20, <1>21, <1>22 DEF QueueInv

\* complete, raise, fail and cancelled.
LEMMA SettleQueue ==
  ASSUME SchedulerInv, QueueInv, NEW t \in TaskIds, tstate[t] \notin Inert, NEW out \in Terminal, settle(t, out)
  PROVE  QueueInv'
<1>1. winner \in [ScopeIds -> TaskIds \cup {NoTask}] /\ primary \in [ScopeIds -> TaskIds \cup {NoTask}]
  BY DEF QueueInv, QueueTypes
<1>2. [winner EXCEPT ![scopeOf[t]] = t] \in [ScopeIds -> TaskIds \cup {NoTask}]
  BY <1>1
<1>3. record_primary_failure(t) \in [ScopeIds -> TaskIds \cup {NoTask}]
  BY <1>1 DEF record_primary_failure
<1>4. PICK win, prim : /\ win \in {winner, [winner EXCEPT ![scopeOf[t]] = t]}
                       /\ prim \in {primary, record_primary_failure(t)} /\ terminal(t, out, win, prim)
  <2>1. \E win, prim : /\ win = (IF out = "Completed" /\ policy[scopeOf[t]] = "Race" /\ winner[scopeOf[t]] = NoTask
                                   THEN [winner EXCEPT ![scopeOf[t]] = t] ELSE winner)
                       /\ prim = (IF out \in {"Raised", "Failed"} THEN record_primary_failure(t) ELSE primary)
                       /\ terminal(t, out, win, prim)
    BY Zenon DEF settle
  <2> QED BY <2>1
<1>5. win \in [ScopeIds -> TaskIds \cup {NoTask}] /\ prim \in [ScopeIds -> TaskIds \cup {NoTask}]
  BY <1>1, <1>2, <1>3, <1>4
<1> QED BY <1>4, <1>5, TerminalQueue

-----------------------------------------------------------------------------
\* Every step keeps the invariant.
LEMMA NextQueue == ASSUME SchedulerInv, QueueInv, [Next]_vars PROVE QueueInv'
<1>1. ASSUME NEW t \in TaskIds, requeue(t) PROVE QueueInv'
  <2>1. /\ tstate[t] \in {"Running", "WaitHost"} /\ tstate' = [tstate EXCEPT ![t] = "Ready"] /\ ready' = Append(ready, t)
        /\ UNCHANGED <<target, waiters, swaiters, waiting, holders, winner, primary, taskShape, scopeShape>>
    BY <1>1 DEF requeue, Yields, Acts, Running
  <2> QED BY <2>1, RequeueQueue
<1>2. ASSUME NEW t \in TaskIds, wake_from_host(t) PROVE QueueInv'
  <2>1. /\ tstate[t] \in {"Running", "WaitHost"} /\ tstate' = [tstate EXCEPT ![t] = "Ready"] /\ ready' = Append(ready, t)
        /\ UNCHANGED <<target, waiters, swaiters, waiting, holders, winner, primary, taskShape, scopeShape>>
    BY <1>2 DEF wake_from_host
  <2> QED BY <2>1, RequeueQueue
<1>3. ASSUME NEW t \in TaskIds, wait_for_host(t) \/ wait_for_cpu(t) PROVE QueueInv'
  <2>1. PICK st \in {"WaitHost", "WaitCpu"} :
          /\ tstate[t] = "Running" /\ tstate' = [tstate EXCEPT ![t] = st]
          /\ UNCHANGED <<ready, target, waiters, swaiters, waiting, holders, winner, primary, taskShape, scopeShape>>
    BY <1>3 DEF wait_for_host, wait_for_cpu, Yields, Acts, Running
  <2> QED BY <2>1, LeaveQueue
<1>4. ASSUME NEW t \in TaskIds, NEW u \in TaskIds, await_task(t, u) PROVE QueueInv'
  <2>1. /\ tstate[t] = "Running" /\ u # t /\ tstate[u] \notin Inert /\ tstate' = [tstate EXCEPT ![t] = "WaitTask"]
        /\ target' = [target EXCEPT ![t] = u] /\ waiters' = [waiters EXCEPT ![u] = Append(@, t)]
        /\ UNCHANGED <<ready, swaiters, waiting, holders, winner, primary, taskShape, scopeShape>>
    BY <1>4 DEF await_task, Yields, Acts, Running
  <2> QED BY <2>1, AwaitQueue
<1>5. ASSUME NEW t \in TaskIds, NEW out \in Terminal, Finish(t, out) PROVE QueueInv'
  BY <1>5, SettleQueue DEF Finish, Running, Inert, Terminal
<1>6. ASSUME NEW t \in TaskIds, NEW out \in Terminal, CpuFinish(t, out) PROVE QueueInv'
  BY <1>6, SettleQueue DEF CpuFinish, Inert, Terminal
<1>7. ASSUME NEW t \in TaskIds, NativeCancelled(t) PROVE QueueInv'
  BY <1>7, SettleQueue DEF NativeCancelled, Inert, Terminal
<1>8. ASSUME CancelNext PROVE QueueInv'
  <2>1. PICK t \in TaskIds : t = Head(cancelling)
    BY <1>8 DEF CancelNext
  <2>2. CASE tstate[t] \in Inert \cup {"WaitHost"}
    <3>1. UNCHANGED <<tstate, ready, target, waiters, swaiters, waiting, holders, winner, primary, taskShape, scopeShape>>
      BY <1>8, <2>1, <2>2 DEF CancelNext
    <3> QED BY <3>1, StillQueue
  <2>3. CASE tstate[t] \notin Inert \cup {"WaitHost"}
    <3>1. terminal(t, "Cancelled", winner, primary)
      BY <1>8, <2>1, <2>3 DEF CancelNext
    <3>2. "Cancelled" \in Terminal /\ tstate[t] \notin Inert
      BY <2>3 DEF Terminal
    <3>3. PICK win \in [ScopeIds -> TaskIds \cup {NoTask}], prim \in [ScopeIds -> TaskIds \cup {NoTask}] :
            win = winner /\ prim = primary
      BY DEF QueueInv, QueueTypes
    <3>4. terminal(t, "Cancelled", win, prim)
      BY <3>1, <3>3
    <3> QED BY <3>2, <3>4, TerminalQueue
  <2> QED BY <2>2, <2>3
<1>9. ASSUME cancel_unsettled \/ begin_checkpoint_barrier \/ end_checkpoint_barrier \/ UNCHANGED vars PROVE QueueInv'
  <2>1. UNCHANGED <<tstate, ready, target, waiters, swaiters, waiting, holders, winner, primary, taskShape, scopeShape>>
    BY <1>9 DEF cancel_unsettled, begin_checkpoint_barrier, end_checkpoint_barrier, vars, taskVars, scopeVars, schedVars,
       taskShape, scopeShape
  <2> QED BY <2>1, StillQueue
<1>10. ASSUME NEW n \in DOMAIN ready, Dispatch(n) PROVE QueueInv'
  BY <1>10, DispatchQueue
<1>11. ASSUME DispatchNone PROVE QueueInv'
  BY <1>11, DispatchNoneQueue
<1>12. ASSUME NEW p \in TaskIds \cup {NoTask}, NEW pol \in GroupPolicies, NEW lim, NEW ser, NEW jobs \in JobLists, NEW u,
              StartGroup(p, pol, lim, ser, jobs, u)
       PROVE  QueueInv'
  BY <1>12, StartGroupQueue
<1>13. ASSUME NEW p \in TaskIds, NEW job, NEW u, NEW i, Start(p, job, u, i) PROVE QueueInv'
  BY <1>13, StartQueue
<1>14. ASSUME NEW t \in TaskIds, TaskStep(t) PROVE QueueInv'
  BY <1>1, <1>3, <1>4, <1>5, <1>12, <1>13, <1>14 DEF TaskStep
<1>15. ASSUME Coordinator PROVE QueueInv'
  BY <1>2, <1>6, <1>7, <1>8, <1>9, <1>10, <1>11, <1>12, <1>15 DEF Coordinator
<1> QED BY <1>9, <1>14, <1>15 DEF Next

\* The queues list what they should in every reachable state of every instance.
THEOREM QueuesHold == Spec => [](SchedulerInv /\ QueueInv)
<1>1. Init => SchedulerInv /\ QueueInv
  BY InitInv, InitQueue
<1>2. (SchedulerInv /\ QueueInv) /\ [Next]_vars => (SchedulerInv /\ QueueInv)'
  BY NextInv, NextQueue
<1> QED BY <1>1, <1>2, PTL DEF Spec

\* The rotation of dispatch_ready, parking, wakeups and cancellation lose no Ready
\* task and queue none twice, whatever the order of the steps.
THEOREM ReadyQueueIsExact == Spec => []ReadyQueueExact
<1>1. SchedulerInv /\ QueueInv => ReadyQueueExact
  <2> SUFFICES ASSUME QueueInv PROVE ReadyQueueExact
    OBVIOUS
  <2>1. Lists(ready, Entries(ready)) /\ DOMAIN ready = 1..Len(ready)
    BY DEF QueueInv, ReadyListed, Lists
  <2>2. ASSUME NEW t \in TaskIds, tstate[t] = "Ready" PROVE Cardinality({i \in DOMAIN ready : ready[i] = t}) = 1
    <3>1. t \in Entries(ready)
      BY <2>2 DEF QueueInv, ReadyListed
    <3> QED BY <2>1, <3>1, ListedOnce
  <2>3. ASSUME NEW i \in DOMAIN ready PROVE tstate[ready[i]] \in Terminal \cup {"Ready"}
    <3>1. ready[i] \in Entries(ready)
      BY <2>1, <2>3 DEF Entries
    <3> QED BY <3>1 DEF QueueInv, ReadyListed
  <2> QED BY <2>2, <2>3 DEF ReadyQueueExact
<1> QED BY <1>1, QueuesHold, PTL

\* No permit is lost: whatever settles, is cancelled or is admitted, the permit
\* queue lists exactly the parked tasks, and each of them is blocked by a live
\* holder, so the single pass of terminal wakes everyone it can.
THEOREM PermitsAreHandedOn == Spec => []NoLostPermit
<1>1. SchedulerInv /\ QueueInv => NoLostPermit
  <2> SUFFICES ASSUME SchedulerInv, QueueInv PROVE NoLostPermit
    OBVIOUS
  <2> DEFINE W == {t \in TaskIds : tstate[t] = "WaitResource"}
  <2>1. Lists(waiting, W)
    BY DEF QueueInv, ParkedListed
  <2>2. DOMAIN waiting = 1..Len(waiting) /\ W = Entries(waiting)
    BY <2>1 DEF Lists
  <2>3. \A t \in holders : Alive(t)
    BY DEF SchedulerInv, HoldersAlive, Alive
  <2>4. ASSUME NEW t \in TaskIds, tstate[t] = "WaitResource"
        PROVE  /\ \E h \in holders : Clash(keys[t], keys[h])
               /\ Cardinality({i \in DOMAIN waiting : waiting[i] = t}) = 1
    <3>1. t \in W
      BY <2>4
    <3>2. \E h \in holders : Clash(keys[t], keys[h])
      BY <2>4 DEF QueueInv, ParkedListed
    <3> HIDE DEF W
    <3> QED BY <2>1, <3>1, <3>2, ListedOnce
  <2>5. ASSUME NEW i \in DOMAIN waiting PROVE tstate[waiting[i]] = "WaitResource"
    <3>1. waiting[i] \in W
      BY <2>2, <2>5 DEF Entries
    <3> QED BY <3>1
  <2> QED BY <2>3, <2>4, <2>5 DEF NoLostPermit
<1> QED BY <1>1, QueuesHold, PTL

\* A task waits for another task, or for a scope, only while that has something
\* left to settle, and it is registered there exactly once: no interleaving of
\* await, settlement and cancellation loses a wakeup.
THEOREM WakeupsArrive == Spec => []NoLostWakeup
<1>1. SchedulerInv /\ QueueInv => NoLostWakeup
  <2> SUFFICES ASSUME QueueInv, NEW t \in TaskIds
               PROVE  /\ tstate[t] = "WaitTask" =>
                           /\ Alive(target[t])
                           /\ Cardinality({i \in DOMAIN waiters[target[t]] : waiters[target[t]][i] = t}) = 1
                      /\ tstate[t] = "WaitScope" =>
                           /\ \E u \in Members(target[t], tstate) : Alive(u)
                           /\ Cardinality({i \in DOMAIN swaiters[target[t]] : swaiters[target[t]][i] = t}) = 1
    BY DEF NoLostWakeup
  <2>1. ASSUME tstate[t] = "WaitTask"
        PROVE  Alive(target[t]) /\ Cardinality({i \in DOMAIN waiters[target[t]] : waiters[target[t]][i] = t}) = 1
    <3>1. target[t] \in TaskIds /\ Alive(target[t]) /\ t \in Entries(waiters[target[t]])
      BY <2>1 DEF QueueInv, AwaitListed, Alive
    <3>2. Lists(waiters[target[t]], Entries(waiters[target[t]]))
      BY <3>1 DEF QueueInv, AwaitListed
    <3> QED BY <3>1, <3>2, ListedOnce
  <2>2. ASSUME tstate[t] = "WaitScope"
        PROVE  /\ \E u \in Members(target[t], tstate) : Alive(u)
               /\ Cardinality({i \in DOMAIN swaiters[target[t]] : swaiters[target[t]][i] = t}) = 1
    <3>1. target[t] \in ScopeIds /\ t \in Entries(swaiters[target[t]])
      BY <2>2 DEF QueueInv, JoinListed
    <3>2. Lists(swaiters[target[t]], Entries(swaiters[target[t]]))
      BY <3>1 DEF QueueInv, JoinListed
    <3>3. PICK u \in TaskIds : scopeOf[u] = target[t] /\ tstate[u] \notin Inert
      BY <2>2 DEF QueueInv, JoinListed
    <3>4. u \in Members(target[t], tstate) /\ Alive(u)
      BY <3>3 DEF Members, Alive, Inert
    <3> QED BY <3>1, <3>2, <3>4, ListedOnce
  <2> QED BY <2>1, <2>2
<1> QED BY <1>1, QueuesHold, PTL

-----------------------------------------------------------------------------
(***************************************************************************)
(* Slots.  SlotAccounting is not inductive alone: a Ready task that kept   *)
(* its slot must not be parked by dispatch_ready, and it is not because it *)
(* still holds its permits.                                                *)
(***************************************************************************)
Slotted == {"Ready", "Running", "WaitHost", "WaitCpu"}

\* The tasks charged to scope s.
Charged(s) == {t \in TaskIds : slot[t] /\ s \in anc[scopeOf[t]]}

SlotInv ==
  /\ DOMAIN slot = TaskIds /\ anc \in [ScopeIds -> SUBSET ScopeIds]
  /\ \A s \in ScopeIds : active[s] = Cardinality(Charged(s))
  /\ \A t \in TaskIds : slot[t] => tstate[t] \in Slotted /\ t \in holders
  /\ \A t \in TaskIds : tstate[t] \in {"Running", "WaitCpu"} => slot[t]

\* There are finitely many tasks.
LEMMA TasksFinite == IsFiniteSet(TaskIds)
  BY SchedulerConstants, FS_Interval DEF TaskIds

\* The initial state satisfies the invariant.
LEMMA InitSlots == Init => SlotInv
<1> SUFFICES ASSUME Init PROVE SlotInv
  OBVIOUS
<1>1. Root \in ScopeIds
  BY SchedulerConstants DEF Root, ScopeIds
<1>2. anc \in [ScopeIds -> SUBSET ScopeIds] /\ DOMAIN slot = TaskIds
  BY <1>1 DEF Init
<1>3. \A t \in TaskIds : ~slot[t] /\ tstate[t] = "Unborn"
  BY DEF Init
<1>4. ASSUME NEW s \in ScopeIds PROVE active[s] = Cardinality(Charged(s))
  <2>1. Charged(s) = {} /\ active[s] = 0
    BY <1>3 DEF Charged, Init
  <2> QED BY <2>1, FS_EmptySet
<1> QED BY <1>2, <1>3, <1>4 DEF SlotInv

\* How many remain when G joins S and L leaves it.
LEMMA Recount ==
  ASSUME NEW S, IsFiniteSet(S), NEW G, IsFiniteSet(G), S \cap G = {}, NEW L, L \subseteq S
  PROVE  Cardinality((S \cup G) \ L) = Cardinality(S) + Cardinality(G) - Cardinality(L)
<1>1. IsFiniteSet(L)
  BY FS_Subset
<1>2. IsFiniteSet(S \cup G) /\ Cardinality(S \cup G) = Cardinality(S) + Cardinality(G) - Cardinality(S \cap G)
  BY FS_Union
<1>3. Cardinality({}) = 0
  BY FS_EmptySet
<1>4. Cardinality((S \cup G) \ L) = Cardinality(S \cup G) - Cardinality((S \cup G) \cap L)
  BY <1>2, FS_Difference
<1>5. (S \cup G) \cap L = L
  OBVIOUS
<1>6. PICK a \in Nat, b \in Nat, c \in Nat : a = Cardinality(S) /\ b = Cardinality(G) /\ c = Cardinality(L)
  BY <1>1, FS_CardinalityType
<1>7. Cardinality(S \cup G) = a + b - 0
  BY <1>2, <1>3, <1>6, Zenon
<1>8. Cardinality((S \cup G) \ L) = (a + b - 0) - c
  BY <1>4, <1>5, <1>6, <1>7
<1>9. (a + b - 0) - c = a + b - c
  OBVIOUS
<1> QED BY <1>6, <1>8, <1>9

\* A step in which the tasks in gain take a slot and those in lose give theirs back.
Recounted(gain, lose) ==
  /\ gain \subseteq TaskIds /\ \A t \in gain : ~slot[t]
  /\ lose \subseteq TaskIds /\ \A t \in lose : slot[t]
  /\ active' = change_active(gain, lose)
  /\ DOMAIN slot' = TaskIds
  /\ \A t \in TaskIds : slot'[t] <=> (slot[t] \/ t \in gain) /\ t \notin lose
  /\ \A t \in TaskIds : slot[t] \/ t \in gain =>
       scopeOf'[t] = scopeOf[t] /\ anc'[scopeOf[t]] = anc[scopeOf[t]]

\* The counters stay exact: nothing is counted twice and nothing goes below zero.
LEMMA RecountSlots ==
  ASSUME SlotInv, NEW gain, NEW lose, Recounted(gain, lose)
  PROVE  \A s \in ScopeIds : active'[s] = Cardinality(Charged(s)')
<1> SUFFICES ASSUME NEW s \in ScopeIds PROVE active'[s] = Cardinality(Charged(s)')
  OBVIOUS
<1>1. PICK S, G, L : /\ S = Charged(s) /\ G = {t \in gain : s \in anc[scopeOf[t]]}
                     /\ L = {t \in lose : s \in anc[scopeOf[t]]}
  OBVIOUS
<1>2. IsFiniteSet(S) /\ IsFiniteSet(G)
  BY <1>1, TasksFinite, FS_Subset DEF Charged, Recounted
<1>3. S \cap G = {} /\ L \subseteq S
  BY <1>1 DEF Charged, Recounted
<1>4. Charged(s)' = (S \cup G) \ L
  <2>1. \A t \in TaskIds : t \in Charged(s)' <=> slot'[t] /\ s \in anc'[scopeOf'[t]]
    BY DEF Charged
  <2>2. \A t \in TaskIds : t \in (S \cup G) \ L <=> ((slot[t] \/ t \in gain) /\ t \notin lose) /\ s \in anc[scopeOf[t]]
    BY <1>1 DEF Charged, Recounted
  <2>3. \A t \in TaskIds : t \in Charged(s)' <=> t \in (S \cup G) \ L
    BY <2>1, <2>2 DEF Recounted
  <2>4. Charged(s)' \subseteq TaskIds /\ (S \cup G) \ L \subseteq TaskIds
    BY <1>1 DEF Charged, Recounted
  <2> QED BY <2>3, <2>4
<1>5. active'[s] = active[s] + Cardinality(G) - Cardinality(L)
  BY <1>1 DEF Recounted, change_active
<1>6. active[s] = Cardinality(S)
  BY <1>1 DEF SlotInv
<1>7. Cardinality((S \cup G) \ L) = Cardinality(S) + Cardinality(G) - Cardinality(L)
  BY <1>2, <1>3, Recount
<1> QED BY <1>4, <1>5, <1>6, <1>7

\* The rest of the invariant is about single tasks.
LEMMA SlotStep ==
  ASSUME SlotInv, NEW gain, NEW lose, Recounted(gain, lose), anc' \in [ScopeIds -> SUBSET ScopeIds],
         \A t \in TaskIds : slot'[t] => tstate'[t] \in Slotted /\ t \in holders',
         \A t \in TaskIds : tstate'[t] \in {"Running", "WaitCpu"} => slot'[t]
  PROVE  SlotInv'
<1>1. \A s \in ScopeIds : active'[s] = Cardinality(Charged(s)')
  BY RecountSlots
<1>2. DOMAIN slot' = TaskIds
  BY DEF Recounted
<1> QED BY <1>1, <1>2 DEF SlotInv

\* A step that moves no slot.
LEMMA SlotsKept ==
  ASSUME SlotInv, UNCHANGED <<slot, active, anc, scopeOf>>, holders' = holders,
         \A t \in TaskIds : slot[t] => tstate'[t] \in Slotted,
         \A t \in TaskIds : tstate'[t] \in {"Running", "WaitCpu"} => tstate'[t] = tstate[t]
  PROVE  SlotInv'
  BY DEF SlotInv, Charged

\* A task gives up its turn.
LEMMA YieldSlots ==
  ASSUME SchedulerInv, QueueInv, SlotInv, NEW t \in TaskIds, NEW st \in {"Ready", "WaitTask", "WaitHost", "WaitCpu"},
         NEW keep, st = "WaitTask" => ~keep, st = "WaitCpu" => keep, Yields(t, st, keep)
  PROVE  SlotInv'
<1>1. PICK lose : lose = {u \in {t} : ~keep /\ slot[u]}
  OBVIOUS
<1>2. /\ tstate[t] = "Running" /\ tstate' = [tstate EXCEPT ![t] = st] /\ slot' = [slot EXCEPT ![t] = keep /\ @]
      /\ active' = change_active({}, lose) /\ UNCHANGED <<scopeOf, anc, holders>>
  BY <1>1 DEF Yields, Acts, Running, taskShape, scopeShape
<1>3. \A u \in TaskIds : tstate'[u] = IF u = t THEN st ELSE tstate[u]
  BY <1>2 DEF SchedulerInv, Ids
<1>4. DOMAIN slot' = TaskIds /\ \A u \in TaskIds : slot'[u] = IF u = t THEN keep /\ slot[t] ELSE slot[u]
  BY <1>2 DEF SlotInv
<1>5. slot[t]
  BY <1>2 DEF SlotInv
<1>6. Recounted({}, lose)
  BY <1>1, <1>2, <1>4, <1>5 DEF Recounted
<1>7. \A u \in TaskIds : slot'[u] => tstate'[u] \in Slotted /\ u \in holders'
  BY <1>2, <1>3, <1>4 DEF SlotInv, Slotted
<1>8. \A u \in TaskIds : tstate'[u] \in {"Running", "WaitCpu"} => slot'[u]
  BY <1>3, <1>4, <1>5 DEF SlotInv
<1>9. anc' \in [ScopeIds -> SUBSET ScopeIds]
  BY <1>2 DEF SlotInv
<1> QED BY <1>6, <1>7, <1>8, <1>9, SlotStep

\* dispatch_ready admits a task, which takes a slot if it has kept none.
LEMMA DispatchSlots ==
  ASSUME SchedulerInv, QueueInv, SlotInv, NEW n \in DOMAIN ready, Dispatch(n) PROVE SlotInv'
<1>1. PICK t, P, gain : t = ready[n] /\ P = Scan(n - 1).parked /\ gain = {u \in {t} : ~slot[u]}
  OBVIOUS
<1>2. /\ Admissible(t)
      /\ tstate' = [u \in TaskIds |-> IF u = t THEN "Running" ELSE IF u \in P THEN "WaitResource" ELSE tstate[u]]
      /\ holders' = holders \cup {t} /\ slot' = [slot EXCEPT ![t] = TRUE] /\ active' = change_active(gain, {})
      /\ UNCHANGED <<scopeOf, anc>>
  BY <1>1 DEF Dispatch, taskShape, scopeShape
<1>3. t \in TaskIds /\ \A u \in TaskIds : tstate'[u] = IF u = t THEN "Running" ELSE IF u \in P THEN "WaitResource" ELSE tstate[u]
  BY <1>2 DEF Admissible
<1>4. \A u \in P : u \notin holders
  BY <1>1 DEF Scan, Parks, can_acquire
<1>5. DOMAIN slot' = TaskIds /\ \A u \in TaskIds : slot'[u] = IF u = t THEN TRUE ELSE slot[u]
  BY <1>2 DEF SlotInv
<1>6. Recounted(gain, {})
  BY <1>1, <1>2, <1>3, <1>5 DEF Recounted
<1>7. \A u \in TaskIds : slot'[u] => tstate'[u] \in Slotted /\ u \in holders'
  BY <1>2, <1>3, <1>4, <1>5 DEF SlotInv, Slotted
<1>8. \A u \in TaskIds : tstate'[u] \in {"Running", "WaitCpu"} => slot'[u]
  BY <1>3, <1>5 DEF SlotInv
<1>9. anc' \in [ScopeIds -> SUBSET ScopeIds]
  BY <1>2 DEF SlotInv
<1> QED BY <1>6, <1>7, <1>8, <1>9, SlotStep

\* A settled task gives its slot back.
LEMMA TerminalSlots ==
  ASSUME SchedulerInv, QueueInv, SlotInv, NEW t \in TaskIds, NEW out \in Terminal,
         NEW win, NEW prim, terminal(t, out, win, prim)
  PROVE  SlotInv'
<1>1. PICK lose : lose = {u \in {t} : slot[u]}
  OBVIOUS
<1>2. PICK G \in SUBSET TaskIds : Settlement(t, out, G)
  BY TerminalEffect DEF SchedulerInv
<1>3. slot' = [slot EXCEPT ![t] = FALSE] /\ active' = change_active({}, lose) /\ UNCHANGED <<taskShape, scopeShape>>
  BY <1>1 DEF terminal
<1>4. UNCHANGED <<scopeOf, anc>>
  BY <1>3 DEF taskShape, scopeShape
<1>5. DOMAIN slot' = TaskIds /\ \A u \in TaskIds : slot'[u] = IF u = t THEN FALSE ELSE slot[u]
  BY <1>3 DEF SlotInv
<1>6. Recounted({}, lose)
  BY <1>1, <1>3, <1>4, <1>5 DEF Recounted
<1>7. \A u \in TaskIds : slot'[u] => tstate'[u] \in Slotted /\ u \in holders'
  BY <1>2, <1>5 DEF SlotInv, Slotted, Settlement
<1>8. \A u \in TaskIds : tstate'[u] \in {"Running", "WaitCpu"} => slot'[u]
  BY <1>2, <1>5 DEF SlotInv, Settlement, Terminal
<1>9. anc' \in [ScopeIds -> SUBSET ScopeIds]
  BY <1>4 DEF SlotInv
<1> QED BY <1>6, <1>7, <1>8, <1>9, SlotStep

\* The tasks that serialize_invocation charges again hold their permits.
LEMMA RetainedHold ==
  ASSUME SchedulerInv, NEW p, NEW unresolved, NEW t \in serialize_invocation(p, unresolved)
  PROVE  t \in TaskIds /\ t \in holders /\ t # p /\ ~slot[t] /\ tstate[t] \in {"Ready", "WaitHost"}
  BY DEF serialize_invocation, SchedulerInv, Ids

\* std.task.start: the new task has no slot yet.
LEMMA StartSlots ==
  ASSUME SchedulerInv, QueueInv, SlotInv, NEW p \in TaskIds, NEW job, NEW unresolved, NEW index,
         Start(p, job, unresolved, index)
  PROVE  SlotInv'
<1>1. PICK gain : gain = serialize_invocation(p, unresolved)
  OBVIOUS
<1>2. /\ slot' = [t \in TaskIds |-> slot[t] \/ t \in gain] /\ active' = change_active(gain, {})
      /\ UNCHANGED <<anc, holders>>
      /\ tstate' = [t \in TaskIds |-> IF Born(t) THEN "Ready" ELSE tstate[t]]
  BY <1>1 DEF Start
<1>3. \A t \in gain : t \in TaskIds /\ t \in holders /\ ~slot[t] /\ tstate[t] \in {"Ready", "WaitHost"}
  BY <1>1, RetainedHold
<1>4. DOMAIN slot' = TaskIds /\ \A t \in TaskIds : slot'[t] <=> slot[t] \/ t \in gain
  BY <1>2
<1>5. next_task \in Nat /\ next_task' = next_task + 1
  BY DEF SchedulerInv, Ids, Start, spawn_in_scope
<1>6. \A t \in TaskIds : Born(t) => tstate[t] = "Unborn"
  BY <1>5 DEF Born, SchedulerInv, Allocated
<1>7. \A t \in TaskIds : tstate[t] # "Unborn" => scopeOf'[t] = scopeOf[t]
  <2>1. \A t \in TaskIds : scopeOf'[t] = IF t \in next_task .. (next_task + Len(<<job>>) - 1) THEN scopeOf[p] ELSE scopeOf[t]
    BY DEF Start, spawn_in_scope
  <2>2. \A t \in TaskIds : t \in next_task .. (next_task + Len(<<job>>) - 1) => Born(t)
    BY <1>5 DEF Born
  <2> QED BY <1>6, <2>1, <2>2
<1>8. \A t \in TaskIds : slot[t] \/ t \in gain => tstate[t] \in Slotted
  BY <1>3 DEF SlotInv, Slotted
<1>9. Recounted(gain, {})
  <2>1. \A t \in TaskIds : slot[t] \/ t \in gain => scopeOf'[t] = scopeOf[t] /\ anc'[scopeOf[t]] = anc[scopeOf[t]]
    BY <1>2, <1>7, <1>8 DEF Slotted
  <2> QED BY <1>2, <1>3, <1>4, <2>1 DEF Recounted
<1>10. \A t \in TaskIds : slot'[t] => tstate'[t] \in Slotted /\ t \in holders'
  BY <1>2, <1>3, <1>4, <1>8 DEF SlotInv, Slotted
<1>11. \A t \in TaskIds : tstate'[t] \in {"Running", "WaitCpu"} => slot'[t]
  BY <1>2, <1>4 DEF SlotInv
<1>12. anc' \in [ScopeIds -> SUBSET ScopeIds]
  BY <1>2 DEF SlotInv
<1> QED BY <1>9, <1>10, <1>11, <1>12, SlotStep

\* A group: the caller gives its slot back while it waits for the new scope, which
\* nobody is charged to yet.
LEMMA StartGroupSlots ==
  ASSUME SchedulerInv, QueueInv, SlotInv, NEW p \in TaskIds \cup {NoTask}, NEW pol, NEW lim, NEW ser,
         NEW jobs \in JobLists, NEW unresolved, StartGroup(p, pol, lim, ser, jobs, unresolved)
  PROVE  SlotInv'
<1>0. NoTask \notin TaskIds
  BY SchedulerConstants DEF NoTask, TaskIds
<1>1. PICK gain, lose : gain = serialize_invocation(p, unresolved) /\ lose = {t \in {p} : p # NoTask /\ slot[p]}
  OBVIOUS
<1>2. PICK s \in ScopeIds : s = next_scope
  <2>1. next_scope < MaxScopes
    BY Zenon DEF StartGroup
  <2> QED BY <2>1, SchedulerConstants DEF QueueInv, QueueTypes, ScopeIds
<1>3. PICK parent \in ScopeIds : anc' = [anc EXCEPT ![s] = {s} \cup anc[parent]]
  <2>1. Root \in ScopeIds
    BY SchedulerConstants DEF Root, ScopeIds
  <2>2. anc' = [anc EXCEPT ![s] = {s} \cup anc[IF p # NoTask THEN scopeOf[p] ELSE Root]]
    BY <1>2, Zenon DEF StartGroup
  <2> QED BY <2>1, <2>2 DEF QueueInv, QueueTypes
<1>4. /\ slot' = [t \in TaskIds |-> t # p /\ (slot[t] \/ t \in gain)] /\ active' = change_active(gain, lose)
      /\ UNCHANGED holders
      /\ tstate' = [t \in TaskIds |-> IF Born(t) THEN "Ready" ELSE IF t = p THEN "WaitScope" ELSE tstate[t]]
  BY <1>1, Zenon DEF StartGroup
<1>5. p \in TaskIds => tstate[p] = "Running" /\ slot[p]
  <2>1. p # NoTask => Acts(p)
    BY Zenon DEF StartGroup
  <2> QED BY <1>0, <2>1 DEF Acts, Running, SlotInv
<1>6. \A t \in gain : t \in TaskIds /\ t \in holders /\ t # p /\ ~slot[t] /\ tstate[t] \in {"Ready", "WaitHost"}
  BY <1>1, RetainedHold
<1>7. lose \subseteq TaskIds /\ (\A t \in lose : slot[t]) /\ \A t \in TaskIds : t \in lose <=> t = p
  BY <1>0, <1>1, <1>5
<1>8. DOMAIN slot' = TaskIds /\ \A t \in TaskIds : slot'[t] <=> (slot[t] \/ t \in gain) /\ t \notin lose
  BY <1>4, <1>7
<1>9. PICK n \in Nat : n = Len(jobs)
  BY DEF JobLists
<1>10. next_task \in Nat /\ next_task' = next_task + n
  BY <1>9 DEF SchedulerInv, Ids, StartGroup, spawn_in_scope
<1>11. \A t \in TaskIds : Born(t) => tstate[t] = "Unborn"
  BY <1>10 DEF Born, SchedulerInv, Allocated
<1>12. \A t \in TaskIds : tstate[t] # "Unborn" => scopeOf'[t] = scopeOf[t]
  <2>1. \A t \in TaskIds : scopeOf'[t] = IF t \in next_task .. (next_task + n - 1) THEN next_scope ELSE scopeOf[t]
    BY <1>9 DEF StartGroup, spawn_in_scope
  <2>2. \A t \in TaskIds : t \in next_task .. (next_task + n - 1) => Born(t)
    BY <1>10 DEF Born
  <2> QED BY <1>11, <2>1, <2>2
<1>13. \A t \in TaskIds : slot[t] \/ t \in gain => tstate[t] \in Slotted
  BY <1>6 DEF SlotInv, Slotted
<1>14. \A t \in TaskIds : scopeOf[t] # s /\ anc'[scopeOf[t]] = anc[scopeOf[t]]
  <2>1. \A t \in TaskIds : scopeOf[t] \in ScopeIds /\ scopeOf[t] < s /\ s \in Int
    BY <1>2, SchedulerConstants DEF QueueInv, QueueTypes, ScopeIds
  <2>2. \A t \in TaskIds : scopeOf[t] \in ScopeIds /\ scopeOf[t] # s
    BY <2>1
  <2> QED BY <1>3, <2>2 DEF SlotInv
<1>15. Recounted(gain, lose)
  <2>1. \A t \in TaskIds : slot[t] \/ t \in gain => scopeOf'[t] = scopeOf[t] /\ anc'[scopeOf[t]] = anc[scopeOf[t]]
    BY <1>12, <1>13, <1>14 DEF Slotted
  <2> QED BY <1>4, <1>6, <1>7, <1>8, <2>1 DEF Recounted
<1>16. \A t \in TaskIds : slot'[t] => tstate'[t] \in Slotted /\ t \in holders'
  BY <1>4, <1>6, <1>8, <1>7, <1>13 DEF SlotInv, Slotted
<1>17. \A t \in TaskIds : tstate'[t] \in {"Running", "WaitCpu"} => slot'[t]
  <2>1. \A t \in TaskIds : tstate'[t] \in {"Running", "WaitCpu"} => tstate'[t] = tstate[t] /\ t # p
    BY <1>4
  <2> QED BY <1>7, <1>8, <2>1 DEF SlotInv
<1>18. anc' \in [ScopeIds -> SUBSET ScopeIds]
  BY <1>3 DEF SlotInv
<1> QED BY <1>15, <1>16, <1>17, <1>18, SlotStep

\* Every step keeps the invariant.
LEMMA NextSlots == ASSUME SchedulerInv, QueueInv, SlotInv, [Next]_vars PROVE SlotInv'
<1>1. ASSUME NEW t \in TaskIds, requeue(t) \/ wait_for_host(t) \/ wait_for_cpu(t) \/ \E u \in TaskIds : await_task(t, u)
      PROVE  SlotInv'
  <2>1. CASE requeue(t)
    BY <2>1, YieldSlots DEF requeue
  <2>2. CASE wait_for_host(t)
    BY <2>2, YieldSlots DEF wait_for_host
  <2>3. CASE wait_for_cpu(t)
    BY <2>3, YieldSlots DEF wait_for_cpu
  <2>4. CASE \E u \in TaskIds : await_task(t, u)
    BY <2>4, YieldSlots DEF await_task
  <2> QED BY <1>1, <2>1, <2>2, <2>3, <2>4
<1>2. ASSUME NEW t \in TaskIds, wake_from_host(t) PROVE SlotInv'
  <2>1. /\ tstate[t] = "WaitHost" /\ tstate' = [tstate EXCEPT ![t] = "Ready"]
        /\ UNCHANGED <<slot, active, anc, scopeOf, holders>>
    BY <1>2 DEF wake_from_host, taskShape, scopeShape
  <2>2. \A u \in TaskIds : tstate'[u] = IF u = t THEN "Ready" ELSE tstate[u]
    BY <2>1 DEF SchedulerInv, Ids
  <2> QED BY <2>1, <2>2, SlotsKept DEF SlotInv, Slotted
<1>3. ASSUME DispatchNone PROVE SlotInv'
  <2>1. PICK P : P = Scan(Len(ready)).parked
    OBVIOUS
  <2>2. /\ \A u \in TaskIds : tstate'[u] = IF u \in P THEN "WaitResource" ELSE tstate[u]
        /\ UNCHANGED <<slot, active, anc, scopeOf, holders>>
    BY <1>3, <2>1 DEF DispatchNone, taskShape, scopeShape
  <2>3. \A u \in P : u \notin holders
    BY <2>1 DEF Scan, Parks, can_acquire
  <2> QED BY <2>2, <2>3, SlotsKept DEF SlotInv, Slotted
<1>4. ASSUME UNCHANGED <<tstate, slot, active, anc, scopeOf, holders>> PROVE SlotInv'
  BY <1>4, SlotsKept DEF SlotInv
<1>5. ASSUME NEW t \in TaskIds, NEW out \in Terminal, settle(t, out) PROVE SlotInv'
  BY <1>5, TerminalSlots DEF settle
<1>6. ASSUME CancelNext PROVE SlotInv'
  <2>1. PICK t \in TaskIds : t = Head(cancelling)
    BY <1>6 DEF CancelNext
  <2>2. CASE tstate[t] \in Inert \cup {"WaitHost"}
    BY <1>4, <1>6, <2>1, <2>2 DEF CancelNext, taskShape, scopeShape
  <2>3. CASE tstate[t] \notin Inert \cup {"WaitHost"}
    <3>1. terminal(t, "Cancelled", winner, primary) /\ "Cancelled" \in Terminal
      BY <1>6, <2>1, <2>3 DEF CancelNext, Terminal
    <3> QED BY <3>1, TerminalSlots
  <2> QED BY <2>2, <2>3
<1>7. ASSUME cancel_unsettled \/ begin_checkpoint_barrier \/ end_checkpoint_barrier \/ UNCHANGED vars PROVE SlotInv'
  BY <1>4, <1>7 DEF cancel_unsettled, begin_checkpoint_barrier, end_checkpoint_barrier, vars, taskVars, scopeVars, schedVars
<1>8. ASSUME NEW t \in TaskIds, TaskStep(t) PROVE SlotInv'
  <2>1. ASSUME NEW out \in Terminal, Finish(t, out) PROVE SlotInv'
    BY <1>5, <2>1 DEF Finish
  <2>2. ASSUME NEW pol, NEW lim, NEW ser, NEW jobs \in JobLists, NEW u, StartGroup(t, pol, lim, ser, jobs, u) PROVE SlotInv'
    BY <2>2, StartGroupSlots
  <2>3. ASSUME NEW job, NEW u, NEW i, Start(t, job, u, i) PROVE SlotInv'
    BY <2>3, StartSlots
  <2> QED BY <1>1, <1>8, <2>1, <2>2, <2>3 DEF TaskStep
<1>9. ASSUME Coordinator PROVE SlotInv'
  <2>1. ASSUME NEW t \in TaskIds, NEW out \in Terminal, CpuFinish(t, out) PROVE SlotInv'
    BY <1>5, <2>1 DEF CpuFinish
  <2>2. ASSUME NEW t \in TaskIds, NativeCancelled(t) PROVE SlotInv'
    BY <1>5, <2>2 DEF NativeCancelled, Terminal
  <2>3. ASSUME NEW pol, NEW lim, NEW ser, NEW jobs \in JobLists, NEW u, StartGroup(NoTask, pol, lim, ser, jobs, u) PROVE SlotInv'
    BY <2>3, StartGroupSlots
  <2>4. ASSUME NEW n \in DOMAIN ready, Dispatch(n) PROVE SlotInv'
    BY <2>4, DispatchSlots
  <2> QED BY <1>2, <1>3, <1>6, <1>7, <1>9, <2>1, <2>2, <2>3, <2>4 DEF Coordinator
<1> QED BY <1>7, <1>8, <1>9 DEF Next

\* The active counter of a scope is the number of slots held below it in every
\* reachable state of every instance, so checked_sub in change_active never fails.
THEOREM SlotsAreCounted == Spec => []SlotAccounting
<1>1. Init => SchedulerInv /\ QueueInv /\ SlotInv
  BY InitInv, InitQueue, InitSlots
<1>2. (SchedulerInv /\ QueueInv /\ SlotInv) /\ [Next]_vars => (SchedulerInv /\ QueueInv /\ SlotInv)'
  BY NextInv, NextQueue, NextSlots
<1>3. SchedulerInv /\ QueueInv /\ SlotInv => SlotAccounting
  BY DEF SlotInv, SlotAccounting, Charged, Slotted
<1> QED BY <1>1, <1>2, <1>3, PTL DEF Spec

-----------------------------------------------------------------------------
(***************************************************************************)
(* The primary failure of a scope.                                         *)
(***************************************************************************)
Bad == {"Raised", "Failed"}

FailureInv ==
  /\ src \in [TaskIds -> Nat]
  /\ \A t \in TaskIds : tstate[t] \in Bad =>
       /\ primary[scopeOf[t]] # NoTask
       /\ t # primary[scopeOf[t]] => SourceBefore(primary[scopeOf[t]], t)
  /\ \A s \in ScopeIds : primary[s] # NoTask =>
       primary[s] \in TaskIds /\ scopeOf[primary[s]] = s /\ tstate[primary[s]] \in Bad

\* The initial state satisfies the invariant.
LEMMA InitFailures == Init => FailureInv
  BY DEF Init, FailureInv, Bad

\* A step in which nothing raises or fails.
LEMMA FailuresKept ==
  ASSUME QueueInv, FailureInv, primary' = primary, src' \in [TaskIds -> Nat],
         \A u \in TaskIds : tstate'[u] \in Bad <=> tstate[u] \in Bad,
         \A u \in TaskIds : tstate[u] \in Bad => scopeOf'[u] = scopeOf[u] /\ src'[u] = src[u]
  PROVE  FailureInv'
<1>1. \A t \in TaskIds : scopeOf[t] \in ScopeIds
  BY DEF QueueInv, QueueTypes
<1>2. ASSUME NEW t \in TaskIds, tstate'[t] \in Bad
      PROVE  /\ primary'[scopeOf'[t]] # NoTask
             /\ t # primary'[scopeOf'[t]] => SourceBefore(primary[scopeOf[t]], t)'
  <2>1. tstate[t] \in Bad /\ scopeOf'[t] = scopeOf[t] /\ src'[t] = src[t]
    BY <1>2
  <2>2. PICK p : p = primary[scopeOf[t]]
    OBVIOUS
  <2>3. p # NoTask /\ (t # p => SourceBefore(p, t))
    BY <2>1, <2>2 DEF FailureInv
  <2>4. p \in TaskIds /\ src'[p] = src[p]
    BY <1>1, <2>2, <2>3 DEF FailureInv
  <2>5. primary'[scopeOf'[t]] = p
    BY <2>1, <2>2
  <2> QED BY <2>1, <2>3, <2>4, <2>5 DEF SourceBefore
<1>3. ASSUME NEW s \in ScopeIds, primary'[s] # NoTask
      PROVE  primary'[s] \in TaskIds /\ scopeOf'[primary'[s]] = s /\ tstate'[primary'[s]] \in Bad
  BY <1>3 DEF FailureInv
<1> QED BY <1>2, <1>3 DEF FailureInv

\* The order of the source is total and transitive.
LEMMA SourceOrder ==
  ASSUME src \in [TaskIds -> Nat]
  PROVE  /\ \A t, u \in TaskIds : t # u => SourceBefore(t, u) \/ SourceBefore(u, t)
         /\ \A t, u, v \in TaskIds : SourceBefore(t, u) /\ SourceBefore(u, v) => SourceBefore(t, v)
<1>1. \A t \in TaskIds : t \in Int /\ src[t] \in Int
  BY SchedulerConstants DEF TaskIds
<1> QED BY <1>1 DEF SourceBefore

\* A settlement records the failure in its place in the source.
LEMMA TerminalFailures ==
  ASSUME SchedulerInv, QueueInv, FailureInv, NEW t \in TaskIds, tstate[t] \notin Inert, NEW out \in Terminal,
         NEW win, NEW prim, terminal(t, out, win, prim),
         prim = IF out \in Bad THEN record_primary_failure(t) ELSE primary
  PROVE  FailureInv'
<1>1. PICK G \in SUBSET TaskIds : Settlement(t, out, G)
  BY TerminalEffect DEF SchedulerInv
<1>2. primary' = prim /\ UNCHANGED taskShape
  BY DEF terminal
<1>3. UNCHANGED <<scopeOf, src>>
  BY <1>2 DEF taskShape
<1>4. (\A u \in TaskIds : u # t => (tstate'[u] \in Bad <=> tstate[u] \in Bad)) /\ tstate'[t] = out /\ tstate[t] \notin Bad
  BY <1>1 DEF Settlement, Bad, Inert, Terminal
<1>5. CASE out \notin Bad
  <2>1. \A u \in TaskIds : tstate'[u] \in Bad <=> tstate[u] \in Bad
    BY <1>4, <1>5
  <2> QED BY <1>2, <1>3, <1>5, <2>1, FailuresKept DEF FailureInv
<1>6. CASE out \in Bad
  <2>1. PICK s \in ScopeIds : s = scopeOf[t]
    BY DEF QueueInv, QueueTypes
  <2>2. PICK p : p = primary[s]
    OBVIOUS
  <2>3. primary \in [ScopeIds -> TaskIds \cup {NoTask}] /\ src \in [TaskIds -> Nat] /\ NoTask \notin TaskIds
    <3>1. NoTask \notin TaskIds
      BY SchedulerConstants DEF NoTask, TaskIds
    <3> QED BY <3>1 DEF QueueInv, QueueTypes, FailureInv
  <2>4. primary' = IF p = NoTask \/ SourceBefore(t, p) THEN [primary EXCEPT ![s] = t] ELSE primary
    BY <1>2, <1>6, <2>1, <2>2 DEF record_primary_failure
  <2>5. p # NoTask => p \in TaskIds /\ p # t /\ scopeOf[p] = s /\ tstate[p] \in Bad
    BY <1>4, <2>2 DEF FailureInv
  <2>6. PICK q \in TaskIds : q = primary'[s]
    BY <2>2, <2>3, <2>4, <2>5
  <2>7. \A x \in ScopeIds : x # s => primary'[x] = primary[x]
    BY <2>3, <2>4
  <2>8. \/ q = t /\ (p # NoTask => SourceBefore(t, p))
        \/ q = p /\ p # NoTask /\ SourceBefore(p, t)
    <3>1. CASE p = NoTask \/ SourceBefore(t, p)
      BY <2>3, <2>4, <2>6, <3>1
    <3>2. CASE ~(p = NoTask \/ SourceBefore(t, p))
      <4>1. SourceBefore(p, t)
        BY <2>3, <2>5, <3>2, SourceOrder
      <4> QED BY <2>2, <2>4, <2>6, <3>2, <4>1
    <3> QED BY <3>1, <3>2
  <2>9. \A u, v : SourceBefore(u, v)' <=> SourceBefore(u, v)
    BY <1>3 DEF SourceBefore
  <2>10. ASSUME NEW u \in TaskIds, tstate'[u] \in Bad
         PROVE  primary'[scopeOf'[u]] # NoTask /\ (u # primary'[scopeOf'[u]] => SourceBefore(primary[scopeOf[u]], u)')
    <3>0. scopeOf[u] \in ScopeIds /\ scopeOf'[u] = scopeOf[u]
      BY <1>3 DEF QueueInv, QueueTypes
    <3>1. CASE scopeOf[u] # s
      <4>1. tstate[u] \in Bad /\ u # t
        BY <1>4, <2>1, <2>10, <3>1
      <4>2. PICK z : z = primary[scopeOf[u]]
        OBVIOUS
      <4>3. z # NoTask /\ (u # z => SourceBefore(z, u)) /\ primary'[scopeOf'[u]] = z
        BY <2>7, <3>0, <3>1, <4>1, <4>2 DEF FailureInv
      <4> QED BY <2>9, <4>3
    <3>2. CASE scopeOf[u] = s
      <4>1. primary'[scopeOf'[u]] = q /\ q # NoTask
        BY <2>3, <2>6, <3>0, <3>2
      <4>2. ASSUME u # q PROVE SourceBefore(q, u)
        <5>1. CASE u = t
          BY <2>8, <4>2, <5>1
        <5>2. CASE u # t
          <6>1. tstate[u] \in Bad
            BY <1>4, <2>10, <5>2
          <6>2. p # NoTask /\ (u # p => SourceBefore(p, u))
            BY <2>2, <3>2, <6>1 DEF FailureInv
          <6>3. CASE q = p
            BY <4>2, <6>2, <6>3
          <6>4. CASE q = t /\ SourceBefore(t, p)
            <7>1. CASE u = p
              BY <6>4, <7>1
            <7>2. CASE u # p
              <8>1. SourceBefore(t, p) /\ SourceBefore(p, u) /\ p \in TaskIds
                BY <2>5, <6>2, <6>4, <7>2
              <8>2. SourceBefore(t, u)
                BY <2>3, <8>1, SourceOrder
              <8> QED BY <6>4, <8>2
            <7> QED BY <7>1, <7>2
          <6> QED BY <2>8, <6>2, <6>3, <6>4
        <5> QED BY <5>1, <5>2
      <4> QED BY <2>9, <4>1, <4>2
    <3> QED BY <3>1, <3>2
  <2>11. ASSUME NEW x \in ScopeIds, primary'[x] # NoTask
         PROVE  primary'[x] \in TaskIds /\ scopeOf'[primary'[x]] = x /\ tstate'[primary'[x]] \in Bad
    <3>1. CASE x # s
      <4>1. PICK z : z = primary[x] /\ primary'[x] = z
        BY <2>7, <3>1
      <4>2. z \in TaskIds /\ scopeOf[z] = x /\ tstate[z] \in Bad
        BY <2>11, <4>1 DEF FailureInv
      <4>3. z # t
        BY <1>4, <4>2
      <4> QED BY <1>3, <1>4, <4>1, <4>2, <4>3
    <3>2. CASE x = s
      <4>1. primary'[x] = q /\ (q = t \/ (q = p /\ p # NoTask))
        BY <2>6, <2>8, <3>2
      <4>2. CASE q = t
        BY <1>3, <1>4, <1>6, <2>1, <3>2, <4>1, <4>2
      <4>3. CASE q = p /\ p # NoTask
        BY <1>3, <1>4, <2>5, <3>2, <4>1, <4>3
      <4> QED BY <4>1, <4>2, <4>3
    <3> QED BY <3>1, <3>2
  <2> QED BY <1>3, <2>3, <2>10, <2>11 DEF FailureInv
<1> QED BY <1>5, <1>6

\* What Spawned leaves out: the new tasks are numbered from source index first.
Sourced(p, st, sc, n, first) ==
  /\ p \in TaskIds => tstate[p] = "Running"
  /\ next_task' = next_task + n /\ primary' = primary
  /\ tstate' = [t \in TaskIds |-> IF t \in next_task .. (next_task' - 1) THEN "Ready"
                                  ELSE IF t = p THEN st ELSE tstate[t]]
  /\ scopeOf' = [t \in TaskIds |-> IF t \in next_task .. (next_task + n - 1) THEN sc ELSE scopeOf[t]]
  /\ src' = [t \in TaskIds |-> IF t \in next_task .. (next_task + n - 1) THEN first + t - next_task ELSE src[t]]

\* New tasks have not failed yet.
LEMMA SpawnFailures ==
  ASSUME SchedulerInv, QueueInv, FailureInv, NEW p, NEW st \in {"Running", "WaitScope"}, NEW sc, NEW n \in Nat,
         NEW first \in Nat, Sourced(p, st, sc, n, first)
  PROVE  FailureInv'
<1> USE DEF Sourced
<1>1. PICK born : born = next_task .. (next_task + n - 1)
  OBVIOUS
<1>2. next_task \in Nat /\ \A t \in TaskIds : t \in Int
  BY SchedulerConstants DEF SchedulerInv, Ids, TaskIds
<1>3. born = next_task .. (next_task' - 1)
  BY <1>1, <1>2
<1>4. \A t \in TaskIds : t \in born => tstate[t] = "Unborn" /\ t >= next_task
  BY <1>1, <1>2 DEF SchedulerInv, Allocated
<1>5. \A t \in TaskIds : tstate'[t] = IF t \in born THEN "Ready" ELSE IF t = p THEN st ELSE tstate[t]
  BY <1>3
<1>6. \A t \in TaskIds : /\ scopeOf'[t] = IF t \in born THEN sc ELSE scopeOf[t]
                         /\ src'[t] = IF t \in born THEN first + t - next_task ELSE src[t]
  BY <1>1
<1>7. \A t \in TaskIds : tstate'[t] \in Bad <=> tstate[t] \in Bad
  BY <1>4, <1>5 DEF Bad
<1>8. \A t \in TaskIds : tstate[t] \in Bad => scopeOf'[t] = scopeOf[t] /\ src'[t] = src[t]
  BY <1>4, <1>6 DEF Bad
<1>9. src' \in [TaskIds -> Nat]
  <2>1. \A t \in TaskIds : src'[t] \in Nat
    <3> SUFFICES ASSUME NEW t \in TaskIds PROVE src'[t] \in Nat
      OBVIOUS
    <3>1. CASE t \in born
      <4>1. first + t - next_task \in Nat
        BY <1>2, <1>4, <3>1
      <4> QED BY <1>6, <3>1, <4>1
    <3>2. CASE t \notin born
      BY <1>6, <3>2 DEF FailureInv
    <3> QED BY <3>1, <3>2
  <2> QED BY <2>1
<1> QED BY <1>7, <1>8, <1>9, FailuresKept

\* Every step keeps the invariant.
LEMMA NextFailures == ASSUME SchedulerInv, QueueInv, FailureInv, [Next]_vars PROVE FailureInv'
<1>0. NoTask \notin TaskIds
  BY SchedulerConstants DEF NoTask, TaskIds
<1>1. ASSUME NEW p \in TaskIds \cup {NoTask}, NEW pol, NEW lim, NEW ser, NEW jobs \in JobLists, NEW u,
             StartGroup(p, pol, lim, ser, jobs, u)
      PROVE  FailureInv'
  <2>1. PICK n \in Nat : n = Len(jobs)
    BY DEF JobLists
  <2>2. p \in TaskIds => tstate[p] = "Running"
    <3>1. p # NoTask => Acts(p)
      BY <1>1, Zenon DEF StartGroup
    <3> QED BY <1>0, <3>1 DEF Acts, Running
  <2>8. PICK first \in Nat : first = 0
    OBVIOUS
  <2>3. /\ next_task' = next_task + n /\ primary' = primary
        /\ scopeOf' = [t \in TaskIds |-> IF t \in next_task .. (next_task + n - 1) THEN next_scope ELSE scopeOf[t]]
        /\ src' = [t \in TaskIds |-> IF t \in next_task .. (next_task + n - 1) THEN first + t - next_task ELSE src[t]]
    BY <1>1, <2>1, <2>8, Zenon DEF StartGroup, spawn_in_scope
  <2>4. tstate' = [t \in TaskIds |-> IF t \in next_task .. (next_task' - 1) THEN "Ready"
                                     ELSE IF t = p THEN "WaitScope" ELSE tstate[t]]
    BY <1>1 DEF StartGroup, Born
  <2>5. PICK sc : sc = next_scope
    OBVIOUS
  <2>6. scopeOf' = [t \in TaskIds |-> IF t \in next_task .. (next_task + n - 1) THEN sc ELSE scopeOf[t]]
    BY <2>3, <2>5
  <2>7. "WaitScope" \in {"Running", "WaitScope"}
    OBVIOUS
  <2>9. Sourced(p, "WaitScope", sc, n, first)
    BY <2>2, <2>3, <2>4, <2>6 DEF Sourced
  <2> QED BY <2>7, <2>9, SpawnFailures
<1>2. ASSUME NEW p \in TaskIds, NEW job, NEW u, NEW i \in SourceIndexes, Start(p, job, u, i) PROVE FailureInv'
  <2>1. tstate[p] = "Running" /\ i \in Nat /\ Len(<<job>>) = 1
    BY <1>2, SchedulerConstants DEF Start, Acts, Running
  <2>2. /\ next_task' = next_task + 1 /\ primary' = primary
        /\ scopeOf' = [t \in TaskIds |-> IF t \in next_task .. (next_task + 1 - 1) THEN scopeOf[p] ELSE scopeOf[t]]
        /\ src' = [t \in TaskIds |-> IF t \in next_task .. (next_task + 1 - 1) THEN i + t - next_task ELSE src[t]]
    BY <1>2, <2>1 DEF Start, spawn_in_scope
  <2>3. tstate' = [t \in TaskIds |-> IF t \in next_task .. (next_task' - 1) THEN "Ready"
                                     ELSE IF t = p THEN "Running" ELSE tstate[t]]
    BY <1>2, <2>1 DEF Start, Born
  <2>4. PICK sc : sc = scopeOf[p]
    OBVIOUS
  <2>5. scopeOf' = [t \in TaskIds |-> IF t \in next_task .. (next_task + 1 - 1) THEN sc ELSE scopeOf[t]]
    BY <2>2, <2>4
  <2>6. 1 \in Nat /\ "Running" \in {"Running", "WaitScope"}
    OBVIOUS
  <2>7. Sourced(p, "Running", sc, 1, i)
    BY <2>1, <2>2, <2>3, <2>5 DEF Sourced
  <2> QED BY <2>1, <2>6, <2>7, SpawnFailures
<1>3. ASSUME UNCHANGED <<primary, taskShape>>, \A u \in TaskIds : tstate'[u] \in Bad <=> tstate[u] \in Bad PROVE FailureInv'
  <2>1. UNCHANGED <<scopeOf, src>>
    BY <1>3 DEF taskShape
  <2> QED BY <1>3, <2>1, FailuresKept DEF FailureInv
<1>4. ASSUME NEW n, Dispatch(n) PROVE FailureInv'
  <2>1. PICK P : P = Scan(n - 1).parked
    OBVIOUS
  <2>2. /\ tstate[ready[n]] = "Ready" /\ UNCHANGED <<primary, taskShape>>
        /\ \A u \in TaskIds : tstate'[u] = IF u = ready[n] THEN "Running" ELSE IF u \in P THEN "WaitResource" ELSE tstate[u]
    BY <1>4, <2>1 DEF Dispatch, Admissible
  <2>3. \A u \in P : tstate[u] = "Ready"
    BY <2>1 DEF Scan, Parks
  <2>4. \A u \in TaskIds : tstate'[u] \in Bad <=> tstate[u] \in Bad
    BY <2>2, <2>3 DEF Bad
  <2> QED BY <1>3, <2>2, <2>4
<1>5. ASSUME DispatchNone PROVE FailureInv'
  <2>1. PICK P : P = Scan(Len(ready)).parked
    OBVIOUS
  <2>2. /\ UNCHANGED <<primary, taskShape>>
        /\ \A u \in TaskIds : tstate'[u] = IF u \in P THEN "WaitResource" ELSE tstate[u]
    BY <1>5, <2>1 DEF DispatchNone
  <2>3. \A u \in P : tstate[u] = "Ready"
    BY <2>1 DEF Scan, Parks
  <2>4. \A u \in TaskIds : tstate'[u] \in Bad <=> tstate[u] \in Bad
    BY <2>2, <2>3 DEF Bad
  <2> QED BY <1>3, <2>2, <2>4
<1>6. ASSUME NEW t \in TaskIds, NEW st \in {"Ready", "WaitTask", "WaitHost", "WaitCpu"}, tstate[t] \notin Bad,
             tstate' = [tstate EXCEPT ![t] = st], UNCHANGED <<primary, taskShape>>
      PROVE  FailureInv'
  <2>1. \A u \in TaskIds : tstate'[u] \in Bad <=> tstate[u] \in Bad
    BY <1>6 DEF SchedulerInv, Ids, Bad
  <2> QED BY <1>3, <1>6, <2>1
<1>7. ASSUME NEW t \in TaskIds, NEW st \in {"Ready", "WaitTask", "WaitHost", "WaitCpu"}, NEW keep, Yields(t, st, keep)
      PROVE  FailureInv'
  <2>1. tstate[t] \notin Bad /\ tstate' = [tstate EXCEPT ![t] = st] /\ UNCHANGED <<primary, taskShape>>
    BY <1>7 DEF Yields, Acts, Running, Bad
  <2> QED BY <1>6, <2>1
<1>8. ASSUME NEW t \in TaskIds, NEW out \in Terminal, settle(t, out), tstate[t] \notin Inert PROVE FailureInv'
  <2>1. PICK win, prim : /\ terminal(t, out, win, prim)
                         /\ prim = IF out \in Bad THEN record_primary_failure(t) ELSE primary
    <3>1. \E win, prim : /\ prim = (IF out \in {"Raised", "Failed"} THEN record_primary_failure(t) ELSE primary)
                         /\ terminal(t, out, win, prim)
      BY <1>8, Zenon DEF settle
    <3> QED BY <3>1 DEF Bad
  <2> QED BY <1>8, <2>1, TerminalFailures
<1>9. ASSUME CancelNext PROVE FailureInv'
  <2>1. PICK t \in TaskIds : t = Head(cancelling)
    BY <1>9 DEF CancelNext
  <2>2. CASE tstate[t] \in Inert \cup {"WaitHost"}
    <3>1. UNCHANGED <<tstate, primary, taskShape>>
      BY <1>9, <2>1, <2>2 DEF CancelNext
    <3> QED BY <1>3, <3>1
  <2>3. CASE tstate[t] \notin Inert \cup {"WaitHost"}
    <3>1. PICK win, prim : win = winner /\ prim = primary
      OBVIOUS
    <3>2. terminal(t, "Cancelled", win, prim)
      BY <1>9, <2>1, <2>3, <3>1 DEF CancelNext
    <3>3. /\ "Cancelled" \in Terminal /\ tstate[t] \notin Inert
          /\ prim = IF "Cancelled" \in Bad THEN record_primary_failure(t) ELSE primary
      BY <2>3, <3>1 DEF Terminal, Bad
    <3> QED BY <3>2, <3>3, TerminalFailures
  <2> QED BY <2>2, <2>3
<1>10. ASSUME cancel_unsettled \/ begin_checkpoint_barrier \/ end_checkpoint_barrier \/ UNCHANGED vars PROVE FailureInv'
  <2>1. UNCHANGED <<tstate, primary, taskShape>>
    BY <1>10 DEF cancel_unsettled, begin_checkpoint_barrier, end_checkpoint_barrier, vars, taskVars, scopeVars, schedVars,
       taskShape
  <2> QED BY <1>3, <2>1
<1>11. ASSUME NEW t \in TaskIds, TaskStep(t) PROVE FailureInv'
  <2>1. ASSUME NEW out \in Terminal, Finish(t, out) PROVE FailureInv'
    BY <1>8, <2>1 DEF Finish, Running, Inert, Terminal
  <2>2. requeue(t) => FailureInv'
    BY <1>7 DEF requeue
  <2>3. ASSUME NEW u, await_task(t, u) PROVE FailureInv'
    BY <2>3, <1>7 DEF await_task
  <2>4. wait_for_host(t) => FailureInv'
    BY <1>7 DEF wait_for_host
  <2>5. wait_for_cpu(t) => FailureInv'
    BY <1>7 DEF wait_for_cpu
  <2> QED BY <1>1, <1>2, <1>11, <2>1, <2>2, <2>3, <2>4, <2>5 DEF TaskStep
<1>12. ASSUME Coordinator PROVE FailureInv'
  <2>1. ASSUME NEW t \in TaskIds, wake_from_host(t) PROVE FailureInv'
    BY <2>1, <1>6 DEF wake_from_host, Bad
  <2>2. ASSUME NEW t \in TaskIds, NEW out \in Terminal, CpuFinish(t, out) PROVE FailureInv'
    BY <1>8, <2>2 DEF CpuFinish, Inert, Terminal
  <2>3. ASSUME NEW t \in TaskIds, NativeCancelled(t) PROVE FailureInv'
    BY <1>8, <2>3 DEF NativeCancelled, Inert, Terminal
  <2> QED BY <1>1, <1>4, <1>5, <1>9, <1>10, <1>12, <2>1, <2>2, <2>3 DEF Coordinator
<1> QED BY <1>10, <1>11, <1>12 DEF Next

\* The failure a scope reports is the one that comes first in the source, in
\* whatever order its members settle and however the scopes are nested
\* (record_primary_failure).
THEOREM PrimaryIsFirst == Spec => []PrimaryIsFirstInSource
<1>1. Init => SchedulerInv /\ QueueInv /\ FailureInv
  BY InitInv, InitQueue, InitFailures
<1>2. (SchedulerInv /\ QueueInv /\ FailureInv) /\ [Next]_vars => (SchedulerInv /\ QueueInv /\ FailureInv)'
  BY NextInv, NextQueue, NextFailures
<1>3. SchedulerInv /\ QueueInv /\ FailureInv => PrimaryIsFirstInSource
  <2> SUFFICES ASSUME FailureInv, NEW s \in ScopeIds, NEW bad,
                      bad = {t \in Members(s, tstate) : tstate[t] \in {"Raised", "Failed"}}
               PROVE  IF primary[s] = NoTask THEN bad = {}
                      ELSE primary[s] \in bad /\ \A t \in bad \ {primary[s]} : SourceBefore(primary[s], t)
    BY DEF PrimaryIsFirstInSource
  <2>1. \A t : t \in bad <=> t \in TaskIds /\ scopeOf[t] = s /\ tstate[t] \in Bad
    BY DEF Members, Bad
  <2>2. CASE primary[s] = NoTask
    BY <2>1, <2>2 DEF FailureInv
  <2>3. CASE primary[s] # NoTask
    BY <2>1, <2>3 DEF FailureInv
  <2> QED BY <2>2, <2>3
<1> QED BY <1>1, <1>2, <1>3, PTL DEF Spec

-----------------------------------------------------------------------------
(***************************************************************************)
(* Concurrency limits, kept for every tree of scopes as long as the        *)
(* invocation is not serialized.  The bound alone is not inductive: a new  *)
(* scope starts with a limit of its own, so its counter must be known to   *)
(* be zero, and for that no task may be charged to a scope that does not   *)
(* exist yet.                                                              *)
(***************************************************************************)
ScopeTypes ==
  /\ anc \in [ScopeIds -> SUBSET ScopeIds]
  /\ limit \in [ScopeIds -> Nat]
  /\ active \in [ScopeIds -> Int]
  /\ scopeOf \in [TaskIds -> ScopeIds]
  /\ next_scope \in Nat \ {0}

\* Scope ids are handed out in order, and ancestors are older.
ScopeTree ==
  /\ \A t \in TaskIds : scopeOf[t] < next_scope
  /\ \A s \in ScopeIds : s < next_scope => \A a \in anc[s] : a < next_scope
  /\ \A s \in ScopeIds : s >= next_scope => active[s] <= 0

Bounded == \A s \in ScopeIds : active[s] <= limit[s]

ConcurrencyInv == ~serial => ScopeTypes /\ ScopeTree /\ Bounded

-----------------------------------------------------------------------------
\* Scope ids are natural numbers, so they can be compared with next_scope.
LEMMA ScopeIdsAreNat == \A s \in ScopeIds : s \in Nat
  BY SchedulerConstants DEF ScopeIds

\* A part of a singleton has at most one element.
LEMMA AtMostOne ==
  ASSUME NEW t, NEW S \in SUBSET {t}
  PROVE  Cardinality(S) \in {0, 1}
<1>1. CASE S = {}
  BY <1>1, FS_EmptySet
<1>2. CASE S = {t}
  BY <1>2, FS_Singleton
<1> QED BY <1>1, <1>2

\* change_active yields a function on the scopes.
LEMMA CountersAreInts ==
  ASSUME NEW G, NEW L, \A s \in ScopeIds : change_active(G, L)[s] \in Int
  PROVE  change_active(G, L) \in [ScopeIds -> Int]
<1> DEFINE f(s) == active[s] + Cardinality({t \in G : s \in anc[scopeOf[t]]})
                             - Cardinality({t \in L : s \in anc[scopeOf[t]]})
<1>1. change_active(G, L) = [s \in ScopeIds |-> f(s)]
  BY DEF change_active
<1> HIDE DEF f
<1> QED BY <1>1

\* Giving back a slot only lowers counters.
LEMMA ReleaseLowers ==
  ASSUME ScopeTypes, NEW t, NEW L \in SUBSET {t}
  PROVE  \A s \in ScopeIds : change_active({}, L)[s] \in Int /\ change_active({}, L)[s] <= active[s]
<1> SUFFICES ASSUME NEW s \in ScopeIds
             PROVE  change_active({}, L)[s] \in Int /\ change_active({}, L)[s] <= active[s]
  OBVIOUS
<1> DEFINE none == {u \in {} : s \in anc[scopeOf[u]]}
           lost == {u \in L : s \in anc[scopeOf[u]]}
<1>1. Cardinality(none) = 0
  <2>1. none = {}
    OBVIOUS
  <2> QED BY <2>1, FS_EmptySet
<1>2. Cardinality(lost) \in {0, 1}
  <2>1. lost \in SUBSET {t}
    OBVIOUS
  <2> QED BY <2>1, AtMostOne
<1>3. change_active({}, L)[s] = active[s] + Cardinality(none) - Cardinality(lost)
  BY DEF change_active
<1>4. active[s] \in Int
  BY DEF ScopeTypes
<1> HIDE DEF none, lost
<1> QED BY <1>1, <1>2, <1>3, <1>4

\* Admission raises the counters on the way to the root by at most one, and only
\* where can_admit found room.
LEMMA AdmitBounded ==
  ASSUME ScopeTypes, ScopeTree, Bounded, NEW t \in TaskIds, NEW gain \in SUBSET {t},
         gain # {} => can_admit(scopeOf[t])
  PROVE  \A s \in ScopeIds :
           /\ change_active(gain, {})[s] \in Int
           /\ change_active(gain, {})[s] <= limit[s]
           /\ s >= next_scope => change_active(gain, {})[s] <= 0
<1> SUFFICES ASSUME NEW s \in ScopeIds
             PROVE  /\ change_active(gain, {})[s] \in Int
                    /\ change_active(gain, {})[s] <= limit[s]
                    /\ s >= next_scope => change_active(gain, {})[s] <= 0
  OBVIOUS
<1> DEFINE none == {u \in {} : s \in anc[scopeOf[u]]}
           won == {u \in gain : s \in anc[scopeOf[u]]}
<1>1. Cardinality(none) = 0
  <2>1. none = {}
    OBVIOUS
  <2> QED BY <2>1, FS_EmptySet
<1>2. Cardinality(won) \in {0, 1}
  <2>1. won \in SUBSET {t}
    OBVIOUS
  <2> QED BY <2>1, AtMostOne
<1>3. change_active(gain, {})[s] = active[s] + Cardinality(won) - Cardinality(none)
  BY DEF change_active
<1>4. active[s] \in Int /\ limit[s] \in Nat /\ active[s] <= limit[s]
  BY DEF ScopeTypes, Bounded
<1>5. CASE won = {}
  <2>1. Cardinality(won) = 0
    BY <1>5, FS_EmptySet
  <2>2. change_active(gain, {})[s] = active[s]
    BY <1>1, <1>3, <1>4, <2>1
  <2> QED BY <1>4, <2>2 DEF ScopeTree
<1>6. CASE won # {}
  <2>1. t \in gain /\ s \in anc[scopeOf[t]]
    BY <1>6
  <2>2. active[s] < limit[s]
    BY <2>1 DEF can_admit
  <2>3. s < next_scope
    BY <2>1 DEF ScopeTree, ScopeTypes
  <2>4. ~(s >= next_scope)
    BY <2>3, ScopeIdsAreNat DEF ScopeTypes
  <2> HIDE DEF none, won
  <2> QED BY <1>1, <1>2, <1>3, <1>4, <2>2, <2>4
<1> QED BY <1>5, <1>6

-----------------------------------------------------------------------------
\* Only the root scope exists at first, and no slot is taken.
LEMMA InitBounded == Init => ConcurrencyInv
  BY SchedulerConstants, ScopeIdsAreNat
     DEF Init, ConcurrencyInv, ScopeTypes, ScopeTree, Bounded, Root, ScopeIds, TaskIds

\* A step that at most gives back the slot of one task and leaves the tree alone.
LEMMA ReleaseBounded ==
  ASSUME ConcurrencyInv, NEW t, NEW L \in SUBSET {t}, active' = change_active({}, L),
         UNCHANGED <<anc, limit, scopeOf, next_scope, serial>>
  PROVE  ConcurrencyInv'
<1> SUFFICES ASSUME ~serial PROVE ScopeTypes' /\ ScopeTree' /\ Bounded'
  BY DEF ConcurrencyInv
<1>1. ScopeTypes /\ ScopeTree /\ Bounded
  BY DEF ConcurrencyInv
<1>2. \A s \in ScopeIds : active'[s] \in Int /\ active'[s] <= active[s]
  BY <1>1, ReleaseLowers
<1>3. active' \in [ScopeIds -> Int]
  BY <1>2 DEF change_active
<1>4. \A s \in ScopeIds : active[s] \in Int /\ limit[s] \in Nat
  BY <1>1 DEF ScopeTypes
<1>5. ScopeTypes'
  BY <1>1, <1>3 DEF ScopeTypes
<1>6. ScopeTree'
  BY <1>1, <1>2, <1>4 DEF ScopeTree
<1>7. Bounded'
  BY <1>1, <1>2, <1>4 DEF Bounded
<1> QED BY <1>5, <1>6, <1>7

\* A step that touches neither counters nor scopes keeps the invariant.
LEMMA FrameBounded ==
  ASSUME ConcurrencyInv, UNCHANGED <<active, anc, limit, scopeOf, next_scope, serial>>
  PROVE  ConcurrencyInv'
  BY DEF ConcurrencyInv, ScopeTypes, ScopeTree, Bounded

\* dispatch_ready takes a slot only where can_admit has found room.
LEMMA DispatchBounded ==
  ASSUME ConcurrencyInv, NEW n, Dispatch(n)
  PROVE  ConcurrencyInv'
<1> SUFFICES ASSUME ~serial' PROVE ScopeTypes' /\ ScopeTree' /\ Bounded'
  BY DEF ConcurrencyInv
<1> DEFINE t == ready[n]
           gain == {u \in {t} : ~slot[u]}
<1>1. UNCHANGED <<anc, limit, scopeOf, next_scope, serial>>
  BY DEF Dispatch, taskShape, scopeShape
<1>2. ScopeTypes /\ ScopeTree /\ Bounded
  BY <1>1 DEF ConcurrencyInv
<1>3. active' = change_active(gain, {})
  BY DEF Dispatch
<1>4. t \in TaskIds /\ (gain # {} => can_admit(scopeOf[t]))
  BY DEF Dispatch, Admissible, Blocked
<1>5. gain \in SUBSET {t}
  OBVIOUS
<1> HIDE DEF gain, t
<1>6. \A s \in ScopeIds :
        /\ active'[s] \in Int
        /\ active'[s] <= limit[s]
        /\ s >= next_scope => active'[s] <= 0
  BY <1>2, <1>3, <1>4, <1>5, AdmitBounded
<1>7. active' \in [ScopeIds -> Int]
  BY <1>3, <1>6, CountersAreInts
<1>8. ScopeTypes'
  BY <1>1, <1>2, <1>7 DEF ScopeTypes
<1>9. ScopeTree'
  BY <1>1, <1>2, <1>6 DEF ScopeTree
<1>10. Bounded'
  BY <1>1, <1>6 DEF Bounded
<1> QED BY <1>8, <1>9, <1>10

\* std.task.start with resolved selectors charges nothing.
LEMMA StartBounded ==
  ASSUME ConcurrencyInv, NEW p \in TaskIds, NEW job, NEW unresolved, NEW index,
         Start(p, job, unresolved, index)
  PROVE  ConcurrencyInv'
<1> SUFFICES ASSUME ~serial' PROVE ScopeTypes' /\ ScopeTree' /\ Bounded'
  BY DEF ConcurrencyInv
<1>1. serial' = (serial \/ unresolved # {})
  BY Zenon DEF Start
<1>2. unresolved = {} /\ ScopeTypes /\ ScopeTree /\ Bounded
  BY <1>1 DEF ConcurrencyInv
<1>3. active' = change_active({}, {})
  <2>1. active' = change_active(serialize_invocation(p, unresolved), {})
    BY Zenon DEF Start
  <2>2. serialize_invocation(p, unresolved) = {}
    BY <1>2 DEF serialize_invocation
  <2> QED BY <2>1, <2>2
<1>4. \A s \in ScopeIds : active'[s] \in Int /\ active'[s] <= active[s]
  BY <1>2, <1>3, ReleaseLowers
<1>5. active' \in [ScopeIds -> Int]
  BY <1>3, <1>4 DEF change_active
<1>6. limit' = limit
  <2>1. limit' = [limit EXCEPT ![Root] = IF unresolved # {} THEN 1 ELSE @]
    BY Zenon DEF Start
  <2> QED BY <1>2, <2>1 DEF ScopeTypes
<1>7. UNCHANGED <<anc, next_scope>>
  BY DEF Start
<1>8. scopeOf' = [t \in TaskIds |-> IF t \in next_task .. (next_task + Len(<<job>>) - 1)
                                    THEN scopeOf[p] ELSE scopeOf[t]]
  BY Zenon DEF Start, spawn_in_scope
<1>9. ScopeTypes'
  BY <1>2, <1>5, <1>6, <1>7, <1>8 DEF ScopeTypes
<1>10. \A s \in ScopeIds : active[s] \in Int /\ limit[s] \in Nat
  BY <1>2 DEF ScopeTypes
<1>11. ScopeTree'
  BY <1>2, <1>4, <1>7, <1>8, <1>10 DEF ScopeTree
<1>12. Bounded'
  BY <1>2, <1>4, <1>6, <1>10 DEF Bounded
<1> QED BY <1>9, <1>11, <1>12

\* A new scope starts with a zero counter, and its ancestors already exist.
LEMMA StartGroupBounded ==
  ASSUME ConcurrencyInv, NEW p \in TaskIds \cup {NoTask}, NEW pol, NEW lim \in Limits, NEW ser,
         NEW jobs, NEW unresolved, StartGroup(p, pol, lim, ser, jobs, unresolved)
  PROVE  ConcurrencyInv'
<1> SUFFICES ASSUME ~serial' PROVE ScopeTypes' /\ ScopeTree' /\ Bounded'
  BY DEF ConcurrencyInv
<1> DEFINE s == next_scope
           parent == IF p # NoTask THEN scopeOf[p] ELSE Root
           lose == {t \in {p} : p # NoTask /\ slot[p]}
<1>1. serial' = (serial \/ unresolved # {})
  BY Zenon DEF StartGroup
<1>2. unresolved = {} /\ ScopeTypes /\ ScopeTree /\ Bounded
  BY <1>1 DEF ConcurrencyInv
<1>3. s \in ScopeIds /\ s \in Nat \ {0} /\ next_scope' = s + 1
  <2>1. s < MaxScopes /\ next_scope' = s + 1
    BY Zenon DEF StartGroup
  <2> QED BY <1>2, <2>1, SchedulerConstants DEF ScopeTypes, ScopeIds
<1>4. Root \in ScopeIds /\ Root < s
  BY <1>2, SchedulerConstants DEF ScopeTypes, ScopeIds, Root
<1>5. parent \in ScopeIds /\ parent < s
  BY <1>2, <1>4 DEF ScopeTypes, ScopeTree
<1>6. anc' = [anc EXCEPT ![s] = {s} \cup anc[parent]]
  BY Zenon DEF StartGroup
<1>7. active' = change_active({}, lose)
  <2>1. active' = change_active(serialize_invocation(p, unresolved), lose)
    BY Zenon DEF StartGroup
  <2>2. serialize_invocation(p, unresolved) = {}
    BY <1>2 DEF serialize_invocation
  <2> QED BY <2>1, <2>2
<1>8. \A a \in ScopeIds : active'[a] \in Int /\ active'[a] <= active[a]
  <2>1. lose \in SUBSET {p}
    OBVIOUS
  <2> QED BY <1>2, <1>7, <2>1, ReleaseLowers
<1>9. active' \in [ScopeIds -> Int]
  BY <1>7, <1>8 DEF change_active
<1>10. limit' = [limit EXCEPT ![s] = lim]
  <2>1. limit' = [limit EXCEPT ![s] = lim, ![Root] = IF unresolved # {} THEN 1 ELSE @]
    BY Zenon DEF StartGroup
  <2>2. limit \in [ScopeIds -> Nat] /\ s # Root
    BY <1>2, <1>3, <1>4 DEF ScopeTypes, Root
  <2> HIDE DEF s
  <2>3. limit' = [[limit EXCEPT ![s] = lim] EXCEPT ![Root] = limit[Root]]
    BY <1>2, <1>3, <2>1, <2>2
  <2> QED BY <1>3, <1>4, <2>2, <2>3
<1>11. scopeOf' = [t \in TaskIds |-> IF t \in next_task .. (next_task + Len(jobs) - 1)
                                     THEN s ELSE scopeOf[t]]
  BY Zenon DEF StartGroup, spawn_in_scope
<1>12. lim \in Nat
  BY SchedulerConstants
<1> HIDE DEF s, parent, lose
<1>13. \A a \in ScopeIds : a \in Nat /\ active[a] \in Int /\ limit[a] \in Nat
  BY <1>2, ScopeIdsAreNat DEF ScopeTypes
<1>14. ScopeTypes'
  BY <1>2, <1>3, <1>5, <1>6, <1>9, <1>10, <1>11, <1>12 DEF ScopeTypes
<1>15. \A t \in TaskIds : scopeOf'[t] < next_scope'
  <2> SUFFICES ASSUME NEW t \in TaskIds PROVE scopeOf'[t] < next_scope'
    OBVIOUS
  <2>1. scopeOf'[t] = s \/ scopeOf'[t] = scopeOf[t]
    BY <1>11
  <2>2. scopeOf[t] < s /\ scopeOf[t] \in Nat
    BY <1>2, <1>13 DEF ScopeTree, ScopeTypes, s
  <2> QED BY <1>3, <2>1, <2>2
<1>16. ASSUME NEW a \in ScopeIds, a < next_scope', NEW b \in anc'[a] PROVE b < next_scope'
  <2>1. b \in Nat
    BY <1>13, <1>14, <1>16 DEF ScopeTypes
  <2>2. CASE a = s
    <3>1. b = s \/ b \in anc[parent]
      BY <1>2, <1>3, <1>6, <1>16, <2>2 DEF ScopeTypes
    <3>2. b \in anc[parent] => b < s
      BY <1>2, <1>5 DEF ScopeTree, s
    <3> QED BY <1>3, <2>1, <3>1, <3>2
  <2>3. CASE a # s
    <3>1. a < s
      BY <1>3, <1>13, <1>16, <2>3
    <3>2. b \in anc[a]
      BY <1>2, <1>6, <1>16, <2>3 DEF ScopeTypes
    <3>3. b < s
      BY <1>2, <3>1, <3>2 DEF ScopeTree, s
    <3> QED BY <1>3, <2>1, <3>3
  <2> QED BY <2>2, <2>3
<1>17. ASSUME NEW a \in ScopeIds, a >= next_scope' PROVE active'[a] <= 0
  <2>1. a >= s
    BY <1>3, <1>13, <1>17
  <2>2. active[a] <= 0
    BY <1>2, <2>1 DEF ScopeTree, s
  <2> QED BY <1>8, <1>13, <2>2
<1>18. Bounded'
  <2> SUFFICES ASSUME NEW a \in ScopeIds PROVE active'[a] <= limit'[a]
    BY DEF Bounded
  <2>1. CASE a = s
    <3>1. active[s] <= 0
      BY <1>2, <1>3 DEF ScopeTree, s
    <3>2. limit'[a] = lim
      BY <1>2, <1>3, <1>10, <2>1 DEF ScopeTypes
    <3> QED BY <1>8, <1>12, <1>13, <2>1, <3>1, <3>2
  <2>2. CASE a # s
    <3>1. limit'[a] = limit[a]
      BY <1>2, <1>10, <2>2 DEF ScopeTypes
    <3> QED BY <1>2, <1>8, <1>13, <3>1 DEF Bounded
  <2> QED BY <2>1, <2>2
<1> QED BY <1>14, <1>15, <1>16, <1>17, <1>18 DEF ScopeTree

\* A settling task at most gives its slot back.
LEMMA TerminalBounded ==
  ASSUME ConcurrencyInv, NEW t, NEW out, NEW win, NEW prim, terminal(t, out, win, prim)
  PROVE  ConcurrencyInv'
<1>1. /\ active' = change_active({}, {u \in {t} : slot[u]})
      /\ UNCHANGED <<taskShape, scopeShape>>
  BY Zenon DEF terminal
<1>2. UNCHANGED <<anc, limit, scopeOf, next_scope, serial>>
  BY <1>1 DEF taskShape, scopeShape
<1>3. {u \in {t} : slot[u]} \in SUBSET {t}
  OBVIOUS
<1> QED BY <1>1, <1>2, <1>3, ReleaseBounded

\* Every step keeps the invariant.
LEMMA NextBounded == ConcurrencyInv /\ [Next]_vars => ConcurrencyInv'
<1> SUFFICES ASSUME ConcurrencyInv, [Next]_vars PROVE ConcurrencyInv'
  OBVIOUS
<1>1. ASSUME NEW t, NEW st, NEW keep, Yields(t, st, keep) PROVE ConcurrencyInv'
  <2>1. /\ active' = change_active({}, {u \in {t} : ~keep /\ slot[u]})
        /\ UNCHANGED <<anc, limit, scopeOf, next_scope, serial>>
    BY <1>1 DEF Yields, taskShape, scopeShape
  <2>2. {u \in {t} : ~keep /\ slot[u]} \in SUBSET {t}
    OBVIOUS
  <2> QED BY <2>1, <2>2, ReleaseBounded
<1>2. ASSUME NEW t, NEW out, settle(t, out) PROVE ConcurrencyInv'
  BY <1>2, TerminalBounded DEF settle
<1>3. ASSUME CancelNext PROVE ConcurrencyInv'
  <2>1. CASE tstate[Head(cancelling)] \in Inert \cup {"WaitHost"}
    BY <1>3, <2>1, FrameBounded DEF CancelNext, taskShape, scopeShape
  <2>2. CASE tstate[Head(cancelling)] \notin Inert \cup {"WaitHost"}
    BY <1>3, <2>2, TerminalBounded DEF CancelNext
  <2> QED BY <2>1, <2>2
<1>4. ASSUME NEW t \in TaskIds, TaskStep(t) PROVE ConcurrencyInv'
  <2>1. ASSUME NEW out, Finish(t, out) PROVE ConcurrencyInv'
    BY <2>1, <1>2 DEF Finish
  <2>2. requeue(t) => ConcurrencyInv'
    BY <1>1 DEF requeue
  <2>3. ASSUME NEW u, await_task(t, u) PROVE ConcurrencyInv'
    BY <2>3, <1>1 DEF await_task
  <2>4. wait_for_host(t) => ConcurrencyInv'
    BY <1>1 DEF wait_for_host
  <2>5. wait_for_cpu(t) => ConcurrencyInv'
    BY <1>1 DEF wait_for_cpu
  <2> QED BY <1>4, <2>1, <2>2, <2>3, <2>4, <2>5, StartGroupBounded, StartBounded DEF TaskStep
<1>5. ASSUME Coordinator PROVE ConcurrencyInv'
  <2>1. ASSUME NEW t, wake_from_host(t) PROVE ConcurrencyInv'
    BY <2>1, FrameBounded DEF wake_from_host, taskShape, scopeShape
  <2>2. ASSUME NEW t, NEW out, CpuFinish(t, out) PROVE ConcurrencyInv'
    BY <2>2, <1>2 DEF CpuFinish
  <2>7. ASSUME NEW t, NativeCancelled(t) PROVE ConcurrencyInv'
    BY <2>7, <1>2 DEF NativeCancelled
  <2>3. DispatchNone => ConcurrencyInv'
    BY FrameBounded DEF DispatchNone, taskShape, scopeShape
  <2>4. cancel_unsettled => ConcurrencyInv'
    BY FrameBounded DEF cancel_unsettled, taskVars, scopeVars
  <2>5. begin_checkpoint_barrier => ConcurrencyInv'
    BY FrameBounded DEF begin_checkpoint_barrier, taskVars, scopeVars
  <2>6. end_checkpoint_barrier => ConcurrencyInv'
    BY FrameBounded DEF end_checkpoint_barrier, taskVars, scopeVars
  <2> QED BY <1>3, <1>5, <2>1, <2>2, <2>3, <2>4, <2>5, <2>6, <2>7, DispatchBounded, StartGroupBounded
          DEF Coordinator
<1>6. UNCHANGED vars => ConcurrencyInv'
  BY FrameBounded DEF vars, taskVars, scopeVars, schedVars
<1> QED BY <1>4, <1>5, <1>6 DEF Next

\* Concurrency(n) bounds the tasks that hold a slot below a scope, for every tree
\* of scopes and every limit, until an unresolvable selector serializes the
\* invocation (can_admit and change_active).
THEOREM ConcurrencyIsBounded == Spec => []ConcurrencyBound
<1>1. ConcurrencyInv => ConcurrencyBound
  BY DEF ConcurrencyInv, Bounded, ConcurrencyBound
<1> QED BY <1>1, InitBounded, NextBounded, PTL DEF Spec

-----------------------------------------------------------------------------
(***************************************************************************)
(* What a step leaves alone                                                *)
(***************************************************************************)
\* A step that starts and settles no task.  Only the tasks in W begin to wait for
\* a task; a wakeup is taken by a running task only.
Steady(W) ==
  /\ UNCHANGED <<taskShape, scopeShape, winner, primary>>
  /\ holders \subseteq holders' /\ DOMAIN inbox' = TaskIds
  /\ \A u \in TaskIds :
       /\ tstate[u] \in Inert \/ tstate'[u] \in Inert => tstate'[u] = tstate[u]
       /\ tstate'[u] \in {"WaitTask", "WaitScope"} => u \in W \/ (tstate'[u] = tstate[u] /\ target'[u] = target[u])
       /\ \/ /\ inbox'[u] = inbox[u]
             /\ \/ tstate'[u] \in {tstate[u], "Ready", "Running"}
                \/ tstate'[u] = "WaitResource" /\ u \notin holders
          \/ tstate[u] = "Running" /\ inbox'[u] = IF inbox[u] = <<>> THEN <<>> ELSE Tail(inbox[u])

\* A step that settles t.  The scope may get its winner and another primary failure.
Ends(t, out, win, prim) ==
  /\ terminal(t, out, win, prim) /\ tstate[t] \notin Inert
  /\ win \in [ScopeIds -> TaskIds \cup {NoTask}] /\ prim \in [ScopeIds -> TaskIds \cup {NoTask}]
  /\ \A s \in ScopeIds : win[s] # winner[s] => s = scopeOf[t] /\ win[s] = t
  /\ \A s \in ScopeIds : prim[s] # primary[s] => s = scopeOf[t]

\* A running task that yields.
LEMMA YieldSteady ==
  ASSUME SchedulerInv, DOMAIN inbox = TaskIds, NEW t \in TaskIds, NEW keep,
         NEW st \in {"Ready", "WaitTask", "WaitHost", "WaitCpu"}, Yields(t, st, keep),
         NEW W, st = "WaitTask" => t \in W, \A u \in TaskIds : u \notin W => target'[u] = target[u]
  PROVE  Steady(W)
<1>1. /\ tstate[t] = "Running" /\ tstate' = [tstate EXCEPT ![t] = st]
      /\ inbox' = [inbox EXCEPT ![t] = IF @ = <<>> THEN @ ELSE Tail(@)]
      /\ UNCHANGED <<taskShape, scopeShape, winner, primary, holders>>
  BY DEF Yields, Acts, Running, take_wakeup
<1>2. \A u \in TaskIds : tstate'[u] = IF u = t THEN st ELSE tstate[u]
  BY <1>1 DEF SchedulerInv, Ids
<1>3. /\ DOMAIN inbox' = TaskIds /\ \A u \in TaskIds : u # t => inbox'[u] = inbox[u]
      /\ inbox'[t] = IF inbox[t] = <<>> THEN <<>> ELSE Tail(inbox[t])
  BY <1>1
<1>4. "Running" \notin Inert /\ st \notin Inert
  BY DEF Inert, Terminal
<1>5. ASSUME NEW u \in TaskIds
      PROVE  /\ tstate[u] \in Inert \/ tstate'[u] \in Inert => tstate'[u] = tstate[u]
             /\ tstate'[u] \in {"WaitTask", "WaitScope"} => u \in W \/ (tstate'[u] = tstate[u] /\ target'[u] = target[u])
             /\ \/ inbox'[u] = inbox[u] /\ tstate'[u] = tstate[u]
                \/ tstate[u] = "Running" /\ inbox'[u] = IF inbox[u] = <<>> THEN <<>> ELSE Tail(inbox[u])
  <2>1. CASE u = t
    BY <1>1, <1>2, <1>3, <1>4, <2>1
  <2>2. CASE u # t
    BY <1>2, <1>3, <2>2
  <2> QED BY <2>1, <2>2
<1> QED BY <1>1, <1>3, <1>5 DEF Steady

\* Nothing happens to the tasks.
LEMMA StillSteady ==
  ASSUME DOMAIN inbox = TaskIds, UNCHANGED <<tstate, target, inbox, holders, winner, primary, taskShape, scopeShape>>
  PROVE  Steady({})
  BY DEF Steady

\* dispatch_ready, whether or not it admits a task: it parks tasks without permits.
LEMMA ScanSteady ==
  ASSUME SchedulerInv, DOMAIN inbox = TaskIds, NEW P, \A u \in P : Parks(u), NEW t, t \in TaskIds => tstate[t] = "Ready",
         \A u \in TaskIds : tstate'[u] = IF u = t THEN "Running" ELSE IF u \in P THEN "WaitResource" ELSE tstate[u],
         holders \subseteq holders', UNCHANGED <<target, inbox, winner, primary, taskShape, scopeShape>>
  PROVE  Steady({})
<1>1. \A u \in P : tstate[u] = "Ready" /\ u \notin holders
  BY DEF Parks, can_acquire
<1>2. "Ready" \notin Inert /\ "Running" \notin Inert /\ "WaitResource" \notin Inert
  BY DEF Inert, Terminal
<1>3. ASSUME NEW u \in TaskIds
      PROVE  /\ tstate[u] \in Inert \/ tstate'[u] \in Inert => tstate'[u] = tstate[u]
             /\ tstate'[u] \in {"WaitTask", "WaitScope"} => tstate'[u] = tstate[u]
             /\ \/ tstate'[u] \in {tstate[u], "Ready", "Running"}
                \/ tstate'[u] = "WaitResource" /\ u \notin holders
  BY <1>1, <1>2
<1> QED BY <1>3 DEF Steady

\* The actions that start and settle nothing: all but wait_for_cpu, and with it.
Rest ==
  \/ \E n \in DOMAIN ready : Dispatch(n)
  \/ DispatchNone
  \/ \E t \in TaskIds : wake_from_host(t) \/ requeue(t) \/ wait_for_host(t)
  \/ CancelNext /\ tstate[Head(cancelling)] \in Inert \cup {"WaitHost"}
  \/ cancel_unsettled \/ begin_checkpoint_barrier \/ end_checkpoint_barrier
  \/ UNCHANGED vars

Calm == Rest \/ \E t \in TaskIds : wait_for_cpu(t)

\* They are steady.
LEMMA CalmSteady == ASSUME SchedulerInv, DOMAIN inbox = TaskIds, Calm PROVE Steady({})
<1>0. NoTask \notin TaskIds
  BY SchedulerConstants DEF NoTask, TaskIds
<1>1. ASSUME NEW n, Dispatch(n) PROVE Steady({})
  <2>1. PICK P : P = Scan(n - 1).parked
    OBVIOUS
  <2>2. PICK t : t = ready[n]
    OBVIOUS
  <2>3. /\ tstate[t] = "Ready" /\ UNCHANGED <<target, inbox, winner, primary, taskShape, scopeShape>>
        /\ \A u \in TaskIds : tstate'[u] = IF u = t THEN "Running" ELSE IF u \in P THEN "WaitResource" ELSE tstate[u]
        /\ holders \subseteq holders'
    BY <1>1, <2>1, <2>2 DEF Dispatch, Admissible
  <2>4. \A u \in P : Parks(u)
    BY <2>1 DEF Scan
  <2> QED BY <2>3, <2>4, ScanSteady
<1>2. ASSUME DispatchNone PROVE Steady({})
  <2>1. PICK P : P = Scan(Len(ready)).parked
    OBVIOUS
  <2>2. /\ UNCHANGED <<target, inbox, holders, winner, primary, taskShape, scopeShape>>
        /\ \A u \in TaskIds : tstate'[u] = IF u \in P THEN "WaitResource" ELSE tstate[u]
    BY <1>2, <2>1 DEF DispatchNone
  <2>3. \A u \in P : Parks(u)
    BY <2>1 DEF Scan
  <2>4. \A u \in TaskIds : tstate'[u] = IF u = NoTask THEN "Running" ELSE IF u \in P THEN "WaitResource" ELSE tstate[u]
    BY <1>0, <2>2
  <2> QED BY <1>0, <2>2, <2>3, <2>4, ScanSteady
<1>3. ASSUME NEW t \in TaskIds, wake_from_host(t) PROVE Steady({})
  <2>1. /\ tstate[t] = "WaitHost" /\ tstate' = [tstate EXCEPT ![t] = "Ready"]
        /\ UNCHANGED <<target, inbox, holders, winner, primary, taskShape, scopeShape>>
    BY <1>3 DEF wake_from_host
  <2>2. \A u \in TaskIds : tstate'[u] = IF u = t THEN "Ready" ELSE tstate[u]
    BY <2>1 DEF SchedulerInv, Ids
  <2> QED BY <2>1, <2>2 DEF Steady, Inert, Terminal
<1>4. ASSUME NEW t \in TaskIds, requeue(t) \/ wait_for_host(t) \/ wait_for_cpu(t) PROVE Steady({})
  <2>1. PICK st, keep : st \in {"Ready", "WaitHost", "WaitCpu"} /\ Yields(t, st, keep)
    <3>1. (\E keep : Yields(t, "Ready", keep)) \/ (\E keep : Yields(t, "WaitHost", keep)) \/ \E keep : Yields(t, "WaitCpu", keep)
      BY <1>4, Zenon DEF requeue, wait_for_host, wait_for_cpu
    <3> QED BY <3>1
  <2>2. target' = target
    BY <1>4, Zenon DEF requeue, wait_for_host, wait_for_cpu
  <2> QED BY <2>1, <2>2, YieldSteady
<1>5. ASSUME CancelNext, tstate[Head(cancelling)] \in Inert \cup {"WaitHost"} PROVE Steady({})
  BY <1>5, StillSteady DEF CancelNext
<1>6. ASSUME cancel_unsettled \/ begin_checkpoint_barrier \/ end_checkpoint_barrier \/ UNCHANGED vars PROVE Steady({})
  <2>1. UNCHANGED <<tstate, target, inbox, holders, winner, primary, taskShape, scopeShape>>
    BY <1>6 DEF cancel_unsettled, begin_checkpoint_barrier, end_checkpoint_barrier, vars, taskVars, scopeVars, schedVars,
       taskShape, scopeShape
  <2> QED BY <2>1, StillSteady
<1> QED BY <1>1, <1>2, <1>3, <1>4, <1>5, <1>6, Zenon DEF Calm, Rest

\* await_task is steady but for the task that awaits.
LEMMA AwaitSteady ==
  ASSUME SchedulerInv, DOMAIN inbox = TaskIds, DOMAIN target = TaskIds, NEW t \in TaskIds, NEW u, await_task(t, u)
  PROVE  Steady({t}) /\ tstate'[t] = "WaitTask" /\ target'[t] = u /\ tstate[t] = "Running"
<1>1. PICK st, keep : st = "WaitTask" /\ Yields(t, st, keep)
  BY DEF await_task
<1>2. target' = [target EXCEPT ![t] = u]
  BY DEF await_task
<1>3. Steady({t})
  BY <1>1, <1>2, YieldSteady
<1>4. tstate' = [tstate EXCEPT ![t] = "WaitTask"] /\ tstate[t] = "Running"
  BY <1>1 DEF Yields, Acts, Running
<1> QED BY <1>2, <1>3, <1>4 DEF SchedulerInv, Ids

\* The actions that settle a task.
LEMMA SettleEnds ==
  ASSUME QueueInv, NEW t \in TaskIds, NEW out \in Terminal, settle(t, out), tstate[t] \notin Inert
  PROVE  \E win, prim : Ends(t, out, win, prim)
<1>1. PICK win, prim :
        /\ win = IF out = "Completed" /\ policy[scopeOf[t]] = "Race" /\ winner[scopeOf[t]] = NoTask
                   THEN [winner EXCEPT ![scopeOf[t]] = t] ELSE winner
        /\ prim = IF out \in {"Raised", "Failed"} THEN record_primary_failure(t) ELSE primary
        /\ terminal(t, out, win, prim)
  BY Zenon DEF settle
<1>2. PICK s \in ScopeIds : s = scopeOf[t]
  BY DEF QueueInv, QueueTypes
<1>3. (win = winner \/ win = [winner EXCEPT ![s] = t]) /\ (prim = primary \/ prim = [primary EXCEPT ![s] = t])
  BY <1>1, <1>2 DEF record_primary_failure
<1>4. winner \in [ScopeIds -> TaskIds \cup {NoTask}] /\ primary \in [ScopeIds -> TaskIds \cup {NoTask}]
  BY DEF QueueInv, QueueTypes
<1>5. win \in [ScopeIds -> TaskIds \cup {NoTask}] /\ prim \in [ScopeIds -> TaskIds \cup {NoTask}]
  BY <1>3, <1>4
<1>6. \A x \in ScopeIds : (win[x] # winner[x] => x = s /\ win[x] = t) /\ (prim[x] # primary[x] => x = s)
  BY <1>3, <1>4
<1> QED BY <1>1, <1>2, <1>5, <1>6 DEF Ends

\* A task that finishes, on the coordinator or on a worker, or whose native work is
\* cancelled under the barrier.
LEMMA FinishEnds ==
  ASSUME QueueInv, NEW t \in TaskIds, NEW out \in Terminal,
         Finish(t, out) \/ CpuFinish(t, out) \/ (out = "Cancelled" /\ NativeCancelled(t))
  PROVE  \E win, prim : Ends(t, out, win, prim)
<1>1. settle(t, out)
  BY Zenon DEF Finish, CpuFinish, NativeCancelled
<1>2. tstate[t] \in {"Running", "WaitCpu", "Ready"}
  BY DEF Finish, Running, CpuFinish, NativeCancelled
<1>3. tstate[t] \notin Inert
  BY <1>2 DEF Inert, Terminal
<1> QED BY <1>1, <1>3, SettleEnds

\* A task that is cancelled.
LEMMA CancelEnds ==
  ASSUME QueueInv, CancelNext, tstate[Head(cancelling)] \notin Inert \cup {"WaitHost"}
  PROVE  \E t \in TaskIds, out \in Terminal : \E win, prim : Ends(t, out, win, prim)
<1>1. PICK t \in TaskIds : t = Head(cancelling)
  BY DEF CancelNext
<1>2. PICK win, prim : win = winner /\ prim = primary
  OBVIOUS
<1>3. terminal(t, "Cancelled", win, prim)
  BY <1>1, <1>2 DEF CancelNext
<1>4. win \in [ScopeIds -> TaskIds \cup {NoTask}] /\ prim \in [ScopeIds -> TaskIds \cup {NoTask}]
  BY <1>2 DEF QueueInv, QueueTypes
<1>5. Ends(t, "Cancelled", win, prim) /\ "Cancelled" \in Terminal
  BY <1>1, <1>2, <1>3, <1>4 DEF Ends, Terminal
<1> QED BY <1>5

\* Every step starts tasks, settles one, lets one await, or is calm.
LEMMA StepKinds ==
  ASSUME SchedulerInv, QueueInv, [Next]_vars
  PROVE  \/ \E p \in TaskIds \cup {NoTask}, pol \in GroupPolicies, lim \in Limits, ser \in SerialScopes, jobs \in JobLists :
              \E u \in UnresolvedJobs(Len(jobs)) : StartGroup(p, pol, lim, ser, jobs, u)
         \/ \E p \in TaskIds, job \in KeySets, u \in UnresolvedJobs(1), i \in SourceIndexes : Start(p, job, u, i)
         \/ \E t \in TaskIds, out \in Terminal : \E win, prim : Ends(t, out, win, prim)
         \/ \E t \in TaskIds, u \in TaskIds : await_task(t, u)
         \/ Calm
<1>1. ASSUME NEW t \in TaskIds, NEW out \in Terminal, Finish(t, out) PROVE \E win, prim : Ends(t, out, win, prim)
  BY <1>1, FinishEnds
<1>2. ASSUME NEW t \in TaskIds, NEW out \in Terminal, CpuFinish(t, out) PROVE \E win, prim : Ends(t, out, win, prim)
  BY <1>2, FinishEnds
<1>3. ASSUME NEW t \in TaskIds, NativeCancelled(t) PROVE \E win, prim : Ends(t, "Cancelled", win, prim)
  <2>1. "Cancelled" \in Terminal
    BY DEF Terminal
  <2> QED BY <1>3, <2>1, FinishEnds
<1>4. ASSUME CancelNext, tstate[Head(cancelling)] \notin Inert \cup {"WaitHost"}
      PROVE  \E t \in TaskIds, out \in Terminal : \E win, prim : Ends(t, out, win, prim)
  BY <1>4, CancelEnds
<1>5. ASSUME NEW t \in TaskIds, TaskStep(t)
      PROVE  \/ \E pol \in GroupPolicies, lim \in Limits, ser \in SerialScopes, jobs \in JobLists :
                  \E u \in UnresolvedJobs(Len(jobs)) : StartGroup(t, pol, lim, ser, jobs, u)
             \/ \E job \in KeySets, u \in UnresolvedJobs(1), i \in SourceIndexes : Start(t, job, u, i)
             \/ \E out \in Terminal : \E win, prim : Ends(t, out, win, prim)
             \/ \E u \in TaskIds : await_task(t, u)
             \/ requeue(t) \/ wait_for_host(t) \/ wait_for_cpu(t)
  BY <1>1, <1>5, Zenon DEF TaskStep
<1>6. ASSUME Coordinator
      PROVE  \/ \E pol \in GroupPolicies, lim \in Limits, ser \in SerialScopes, jobs \in JobLists :
                  \E u \in UnresolvedJobs(Len(jobs)) : StartGroup(NoTask, pol, lim, ser, jobs, u)
             \/ \E t \in TaskIds, out \in Terminal : \E win, prim : Ends(t, out, win, prim)
             \/ Calm
  <2>1. "Cancelled" \in Terminal
    BY DEF Terminal
  <2> QED BY <1>2, <1>3, <1>4, <1>6, <2>1, Zenon DEF Coordinator, Calm, Rest
<1>7. ASSUME NEW t \in TaskIds, requeue(t) \/ wait_for_host(t) \/ wait_for_cpu(t) PROVE Calm
  BY <1>7, Zenon DEF Calm, Rest
<1>8. UNCHANGED vars => Calm
  BY Zenon DEF Calm, Rest
<1>9. NoTask \in TaskIds \cup {NoTask} /\ \A t \in TaskIds : t \in TaskIds \cup {NoTask}
  OBVIOUS
<1>10. CASE Coordinator
  BY <1>6, <1>9, <1>10, Zenon
<1>11. CASE \E t \in TaskIds : TaskStep(t)
  <2>1. PICK t \in TaskIds : TaskStep(t)
    BY <1>11
  <2> QED BY <1>5, <1>7, <1>9, <2>1, Zenon
<1> QED BY <1>8, <1>10, <1>11 DEF Next
\* A step that starts the tasks of born in scope s; p, when it is a task, calls it.
Grows(p, st, s, born) ==
  /\ born \subseteq TaskIds /\ next_task \in born /\ s \in ScopeIds
  /\ \A t \in born : tstate[t] = "Unborn"
  /\ \A t \in TaskIds : Born(t) <=> t \in born
  /\ \A t \in TaskIds : tstate'[t] = IF t \in born THEN "Ready" ELSE IF t = p THEN st ELSE tstate[t]
  /\ \A t \in TaskIds : scopeOf'[t] = IF t \in born THEN s ELSE scopeOf[t]
  /\ p \in TaskIds => tstate[p] = "Running"
  /\ UNCHANGED <<winner, primary, holders>>
  /\ \/ st = "Running" /\ p \in TaskIds /\ s = scopeOf[p] /\ UNCHANGED <<policy, owner, next_scope, target>>
     \/ /\ st = "WaitScope" /\ s = next_scope /\ target' = [t \in TaskIds |-> IF t = p THEN s ELSE target[t]]
        /\ \A x \in ScopeIds : x # s => policy'[x] = policy[x] /\ owner'[x] = owner[x]
        /\ owner'[s] \in {next_task, NoTask}

\* Start is one.
LEMMA StartGrows ==
  ASSUME SchedulerInv, QueueInv, NEW p \in TaskIds, NEW job, NEW unresolved, NEW index, Start(p, job, unresolved, index)
  PROVE  \E s, born : Grows(p, "Running", s, born)
<1>1. Spawned(p, "Running", scopeOf[p], 1)
  BY StartSpawns
<1>2. PICK born \in SUBSET TaskIds : NewTasks(born, p, "Running", scopeOf[p], 1)
  BY <1>1, SpawnEffect
<1>3. next_task \in born /\ scopeOf[p] \in ScopeIds
  BY <1>2 DEF NewTasks, SchedulerInv, Ids, QueueInv, QueueTypes
<1>4. UNCHANGED <<winner, primary, holders, policy, owner, next_scope, target>> /\ tstate[p] = "Running"
  BY DEF Start, Acts, Running
<1>5. born = next_task .. (next_task' - 1)
  <2>1. next_task' = next_task + 1 /\ born = next_task .. (next_task + 1 - 1) /\ next_task \in Nat
    BY <1>1, <1>2 DEF Spawned, NewTasks, SchedulerInv, Ids
  <2> QED BY <2>1
<1>6. Grows(p, "Running", scopeOf[p], born)
  BY <1>2, <1>3, <1>4, <1>5 DEF Born, NewTasks, Grows
<1> QED BY <1>6

\* StartGroup is one.
LEMMA GroupGrows ==
  ASSUME SchedulerInv, QueueInv, NEW p \in TaskIds \cup {NoTask}, NEW pol, NEW lim, NEW ser,
         NEW jobs \in JobLists, NEW unresolved, StartGroup(p, pol, lim, ser, jobs, unresolved)
  PROVE  \E born : Grows(p, "WaitScope", next_scope, born)
<1>0. NoTask \notin TaskIds
  BY SchedulerConstants DEF NoTask, TaskIds
<1>1. PICK n \in Nat : n # 0 /\ Spawned(p, "WaitScope", next_scope, n)
  BY GroupSpawns
<1>2. PICK s \in ScopeIds : s = next_scope
  BY GroupSpawns
<1>3. PICK born \in SUBSET TaskIds : NewTasks(born, p, "WaitScope", s, n)
  BY <1>1, <1>2, SpawnEffect
<1>4. next_task \in born
  BY <1>1, <1>3 DEF NewTasks, SchedulerInv, Ids
<1>5. /\ policy' = [policy EXCEPT ![s] = pol]
      /\ owner' = [owner EXCEPT ![s] = IF pol = "Run" THEN next_task ELSE NoTask]
      /\ target' = [t \in TaskIds |-> IF t = p THEN s ELSE target[t]]
      /\ UNCHANGED <<winner, primary, holders>>
  BY <1>2, Zenon DEF StartGroup
<1>6. p \in TaskIds => tstate[p] = "Running"
  <2>1. p # NoTask => Acts(p)
    BY Zenon DEF StartGroup
  <2> QED BY <1>0, <2>1 DEF Acts, Running
<1>7. (\A x \in ScopeIds : x # s => policy'[x] = policy[x] /\ owner'[x] = owner[x]) /\ owner'[s] \in {next_task, NoTask}
  BY <1>5 DEF QueueInv, QueueTypes
<1>8. born = next_task .. (next_task' - 1)
  <2>1. next_task' = next_task + n /\ born = next_task .. (next_task + n - 1) /\ next_task \in Nat
    BY <1>1, <1>3 DEF Spawned, NewTasks, SchedulerInv, Ids
  <2> QED BY <2>1
<1>9. Grows(p, "WaitScope", s, born)
  BY <1>2, <1>3, <1>4, <1>5, <1>6, <1>7, <1>8 DEF Born, NewTasks, Grows
<1> QED BY <1>2, <1>9
\* What a settlement does to the other tasks.
LEMMA EndsEffect ==
  ASSUME SchedulerInv, NEW t \in TaskIds, NEW out \in Terminal, NEW win, NEW prim, Ends(t, out, win, prim)
  PROVE  /\ tstate'[t] = out /\ tstate[t] \notin Inert /\ winner' = win /\ primary' = prim
         /\ \A u \in TaskIds : tstate[u] \in Inert \/ tstate'[u] \in Inert => u = t \/ tstate'[u] = tstate[u]
         /\ UNCHANGED <<taskShape, scopeShape>>
<1>1. PICK G \in SUBSET TaskIds : Settlement(t, out, G)
  BY TerminalEffect DEF SchedulerInv, Ends
<1>2. winner' = win /\ primary' = prim /\ UNCHANGED <<taskShape, scopeShape>>
  BY DEF Ends, terminal
<1>3. \A u \in TaskIds : tstate[u] \in Inert \/ tstate'[u] \in Inert => u = t \/ tstate'[u] = tstate[u]
  BY <1>1 DEF Settlement, Inert, Terminal
<1> QED BY <1>1, <1>2, <1>3 DEF Settlement, Ends

-----------------------------------------------------------------------------
(***************************************************************************)
(* Wakeups                                                                 *)
(***************************************************************************)
\* A task has at most one undelivered outcome, and then it is on its way to its next
\* turn and has kept its permits.
InboxInv ==
  /\ DOMAIN inbox = TaskIds
  /\ \A t \in TaskIds : inbox[t] # <<>> =>
       (\E x : inbox[t] = <<x>>) /\ tstate[t] \in {"Ready", "Running"} /\ t \in holders

\* What every step does to tasks and wakeups.
StepForm ==
  \/ \E p, st, s, born : Grows(p, st, s, born)
  \/ \E t \in TaskIds, out \in Terminal : \E win, prim : Ends(t, out, win, prim)
  \/ \E W : Steady(W)

\* Every step has one of the three forms.
LEMMA StepForms == ASSUME SchedulerInv, QueueInv, InboxInv, [Next]_vars PROVE StepForm
<1>0. DOMAIN inbox = TaskIds /\ DOMAIN target = TaskIds
  BY DEF InboxInv, QueueInv, QueueTypes
<1>1. ASSUME NEW p \in TaskIds \cup {NoTask}, NEW pol, NEW lim, NEW ser, NEW jobs \in JobLists, NEW u,
             StartGroup(p, pol, lim, ser, jobs, u)
      PROVE  StepForm
  BY <1>1, GroupGrows DEF StepForm
<1>2. ASSUME NEW p \in TaskIds, NEW job, NEW u, NEW i, Start(p, job, u, i) PROVE StepForm
  BY <1>2, StartGrows DEF StepForm
<1>3. ASSUME NEW t \in TaskIds, NEW u, await_task(t, u) PROVE StepForm
  BY <1>0, <1>3, AwaitSteady DEF StepForm
<1>4. Calm => StepForm
  BY <1>0, CalmSteady DEF StepForm
<1>5. ASSUME NEW t \in TaskIds, NEW out \in Terminal, NEW win, NEW prim, Ends(t, out, win, prim) PROVE StepForm
  BY <1>5 DEF StepForm
<1> QED BY <1>1, <1>2, <1>3, <1>4, <1>5, StepKinds

\* A settlement delivers its outcome to the tasks that waited for it.
LEMMA EndsInbox ==
  ASSUME SchedulerInv, QueueInv, InboxInv, NEW t \in TaskIds, NEW out \in Terminal, NEW win, NEW prim,
         Ends(t, out, win, prim)
  PROVE  InboxInv'
<1> DEFINE s == scopeOf[t]
           st1 == [tstate EXCEPT ![t] = out]
           queue == Retain(waiting, {u \in TaskIds : st1[u] = "WaitResource"})
           onTask(u) == st1[u] = "WaitTask" /\ target[u] = t
           awaiting == {u \in Range(waiters[t]) : onTask(u)}
           st2(G) == [u \in TaskIds |-> IF u \in G \cup awaiting THEN "Ready" ELSE st1[u]]
           result(G) == scope_outcome(s, st2(G), win[s], prim[s])
           onScope(G, u) == result(G) # "Pending" /\ st2(G)[u] = "WaitScope" /\ target[u] = s
           joining(G) == {u \in Range(swaiters[s]) : onScope(G, u)}
<1>0. PICK G : /\ G \in SUBSET {u \in TaskIds : st1[u] = "WaitResource"}
               /\ tstate' = [u \in TaskIds |-> IF u \in joining(G) THEN "Ready" ELSE st2(G)[u]]
               /\ holders' = (holders \ {t}) \cup G
               /\ inbox' = [u \in TaskIds |-> IF u \in awaiting THEN Append(inbox[u], out)
                                              ELSE IF u \in joining(G) THEN Append(inbox[u], result(G))
                                              ELSE IF u = t THEN <<>> ELSE inbox[u]]
  BY ZenonT(40) DEF Ends, terminal
<1>1. PICK F, J, r : F = awaiting /\ J = joining(G) /\ r = result(G)
  OBVIOUS
<1>2. \A u \in TaskIds : st1[u] = IF u = t THEN out ELSE tstate[u]
  BY DEF SchedulerInv, Ids
<1>3. out \notin {"WaitTask", "WaitScope", "WaitResource"}
  BY DEF Terminal
<1>4. \A u \in TaskIds : u \in F => u # t /\ tstate[u] = "WaitTask"
  BY <1>1, <1>2, <1>3
<1>5. \A u \in TaskIds : u \in J => u # t /\ tstate[u] = "WaitScope"
  BY <1>1, <1>2, <1>3
<1>6. \A u \in TaskIds : tstate'[u] = IF u \in G \cup F \cup J THEN "Ready" ELSE IF u = t THEN out ELSE tstate[u]
  BY <1>0, <1>1, <1>2
<1>7. \A u \in TaskIds : inbox'[u] = IF u \in F THEN Append(inbox[u], out) ELSE IF u \in J THEN Append(inbox[u], r)
                                     ELSE IF u = t THEN <<>> ELSE inbox[u]
  BY <1>0, <1>1
<1>8. DOMAIN inbox' = TaskIds /\ holders' = (holders \ {t}) \cup G
  BY <1>0
<1>9. ASSUME NEW u \in TaskIds, inbox'[u] # <<>>
      PROVE  (\E x : inbox'[u] = <<x>>) /\ tstate'[u] \in {"Ready", "Running"} /\ u \in holders'
  <2>1. CASE u \in F \cup J
    <3>1. tstate[u] \in {"WaitTask", "WaitScope"} /\ u # t
      BY <1>4, <1>5, <2>1
    <3>2. inbox[u] = <<>> /\ u \in holders
      BY <3>1 DEF InboxInv, SchedulerInv, AdmittedHold, Admitted
    <3>3. PICK x : inbox'[u] = Append(inbox[u], x)
      BY <1>7, <2>1
    <3>4. inbox'[u] = <<x>>
      BY <3>2, <3>3
    <3> QED BY <1>6, <1>8, <2>1, <3>1, <3>2, <3>4
  <2>2. CASE u \notin F \cup J
    <3>1. u # t /\ inbox'[u] = inbox[u]
      BY <1>7, <1>9, <2>2
    <3>2. (\E x : inbox[u] = <<x>>) /\ tstate[u] \in {"Ready", "Running"} /\ u \in holders
      BY <1>9, <3>1 DEF InboxInv
    <3> QED BY <1>6, <1>8, <2>2, <3>1, <3>2
  <2> QED BY <2>1, <2>2
<1> QED BY <1>8, <1>9 DEF InboxInv

\* A running task takes its wakeup; whoever is moved without it keeps it.
LEMMA SteadyInbox == ASSUME SchedulerInv, InboxInv, NEW W, Steady(W) PROVE InboxInv'
<1>1. ASSUME NEW u \in TaskIds, inbox'[u] # <<>>
      PROVE  (\E x : inbox'[u] = <<x>>) /\ tstate'[u] \in {"Ready", "Running"} /\ u \in holders'
  <2>1. CASE /\ inbox'[u] = inbox[u]
             /\ \/ tstate'[u] \in {tstate[u], "Ready", "Running"}
                \/ tstate'[u] = "WaitResource" /\ u \notin holders
    BY <1>1, <2>1 DEF InboxInv, Steady
  <2>2. CASE tstate[u] = "Running" /\ inbox'[u] = IF inbox[u] = <<>> THEN <<>> ELSE Tail(inbox[u])
    <3>1. PICK x : inbox[u] = <<x>>
      BY <1>1, <2>2 DEF InboxInv
    <3>2. Tail(<<x>>) = <<>>
      OBVIOUS
    <3> QED BY <1>1, <2>2, <3>1, <3>2
  <2> QED BY <2>1, <2>2 DEF Steady
<1> QED BY <1>1 DEF InboxInv, Steady

\* A caller takes its wakeup; a new task has none.
LEMMA StartInbox ==
  ASSUME SchedulerInv, QueueInv, InboxInv, NEW p, NEW st, NEW s, NEW born, Grows(p, st, s, born),
         IF p \in TaskIds THEN take_wakeup(p) ELSE inbox' = inbox
  PROVE  InboxInv'
<1>1. DOMAIN inbox' = TaskIds /\ \A u \in TaskIds : u # p => inbox'[u] = inbox[u]
  BY DEF InboxInv, take_wakeup
<1>2. ASSUME p \in TaskIds PROVE inbox'[p] = <<>>
  <2>1. inbox'[p] = IF inbox[p] = <<>> THEN <<>> ELSE Tail(inbox[p])
    BY <1>2 DEF InboxInv, take_wakeup
  <2>2. CASE inbox[p] # <<>>
    <3>1. PICK x : inbox[p] = <<x>>
      BY <1>2, <2>2 DEF InboxInv
    <3>2. Tail(<<x>>) = <<>>
      OBVIOUS
    <3> QED BY <2>1, <2>2, <3>1, <3>2
  <2> QED BY <2>1, <2>2
<1>3. ASSUME NEW u \in TaskIds, inbox'[u] # <<>>
      PROVE  (\E x : inbox'[u] = <<x>>) /\ tstate'[u] \in {"Ready", "Running"} /\ u \in holders'
  <2>1. u # p /\ inbox[u] # <<>> /\ inbox'[u] = inbox[u]
    BY <1>1, <1>2, <1>3
  <2>2. (\E x : inbox[u] = <<x>>) /\ tstate[u] \in {"Ready", "Running"} /\ u \in holders
    BY <2>1 DEF InboxInv
  <2> QED BY <2>1, <2>2 DEF Grows
<1> QED BY <1>1, <1>3 DEF InboxInv

\* Every step keeps it.
LEMMA NextInbox == ASSUME SchedulerInv, QueueInv, InboxInv, [Next]_vars PROVE InboxInv'
<1>0. DOMAIN inbox = TaskIds /\ DOMAIN target = TaskIds /\ NoTask \notin TaskIds
  BY SchedulerConstants DEF InboxInv, QueueInv, QueueTypes, NoTask, TaskIds
<1>1. ASSUME NEW p \in TaskIds \cup {NoTask}, NEW pol, NEW lim, NEW ser, NEW jobs \in JobLists, NEW u,
             StartGroup(p, pol, lim, ser, jobs, u)
      PROVE  InboxInv'
  <2>1. PICK born : Grows(p, "WaitScope", next_scope, born)
    BY <1>1, GroupGrows
  <2>2. IF p # NoTask THEN take_wakeup(p) ELSE UNCHANGED inbox
    BY <1>1, Zenon DEF StartGroup
  <2> QED BY <1>0, <2>1, <2>2, StartInbox
<1>2. ASSUME NEW p \in TaskIds, NEW job, NEW u, NEW i, Start(p, job, u, i) PROVE InboxInv'
  <2>1. PICK s, born : Grows(p, "Running", s, born)
    BY <1>2, StartGrows
  <2>2. take_wakeup(p)
    BY <1>2, Zenon DEF Start
  <2> QED BY <2>1, <2>2, StartInbox
<1>3. ASSUME NEW t \in TaskIds, NEW u, await_task(t, u) PROVE InboxInv'
  BY <1>0, <1>3, AwaitSteady, SteadyInbox
<1>4. Calm => InboxInv'
  BY <1>0, CalmSteady, SteadyInbox
<1>5. ASSUME NEW t \in TaskIds, NEW out \in Terminal, NEW win, NEW prim, Ends(t, out, win, prim) PROVE InboxInv'
  BY <1>5, EndsInbox
<1> QED BY <1>1, <1>2, <1>3, <1>4, <1>5, StepKinds
-----------------------------------------------------------------------------
(***************************************************************************)
(* The outcome of a scope                                                  *)
(***************************************************************************)
\* The callback of a scope is one of its tasks, and its winner is one that has settled.
RolesInv ==
  \A s \in ScopeIds :
    /\ owner[s] # NoTask => scopeOf[owner[s]] = s /\ tstate[owner[s]] # "Unborn"
    /\ winner[s] # NoTask => scopeOf[winner[s]] = s /\ tstate[winner[s]] \in Terminal

\* The initial state satisfies it.
LEMMA InitRoles == Init => RolesInv
  BY DEF Init, RolesInv

\* Every step keeps it.
LEMMA NextRoles == ASSUME SchedulerInv, QueueInv, InboxInv, RolesInv, [Next]_vars PROVE RolesInv'
<1>0. /\ owner \in [ScopeIds -> TaskIds \cup {NoTask}] /\ winner \in [ScopeIds -> TaskIds \cup {NoTask}]
      /\ scopeOf \in [TaskIds -> ScopeIds] /\ NoTask \notin TaskIds
  BY SchedulerConstants DEF QueueInv, QueueTypes, NoTask, TaskIds
<1>1. ASSUME NEW p, NEW st, NEW s, NEW born, Grows(p, st, s, born) PROVE RolesInv'
  <2> SUFFICES ASSUME NEW x \in ScopeIds
               PROVE  /\ owner'[x] # NoTask => scopeOf'[owner'[x]] = x /\ tstate'[owner'[x]] # "Unborn"
                      /\ winner'[x] # NoTask => scopeOf'[winner'[x]] = x /\ tstate'[winner'[x]] \in Terminal
    BY DEF RolesInv
  <2>1. winner'[x] = winner[x]
    BY <1>1 DEF Grows
  <2>2. ASSUME winner[x] # NoTask PROVE scopeOf'[winner[x]] = x /\ tstate'[winner[x]] \in Terminal
    <3>1. PICK w \in TaskIds : w = winner[x]
      BY <1>0, <2>2
    <3>2. scopeOf[w] = x /\ tstate[w] \in Terminal
      BY <2>2, <3>1 DEF RolesInv
    <3>3. w \notin born /\ w # p
      BY <1>1, <3>2 DEF Grows, Terminal
    <3> QED BY <1>1, <3>1, <3>2, <3>3 DEF Grows
  <2>3. ASSUME owner'[x] = owner[x], owner[x] # NoTask PROVE scopeOf'[owner[x]] = x /\ tstate'[owner[x]] # "Unborn"
    <3>1. PICK w \in TaskIds : w = owner[x]
      BY <1>0, <2>3
    <3>2. scopeOf[w] = x /\ tstate[w] # "Unborn"
      BY <2>3, <3>1 DEF RolesInv
    <3>3. w \notin born
      BY <1>1, <3>2 DEF Grows
    <3> QED BY <1>1, <3>1, <3>2, <3>3 DEF Grows
  <2>4. ASSUME owner'[x] # owner[x], owner'[x] # NoTask PROVE scopeOf'[owner'[x]] = x /\ tstate'[owner'[x]] # "Unborn"
    <3>1. x = s /\ owner'[x] = next_task
      BY <1>1, <2>4 DEF Grows
    <3> QED BY <1>1, <3>1 DEF Grows
  <2> QED BY <2>1, <2>2, <2>3, <2>4
<1>2. ASSUME NEW t \in TaskIds, NEW out \in Terminal, NEW win, NEW prim, Ends(t, out, win, prim) PROVE RolesInv'
  <2>1. /\ tstate'[t] = out /\ tstate[t] \notin Inert /\ winner' = win
        /\ \A u \in TaskIds : tstate[u] \in Inert \/ tstate'[u] \in Inert => u = t \/ tstate'[u] = tstate[u]
        /\ UNCHANGED <<scopeOf, owner>>
    BY <1>2, EndsEffect DEF taskShape, scopeShape
  <2> SUFFICES ASSUME NEW x \in ScopeIds
               PROVE  /\ owner[x] # NoTask => scopeOf[owner[x]] = x /\ tstate'[owner[x]] # "Unborn"
                      /\ win[x] # NoTask => scopeOf[win[x]] = x /\ tstate'[win[x]] \in Terminal
    BY <2>1 DEF RolesInv
  <2>2. ASSUME owner[x] # NoTask PROVE scopeOf[owner[x]] = x /\ tstate'[owner[x]] # "Unborn"
    <3>1. PICK w \in TaskIds : w = owner[x]
      BY <1>0, <2>2
    <3>2. scopeOf[w] = x /\ tstate[w] # "Unborn"
      BY <2>2, <3>1 DEF RolesInv
    <3> QED BY <2>1, <3>1, <3>2 DEF Inert, Terminal
  <2>3. ASSUME win[x] # NoTask PROVE scopeOf[win[x]] = x /\ tstate'[win[x]] \in Terminal
    <3>1. CASE win[x] = winner[x]
      <4>1. PICK w \in TaskIds : w = win[x]
        BY <1>0, <2>3, <3>1
      <4>2. scopeOf[w] = x /\ tstate[w] \in Terminal
        BY <2>3, <3>1, <4>1 DEF RolesInv
      <4> QED BY <2>1, <4>1, <4>2 DEF Inert
    <3>2. CASE win[x] # winner[x]
      <4>1. x = scopeOf[t] /\ win[x] = t
        BY <1>2, <3>2 DEF Ends
      <4> QED BY <2>1, <4>1
    <3> QED BY <3>1, <3>2
  <2> QED BY <2>2, <2>3
<1>3. ASSUME NEW W, Steady(W) PROVE RolesInv'
  <2>1. /\ \A u \in TaskIds : tstate[u] \in Inert \/ tstate'[u] \in Inert => tstate'[u] = tstate[u]
        /\ UNCHANGED <<scopeOf, owner, winner>>
    BY <1>3 DEF Steady, taskShape, scopeShape
  <2> SUFFICES ASSUME NEW x \in ScopeIds
               PROVE  /\ owner[x] # NoTask => scopeOf[owner[x]] = x /\ tstate'[owner[x]] # "Unborn"
                      /\ winner[x] # NoTask => scopeOf[winner[x]] = x /\ tstate'[winner[x]] \in Terminal
    BY <2>1 DEF RolesInv
  <2> QED BY <1>0, <2>1 DEF RolesInv, Inert
<1> QED BY <1>1, <1>2, <1>3, StepForms DEF StepForm

-----------------------------------------------------------------------------
(***************************************************************************)
(* What tasks and scopes are made of                                       *)
(***************************************************************************)
\* Every scope has room for a task, and a task needs the keys of its job or none.
SetupInv ==
  /\ limit \in [ScopeIds -> Nat \ {0}]
  /\ keys \in [TaskIds -> KeySets \cup {{}}]

\* The initial state satisfies it.
LEMMA InitSetup == Init => SetupInv
  BY SchedulerConstants DEF Init, SetupInv

\* New tasks get the keys of their jobs.
LEMMA SpawnKeys ==
  ASSUME SchedulerInv, SetupInv, NEW s, NEW jobs \in JobLists, NEW unresolved, NEW first,
         spawn_in_scope(s, jobs, unresolved, first)
  PROVE  keys' \in [TaskIds -> KeySets \cup {{}}]
<1>1. PICK n \in 1..MaxGroup : jobs \in [1..n -> KeySets]
  BY DEF JobLists
<1>2. n \in Nat /\ Len(jobs) = n
  BY <1>1, SchedulerConstants
<1>3. /\ next_task + n \in Nat
      /\ keys' = [t \in TaskIds |->
           IF t \notin next_task .. (next_task + n - 1) THEN keys[t]
           ELSE IF t - next_task + 1 \in unresolved THEN {} ELSE jobs[t - next_task + 1]]
  BY <1>2 DEF spawn_in_scope, SchedulerInv, Ids
<1>4. ASSUME NEW t \in TaskIds, t \in next_task .. (next_task + n - 1) PROVE jobs[t - next_task + 1] \in KeySets
  <2>1. t - next_task + 1 \in 1..n
    BY <1>2, <1>4 DEF SchedulerInv, Ids, TaskIds
  <2> QED BY <1>1, <2>1
<1> QED BY <1>3, <1>4 DEF SetupInv

\* Every step keeps it.
LEMMA NextSetup == ASSUME SchedulerInv, QueueInv, SetupInv, [Next]_vars PROVE SetupInv'
<1>0. Root \in ScopeIds
  BY SchedulerConstants DEF Root, ScopeIds
<1>1. ASSUME NEW p \in TaskIds \cup {NoTask}, NEW pol, NEW lim \in Limits, NEW ser, NEW jobs \in JobLists, NEW u,
             StartGroup(p, pol, lim, ser, jobs, u)
      PROVE  SetupInv'
  <2>1. /\ limit' = [limit EXCEPT ![next_scope] = lim, ![Root] = IF u # {} THEN 1 ELSE @]
        /\ spawn_in_scope(next_scope, jobs, u, 0)
    BY <1>1, Zenon DEF StartGroup
  <2>2. keys' \in [TaskIds -> KeySets \cup {{}}]
    BY <2>1, SpawnKeys
  <2>3. lim \in Nat \ {0}
    BY SchedulerConstants
  <2>4. next_scope # Root
    BY DEF QueueInv, QueueTypes, Root
  <2>5. PICK r : r = (IF u # {} THEN 1 ELSE limit[Root]) /\ r \in Nat \ {0}
    BY <1>0 DEF SetupInv
  <2>6. limit' = [limit EXCEPT ![next_scope] = lim, ![Root] = r]
    BY <2>1, <2>4, <2>5
  <2>7. limit' = [x \in ScopeIds |-> IF x = Root THEN r ELSE IF x = next_scope THEN lim ELSE limit[x]]
    BY <2>4, <2>6 DEF SetupInv
  <2>8. limit' \in [ScopeIds -> Nat \ {0}]
    BY <2>3, <2>5, <2>7 DEF SetupInv
  <2> QED BY <2>2, <2>8 DEF SetupInv
<1>2. ASSUME NEW p \in TaskIds, NEW job \in KeySets, NEW u, NEW i, Start(p, job, u, i) PROVE SetupInv'
  <2>1. /\ limit' = [limit EXCEPT ![Root] = IF u # {} THEN 1 ELSE @]
        /\ spawn_in_scope(scopeOf[p], <<job>>, u, i)
    BY <1>2, Zenon DEF Start
  <2>2. <<job>> \in JobLists
    <3>1. 1 \in 1..MaxGroup /\ <<job>> \in [1..1 -> KeySets]
      BY SchedulerConstants
    <3> QED BY <3>1 DEF JobLists
  <2>3. keys' \in [TaskIds -> KeySets \cup {{}}]
    BY <2>1, <2>2, SpawnKeys
  <2>4. PICK r : r = (IF u # {} THEN 1 ELSE limit[Root]) /\ r \in Nat \ {0}
    BY <1>0 DEF SetupInv
  <2>5. limit' = [limit EXCEPT ![Root] = r]
    BY <2>1, <2>4, Zenon
  <2>6. limit' \in [ScopeIds -> Nat \ {0}]
    BY <2>4, <2>5 DEF SetupInv
  <2> QED BY <2>3, <2>6 DEF SetupInv
<1>3. ASSUME UNCHANGED <<limit, keys>> PROVE SetupInv'
  BY <1>3 DEF SetupInv
<1>4. ASSUME NEW t, NEW out, NEW win, NEW prim, Ends(t, out, win, prim) PROVE SetupInv'
  <2>1. UNCHANGED <<taskShape, scopeShape>>
    BY <1>4, Zenon DEF Ends, terminal
  <2> QED BY <1>3, <2>1 DEF taskShape, scopeShape
<1>5. ASSUME NEW t, NEW u, await_task(t, u) PROVE SetupInv'
  BY <1>3, <1>5 DEF await_task, Yields, taskShape, scopeShape
<1>6. ASSUME Calm PROVE SetupInv'
  <2>1. UNCHANGED <<taskShape, scopeShape>>
    BY <1>6, Zenon DEF Calm, Rest, Dispatch, DispatchNone, wake_from_host, requeue, wait_for_host, wait_for_cpu, Yields,
       CancelNext, cancel_unsettled, begin_checkpoint_barrier, end_checkpoint_barrier, vars, taskVars, scopeVars,
       schedVars, taskShape, scopeShape
  <2> QED BY <1>3, <2>1 DEF taskShape, scopeShape
<1> QED BY <1>1, <1>2, <1>4, <1>5, <1>6, StepKinds

\* Nothing that the outcome of s depends on changes.
Frozen(s) ==
  /\ policy'[s] = policy[s] /\ owner'[s] = owner[s] /\ winner'[s] = winner[s] /\ primary'[s] = primary[s]
  /\ \A t \in TaskIds : scopeOf'[t] = s /\ tstate'[t] # "Unborn" <=> scopeOf[t] = s /\ tstate[t] # "Unborn"
  /\ \A t \in TaskIds : scopeOf[t] = s /\ tstate[t] # "Unborn" => tstate'[t] = tstate[t]

\* The outcome of a scope with policy pol whose members have settled as kinds, from
\* the failure, the callback and the winner it has and how they settled.
Outcome(pol, kinds, prim, primKind, ownKind, win, winKind) ==
  IF ~settled(kinds) THEN "Pending"
  ELSE CASE pol = "Run" -> IF prim # NoTask THEN primKind ELSE ownKind
         [] pol = "Join" -> IF prim # NoTask THEN primKind ELSE joined(kinds)
         [] pol = "TryJoin" ->
              IF primKind = "Raised" THEN "Completed" ELSE IF prim # NoTask THEN primKind ELSE joined(kinds)
         [] pol = "Collect" ->
              IF "Failed" \in kinds THEN "Failed"
              ELSE IF kinds \subseteq {"Completed", "Raised"} THEN "Completed" ELSE "Cancelled"
         [] pol = "Race" ->
              IF win # NoTask THEN winKind ELSE IF prim # NoTask THEN primKind
              ELSE IF "Cancelled" \in kinds THEN "Cancelled" ELSE "Error"

\* A frozen scope keeps its outcome.
LEMMA FrozenOutcome ==
  ASSUME QueueInv, FailureInv, RolesInv, NEW s \in ScopeIds, Frozen(s)
  PROVE  scope_outcome(s, tstate, winner[s], primary[s])' = scope_outcome(s, tstate, winner[s], primary[s])
<1> DEFINE kinds == {tstate[t] : t \in Members(s, tstate)}
           pk == IF primary[s] = NoTask THEN "Error" ELSE tstate[primary[s]]
           ok == IF owner[s] = NoTask THEN "Error" ELSE tstate[owner[s]]
<1>1. Members(s, tstate)' = Members(s, tstate)
  BY DEF Frozen, Members
<1>2. \A t \in Members(s, tstate) : tstate'[t] = tstate[t]
  BY DEF Frozen, Members
<1>3. kinds' = kinds
  BY <1>1, <1>2
<1>4. ASSUME owner[s] # NoTask PROVE tstate'[owner[s]] = tstate[owner[s]]
  BY <1>4 DEF QueueInv, QueueTypes, RolesInv, Frozen
<1>5. ASSUME winner[s] # NoTask PROVE tstate'[winner[s]] = tstate[winner[s]]
  <2>1. PICK w \in TaskIds : w = winner[s]
    BY <1>5 DEF QueueInv, QueueTypes
  <2> QED BY <1>5, <2>1 DEF RolesInv, Frozen, Terminal
<1>6. ASSUME primary[s] # NoTask PROVE tstate'[primary[s]] = tstate[primary[s]]
  <2>1. PICK w \in TaskIds : w = primary[s] /\ scopeOf[w] = s /\ tstate[w] \in Bad
    BY <1>6 DEF FailureInv
  <2> QED BY <2>1 DEF Frozen, Bad
<1>7. policy'[s] = policy[s] /\ owner'[s] = owner[s] /\ winner'[s] = winner[s] /\ primary'[s] = primary[s]
  BY DEF Frozen
<1>8. pk' = pk /\ ok' = ok
  BY <1>4, <1>6, <1>7
<1>9. scope_outcome(s, tstate, winner[s], primary[s])
        = Outcome(policy[s], kinds, primary[s], pk, ok, winner[s], tstate[winner[s]])
  BY Zenon DEF scope_outcome, Outcome
<1>10. scope_outcome(s, tstate, winner[s], primary[s])'
         = Outcome(policy'[s], kinds', primary'[s], pk', ok', winner'[s], tstate'[winner'[s]])
  BY Zenon DEF scope_outcome, Outcome
<1> HIDE DEF kinds, pk, ok
<1>11. CASE winner[s] # NoTask
  BY <1>3, <1>5, <1>7, <1>8, <1>9, <1>10, <1>11
<1>12. CASE winner[s] = NoTask
  <2>1. \A x, y : Outcome(policy[s], kinds, primary[s], pk, ok, NoTask, x)
                    = Outcome(policy[s], kinds, primary[s], pk, ok, NoTask, y)
    BY DEF Outcome
  <2> QED BY <1>3, <1>7, <1>8, <1>9, <1>10, <1>12, <2>1
<1> QED BY <1>11, <1>12

\* A scope in which no task is alive is frozen by every step: only a task of the
\* scope starts tasks in it, and only a settling member changes its winner or failure.
LEMMA SettledFrozen ==
  ASSUME SchedulerInv, QueueInv, InboxInv, [Next]_vars, NEW s \in ScopeIds, s < next_scope,
         \A t \in TaskIds : scopeOf[t] = s => tstate[t] \in Inert
  PROVE  Frozen(s)
<1>0. next_scope \in Nat /\ s \in Nat
  BY SchedulerConstants DEF QueueInv, QueueTypes, ScopeIds
<1>1. ASSUME NEW p, NEW st, NEW x, NEW born, Grows(p, st, x, born) PROVE Frozen(s)
  <2>1. x # s
    <3>1. CASE x = next_scope
      BY <1>0, <3>1
    <3>2. CASE p \in TaskIds /\ x = scopeOf[p]
      BY <1>1, <3>2 DEF Grows, Inert, Terminal
    <3> QED BY <1>1, <3>1, <3>2 DEF Grows
  <2>2. policy'[s] = policy[s] /\ owner'[s] = owner[s] /\ winner'[s] = winner[s] /\ primary'[s] = primary[s]
    BY <1>1, <2>1 DEF Grows
  <2>3. ASSUME NEW t \in TaskIds
        PROVE  /\ scopeOf'[t] = s /\ tstate'[t] # "Unborn" <=> scopeOf[t] = s /\ tstate[t] # "Unborn"
               /\ scopeOf[t] = s /\ tstate[t] # "Unborn" => tstate'[t] = tstate[t]
    <3>1. CASE t \in born
      BY <1>1, <2>1, <3>1 DEF Grows
    <3>2. CASE t = p
      <4>1. scopeOf[t] # s
        BY <1>1, <2>3, <3>2 DEF Grows, Inert, Terminal
      <4>2. scopeOf'[t] # s
        BY <1>1, <2>1, <2>3, <4>1 DEF Grows
      <4> QED BY <4>1, <4>2
    <3>3. CASE t \notin born /\ t # p
      BY <1>1, <2>3, <3>3 DEF Grows
    <3> QED BY <3>1, <3>2, <3>3
  <2> QED BY <2>2, <2>3 DEF Frozen
<1>2. ASSUME NEW t \in TaskIds, NEW out \in Terminal, NEW win, NEW prim, Ends(t, out, win, prim) PROVE Frozen(s)
  <2>1. scopeOf[t] # s
    BY <1>2 DEF Ends
  <2>2. /\ winner' = win /\ primary' = prim /\ UNCHANGED <<scopeOf, policy, owner>>
        /\ \A u \in TaskIds : tstate[u] \in Inert => u = t \/ tstate'[u] = tstate[u]
        /\ \A u \in TaskIds : tstate'[u] \in Inert => u = t \/ tstate'[u] = tstate[u]
    BY <1>2, EndsEffect DEF taskShape, scopeShape
  <2>3. win[s] = winner[s] /\ prim[s] = primary[s]
    BY <1>2, <2>1 DEF Ends
  <2>4. \A u \in TaskIds : scopeOf[u] = s => tstate'[u] = tstate[u]
    BY <2>1, <2>2
  <2> QED BY <2>2, <2>3, <2>4 DEF Frozen
<1>3. ASSUME NEW W, Steady(W) PROVE Frozen(s)
  <2>1. /\ \A u \in TaskIds : tstate[u] \in Inert => tstate'[u] = tstate[u]
        /\ UNCHANGED <<scopeOf, policy, owner, winner, primary>>
    BY <1>3 DEF Steady, taskShape, scopeShape
  <2> QED BY <2>1 DEF Frozen
<1> QED BY <1>1, <1>2, <1>3, StepForms DEF StepForm

\* Nobody waits and nobody has been told anything.
LEMMA InitInbox == Init => InboxInv
  BY DEF Init, InboxInv

\* The scheduler's invariants together.
SchedulerInvs == SchedulerInv /\ QueueInv /\ SlotInv /\ FailureInv /\ InboxInv /\ RolesInv /\ SetupInv

\* They hold.
THEOREM SchedulerInvsHold == Spec => []SchedulerInvs
<1>1. Init => SchedulerInvs
  BY InitInv, InitQueue, InitSlots, InitFailures, InitInbox, InitRoles, InitSetup DEF SchedulerInvs
<1>2. SchedulerInvs /\ [Next]_vars => SchedulerInvs'
  BY NextInv, NextQueue, NextSlots, NextFailures, NextInbox, NextRoles, NextSetup DEF SchedulerInvs
<1> QED BY <1>1, <1>2, PTL DEF Spec

\* What a scope came to is what it came to one step later.
LEMMA OutcomeKept ==
  ASSUME SchedulerInvs, [Next]_vars, NEW s \in ScopeIds \ {Root}, s < next_scope,
         scope_outcome(s, tstate, winner[s], primary[s]) # "Pending"
  PROVE  scope_outcome(s, tstate, winner[s], primary[s])' = scope_outcome(s, tstate, winner[s], primary[s])
<1>1. PICK win \in TaskIds \cup {NoTask}, prim \in TaskIds \cup {NoTask} : win = winner[s] /\ prim = primary[s]
  BY DEF SchedulerInvs, QueueInv, QueueTypes
<1>2. PendingByMembers(s, tstate, win, prim)
  <2>1. policy[s] \in Policies /\ owner[s] \in TaskIds \cup {NoTask} /\ tstate \in [TaskIds -> TaskStates]
    BY DEF SchedulerInvs, QueueInv, QueueTypes, SchedulerInv, Ids
  <2> QED BY <2>1, OutcomePending
<1>3. \A t \in TaskIds : scopeOf[t] = s => tstate[t] \in Inert
  BY <1>1, <1>2 DEF PendingByMembers
<1>4. Frozen(s)
  BY <1>3, SettledFrozen DEF SchedulerInvs
<1> QED BY <1>4, FrozenOutcome DEF SchedulerInvs

\* The outcome a scope has once nothing in it is alive never changes: no task is
\* started in it, no late settlement replaces its winner or its primary failure.
THEOREM ScopesSettleForGood == Spec => ScopeOutcomesAreFinal
<1>1. SchedulerInvs /\ [Next]_vars =>
        [\A s \in ScopeIds \ {Root} : s < next_scope =>
           LET before == scope_outcome(s, tstate, winner[s], primary[s])
               after == scope_outcome(s, tstate, winner[s], primary[s])'
           IN before # "Pending" => after = before]_vars
  BY OutcomeKept
<1> QED BY <1>1, SchedulerInvsHold, PTL DEF Spec, ScopeOutcomesAreFinal

-----------------------------------------------------------------------------
(***************************************************************************)
(* The driver implements the scheduler: each of its steps is a step of     *)
(* TaskScheduler or leaves the scheduler alone.  What is proved of the     *)
(* scheduler therefore holds of every run of the coordinator.  Then the    *)
(* properties of the driver itself: a task has one Host answer, a failure  *)
(* is reported, a drained barrier captures a valid state, the coordinator  *)
(* is stuck only over permits, and nothing outlives a run.                 *)
(*                                                                         *)
(* The last ones rest on WaitOrder, an order on the tasks in which whoever *)
(* waits is above what it waits for: there is one in every reachable state *)
(* because a task passes on only the handles it has.                       *)
(***************************************************************************)
\* Ending the body of the root is a cancellation of everything, or no step.
LEMMA RootEndsStep == ASSUME NEW out, RootEnds(out) PROVE [Next]_vars
<1>1. UNCHANGED vars \/ cancel_unsettled
  BY Zenon DEF RootEnds
<1> QED BY <1>1 DEF Next, Coordinator

\* The steps of the root machine.
LEMMA RootStepMaps == ASSUME RootStep PROVE [Next]_vars
<1>1. ASSUME NEW pol \in RootPolicies, NEW lim \in Limits, NEW ser \in SerialScopes,
             NEW jobs \in JobLists, NEW u \in UnresolvedJobs(Len(jobs)),
             RootStart(pol, lim, ser, jobs, u)
      PROVE  [Next]_vars
  <2>1. StartGroup(NoTask, pol, lim, ser, jobs, u)
    BY <1>1, Zenon DEF RootStart
  <2>2. pol \in GroupPolicies
    BY DriverConstants
  <2>3. Coordinator
    BY <2>1, <2>2, Zenon DEF Coordinator
  <2> QED BY <2>3 DEF Next
<1>2. ASSUME RootHost PROVE [Next]_vars
  BY <1>2, Zenon DEF RootHost
<1>3. ASSUME RootCheckpoint PROVE [Next]_vars
  BY <1>3, Zenon DEF RootCheckpoint, Next, Coordinator
<1>4. ASSUME RootResume PROVE [Next]_vars
  <2>1. UNCHANGED vars \/ RootEnds(RootScopeOutcome)
    BY <1>4, Zenon DEF RootResume
  <2> QED BY <2>1, RootEndsStep
<1>5. ASSUME RootHostAnswer PROVE [Next]_vars
  <2>1. UNCHANGED vars \/ RootEnds("Failed")
    BY <1>5, Zenon DEF RootHostAnswer
  <2> QED BY <2>1, RootEndsStep
<1>6. ASSUME SettleFailure PROVE [Next]_vars
  BY <1>6, RootEndsStep DEF SettleFailure
<1>7. ASSUME RootDone PROVE [Next]_vars
  BY <1>7, Zenon DEF RootDone
<1>8. ASSUME NEW out, RootFinish(out) PROVE [Next]_vars
  BY <1>8, RootEndsStep DEF RootFinish
<1> QED BY <1>1, <1>2, <1>3, <1>4, <1>5, <1>6, <1>7, <1>8, Zenon DEF RootStep

\* The steps of a running task.
LEMMA TaskStepIsScheduled == ASSUME NEW t \in TaskIds, DriverTaskStep(t) PROVE TaskStep(t)
<1>1. ASSUME NEW pol \in TaskPolicies, NEW lim \in Limits, NEW ser \in SerialScopes,
             NEW jobs \in JobLists, NEW u \in UnresolvedJobs(Len(jobs)),
             DriveStartGroup(t, pol, lim, ser, jobs, u)
      PROVE  TaskStep(t)
  <2>1. StartGroup(t, pol, lim, ser, jobs, u)
    BY <1>1, Zenon DEF DriveStartGroup
  <2>2. pol \in GroupPolicies
    BY DriverConstants
  <2> QED BY <2>1, <2>2, Zenon DEF TaskStep
<1>2. ASSUME NEW job \in KeySets, NEW u \in UnresolvedJobs(1), NEW i \in SourceIndexes,
             DriveStart(t, job, u, i)
      PROVE  TaskStep(t)
  <2>1. Start(t, job, u, i)
    BY <1>2, Zenon DEF DriveStart
  <2> QED BY <2>1, Zenon DEF TaskStep
<1>3. ASSUME NEW u \in TaskIds, DriveAwait(t, u) PROVE TaskStep(t)
  BY <1>3, Zenon DEF DriveAwait, TaskStep
<1>4. ASSUME (\E b \in NativeWork : DriveYield(t, b)) \/ DriveCheckpoint(t) \/ DriveCpuFull(t)
      PROVE  TaskStep(t)
  BY <1>4, Zenon DEF DriveYield, DriveCheckpoint, DriveCpuFull, TaskStep
<1>5. ASSUME DriveHost(t) PROVE TaskStep(t)
  BY <1>5, Zenon DEF DriveHost, TaskStep
<1>6. ASSUME DriveCpu(t) PROVE TaskStep(t)
  BY <1>6, Zenon DEF DriveCpu, TaskStep
<1>7. ASSUME NEW out \in Terminal, DriveFinish(t, out) PROVE TaskStep(t)
  BY <1>7, Zenon DEF DriveFinish, TaskStep
<1> QED BY <1>1, <1>2, <1>3, <1>4, <1>5, <1>6, <1>7, Zenon DEF DriverTaskStep

\* Every step of the driver is a step of the scheduler or leaves it alone.
LEMMA DriverStepMaps == ASSUME [DriverNext]_coordinatorVars PROVE [Next]_vars
<1>1. ASSUME NEW n \in DOMAIN ready, DriveDispatch(n) PROVE [Next]_vars
  <2>1. Dispatch(n)
    BY <1>1, Zenon DEF DriveDispatch
  <2>2. Coordinator
    BY <2>1, Zenon DEF Coordinator
  <2> QED BY <2>2 DEF Next
<1>2. ASSUME DriveNothing PROVE [Next]_vars
  BY <1>2, Zenon DEF DriveNothing, Next, Coordinator
<1>3. ASSUME DriveCancel PROVE [Next]_vars
  BY <1>3, Zenon DEF DriveCancel, Next, Coordinator
<1>4. ASSUME NEW t \in TaskIds, HostCompletion(t) PROVE [Next]_vars
  <2>1. wake_from_host(t)
    BY <1>4, Zenon DEF HostCompletion
  <2>2. Coordinator
    BY <2>1, Zenon DEF Coordinator
  <2> QED BY <2>2 DEF Next
<1>5. ASSUME NEW t \in TaskIds, NEW out \in Terminal, CpuCompletion(t, out) PROVE [Next]_vars
  <2>1. UNCHANGED vars \/ CpuFinish(t, out)
    BY <1>5, Zenon DEF CpuCompletion
  <2>2. CpuFinish(t, out) => Coordinator
    BY Zenon DEF Coordinator
  <2> QED BY <2>1, <2>2 DEF Next
<1>6. ASSUME Enter PROVE [Next]_vars
  BY <1>6, Zenon DEF Enter, Next, Coordinator
<1>7. ASSUME DrainCommit PROVE [Next]_vars
  <2>1. UNCHANGED vars \/ end_checkpoint_barrier
    BY <1>7 DEF DrainCommit, CheckpointFails
  <2> QED BY <2>1 DEF Next, Coordinator
<1>8. ASSUME Capture PROVE [Next]_vars
  <2>1. end_checkpoint_barrier
    BY <1>8 DEF Capture, CheckpointFails
  <2> QED BY <2>1 DEF Next, Coordinator
<1>9. ASSUME Abort PROVE [Next]_vars
  BY <1>9, RootEndsStep DEF Abort
<1>10. ASSUME Deadlock PROVE [Next]_vars
  <2>1. UNCHANGED vars \/ RootEnds("Failed")
    BY <1>10, Zenon DEF Deadlock
  <2> QED BY <2>1, RootEndsStep
<1>11. UNCHANGED coordinatorVars => [Next]_vars
  BY Zenon DEF coordinatorVars
<1>12. ASSUME NEW t \in TaskIds, DriverTaskStep(t) PROVE [Next]_vars
  BY <1>12, TaskStepIsScheduled, Zenon DEF Next
<1>13. ASSUME NEW t \in TaskIds, DrainNative(t) PROVE [Next]_vars
  <2>1. UNCHANGED vars \/ NativeCancelled(t)
    BY <1>13, Zenon DEF DrainNative
  <2>2. NativeCancelled(t) => Coordinator
    BY Zenon DEF Coordinator
  <2> QED BY <2>1, <2>2 DEF Next
<1> QED BY <1>1, <1>2, <1>3, <1>4, <1>5, <1>6, <1>7, <1>8, <1>9, <1>10, <1>11, <1>12, <1>13,
           RootStepMaps, Zenon DEF DriverNext

\* A driver action performs one operation of the scheduler or none, so what is
\* proved of the scheduler alone holds under the coordinator of driver/task.rs.
LEMMA DriverRunsScheduler == DriverSpec => Spec
<1>1. DriverInit => Init
  BY DEF DriverInit
<1>2. [DriverNext]_coordinatorVars => [Next]_vars
  BY DriverStepMaps
<1> QED BY <1>1, <1>2, PTL DEF DriverSpec, Spec

\* Permits are exclusive in every run of the coordinator.
THEOREM DriverKeepsPermits == DriverSpec => []PermitExclusion
  BY DriverRunsScheduler, PermitsAreExclusive, PTL

-----------------------------------------------------------------------------
(***************************************************************************)
(* A task owns one Host answer                                             *)
(***************************************************************************)
Queued == Terminal \cup {"Ready", "WaitResource"}

\* No task leaves Queued.
StaysQueued == \A t \in TaskIds : tstate[t] \in Queued => tstate'[t] \in Queued

\* An answer in the reactor belongs to a task that is on its way to its next
\* turn, or settled meanwhile; so no task that waits for the Host has one.
AnswersQueued ==
  /\ \A t \in completed : t \in TaskIds => tstate[t] \in Queued
  /\ panicked # "two answers"

\* Starting tasks makes nothing but the caller leave Queued.
LEMMA StartStaysQueued ==
  ASSUME Ids, NEW p \in TaskIds \cup {NoTask}, NEW st, p \in TaskIds => tstate[p] = "Running",
         tstate' = [t \in TaskIds |-> IF Born(t) THEN "Ready" ELSE IF t = p THEN st ELSE tstate[t]]
  PROVE  StaysQueued
<1> SUFFICES ASSUME NEW t \in TaskIds, tstate[t] \in Queued PROVE tstate'[t] \in Queued
  BY DEF StaysQueued
<1>1. t # p
  BY DEF Queued, Terminal
<1>2. tstate'[t] = "Ready" \/ tstate'[t] = tstate[t]
  BY <1>1
<1> QED BY <1>2 DEF Queued

\* A settlement settles one task and queues others.
LEMMA TerminalStaysQueued ==
  ASSUME Ids, NEW t, NEW out \in Terminal, NEW win, NEW prim, terminal(t, out, win, prim)
  PROVE  StaysQueued
<1>1. PICK G \in SUBSET TaskIds : Settlement(t, out, G)
  BY TerminalEffect
<1>2. \A u \in TaskIds : tstate'[u] = tstate[u] \/ tstate'[u] = "Ready" \/ tstate'[u] = out
  BY <1>1 DEF Settlement
<1> QED BY <1>2 DEF StaysQueued, Queued

\* A running task that yields was not queued.
LEMMA YieldStaysQueued ==
  ASSUME Ids, NEW t \in TaskIds, NEW st, NEW keep, Yields(t, st, keep)
  PROVE  StaysQueued
<1>1. tstate[t] = "Running" /\ tstate' = [tstate EXCEPT ![t] = st]
  BY DEF Yields, Acts, Running
<1>2. tstate[t] \notin Queued
  BY <1>1 DEF Queued, Terminal
<1> QED BY <1>1, <1>2 DEF StaysQueued, Ids

\* So does every step of a running task.
LEMMA TaskStepStaysQueued ==
  ASSUME Ids, NEW t \in TaskIds, TaskStep(t)
  PROVE  StaysQueued
<1>0. NoTask \notin TaskIds
  BY SchedulerConstants DEF NoTask, TaskIds
<1>1. ASSUME NEW pol, NEW lim, NEW ser, NEW jobs, NEW u, StartGroup(t, pol, lim, ser, jobs, u)
      PROVE  StaysQueued
  <2>1. tstate' = [x \in TaskIds |-> IF Born(x) THEN "Ready"
                                     ELSE IF x = t THEN "WaitScope" ELSE tstate[x]]
    BY <1>1, Zenon DEF StartGroup
  <2>2. Caller(t)
    BY <1>1, Zenon DEF StartGroup
  <2>3. tstate[t] = "Running"
    BY <1>0, <2>2 DEF Caller, Running
  <2> QED BY <2>1, <2>3, StartStaysQueued
<1>2. ASSUME NEW job, NEW u, NEW i, Start(t, job, u, i) PROVE StaysQueued
  <2>1. tstate' = [x \in TaskIds |-> IF Born(x) THEN "Ready" ELSE tstate[x]]
    BY <1>2, Zenon DEF Start
  <2>2. tstate' = [x \in TaskIds |-> IF Born(x) THEN "Ready"
                                     ELSE IF x = NoTask THEN "Running" ELSE tstate[x]]
    BY <1>0, <2>1
  <2> QED BY <1>0, <2>2, StartStaysQueued
<1>3. ASSUME NEW u, await_task(t, u) PROVE StaysQueued
  BY <1>3, YieldStaysQueued DEF await_task
<1>4. requeue(t) \/ wait_for_host(t) \/ wait_for_cpu(t) => StaysQueued
  BY YieldStaysQueued DEF requeue, wait_for_host, wait_for_cpu
<1>5. ASSUME NEW out \in Terminal, Finish(t, out) PROVE StaysQueued
  BY <1>5, TerminalStaysQueued DEF Finish, settle
<1> QED BY <1>1, <1>2, <1>3, <1>4, <1>5 DEF TaskStep

\* So does every coordinator step that does not dispatch a task.
LEMMA OtherStepStaysQueued ==
  ASSUME Ids,
         \/ \E t \in TaskIds : wake_from_host(t)
         \/ \E t \in TaskIds, out \in Terminal : CpuFinish(t, out)
         \/ \E t \in TaskIds : NativeCancelled(t)
         \/ DispatchNone \/ CancelNext \/ cancel_unsettled
         \/ begin_checkpoint_barrier \/ end_checkpoint_barrier \/ UNCHANGED vars
  PROVE  StaysQueued
<1>1. ASSUME NEW t \in TaskIds, wake_from_host(t) PROVE StaysQueued
  BY <1>1 DEF wake_from_host, StaysQueued, Queued, Ids
<1>2. ASSUME NEW t \in TaskIds, NEW out \in Terminal, CpuFinish(t, out) PROVE StaysQueued
  BY <1>2, TerminalStaysQueued DEF CpuFinish, settle
<1>3. DispatchNone => StaysQueued
  BY DEF DispatchNone, StaysQueued, Queued
<1>4. UNCHANGED tstate => StaysQueued
  BY DEF StaysQueued
<1>5. ASSUME CancelNext PROVE StaysQueued
  <2>1. CASE tstate[Head(cancelling)] \in Inert \cup {"WaitHost"}
    BY <1>4, <1>5, <2>1 DEF CancelNext
  <2>2. CASE tstate[Head(cancelling)] \notin Inert \cup {"WaitHost"}
    BY <1>5, <2>2, TerminalStaysQueued DEF CancelNext, Terminal
  <2> QED BY <2>1, <2>2
<1>6. cancel_unsettled \/ begin_checkpoint_barrier \/ end_checkpoint_barrier => StaysQueued
  BY <1>4 DEF cancel_unsettled, begin_checkpoint_barrier, end_checkpoint_barrier, taskVars
<1>7. UNCHANGED vars => StaysQueued
  BY <1>4 DEF vars, taskVars
<1>8. ASSUME NEW t \in TaskIds, NativeCancelled(t) PROVE StaysQueued
  BY <1>8, TerminalStaysQueued DEF NativeCancelled, settle, Terminal
<1> QED BY <1>1, <1>2, <1>3, <1>5, <1>6, <1>7, <1>8

\* A step that adds no answer keeps the invariant if no task leaves Queued.
LEMMA AnswersKept ==
  ASSUME AnswersQueued, StaysQueued, completed' \subseteq completed,
         panicked' # panicked => panicked' # "two answers"
  PROVE  AnswersQueued'
  BY DEF AnswersQueued, StaysQueued

\* Every step of the driver keeps it.
LEMMA AnswersNext == ASSUME Ids, AnswersQueued, [DriverNext]_coordinatorVars PROVE AnswersQueued'
<1>1. ASSUME NEW out, RootEnds(out) PROVE AnswersQueued'
  <2>1. UNCHANGED vars \/ cancel_unsettled
    BY <1>1, Zenon DEF RootEnds
  <2>2. UNCHANGED <<completed, panicked>>
    BY <1>1, Zenon DEF RootEnds
  <2> QED BY <2>1, <2>2, OtherStepStaysQueued, AnswersKept
<1>2. ASSUME NEW pol, NEW lim, NEW ser, NEW jobs, NEW u, RootStart(pol, lim, ser, jobs, u)
      PROVE  AnswersQueued'
  <2>1. tstate' = [x \in TaskIds |-> IF Born(x) THEN "Ready"
                                     ELSE IF x = NoTask THEN "WaitScope" ELSE tstate[x]]
    BY <1>2, Zenon DEF RootStart, StartGroup
  <2>2. UNCHANGED <<completed, panicked>>
    BY <1>2, Zenon DEF RootStart
  <2>3. NoTask \notin TaskIds
    BY SchedulerConstants DEF NoTask, TaskIds
  <2> QED BY <2>1, <2>2, <2>3, StartStaysQueued, AnswersKept
<1>3. ASSUME RootStep PROVE AnswersQueued'
  <2>1. ASSUME RootHost \/ RootDone PROVE AnswersQueued'
    <3>1. UNCHANGED <<vars, completed, panicked>>
      BY <2>1, Zenon DEF RootHost, RootDone
    <3> QED BY <3>1, OtherStepStaysQueued, AnswersKept
  <2>2. ASSUME RootCheckpoint PROVE AnswersQueued'
    <3>1. begin_checkpoint_barrier /\ UNCHANGED <<completed, panicked>>
      BY <2>2, Zenon DEF RootCheckpoint
    <3> QED BY <3>1, OtherStepStaysQueued, AnswersKept
  <2>3. ASSUME RootResume PROVE AnswersQueued'
    <3>1. UNCHANGED <<vars, completed, panicked>> \/ RootEnds(RootScopeOutcome)
      BY <2>3, Zenon DEF RootResume
    <3> QED BY <1>1, <3>1, OtherStepStaysQueued, AnswersKept
  <2>4. ASSUME RootHostAnswer PROVE AnswersQueued'
    <3>1. UNCHANGED <<vars, completed, panicked>> \/ RootEnds("Failed")
      BY <2>4, Zenon DEF RootHostAnswer
    <3> QED BY <1>1, <3>1, OtherStepStaysQueued, AnswersKept
  <2>5. ASSUME SettleFailure PROVE AnswersQueued'
    BY <1>1, <2>5 DEF SettleFailure
  <2>6. ASSUME NEW out, RootFinish(out) PROVE AnswersQueued'
    BY <1>1, <2>6 DEF RootFinish
  <2> QED BY <1>2, <1>3, <2>1, <2>2, <2>3, <2>4, <2>5, <2>6, Zenon DEF RootStep
<1>4. ASSUME NEW n, DriveDispatch(n) PROVE AnswersQueued'
  <2>1. \A t \in TaskIds : t # ready[n] /\ tstate[t] \in Queued => tstate'[t] \in Queued
    BY <1>4 DEF DriveDispatch, Dispatch, Queued
  <2>2. completed' = completed \ {ready[n]} /\ panicked' = panicked
    BY <1>4, Zenon DEF DriveDispatch
  <2> QED BY <2>1, <2>2 DEF AnswersQueued
<1>5. ASSUME DriveNothing \/ DriveCancel PROVE AnswersQueued'
  <2>1. (DispatchNone \/ CancelNext) /\ UNCHANGED <<completed, panicked>>
    BY <1>5, Zenon DEF DriveNothing, DriveCancel, driverVars
  <2> QED BY <2>1, OtherStepStaysQueued, AnswersKept
<1>6. ASSUME NEW t \in TaskIds, HostCompletion(t) PROVE AnswersQueued'
  <2>1. /\ wake_from_host(t) /\ completed' = completed \cup {t}
        /\ panicked' = IF t \in completed THEN "two answers" ELSE panicked
    BY <1>6, Zenon DEF HostCompletion
  <2>2. tstate[t] = "WaitHost" /\ tstate'[t] = "Ready"
    BY <2>1 DEF wake_from_host, Ids
  <2>3. t \notin completed
    BY <2>2 DEF AnswersQueued, Queued, Terminal
  <2>4. StaysQueued
    BY <2>1, OtherStepStaysQueued
  <2> QED BY <2>1, <2>2, <2>3, <2>4 DEF AnswersQueued, StaysQueued, Queued
<1>7. ASSUME NEW t \in TaskIds, NEW out \in Terminal, CpuCompletion(t, out) PROVE AnswersQueued'
  <2>1. (UNCHANGED vars \/ CpuFinish(t, out)) /\ UNCHANGED <<completed, panicked>>
    BY <1>7, Zenon DEF CpuCompletion
  <2> QED BY <2>1, OtherStepStaysQueued, AnswersKept
<1>8. ASSUME NEW t \in TaskIds, DriverTaskStep(t) PROVE AnswersQueued'
  <2>1. UNCHANGED <<completed, panicked>>
    BY <1>8, Zenon DEF DriverTaskStep, DriveStartGroup, DriveStart, DriveAwait, DriveYield,
       DriveHost, DriveCpu, DriveCpuFull, DriveCheckpoint, DriveFinish, Boundary, driverVars
  <2>2. TaskStep(t)
    BY <1>8, TaskStepIsScheduled
  <2> QED BY <2>1, <2>2, TaskStepStaysQueued, AnswersKept
<1>9. ASSUME Enter PROVE AnswersQueued'
  <2>1. begin_checkpoint_barrier /\ UNCHANGED <<completed, panicked>>
    BY <1>9, Zenon DEF Enter
  <2> QED BY <2>1, OtherStepStaysQueued, AnswersKept
<1>10. ASSUME DrainCommit PROVE AnswersQueued'
  <2>1. /\ UNCHANGED vars \/ end_checkpoint_barrier
        /\ completed' \subseteq completed
        /\ panicked' # panicked => panicked' # "two answers"
    BY <1>10 DEF DrainCommit, CheckpointFails
  <2> QED BY <2>1, OtherStepStaysQueued, AnswersKept
<1>11. ASSUME Capture PROVE AnswersQueued'
  <2>1. end_checkpoint_barrier /\ UNCHANGED <<completed, panicked>>
    BY <1>11 DEF Capture, CheckpointFails
  <2> QED BY <2>1, OtherStepStaysQueued, AnswersKept
<1>12. ASSUME Abort PROVE AnswersQueued'
  BY <1>1, <1>12 DEF Abort
<1>13. ASSUME Deadlock PROVE AnswersQueued'
  <2>1. UNCHANGED <<vars, completed, panicked>> \/ RootEnds("Failed")
    BY <1>13, Zenon DEF Deadlock
  <2> QED BY <1>1, <2>1, OtherStepStaysQueued, AnswersKept
<1>14. UNCHANGED coordinatorVars => AnswersQueued'
  BY OtherStepStaysQueued, AnswersKept DEF coordinatorVars, driverVars
<1>15. ASSUME NEW t \in TaskIds, DrainNative(t) PROVE AnswersQueued'
  <2>1. /\ UNCHANGED vars \/ NativeCancelled(t)
        /\ completed' = completed
        /\ panicked' # panicked => panicked' # "two answers"
    BY <1>15 DEF DrainNative
  <2> QED BY <2>1, OtherStepStaysQueued, AnswersKept
<1> QED BY <1>3, <1>4, <1>5, <1>6, <1>7, <1>8, <1>9, <1>10, <1>11, <1>12, <1>13, <1>14, <1>15
        DEF DriverNext

\* The assertion of poll_one never fails, whatever answers, cancellations and
\* barriers come in between: a task owns at most one uncommitted Host answer.
THEOREM AnswersAreSingle == DriverSpec => []OneAnswerPerTask
<1>1. DriverInit => AnswersQueued
  BY DEF DriverInit, AnswersQueued
<1>2. AnswersQueued => OneAnswerPerTask
  BY DEF AnswersQueued, OneAnswerPerTask
<1>3. SchedulerInv => Ids
  BY DEF SchedulerInv
<1>4. Ids /\ AnswersQueued /\ [DriverNext]_coordinatorVars => AnswersQueued'
  BY AnswersNext
<1>5. DriverSpec => []SchedulerInv
  BY DriverRunsScheduler, SchedulerInvariant, PTL
<1> QED BY <1>1, <1>2, <1>3, <1>4, <1>5, PTL DEF DriverSpec

-----------------------------------------------------------------------------
(***************************************************************************)
(* No failure is swallowed                                                 *)
(***************************************************************************)
\* A run that is over is at rest, and reports its failures.
DoneAtRest ==
  root = "Done" => /\ Idle /\ pending = "none" /\ ~checkpoint_barrier
                   /\ primary_failure => rootOutcome # "Completed"

\* Nothing happens any more.
LEMMA DoneIsOver == ASSUME root = "Done", DoneAtRest, DriverNext PROVE FALSE
<1>1. Idle /\ pending = "none" /\ ~checkpoint_barrier
  BY DEF DoneAtRest
<1>2. ~Driving /\ ~Draining
  BY <1>1 DEF Driving, Draining
<1>3. ~RootStep
  BY Zenon DEF RootStep, RootStart, RootHost, RootCheckpoint, RootBody, RootResume,
     RootHostAnswer, SettleFailure, RootDone, RootFinish
<1>4. ASSUME NEW t \in TaskIds, DriverTaskStep(t) PROVE FALSE
  <2>1. TaskStep(t)
    BY <1>4, TaskStepIsScheduled
  <2>2. tstate[t] = "Running"
    <3>1. NoTask \notin TaskIds
      BY SchedulerConstants DEF NoTask, TaskIds
    <3>2. Running(t)
      BY <2>1, <3>1, Zenon DEF TaskStep, StartGroup, Start, requeue, await_task, wait_for_host,
         wait_for_cpu, Finish, Yields, Acts, Caller
    <3> QED BY <3>2 DEF Running
  <2> QED BY <1>1, <2>2 DEF Idle
<1>5. ASSUME NEW n, DriveDispatch(n) PROVE FALSE
  BY <1>2, <1>5, Zenon DEF DriveDispatch
<1>6. ASSUME DriveNothing PROVE FALSE
  BY <1>2, <1>6, Zenon DEF DriveNothing
<1>7. ASSUME DriveCancel PROVE FALSE
  BY <1>1, <1>7 DEF DriveCancel, CancelNext, Idle
<1>8. ASSUME NEW t, HostCompletion(t) PROVE FALSE
  BY <1>2, <1>8, Zenon DEF HostCompletion
<1>9. ASSUME NEW t, NEW out, CpuCompletion(t, out) PROVE FALSE
  BY <1>2, <1>9, Zenon DEF CpuCompletion
<1>10. ASSUME Enter \/ Abort PROVE FALSE
  BY <1>1, <1>10 DEF Enter, Abort
<1>11. ASSUME DrainCommit \/ Capture \/ Deadlock PROVE FALSE
  BY <1>2, <1>11 DEF DrainCommit, Capture, Drained, Deadlock, Stuck
<1>12. ASSUME NEW t, DrainNative(t) PROVE FALSE
  BY <1>2, <1>12, Zenon DEF DrainNative, Drained
<1> QED BY <1>3, <1>4, <1>5, <1>6, <1>7, <1>8, <1>9, <1>10, <1>11, <1>12 DEF DriverNext

\* Only RootDone and Deadlock end a run.
LEMMA OnlyTwoEnd == ASSUME DriverNext, root # "Done" PROVE RootDone \/ Deadlock \/ root' # "Done"
<1>1. ASSUME NEW out, RootEnds(out) PROVE root' # "Done"
  BY <1>1 DEF RootEnds
<1>2. ASSUME RootStep PROVE RootDone \/ root' # "Done"
  <2>1. ASSUME NEW pol, NEW lim, NEW ser, NEW jobs, NEW u, RootStart(pol, lim, ser, jobs, u) PROVE root' # "Done"
    <3>1. root' = "WaitScope"
      BY <2>1, Zenon DEF RootStart
    <3> QED BY <3>1
  <2>2. RootHost \/ RootCheckpoint => root' # "Done"
    BY DEF RootHost, RootCheckpoint
  <2>3. ASSUME RootResume PROVE root' # "Done"
    <3>1. root' = "Body" \/ RootEnds(RootScopeOutcome)
      BY <2>3, Zenon DEF RootResume
    <3> QED BY <1>1, <3>1
  <2>4. ASSUME RootHostAnswer PROVE root' # "Done"
    <3>1. root' = "Body" \/ RootEnds("Failed")
      BY <2>4, Zenon DEF RootHostAnswer
    <3> QED BY <1>1, <3>1
  <2>5. ASSUME SettleFailure PROVE root' # "Done"
    BY <1>1, <2>5 DEF SettleFailure
  <2>6. ASSUME NEW out, RootFinish(out) PROVE root' # "Done"
    BY <1>1, <2>6 DEF RootFinish
  <2> QED BY <1>2, <2>1, <2>2, <2>3, <2>4, <2>5, <2>6, Zenon DEF RootStep
<1>3. ASSUME NEW t, DriverTaskStep(t) PROVE root' = root
  BY <1>3, Zenon DEF DriverTaskStep, DriveStartGroup, DriveStart, DriveAwait, DriveYield,
     DriveHost, DriveCpu, DriveCpuFull, DriveCheckpoint, DriveFinish, Boundary, driverVars, rootVars
<1>4. ASSUME NEW n, DriveDispatch(n) PROVE root' = root
  BY <1>4, Zenon DEF DriveDispatch, rootVars
<1>5. DriveNothing \/ DriveCancel => root' = root
  BY Zenon DEF DriveNothing, DriveCancel, driverVars
<1>6. ASSUME NEW t, HostCompletion(t) PROVE root' = root
  BY <1>6, Zenon DEF HostCompletion, rootVars
<1>7. ASSUME NEW t, NEW out, CpuCompletion(t, out) PROVE root' = root
  BY <1>7, Zenon DEF CpuCompletion, rootVars
<1>8. Enter \/ DrainCommit \/ Capture => root' = root
  BY Zenon DEF Enter, DrainCommit, Capture, rootVars
<1>9. Abort => root' # "Done"
  BY <1>1 DEF Abort
<1>10. ASSUME NEW t, DrainNative(t) PROVE root' = root
  BY <1>10, Zenon DEF DrainNative, rootVars
<1> QED BY <1>2, <1>3, <1>4, <1>5, <1>6, <1>7, <1>8, <1>9, <1>10 DEF DriverNext

\* Every step of the driver keeps it.
LEMMA DoneNext == ASSUME DoneAtRest, [DriverNext]_coordinatorVars PROVE DoneAtRest'
<1>1. UNCHANGED coordinatorVars => DoneAtRest'
  BY DEF coordinatorVars, vars, taskVars, scopeVars, schedVars, driverVars, DoneAtRest, Idle, primary_failure
<1>2. CASE DriverNext /\ root = "Done"
  BY <1>2, DoneIsOver
<1>3. ASSUME RootDone PROVE DoneAtRest'
  <2>1. /\ Free /\ UNCHANGED <<vars, pending>>
        /\ rootOutcome' = IF rootOutcome = "Completed" /\ primary_failure THEN "Failed" ELSE rootOutcome
    BY <1>3, Zenon DEF RootDone
  <2>2. (Idle /\ pending = "none" /\ ~checkpoint_barrier)' /\ primary_failure' = primary_failure
    BY <2>1 DEF Free, vars, taskVars, schedVars, Idle, primary_failure
  <2> QED BY <2>1, <2>2 DEF DoneAtRest
<1>4. ASSUME root' # "Done" PROVE DoneAtRest'
  BY <1>4 DEF DoneAtRest
<1>5. ASSUME Deadlock PROVE DoneAtRest'
  <2>1. CASE root = "Settling"
    <3>1. Free /\ rootOutcome' = "Failed" /\ UNCHANGED <<vars, pending>>
      BY <1>5, <2>1 DEF Deadlock, Stuck, Driving
    <3>2. (Idle /\ pending = "none" /\ ~checkpoint_barrier)'
      BY <3>1 DEF Free, vars, taskVars, schedVars, Idle
    <3> QED BY <3>1, <3>2 DEF DoneAtRest
  <2>2. CASE root # "Settling"
    BY <1>4, <1>5, <2>2 DEF Deadlock, RootEnds
  <2> QED BY <2>1, <2>2
<1>6. CASE DriverNext /\ root # "Done"
  BY <1>3, <1>4, <1>5, <1>6, OnlyTwoEnd
<1> QED BY <1>1, <1>2, <1>6

\* A run in which a task failed never reports success, also when the task was an
\* orphan that failed after the body had completed (settle_tasks).
THEOREM FailuresSurface == DriverSpec => []FailureSurfaces
<1>1. DriverInit => DoneAtRest
  BY DEF DriverInit, DoneAtRest
<1>2. DoneAtRest => FailureSurfaces
  BY DEF DoneAtRest, FailureSurfaces
<1>3. DoneAtRest /\ [DriverNext]_coordinatorVars => DoneAtRest'
  BY DoneNext
<1> QED BY <1>1, <1>2, <1>3, PTL DEF DriverSpec

-----------------------------------------------------------------------------
(***************************************************************************)
(* What a step of the driver does to tasks, handles and job records        *)
(***************************************************************************)
\* No task begins to wait for a worker.
NoNewJob == \A u \in TaskIds : tstate'[u] = "WaitCpu" => tstate[u] = "WaitCpu"

\* The step starts tasks.  They can reach the handles of the task that starts them,
\* which may get theirs; the root has none to pass on.
DriverGrows(p, st, s, born) ==
  /\ Grows(p, st, s, born) /\ cpu_jobs' = cpu_jobs /\ rootScope' \in {rootScope, s}
  /\ IF p \in TaskIds
       THEN \A x \in TaskIds : knows'[x] \subseteq (IF x \in born THEN knows[p]
                                                    ELSE IF x = p THEN knows[x] \cup born ELSE knows[x])
       ELSE knows' = knows

\* The forms of a step of the driver.
DriverForm ==
  \/ \E p, st, s, born : DriverGrows(p, st, s, born)
  \/ \E t \in TaskIds, out \in Terminal : \E win, prim :
       Ends(t, out, win, prim) /\ cpu_jobs \ {t} \subseteq cpu_jobs' /\ UNCHANGED <<knows, rootScope>>
  \/ \E t \in TaskIds, u \in TaskIds :
       await_task(t, u) /\ u \in knows[t] /\ UNCHANGED <<cpu_jobs, knows, rootScope>>
  \/ \E t \in TaskIds : wait_for_cpu(t) /\ cpu_jobs' = cpu_jobs \cup {t} /\ UNCHANGED <<knows, rootScope>>
  \/ /\ Rest /\ UNCHANGED <<knows, rootScope>>
     /\ \A t \in TaskIds : t \in cpu_jobs \ cpu_jobs' => tstate[t] \in Terminal

\* A settlement sends no task to the workers.
LEMMA EndsNoJob ==
  ASSUME SchedulerInv, NEW t \in TaskIds, NEW out \in Terminal, NEW win, NEW prim, Ends(t, out, win, prim)
  PROVE  NoNewJob
<1>1. PICK G \in SUBSET TaskIds : Settlement(t, out, G)
  BY TerminalEffect DEF SchedulerInv, Ends
<1> QED BY <1>1 DEF Settlement, NoNewJob, Terminal

\* Nor does any other step but wait_for_cpu.
LEMMA RestNoJob == ASSUME SchedulerInv, Rest PROVE NoNewJob
<1>1. ASSUME NEW t \in TaskIds, NEW st, st # "WaitCpu", tstate' = [tstate EXCEPT ![t] = st] PROVE NoNewJob
  BY <1>1 DEF NoNewJob, SchedulerInv, Ids
<1>2. ASSUME NEW n, Dispatch(n) PROVE NoNewJob
  BY <1>2 DEF Dispatch, NoNewJob
<1>3. DispatchNone => NoNewJob
  BY DEF DispatchNone, NoNewJob
<1>4. ASSUME NEW t \in TaskIds, wake_from_host(t) PROVE NoNewJob
  BY <1>1, <1>4 DEF wake_from_host
<1>5. ASSUME NEW t \in TaskIds, requeue(t) \/ wait_for_host(t) PROVE NoNewJob
  BY <1>1, <1>5 DEF requeue, wait_for_host, Yields
<1>6. UNCHANGED tstate => NoNewJob
  BY DEF NoNewJob
<1>7. CancelNext /\ tstate[Head(cancelling)] \in Inert \cup {"WaitHost"} => NoNewJob
  BY <1>6 DEF CancelNext
<1>8. ASSUME cancel_unsettled \/ begin_checkpoint_barrier \/ end_checkpoint_barrier \/ UNCHANGED vars PROVE NoNewJob
  <2>1. UNCHANGED tstate
    BY <1>8, Zenon DEF cancel_unsettled, begin_checkpoint_barrier, end_checkpoint_barrier, vars, taskVars
  <2> QED BY <1>6, <2>1
<1> QED BY <1>2, <1>3, <1>4, <1>5, <1>7, <1>8 DEF Rest

\* A step of the scheduler at rest that keeps handles and records is of a known form.
LEMMA RestForm == ASSUME Rest, UNCHANGED <<knows, rootScope, cpu_jobs>> PROVE DriverForm
  BY Zenon DEF DriverForm

\* The same for the end of the body.
LEMMA RootEndsForm == ASSUME NEW out, RootEnds(out) PROVE DriverForm
<1>1. UNCHANGED vars \/ cancel_unsettled
  BY Zenon DEF RootEnds
<1>2. UNCHANGED <<knows, rootScope, cpu_jobs>>
  BY Zenon DEF RootEnds
<1> QED BY <1>1, <1>2, RestForm DEF Rest

\* A cancellation.
LEMMA CancelForm == ASSUME QueueInv, CancelNext, UNCHANGED <<knows, rootScope, cpu_jobs>> PROVE DriverForm
<1>1. CASE tstate[Head(cancelling)] \in Inert \cup {"WaitHost"}
  BY <1>1, RestForm DEF Rest
<1>2. CASE tstate[Head(cancelling)] \notin Inert \cup {"WaitHost"}
  <2>1. PICK t \in TaskIds, out \in Terminal : \E win, prim : Ends(t, out, win, prim)
    BY <1>2, CancelEnds
  <2>2. cpu_jobs \ {t} \subseteq cpu_jobs' /\ UNCHANGED <<knows, rootScope>>
    OBVIOUS
  <2> QED BY <2>1, <2>2, Zenon DEF DriverForm
<1> QED BY <1>1, <1>2

\* The steps of the root machine.
LEMMA RootForm == ASSUME SchedulerInv, QueueInv, RootStep PROVE DriverForm
<1>1. ASSUME NEW pol, NEW lim, NEW ser, NEW jobs \in JobLists, NEW u, RootStart(pol, lim, ser, jobs, u)
      PROVE  DriverForm
  <2>1. StartGroup(NoTask, pol, lim, ser, jobs, u) /\ rootScope' = next_scope /\ UNCHANGED <<knows, cpu_jobs>>
    BY <1>1, Zenon DEF RootStart
  <2>2. PICK p : p = NoTask /\ p \in TaskIds \cup {NoTask} /\ p \notin TaskIds
    BY SchedulerConstants DEF NoTask, TaskIds
  <2>3. PICK born : Grows(p, "WaitScope", next_scope, born)
    BY <2>1, <2>2, GroupGrows
  <2>4. DriverGrows(p, "WaitScope", next_scope, born)
    BY <2>1, <2>2, <2>3 DEF DriverGrows
  <2> QED BY <2>4, Zenon DEF DriverForm
<1>2. ASSUME RootHost \/ RootDone PROVE DriverForm
  <2>1. UNCHANGED <<vars, knows, rootScope, cpu_jobs>>
    BY <1>2, Zenon DEF RootHost, RootDone
  <2> QED BY <2>1, RestForm DEF Rest
<1>3. ASSUME RootCheckpoint PROVE DriverForm
  <2>1. begin_checkpoint_barrier /\ UNCHANGED <<knows, rootScope, cpu_jobs>>
    BY <1>3, Zenon DEF RootCheckpoint
  <2> QED BY <2>1, RestForm DEF Rest
<1>4. ASSUME RootResume PROVE DriverForm
  <2>1. UNCHANGED <<vars, knows, rootScope, cpu_jobs>> \/ RootEnds(RootScopeOutcome)
    BY <1>4, Zenon DEF RootResume
  <2> QED BY <2>1, RestForm, RootEndsForm DEF Rest
<1>5. ASSUME RootHostAnswer PROVE DriverForm
  <2>1. UNCHANGED <<vars, knows, rootScope, cpu_jobs>> \/ RootEnds("Failed")
    BY <1>5, Zenon DEF RootHostAnswer
  <2> QED BY <2>1, RestForm, RootEndsForm DEF Rest
<1>6. ASSUME SettleFailure PROVE DriverForm
  BY <1>6, RootEndsForm DEF SettleFailure
<1>7. ASSUME NEW out, RootFinish(out) PROVE DriverForm
  BY <1>7, RootEndsForm DEF RootFinish
<1> QED BY <1>1, <1>2, <1>3, <1>4, <1>5, <1>6, <1>7, Zenon DEF RootStep

\* The steps of a running task.
LEMMA TaskForm == ASSUME SchedulerInv, QueueInv, NEW t \in TaskIds, DriverTaskStep(t) PROVE DriverForm
<1>1. ASSUME NEW pol, NEW lim, NEW ser, NEW jobs \in JobLists, NEW u, DriveStartGroup(t, pol, lim, ser, jobs, u)
      PROVE  DriverForm
  <2>1. /\ StartGroup(t, pol, lim, ser, jobs, u) /\ UNCHANGED <<rootScope, cpu_jobs>>
        /\ knows' = [x \in TaskIds |-> IF Born(x) THEN knows[t] ELSE knows[x]]
    BY <1>1, Zenon DEF DriveStartGroup, Boundary, rootVars
  <2>2. PICK born : Grows(t, "WaitScope", next_scope, born)
    BY <2>1, GroupGrows
  <2>3. \A x \in TaskIds : Born(x) <=> x \in born
    BY <2>2 DEF Grows
  <2>4. \A x \in TaskIds : knows'[x] = IF x \in born THEN knows[t] ELSE knows[x]
    BY <2>1, <2>3
  <2>5. DriverGrows(t, "WaitScope", next_scope, born)
    BY <2>1, <2>2, <2>4 DEF DriverGrows
  <2> QED BY <2>5, Zenon DEF DriverForm
<1>2. ASSUME NEW job, NEW u, NEW i, DriveStart(t, job, u, i) PROVE DriverForm
  <2>1. /\ Start(t, job, u, i) /\ UNCHANGED <<rootScope, cpu_jobs>>
        /\ knows' = [x \in TaskIds |-> IF Born(x) THEN knows[t]
                                       ELSE IF x = t THEN knows[x] \cup {next_task} ELSE knows[x]]
    BY <1>2, Zenon DEF DriveStart, Boundary, rootVars
  <2>2. PICK s, born : Grows(t, "Running", s, born)
    BY <2>1, StartGrows
  <2>3. (\A x \in TaskIds : Born(x) <=> x \in born) /\ next_task \in born
    BY <2>2 DEF Grows
  <2>4. \A x \in TaskIds : knows'[x] = IF x \in born THEN knows[t]
                                       ELSE IF x = t THEN knows[x] \cup {next_task} ELSE knows[x]
    BY <2>1, <2>3
  <2>5. DriverGrows(t, "Running", s, born)
    BY <2>1, <2>2, <2>3, <2>4 DEF DriverGrows
  <2> QED BY <2>5, Zenon DEF DriverForm
<1>3. ASSUME NEW u \in TaskIds, DriveAwait(t, u) PROVE DriverForm
  <2>1. await_task(t, u) /\ u \in knows[t] /\ UNCHANGED <<cpu_jobs, knows, rootScope>>
    BY <1>3, Zenon DEF DriveAwait, Boundary, rootVars
  <2> QED BY <2>1, Zenon DEF DriverForm
<1>4. ASSUME (\E b \in NativeWork : DriveYield(t, b)) \/ DriveCheckpoint(t) \/ DriveCpuFull(t) PROVE DriverForm
  <2>1. requeue(t) /\ UNCHANGED <<cpu_jobs, knows, rootScope>>
    BY <1>4, Zenon DEF DriveYield, DriveCheckpoint, DriveCpuFull, Boundary, rootVars, driverVars
  <2>2. Rest
    BY <2>1, Zenon DEF Rest
  <2> QED BY <2>1, <2>2, RestForm
<1>5. ASSUME DriveHost(t) PROVE DriverForm
  <2>1. wait_for_host(t) /\ UNCHANGED <<cpu_jobs, knows, rootScope>>
    BY <1>5, Zenon DEF DriveHost, Boundary, rootVars
  <2>2. Rest
    BY <2>1, Zenon DEF Rest
  <2> QED BY <2>1, <2>2, RestForm
<1>6. ASSUME DriveCpu(t) PROVE DriverForm
  <2>1. wait_for_cpu(t) /\ cpu_jobs' = cpu_jobs \cup {t} /\ UNCHANGED <<knows, rootScope>>
    BY <1>6, Zenon DEF DriveCpu, Boundary, rootVars
  <2> QED BY <2>1, Zenon DEF DriverForm
<1>7. ASSUME NEW out \in Terminal, DriveFinish(t, out) PROVE DriverForm
  <2>1. Finish(t, out) /\ UNCHANGED <<cpu_jobs, knows, rootScope>>
    BY <1>7, Zenon DEF DriveFinish, driverVars
  <2>2. PICK win, prim : Ends(t, out, win, prim)
    BY <2>1, FinishEnds
  <2>3. cpu_jobs \ {t} \subseteq cpu_jobs'
    BY <2>1
  <2> QED BY <2>1, <2>2, <2>3, Zenon DEF DriverForm
<1> QED BY <1>1, <1>2, <1>3, <1>4, <1>5, <1>6, <1>7, Zenon DEF DriverTaskStep

\* Every step of the driver has one of the forms.
LEMMA DriverForms == ASSUME SchedulerInv, QueueInv, [DriverNext]_coordinatorVars PROVE DriverForm
<1>0. "Cancelled" \in Terminal
  BY DEF Terminal
<1>1. ASSUME NEW n \in DOMAIN ready, DriveDispatch(n) PROVE DriverForm
  <2>1. Dispatch(n) /\ UNCHANGED <<knows, rootScope, cpu_jobs>>
    BY <1>1, Zenon DEF DriveDispatch, rootVars
  <2>2. Rest
    BY <2>1, Zenon DEF Rest
  <2> QED BY <2>1, <2>2, RestForm
<1>2. ASSUME DriveNothing PROVE DriverForm
  <2>1. DispatchNone /\ UNCHANGED <<knows, rootScope, cpu_jobs>>
    BY <1>2, Zenon DEF DriveNothing, driverVars
  <2> QED BY <2>1, RestForm DEF Rest
<1>3. ASSUME DriveCancel PROVE DriverForm
  <2>1. CancelNext /\ UNCHANGED <<knows, rootScope, cpu_jobs>>
    BY <1>3, Zenon DEF DriveCancel, driverVars
  <2> QED BY <2>1, CancelForm
<1>4. ASSUME NEW t \in TaskIds, HostCompletion(t) PROVE DriverForm
  <2>1. wake_from_host(t) /\ UNCHANGED <<knows, rootScope, cpu_jobs>>
    BY <1>4, Zenon DEF HostCompletion, rootVars
  <2>2. Rest
    BY <2>1, Zenon DEF Rest
  <2> QED BY <2>1, <2>2, RestForm
<1>5. ASSUME NEW t \in TaskIds, NEW out \in Terminal, CpuCompletion(t, out) PROVE DriverForm
  <2>1. /\ (tstate[t] \in Terminal /\ UNCHANGED vars) \/ CpuFinish(t, out)
        /\ cpu_jobs' = cpu_jobs \ {t} /\ UNCHANGED <<knows, rootScope>>
    BY <1>5, Zenon DEF CpuCompletion, rootVars
  <2>2. CASE CpuFinish(t, out)
    <3>1. PICK win, prim : Ends(t, out, win, prim)
      BY <2>2, FinishEnds
    <3>2. cpu_jobs \ {t} \subseteq cpu_jobs'
      BY <2>1
    <3> QED BY <2>1, <3>1, <3>2, Zenon DEF DriverForm
  <2>3. CASE tstate[t] \in Terminal /\ UNCHANGED vars
    <3>1. Rest
      BY <2>3 DEF Rest
    <3>2. \A x \in TaskIds : x \in cpu_jobs \ cpu_jobs' => tstate[x] \in Terminal
      BY <2>1, <2>3
    <3> QED BY <2>1, <3>1, <3>2, Zenon DEF DriverForm
  <2> QED BY <2>1, <2>2, <2>3
<1>6. ASSUME Enter PROVE DriverForm
  <2>1. begin_checkpoint_barrier /\ UNCHANGED <<knows, rootScope, cpu_jobs>>
    BY <1>6, Zenon DEF Enter, rootVars
  <2> QED BY <2>1, RestForm DEF Rest
<1>7. ASSUME DrainCommit \/ Capture PROVE DriverForm
  <2>1. (UNCHANGED vars \/ end_checkpoint_barrier) /\ UNCHANGED <<knows, rootScope, cpu_jobs>>
    BY <1>7 DEF DrainCommit, Capture, CheckpointFails, rootVars
  <2> QED BY <2>1, RestForm DEF Rest
<1>8. ASSUME Abort PROVE DriverForm
  BY <1>8, RootEndsForm DEF Abort
<1>9. ASSUME Deadlock PROVE DriverForm
  <2>1. UNCHANGED <<vars, knows, rootScope, cpu_jobs>> \/ RootEnds("Failed")
    BY <1>9, Zenon DEF Deadlock
  <2> QED BY <2>1, RestForm, RootEndsForm DEF Rest
<1>10. UNCHANGED coordinatorVars => DriverForm
  BY RestForm DEF Rest, coordinatorVars, driverVars
<1>11. ASSUME NEW t \in TaskIds, DrainNative(t) PROVE DriverForm
  <2>1. (UNCHANGED vars \/ NativeCancelled(t)) /\ UNCHANGED <<knows, rootScope, cpu_jobs>>
    BY <1>11, Zenon DEF DrainNative, rootVars
  <2>2. CASE NativeCancelled(t)
    <3>1. PICK win, prim : Ends(t, "Cancelled", win, prim)
      BY <1>0, <2>2, FinishEnds
    <3>2. cpu_jobs \ {t} \subseteq cpu_jobs'
      BY <2>1
    <3> QED BY <1>0, <2>1, <3>1, <3>2, Zenon DEF DriverForm
  <2>3. CASE UNCHANGED vars
    BY <2>1, <2>3, RestForm DEF Rest
  <2> QED BY <2>1, <2>2, <2>3
<1> QED BY <1>1, <1>2, <1>3, <1>4, <1>5, <1>6, <1>7, <1>8, <1>9, <1>10, <1>11, RootForm, TaskForm, Zenon DEF DriverNext

-----------------------------------------------------------------------------
(***************************************************************************)
(* Who can wait for whom                                                   *)
(*                                                                         *)
(* D[t] is what t may come to wait for, directly or through others.  It is *)
(* closed under going on from there, and nothing is in its own D.  A new   *)
(* task enters below whoever is above the task that started it.            *)
(***************************************************************************)
Order(D) ==
  /\ D \in [TaskIds -> SUBSET TaskIds]
  /\ \A t \in TaskIds : t \notin D[t] /\ knows[t] \subseteq D[t]
  /\ \A t \in TaskIds : \A u \in D[t] : tstate[u] # "Unborn" /\ D[u] \subseteq D[t]
  /\ \A t \in TaskIds : tstate[t] = "WaitTask" => target[t] \in D[t]
  /\ \A t \in TaskIds : tstate[t] = "WaitScope" =>
       \A u \in TaskIds : tstate[u] # "Unborn" /\ scopeOf[u] = target[t] => u \in D[t]

WaitOrder == \E D : Order(D)

\* A step in which nobody but t begins to wait, and nothing is started.
LEMMA KeepsOrder ==
  ASSUME NEW D, Order(D), UNCHANGED <<knows, scopeOf>>,
         \A u \in TaskIds : tstate[u] = "Unborn" <=> tstate'[u] = "Unborn",
         \A u \in TaskIds : tstate'[u] \in {"WaitTask", "WaitScope"} =>
           \/ tstate'[u] = tstate[u] /\ target'[u] = target[u]
           \/ tstate'[u] = "WaitTask" /\ target'[u] \in knows[u]
  PROVE  WaitOrder'
<1>1. \A t \in TaskIds : \A u \in D[t] : tstate'[u] # "Unborn" /\ D[u] \subseteq D[t]
  BY DEF Order
<1>2. ASSUME NEW t \in TaskIds, tstate'[t] = "WaitTask" PROVE target'[t] \in D[t]
  BY <1>2 DEF Order
<1>3. ASSUME NEW t \in TaskIds, tstate'[t] = "WaitScope", NEW u \in TaskIds, tstate'[u] # "Unborn", scopeOf[u] = target'[t]
      PROVE  u \in D[t]
  <2>1. tstate[t] = "WaitScope" /\ target'[t] = target[t] /\ tstate[u] # "Unborn"
    BY <1>3
  <2> QED BY <1>3, <2>1 DEF Order
<1>4. Order(D)'
  BY <1>1, <1>2, <1>3 DEF Order
<1> QED BY <1>4 DEF WaitOrder

\* A scope that somebody waits for exists.
LEMMA JoinedScopeExists ==
  ASSUME QueueInv, NEW t \in TaskIds, tstate[t] = "WaitScope"
  PROVE  target[t] # next_scope
<1>1. PICK u \in TaskIds : scopeOf[u] = target[t]
  BY DEF QueueInv, JoinListed
<1>2. scopeOf[u] < next_scope /\ scopeOf[u] \in Int /\ next_scope \in Int
  BY SchedulerConstants DEF QueueInv, QueueTypes, ScopeIds
<1> QED BY <1>1, <1>2

\* The root starts tasks: nobody else waits for their scope.
LEMMA RootGrowsOrder ==
  ASSUME QueueInv, NEW D, Order(D), NEW p, NEW st, NEW s, NEW born, DriverGrows(p, st, s, born), p \notin TaskIds
  PROVE  WaitOrder'
<1>1. /\ s = next_scope /\ knows' = knows /\ born \subseteq TaskIds
      /\ \A t \in TaskIds : target'[t] = target[t]
      /\ \A t \in TaskIds : tstate'[t] = IF t \in born THEN "Ready" ELSE tstate[t]
      /\ \A t \in TaskIds : scopeOf'[t] = IF t \in born THEN s ELSE scopeOf[t]
  BY DEF DriverGrows, Grows
<1>2. \A t \in TaskIds : \A u \in D[t] : tstate'[u] # "Unborn" /\ D[u] \subseteq D[t]
  BY <1>1 DEF Order
<1>3. ASSUME NEW t \in TaskIds, tstate'[t] = "WaitTask" PROVE target'[t] \in D[t]
  BY <1>1, <1>3 DEF Order
<1>4. ASSUME NEW t \in TaskIds, tstate'[t] = "WaitScope", NEW u \in TaskIds, tstate'[u] # "Unborn", scopeOf'[u] = target'[t]
      PROVE  u \in D[t]
  <2>1. tstate[t] = "WaitScope" /\ scopeOf'[u] = target[t]
    BY <1>1, <1>4
  <2>2. target[t] # s
    BY <1>1, <2>1, JoinedScopeExists
  <2>3. u \notin born
    BY <1>1, <2>1, <2>2
  <2> QED BY <1>1, <1>4, <2>1, <2>3 DEF Order
<1>5. Order(D)'
  BY <1>1, <1>2, <1>3, <1>4 DEF Order
<1> QED BY <1>5 DEF WaitOrder

\* A task starts tasks: they can reach less than it does, and whoever may wait for it
\* may wait for them.
LEMMA TaskGrowsOrder ==
  ASSUME QueueInv, NEW D, Order(D), NEW p \in TaskIds, NEW st, NEW s, NEW born, DriverGrows(p, st, s, born)
  PROVE  WaitOrder'
<1> DEFINE Above(t) == t = p \/ p \in D[t]
           Below == knows[p] \cup UNION {D[k] : k \in knows[p]}
           E == [t \in TaskIds |-> IF t \in born THEN Below ELSE IF Above(t) THEN D[t] \cup born ELSE D[t]]
<1>1. /\ born \subseteq TaskIds /\ \A t \in born : tstate[t] = "Unborn"
      /\ tstate[p] = "Running" /\ p \notin born
  BY DEF DriverGrows, Grows
<1>2. /\ \A t \in TaskIds : tstate'[t] = IF t \in born THEN "Ready" ELSE IF t = p THEN st ELSE tstate[t]
      /\ \A t \in TaskIds : scopeOf'[t] = IF t \in born THEN s ELSE scopeOf[t]
      /\ \A x \in TaskIds : knows'[x] \subseteq (IF x \in born THEN knows[p]
                                                 ELSE IF x = p THEN knows[x] \cup born ELSE knows[x])
      /\ st \in {"Running", "WaitScope"}
  BY DEF DriverGrows, Grows
<1>3. D \in [TaskIds -> SUBSET TaskIds] /\ knows[p] \subseteq D[p] /\ p \notin D[p]
  BY DEF Order
<1>4. \A t \in TaskIds : \A u \in D[t] : u \in TaskIds /\ u \notin born /\ tstate[u] # "Unborn" /\ D[u] \subseteq D[t]
  BY <1>1 DEF Order
<1>5. Below \subseteq D[p] /\ Below \subseteq TaskIds
  <2>1. ASSUME NEW k \in knows[p] PROVE D[k] \subseteq D[p]
    BY <1>3, <1>4
  <2> QED BY <1>3, <2>1
<1>6. \A u \in Below : D[u] \subseteq Below
  <2>1. ASSUME NEW u \in knows[p] PROVE D[u] \subseteq Below
    OBVIOUS
  <2>2. ASSUME NEW k \in knows[p], NEW u \in D[k] PROVE D[u] \subseteq Below
    BY <1>3, <1>4, <2>2
  <2> QED BY <2>1, <2>2
<1>7. \A u \in D[p] : ~Above(u) /\ u \in TaskIds /\ u \notin born
  BY <1>3, <1>4
<1> HIDE DEF Below
<1>8. /\ \A t \in TaskIds : t \in born => E[t] = Below
      /\ \A t \in TaskIds : t \notin born /\ Above(t) => E[t] = D[t] \cup born
      /\ \A t \in TaskIds : t \notin born /\ ~Above(t) => E[t] = D[t]
      /\ E \in [TaskIds -> SUBSET TaskIds]
  <2>1. \A t \in TaskIds : D[t] \subseteq TaskIds /\ D[t] \cup born \subseteq TaskIds
    BY <1>1, <1>3
  <2> QED BY <1>5, <2>1
<1> HIDE DEF E
<1>9. \A t \in TaskIds : t \notin born => D[t] \subseteq E[t]
  BY <1>8
<1>10. ASSUME NEW t \in TaskIds PROVE t \notin E[t]
  <2>1. CASE t \in born
    BY <1>5, <1>7, <1>8, <2>1
  <2>2. CASE t \notin born
    BY <1>8, <2>2 DEF Order
  <2> QED BY <2>1, <2>2
<1>11. ASSUME NEW t \in TaskIds PROVE knows'[t] \subseteq E[t]
  <2>1. CASE t \in born
    BY <1>2, <1>8, <2>1 DEF Below
  <2>2. CASE t = p
    BY <1>1, <1>2, <1>3, <1>8, <2>2
  <2>3. CASE t \notin born /\ t # p
    BY <1>2, <1>9, <2>3 DEF Order
  <2> QED BY <2>1, <2>2, <2>3
<1>12. ASSUME NEW t \in TaskIds, NEW u \in E[t] PROVE tstate'[u] # "Unborn" /\ E[u] \subseteq E[t]
  <2>1. ASSUME NEW v \in TaskIds, v \in born \/ tstate[v] # "Unborn" PROVE tstate'[v] # "Unborn"
    BY <1>2, <2>1
  <2>2. CASE t \in born
    <3>1. u \in Below /\ u \in D[p]
      BY <1>5, <1>8, <1>12, <2>2
    <3>2. E[u] = D[u] /\ D[u] \subseteq Below /\ tstate[u] # "Unborn" /\ u \in TaskIds
      BY <1>4, <1>6, <1>7, <1>8, <3>1
    <3> QED BY <1>8, <2>1, <2>2, <3>2
  <2>3. CASE t \notin born /\ Above(t)
    <3>1. E[t] = D[t] \cup born /\ D[p] \subseteq D[t]
      BY <1>4, <1>8, <2>3
    <3>2. CASE u \in born
      <4>1. u \in TaskIds /\ E[u] = Below
        BY <1>1, <1>8, <3>2
      <4> QED BY <1>5, <2>1, <3>1, <3>2, <4>1
    <3>3. CASE u \in D[t]
      <4>1. u \in TaskIds /\ u \notin born /\ tstate[u] # "Unborn" /\ D[u] \subseteq D[t]
        BY <1>4, <3>3
      <4>2. E[u] \subseteq D[u] \cup born
        BY <1>8, <4>1
      <4> QED BY <2>1, <3>1, <4>1, <4>2
    <3> QED BY <1>12, <3>1, <3>2, <3>3
  <2>4. CASE t \notin born /\ ~Above(t)
    <3>1. E[t] = D[t] /\ u \in D[t]
      BY <1>8, <1>12, <2>4
    <3>2. u \in TaskIds /\ u \notin born /\ tstate[u] # "Unborn" /\ D[u] \subseteq D[t]
      BY <1>4, <3>1
    <3>3. ~Above(u)
      BY <2>4, <3>1, <3>2
    <3>4. E[u] = D[u]
      BY <1>8, <3>2, <3>3
    <3> QED BY <2>1, <3>1, <3>2, <3>4
  <2> QED BY <2>2, <2>3, <2>4
<1>13. ASSUME NEW t \in TaskIds, tstate'[t] = "WaitTask" PROVE target'[t] \in E[t]
  <2>1. t \notin born /\ t # p /\ tstate[t] = "WaitTask"
    BY <1>2, <1>13
  <2>2. target'[t] = target[t]
    BY <2>1 DEF DriverGrows, Grows
  <2> QED BY <1>9, <2>1, <2>2 DEF Order
<1>14. ASSUME NEW t \in TaskIds, tstate'[t] = "WaitScope", NEW u \in TaskIds, tstate'[u] # "Unborn", scopeOf'[u] = target'[t]
       PROVE  u \in E[t]
  <2>0. t \notin born
    BY <1>2, <1>14
  <2>1. CASE t = p
    <3>1. target'[t] = next_scope /\ s = next_scope
      BY <1>1, <1>2, <1>14, <2>1 DEF DriverGrows, Grows
    <3>2. scopeOf[u] # next_scope
      <4>1. scopeOf[u] < next_scope /\ scopeOf[u] \in Int /\ next_scope \in Int
        BY SchedulerConstants DEF QueueInv, QueueTypes, ScopeIds
      <4> QED BY <4>1
    <3>3. u \in born
      BY <1>2, <1>14, <3>1, <3>2
    <3> QED BY <1>8, <2>0, <2>1, <3>3
  <2>2. CASE t # p
    <3>1. tstate[t] = "WaitScope"
      BY <1>2, <1>14, <2>0, <2>2
    <3>2. target'[t] = target[t]
      BY <2>2 DEF DriverGrows, Grows
    <3>3. CASE u \in born
      <4>1. s = target[t]
        BY <1>2, <1>14, <3>2, <3>3
      <4>2. s = scopeOf[p]
        BY <3>1, <4>1, JoinedScopeExists DEF DriverGrows, Grows
      <4>3. p \in D[t]
        BY <1>1, <3>1, <4>1, <4>2 DEF Order
      <4> QED BY <1>8, <2>0, <3>3, <4>3
    <3>4. CASE u \notin born
      <4>1. scopeOf[u] = target[t] /\ tstate[u] # "Unborn"
        BY <1>1, <1>2, <1>14, <3>2, <3>4
      <4>2. u \in D[t]
        BY <3>1, <4>1 DEF Order
      <4> QED BY <1>9, <2>0, <4>2
    <3> QED BY <3>3, <3>4
  <2> QED BY <2>1, <2>2
<1>15. PICK F : F = E
  OBVIOUS
<1>16. Order(F)'
  BY <1>8, <1>10, <1>11, <1>12, <1>13, <1>14, <1>15 DEF Order
<1> QED BY <1>16 DEF WaitOrder

\* A settlement lets some tasks wait no more, and moves nobody's target.
LEMMA EndsOrder ==
  ASSUME SchedulerInv, NEW D, Order(D), NEW t \in TaskIds, NEW out \in Terminal, NEW win, NEW prim,
         Ends(t, out, win, prim), knows' = knows
  PROVE  WaitOrder'
<1> DEFINE s == scopeOf[t]
           st1 == [tstate EXCEPT ![t] = out]
           onTask(u) == st1[u] = "WaitTask" /\ target[u] = t
           awaiting == {u \in Range(waiters[t]) : onTask(u)}
           st2(G) == [u \in TaskIds |-> IF u \in G \cup awaiting THEN "Ready" ELSE st1[u]]
           result(G) == scope_outcome(s, st2(G), win[s], prim[s])
           onScope(G, u) == result(G) # "Pending" /\ st2(G)[u] = "WaitScope" /\ target[u] = s
           joining(G) == {u \in Range(swaiters[s]) : onScope(G, u)}
<1>1. PICK G : /\ G \in SUBSET {u \in TaskIds : st1[u] = "WaitResource"}
               /\ tstate' = [u \in TaskIds |-> IF u \in joining(G) THEN "Ready" ELSE st2(G)[u]]
               /\ target' = [u \in TaskIds |-> IF u \in awaiting \cup joining(G) \cup {t} THEN NoTask ELSE target[u]]
  BY ZenonT(40) DEF Ends, terminal
<1>2. PICK F, J : F = awaiting /\ J = joining(G)
  OBVIOUS
<1>3. \A u \in TaskIds : st1[u] = IF u = t THEN out ELSE tstate[u]
  BY DEF SchedulerInv, Ids
<1>4. \A u \in TaskIds : tstate'[u] = IF u \in G \cup F \cup J THEN "Ready" ELSE IF u = t THEN out ELSE tstate[u]
  BY <1>1, <1>2, <1>3
<1>5. \A u \in TaskIds : target'[u] = IF u \in F \cup J \cup {t} THEN NoTask ELSE target[u]
  BY <1>1, <1>2
<1>6. out \notin {"WaitTask", "WaitScope", "Unborn"}
  BY DEF Terminal
<1>7. ASSUME NEW u \in TaskIds, tstate'[u] \in {"WaitTask", "WaitScope"}
      PROVE  tstate'[u] = tstate[u] /\ target'[u] = target[u]
  <2>1. u \notin F \cup J \cup {t}
    BY <1>4, <1>6, <1>7
  <2> QED BY <1>4, <1>5, <1>7, <2>1
<1>8. /\ \A u \in TaskIds : tstate[u] \in Inert \/ tstate'[u] \in Inert => u = t \/ tstate'[u] = tstate[u]
      /\ tstate'[t] = out /\ tstate[t] \notin Inert /\ UNCHANGED scopeOf
  BY EndsEffect DEF taskShape
<1>9. \A u \in TaskIds : tstate[u] = "Unborn" <=> tstate'[u] = "Unborn"
  BY <1>6, <1>8 DEF Inert
<1> QED BY <1>7, <1>8, <1>9, KeepsOrder

\* Every step of the driver keeps the order.
LEMMA DriverOrder == ASSUME SchedulerInv, QueueInv, InboxInv, WaitOrder, DriverForm PROVE WaitOrder'
<1>0. PICK D : Order(D)
  BY DEF WaitOrder
<1>1. ASSUME NEW p, NEW st, NEW s, NEW born, DriverGrows(p, st, s, born) PROVE WaitOrder'
  BY <1>0, <1>1, RootGrowsOrder, TaskGrowsOrder
<1>2. ASSUME NEW t \in TaskIds, NEW out \in Terminal, NEW win, NEW prim, Ends(t, out, win, prim), knows' = knows
      PROVE  WaitOrder'
  BY <1>0, <1>2, EndsOrder
<1>3. ASSUME NEW W, Steady(W), knows' = knows,
             \A u \in W : tstate'[u] = "WaitTask" /\ target'[u] \in knows[u]
      PROVE  WaitOrder'
  <2>1. scopeOf' = scopeOf /\ \A u \in TaskIds : tstate[u] = "Unborn" <=> tstate'[u] = "Unborn"
    BY <1>3 DEF Steady, taskShape, Inert
  <2>2. \A u \in TaskIds : tstate'[u] \in {"WaitTask", "WaitScope"} =>
           \/ tstate'[u] = tstate[u] /\ target'[u] = target[u]
           \/ tstate'[u] = "WaitTask" /\ target'[u] \in knows[u]
    BY <1>3 DEF Steady
  <2> QED BY <1>0, <1>3, <2>1, <2>2, KeepsOrder
<1>4. DOMAIN inbox = TaskIds /\ DOMAIN target = TaskIds
  BY DEF InboxInv, QueueInv, QueueTypes
<1>5. ASSUME NEW t \in TaskIds, NEW u \in TaskIds, await_task(t, u), u \in knows[t], knows' = knows PROVE WaitOrder'
  <2>1. Steady({t}) /\ tstate'[t] = "WaitTask" /\ target'[t] = u
    BY <1>4, <1>5, AwaitSteady
  <2> QED BY <1>3, <1>5, <2>1
<1>6. ASSUME Calm, knows' = knows PROVE WaitOrder'
  <2>1. Steady({})
    BY <1>4, <1>6, CalmSteady
  <2> QED BY <1>3, <1>6, <2>1
<1>7. (Rest => Calm) /\ \A t \in TaskIds : wait_for_cpu(t) => Calm
  BY Zenon DEF Calm
<1> QED BY <1>1, <1>2, <1>5, <1>6, <1>7, Zenon DEF DriverForm

\* Every task on a worker has its record, and the scope the root waits for exists.
RecordsInv ==
  /\ \A t \in TaskIds : tstate[t] = "WaitCpu" => t \in cpu_jobs
  /\ rootScope \in ScopeIds

\* Every step of the driver keeps that.
LEMMA DriverRecords == ASSUME SchedulerInv, RecordsInv, DriverForm PROVE RecordsInv'
<1>1. ASSUME NEW p, NEW st, NEW s, NEW born, DriverGrows(p, st, s, born) PROVE RecordsInv'
  BY <1>1 DEF DriverGrows, Grows, RecordsInv
<1>2. ASSUME NEW t \in TaskIds, NEW out \in Terminal, NEW win, NEW prim, Ends(t, out, win, prim),
             cpu_jobs \ {t} \subseteq cpu_jobs', rootScope' = rootScope
      PROVE  RecordsInv'
  <2>1. NoNewJob
    BY <1>2, EndsNoJob
  <2>2. tstate'[t] = out /\ out # "WaitCpu"
    BY <1>2, EndsEffect DEF Terminal
  <2> QED BY <1>2, <2>1, <2>2 DEF NoNewJob, RecordsInv
<1>3. ASSUME NEW t \in TaskIds, NEW st, NEW keep, Yields(t, st, keep), cpu_jobs \subseteq cpu_jobs',
             st = "WaitCpu" => t \in cpu_jobs', rootScope' = rootScope
      PROVE  RecordsInv'
  <2>1. tstate' = [tstate EXCEPT ![t] = st]
    BY <1>3 DEF Yields
  <2>2. \A u \in TaskIds : tstate'[u] = IF u = t THEN st ELSE tstate[u]
    BY <2>1 DEF SchedulerInv, Ids
  <2> QED BY <1>3, <2>2 DEF RecordsInv
<1>4. ASSUME NEW t \in TaskIds, NEW u, await_task(t, u), cpu_jobs' = cpu_jobs, rootScope' = rootScope PROVE RecordsInv'
  <2>1. PICK st, keep : st = "WaitTask" /\ Yields(t, st, keep)
    BY <1>4 DEF await_task
  <2> QED BY <1>3, <1>4, <2>1
<1>5. ASSUME NEW t \in TaskIds, wait_for_cpu(t), cpu_jobs' = cpu_jobs \cup {t}, rootScope' = rootScope PROVE RecordsInv'
  <2>1. PICK st, keep : st = "WaitCpu" /\ Yields(t, st, keep)
    BY <1>5 DEF wait_for_cpu
  <2> QED BY <1>3, <1>5, <2>1
<1>6. ASSUME Rest, \A t \in TaskIds : t \in cpu_jobs \ cpu_jobs' => tstate[t] \in Terminal, rootScope' = rootScope
      PROVE  RecordsInv'
  <2>1. NoNewJob
    BY <1>6, RestNoJob
  <2>2. "WaitCpu" \notin Terminal
    BY DEF Terminal
  <2> QED BY <1>6, <2>1, <2>2 DEF NoNewJob, RecordsInv
<1> QED BY <1>1, <1>2, <1>4, <1>5, <1>6, Zenon DEF DriverForm

\* The initial state.
LEMMA InitDriverInvs == DriverInit => WaitOrder /\ RecordsInv
<1> SUFFICES ASSUME DriverInit PROVE WaitOrder /\ RecordsInv
  OBVIOUS
<1>1. /\ knows = [t \in TaskIds |-> {}] /\ tstate = [t \in TaskIds |-> "Unborn"] /\ rootScope = Root
  BY DEF DriverInit, Init
<1>2. PICK D : D = [t \in TaskIds |-> {}]
  OBVIOUS
<1>3. Order(D)
  BY <1>1, <1>2 DEF Order
<1> QED BY <1>1, <1>3, SchedulerConstants DEF WaitOrder, RecordsInv, Root, ScopeIds

\* The invariants of the driver and of the scheduler it drives.
DriverInvs == SchedulerInvs /\ WaitOrder /\ RecordsInv

\* They hold in every run of the coordinator.
THEOREM DriverInvsHold == DriverSpec => []DriverInvs
<1>1. DriverInit => WaitOrder /\ RecordsInv
  BY InitDriverInvs
<1>2. SchedulerInvs /\ WaitOrder /\ RecordsInv /\ [DriverNext]_coordinatorVars => (WaitOrder /\ RecordsInv)'
  BY DriverForms, DriverOrder, DriverRecords DEF SchedulerInvs
<1>3. DriverSpec => []SchedulerInvs
  BY DriverRunsScheduler, SchedulerInvsHold, PTL
<1> QED BY <1>1, <1>2, <1>3, PTL DEF DriverSpec, DriverInvs

\* Whatever completions, cancellations and admissions came before: when the barrier has
\* drained, the state it captures is one that restoring accepts.
THEOREM SnapshotsAreValid == DriverSpec => []SnapshotIsValid
<1>1. DriverInvs => SnapshotIsValid
  <2> SUFFICES ASSUME DriverInvs, Drained PROVE
        /\ \A t \in TaskIds : tstate[t] \notin {"Running", "WaitCpu", "WaitHost"}
        /\ \A s \in ScopeIds :
             active[s] = Cardinality({t \in TaskIds : slot[t] /\ s \in anc[scopeOf[t]]})
        /\ \A t \in holders : Alive(t)
        /\ \A i \in DOMAIN waiting : tstate[waiting[i]] = "WaitResource"
        /\ \A t \in TaskIds : inbox[t] # <<>> => tstate[t] = "Ready"
    BY DEF SnapshotIsValid
  <2>1. \A t \in TaskIds : tstate[t] \notin {"Running", "WaitCpu", "WaitHost"}
    BY DEF Drained, Draining, Idle, DriverInvs, RecordsInv
  <2>2. \A s \in ScopeIds : active[s] = Cardinality({t \in TaskIds : slot[t] /\ s \in anc[scopeOf[t]]})
    BY DEF DriverInvs, SchedulerInvs, SlotInv, Charged
  <2>3. \A t \in holders : Alive(t)
    BY DEF DriverInvs, SchedulerInvs, SchedulerInv, HoldersAlive, Alive
  <2>4. ASSUME NEW i \in DOMAIN waiting PROVE tstate[waiting[i]] = "WaitResource"
    <3>1. Lists(waiting, {t \in TaskIds : tstate[t] = "WaitResource"})
      BY DEF DriverInvs, SchedulerInvs, QueueInv, ParkedListed
    <3>2. waiting[i] \in {t \in TaskIds : tstate[t] = "WaitResource"}
      BY <2>4, <3>1 DEF Lists, Entries
    <3> QED BY <3>2
  <2>5. \A t \in TaskIds : inbox[t] # <<>> => tstate[t] = "Ready"
    BY <2>1 DEF DriverInvs, SchedulerInvs, InboxInv
  <2> QED BY <2>1, <2>2, <2>3, <2>4, <2>5
<1> QED BY <1>1, DriverInvsHold, PTL

-----------------------------------------------------------------------------
(***************************************************************************)
(* Running out of work                                                     *)
(***************************************************************************)
\* With nobody outside the coordinator and every queued task without room, no task is
\* Ready: a full scope is full of tasks with a slot, and those could run.
LEMMA StuckNobodyReady ==
  ASSUME DriverInvs, Stuck
  PROVE  \A t \in TaskIds : tstate[t] \notin {"Ready", "Running", "WaitHost", "WaitCpu"}
<1>1. \A t \in TaskIds : tstate[t] \notin {"Running", "WaitHost", "WaitCpu"}
  BY DEF Stuck, Driving, Free, Idle, DriverInvs, RecordsInv
<1>2. \A t \in TaskIds : tstate[t] = "Ready" => Blocked(t)
  <2>1. \A t \in TaskIds : tstate[t] = "Ready" => t \in Entries(ready)
    BY DEF DriverInvs, SchedulerInvs, QueueInv, ReadyListed
  <2>2. DOMAIN ready = 1..Len(ready)
    BY DEF DriverInvs, SchedulerInvs, QueueInv, ReadyListed, Lists
  <2>3. \A i \in 1..Len(ready) : Blocked(ready[i])
    BY <2>2 DEF Stuck
  <2> QED BY <2>1, <2>3 DEF Entries
<1>3. \A t \in TaskIds : ~slot[t]
  <2>1. \A t \in TaskIds : slot[t] => tstate[t] \in Slotted
    BY DEF DriverInvs, SchedulerInvs, SlotInv
  <2> QED BY <1>1, <1>2, <2>1 DEF Slotted, Blocked
<1>4. \A s \in ScopeIds : active[s] = 0 /\ limit[s] \in Nat \ {0}
  <2>1. \A s \in ScopeIds : Charged(s) = {}
    BY <1>3 DEF Charged
  <2>2. \A s \in ScopeIds : active[s] = Cardinality(Charged(s)) /\ limit[s] \in Nat \ {0}
    BY DEF DriverInvs, SchedulerInvs, SlotInv, SetupInv
  <2> QED BY <2>1, <2>2, FS_EmptySet
<1>5. ASSUME NEW t \in TaskIds, tstate[t] = "Ready" PROVE FALSE
  <2>1. scopeOf[t] \in ScopeIds /\ anc[scopeOf[t]] \subseteq ScopeIds
    BY DEF DriverInvs, SchedulerInvs, QueueInv, QueueTypes, SlotInv
  <2>2. can_admit(scopeOf[t])
    BY <1>4, <2>1 DEF can_admit
  <2> QED BY <1>2, <1>5, <2>2 DEF Blocked
<1> QED BY <1>1, <1>5

\* Some task is alive when the coordinator is stuck.
LEMMA StuckSomebodyAlive == ASSUME DriverInvs, Stuck PROVE \E t \in TaskIds : tstate[t] \notin Inert
<1>1. CASE root = "WaitScope" /\ RootScopeOutcome = "Pending"
  <2>1. PICK win \in TaskIds \cup {NoTask}, prim \in TaskIds \cup {NoTask} :
          win = winner[rootScope] /\ prim = primary[rootScope]
    BY DEF DriverInvs, RecordsInv, SchedulerInvs, QueueInv, QueueTypes
  <2>2. /\ rootScope \in ScopeIds /\ tstate \in [TaskIds -> TaskStates]
        /\ policy[rootScope] \in Policies /\ owner[rootScope] \in TaskIds \cup {NoTask}
    BY DEF DriverInvs, RecordsInv, SchedulerInvs, QueueInv, QueueTypes, SchedulerInv, Ids
  <2>3. PendingByMembers(rootScope, tstate, win, prim)
    BY <2>2, OutcomePending
  <2> QED BY <1>1, <2>1, <2>3 DEF PendingByMembers, RootScopeOutcome
<1>2. CASE AllUnsettled # {}
  BY <1>2 DEF AllUnsettled, Unsettled
<1> QED BY <1>1, <1>2 DEF Stuck, Driving

\* In a nonempty set of live tasks some task waits for none of them.
LEMMA SomebodyDoesNotWait ==
  ASSUME QueueInv, WaitOrder, NEW A, A = {t \in TaskIds : tstate[t] \notin Inert}, A # {}
  PROVE  \E t \in A : tstate[t] \notin {"WaitTask", "WaitScope"}
<1>1. PICK D : Order(D)
  BY DEF WaitOrder
<1>2. \A t \in TaskIds : IsFiniteSet(D[t])
  <2>1. ASSUME NEW t \in TaskIds PROVE IsFiniteSet(D[t])
    <3>1. D[t] \subseteq TaskIds
      BY <1>1 DEF Order
    <3> QED BY <3>1, TasksFinite, FS_Subset
  <2> QED BY <2>1
<1>3. \A t \in TaskIds : Cardinality(D[t]) \in Nat
  BY <1>2, FS_CardinalityType
<1>4. PICK m \in {Cardinality(D[t]) : t \in A} : \A n \in {Cardinality(D[t]) : t \in A} : m <= n
  <2>1. {Cardinality(D[t]) : t \in A} \in SUBSET Nat /\ {Cardinality(D[t]) : t \in A} # {}
    BY <1>3
  <2> QED BY <2>1, LeastNat
<1>5. PICK t \in A : m = Cardinality(D[t])
  BY <1>4
<1>6. t \in TaskIds
  BY <1>5
<1>7. ASSUME NEW u \in A, u \in D[t] PROVE FALSE
  <2>1. u \in TaskIds /\ D[u] \subseteq D[t] /\ u \notin D[u]
    BY <1>1, <1>6, <1>7 DEF Order
  <2>2. D[u] # D[t]
    BY <1>7, <2>1
  <2>3. Cardinality(D[u]) < Cardinality(D[t])
    <3>1. PICK S, T : S = D[t] /\ T = D[u]
      OBVIOUS
    <3>2. IsFiniteSet(S) /\ T \in SUBSET S /\ S # T /\ Cardinality(S) \in Nat /\ Cardinality(T) \in Nat
      BY <1>2, <1>3, <1>6, <2>1, <2>2, <3>1
    <3>3. Cardinality(T) <= Cardinality(S) /\ Cardinality(S) # Cardinality(T)
      BY <3>2, FS_Subset
    <3> QED BY <3>1, <3>2, <3>3
  <2>4. m <= Cardinality(D[u])
    BY <1>4, <1>7
  <2> QED BY <1>3, <1>5, <1>6, <2>1, <2>3, <2>4
<1>8. ASSUME tstate[t] = "WaitTask" PROVE FALSE
  <2>1. target[t] \in A
    BY <1>6, <1>8 DEF QueueInv, AwaitListed
  <2>2. target[t] \in D[t]
    BY <1>1, <1>6, <1>8 DEF Order
  <2> QED BY <1>7, <2>1, <2>2
<1>9. ASSUME tstate[t] = "WaitScope" PROVE FALSE
  <2>1. PICK u \in TaskIds : scopeOf[u] = target[t] /\ tstate[u] \notin Inert
    BY <1>6, <1>9 DEF QueueInv, JoinListed
  <2>2. u \in A /\ tstate[u] # "Unborn"
    BY <2>1 DEF Inert
  <2>3. u \in D[t]
    BY <1>1, <1>6, <1>9, <2>1, <2>2 DEF Order
  <2> QED BY <1>7, <2>2, <2>3
<1> QED BY <1>5, <1>8, <1>9

\* The coordinator runs out of work with tasks unsettled only when a task waits for a
\* permit: no program closes a cycle of awaits and scope waits alone.
THEOREM DeadlocksNeedPermits == DriverSpec => []DeadlockNeedsPermit
<1>1. DriverInvs => DeadlockNeedsPermit
  <2> SUFFICES ASSUME DriverInvs, Stuck PROVE \E t \in TaskIds : tstate[t] = "WaitResource"
    BY DEF DeadlockNeedsPermit
  <2>1. PICK A : A = {t \in TaskIds : tstate[t] \notin Inert}
    OBVIOUS
  <2>2. A # {}
    BY <2>1, StuckSomebodyAlive
  <2>3. PICK t \in A : tstate[t] \notin {"WaitTask", "WaitScope"}
    BY <2>1, <2>2, SomebodyDoesNotWait DEF DriverInvs, SchedulerInvs
  <2>4. t \in TaskIds /\ tstate[t] \in TaskStates \ Inert
    BY <2>1 DEF DriverInvs, SchedulerInvs, SchedulerInv, Ids
  <2>5. tstate[t] \notin {"Ready", "Running", "WaitHost", "WaitCpu"}
    BY <2>4, StuckNobodyReady
  <2> QED BY <2>3, <2>4, <2>5 DEF TaskStates
<1> QED BY <1>1, DriverInvsHold, PTL

\* How a run ends: with every task settled, or because the last ones wait for permits.
EndsSettled ==
  root = "Done" => cpu_jobs = {} /\ (AllUnsettled = {} \/ \E t \in TaskIds : tstate[t] = "WaitResource")

\* Every step of the driver keeps it: a run that is over does nothing any more.
LEMMA EndsSettledNext ==
  ASSUME DriverInvs, DoneAtRest, DeadlockNeedsPermit, EndsSettled, [DriverNext]_coordinatorVars
  PROVE  EndsSettled'
<1>1. ASSUME root' # "Done" PROVE EndsSettled'
  BY <1>1 DEF EndsSettled
<1>2. ASSUME UNCHANGED <<vars, cpu_jobs>>, EndsSettled, root = "Done" PROVE EndsSettled'
  BY <1>2 DEF EndsSettled, AllUnsettled, Unsettled, vars, taskVars, scopeVars
<1>3. UNCHANGED coordinatorVars => EndsSettled'
  BY <1>1, <1>2 DEF coordinatorVars, driverVars
<1>4. CASE DriverNext /\ root = "Done"
  BY <1>4, DoneIsOver
<1>5. ASSUME RootDone PROVE EndsSettled'
  <2>1. AllUnsettled = {} /\ cpu_jobs = {} /\ UNCHANGED <<vars, cpu_jobs>>
    BY <1>5, Zenon DEF RootDone
  <2> QED BY <2>1 DEF EndsSettled, AllUnsettled, Unsettled, vars, taskVars, scopeVars
<1>6. ASSUME Deadlock, root' = "Done" PROVE EndsSettled'
  <2>1. UNCHANGED <<vars, cpu_jobs>> /\ Stuck
    BY <1>6 DEF Deadlock, RootEnds
  <2>2. cpu_jobs = {} /\ \E t \in TaskIds : tstate[t] = "WaitResource"
    BY <2>1 DEF Stuck, DeadlockNeedsPermit
  <2> QED BY <2>1, <2>2 DEF EndsSettled, vars, taskVars
<1>7. CASE DriverNext /\ root # "Done"
  <2>1. RootDone \/ Deadlock \/ root' # "Done"
    BY <1>7, OnlyTwoEnd
  <2> QED BY <1>1, <1>5, <1>6, <2>1
<1> QED BY <1>3, <1>4, <1>7

\* A run ends with every task settled and no job left on the workers, or, when tasks
\* compete for permits, in a deadlock over them.
THEOREM RunsEndSettled == DriverSpec => [](NothingOutlivesRun \/ \E t \in TaskIds : tstate[t] = "WaitResource")
<1>1. DriverInit => DoneAtRest /\ EndsSettled
  BY DEF DriverInit, DoneAtRest, EndsSettled
<1>2. DoneAtRest /\ [DriverNext]_coordinatorVars => DoneAtRest'
  BY DoneNext
<1>3. DriverInvs /\ DoneAtRest /\ DeadlockNeedsPermit /\ EndsSettled /\ [DriverNext]_coordinatorVars => EndsSettled'
  BY EndsSettledNext
<1>4. EndsSettled => NothingOutlivesRun \/ \E t \in TaskIds : tstate[t] = "WaitResource"
  BY DEF EndsSettled, NothingOutlivesRun
<1> QED BY <1>1, <1>2, <1>3, <1>4, DriverInvsHold, DeadlocksNeedPermits, PTL DEF DriverSpec

\* No task needs a permit.
NoPermits == KeySets \subseteq {{}}

\* Then nothing outlives the run: every task has an outcome and no job is left on the
\* workers, whatever a race or a cancellation orphaned on the way.
THEOREM NothingIsLeftBehind == NoPermits /\ DriverSpec => []NothingOutlivesRun
<1>1. NoPermits /\ DriverInvs => \A t \in TaskIds : tstate[t] # "WaitResource"
  <2> SUFFICES ASSUME NoPermits, DriverInvs, NEW t \in TaskIds, tstate[t] = "WaitResource" PROVE FALSE
    OBVIOUS
  <2>1. PICK h \in holders : Clash(keys[t], keys[h])
    BY DEF DriverInvs, SchedulerInvs, QueueInv, ParkedListed
  <2>2. keys[t] \in KeySets \cup {{}} /\ keys[h] \in KeySets \cup {{}}
    BY DEF DriverInvs, SchedulerInvs, SetupInv, SchedulerInv, Ids
  <2> QED BY <2>1, <2>2 DEF NoPermits, Clash
<1>2. NoPermits => NoPermits'
  OBVIOUS
<1>3. NoPermits /\ DriverInvs /\ (NothingOutlivesRun \/ \E t \in TaskIds : tstate[t] = "WaitResource")
        => NothingOutlivesRun
  BY <1>1
<1> QED BY <1>2, <1>3, RunsEndSettled, DriverInvsHold, PTL

=============================================================================
