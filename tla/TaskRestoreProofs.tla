------------------------- MODULE TaskRestoreProofs -------------------------
(***************************************************************************)
(* Theorems about TaskRestore for every number of tasks, scopes, tokens    *)
(* and restarts, and every policy and limit.                               *)
(*                                                                         *)
(* The inductive invariant RestoreInv adds to the scheduler's invariants   *)
(* what a snapshot relies on: the arena agrees with what was handed out    *)
(* (TokenInv), the scopes are a tree along which tasks start and wait      *)
(* (TreeInv, ParentInv, WaitInv), whoever is told to stop is so by the     *)
(* policy of a scope above it, below which everything alive is told too    *)
(* (StopInv), and a wakeup names what it is about, which has settled as    *)
(* the wakeup says (ReferenceInv).                                         *)
(***************************************************************************)
EXTENDS TaskRestore, TaskSchedulerProofs

\* The tokens.  What an entry of the arena says agrees with what has been handed out: an
\* entry its arm still owns has its frames, a task that is alive or the root machine as its
\* origin, and has been handed to nobody; any other entry has none, and was handed to its
\* origin if to anybody.
EntryInv(e, given) ==
  /\ e \in [owner : ScopeIds, origin : TaskIds \cup {NoTask}, frames : {Frames, NoFrames},
            state : ContinuationStates]
  /\ e.owner < next_scope
  /\ e.origin # NoTask => tstate[e.origin] # "Unborn"
  /\ e.frames = Frames <=> e.state = "ArmOwned"
  /\ e.state = "ArmOwned" => given = <<>> /\ (e.origin # NoTask => tstate[e.origin] \notin Inert)
  /\ given \in {<<>>, <<e.origin>>}

ArenaShape(n, entries) ==
  /\ n \in Nat /\ n <= MaxTokens
  /\ arena = [next |-> n, entries |-> entries]
  /\ entries = [i \in 0..(n - 1) |-> entries[i]]

TokenInv ==
  /\ ArenaShape(arena.next, arena.entries)
  /\ DOMAIN handed = 0..(MaxTokens - 1)
  /\ \A i \in 0..(arena.next - 1) : EntryInv(arena.entries[i], handed[i])
  /\ \A i \in 0..(MaxTokens - 1) : i >= arena.next => handed[i] = <<>>

\* The scopes form a tree below Root, in which no task lives.
TreeInv ==
  /\ anc \in [ScopeIds -> SUBSET ScopeIds] /\ next_scope <= MaxScopes
  /\ \A s \in ScopeIds : s < next_scope =>
       s \in anc[s] /\ \A a \in anc[s] : a <= s /\ anc[a] \subseteq anc[s]
  /\ \A t \in TaskIds : tstate[t] # "Unborn" => scopeOf[t] # Root /\ scopeOf[t] < next_scope

\* A task is started by an earlier one of a scope above its own.
ParentInv ==
  /\ parent \in [TaskIds -> TaskIds \cup {NoTask}]
  /\ \A t \in TaskIds : parent[t] # NoTask =>
       /\ parent[t] < t /\ tstate[t] # "Unborn" /\ tstate[parent[t]] # "Unborn"
       /\ anc[scopeOf[parent[t]]] \subseteq anc[scopeOf[t]]

\* A task waits for a task of a scope above its own, or for a scope just below it.
WaitInv ==
  \A t \in TaskIds :
    /\ tstate[t] = "WaitTask" => target[t] \in TaskIds /\ scopeOf[target[t]] \in anc[scopeOf[t]]
    /\ tstate[t] = "WaitScope" =>
         /\ target[t] \in ScopeIds \ {Root} /\ target[t] < next_scope
         /\ anc[target[t]] = {target[t]} \cup anc[scopeOf[t]]

\* Told to stop, or about to be.
Condemned == {t \in TaskIds : stop[t]} \cup Entries(cancelling)

\* Everything alive below scope x is condemned, and x has something else than a
\* cancellation to report.
Swept(x) ==
  /\ x \in ScopeIds \ {Root}
  /\ \A t \in TaskIds : tstate[t] \notin Inert /\ x \in anc[scopeOf[t]] => t \in Condemned
  /\ \/ policy[x] = "Race" /\ winner[x] # NoTask
     \/ /\ primary[x] # NoTask
        /\ policy[x] = "Collect" => \E t \in TaskIds : scopeOf[t] = x /\ tstate[t] = "Failed"

\* Who is condemned is so by the policy of a scope above it, and nobody ends as
\* cancelled, or is told of a cancellation, without being condemned.
StopInv ==
  /\ stop \in [TaskIds -> BOOLEAN] /\ cancelling \in Seq(TaskIds)
  /\ \A t \in Condemned : tstate[t] # "Unborn" /\ \E x \in anc[scopeOf[t]] : Swept(x)
  /\ \A t \in TaskIds : tstate[t] = "Cancelled" => stop[t]
  /\ \A t \in TaskIds : inbox[t] = <<"Cancelled">> => t \in Condemned

\* What a scope reports once its tasks have settled is one of their outcomes.
ResultInv ==
  \A s \in ScopeIds :
    /\ policy[s] = "Run" /\ s # Root /\ s < next_scope => owner[s] # NoTask
    /\ winner[s] # NoTask => tstate[winner[s]] = "Completed"
    /\ policy[s] = "Race" /\ winner[s] = NoTask =>
         \A t \in TaskIds : scopeOf[t] = s => tstate[t] # "Completed"

\* What ref names has settled.
Settles(ref) ==
  \/ ref.kind = "Task" /\ ref.id \in TaskIds /\ tstate[ref.id] \in Terminal
  \/ /\ ref.kind = "Scope" /\ ref.id \in ScopeIds /\ ref.id < next_scope
     /\ \A t \in TaskIds : scopeOf[t] = ref.id => tstate[t] \in Inert

\* Every wakeup comes with what it is about, which has settled as the wakeup says.
ReferenceInv ==
  /\ DOMAIN reference = TaskIds
  /\ \A t \in TaskIds :
       \/ inbox[t] = <<>> /\ reference[t] = <<>>
       \/ \E ref \in [kind : {"Task", "Scope"}, id : Int] :
            /\ reference[t] = <<ref>> /\ Settles(ref)
            /\ inbox[t] = <<RestoredOutcome(ref)>> /\ RestoredOutcome(ref) \in Terminal

RestoreInv ==
  /\ SchedulerInvs /\ ConcurrencyInv /\ TreeInv /\ TokenInv /\ ParentInv /\ WaitInv
  /\ StopInv /\ ResultInv /\ ReferenceInv

-----------------------------------------------------------------------------
(***************************************************************************)
(* The tasks below a stopped one                                           *)
(***************************************************************************)
\* g solves the equation that defines StoppedAbove.
Solves(g) == g = [t \in TaskIds |-> stop[t] \/ (parent[t] # NoTask /\ g[parent[t]])]

\* S holds the stopped tasks, and with a task those it started.
ClosedBelow(S) == \A t \in TaskIds : stop[t] \/ (parent[t] # NoTask /\ parent[t] \in S) => t \in S

\* The least such set is a solution.
LEMMA SolutionExists ==
  ASSUME stop \in [TaskIds -> BOOLEAN], parent \in [TaskIds -> TaskIds \cup {NoTask}] PROVE \E g : Solves(g)
<1> DEFINE L == {t \in TaskIds : \A S \in SUBSET TaskIds : ClosedBelow(S) => t \in S}
<1>1. ClosedBelow(L)
  BY DEF ClosedBelow
<1>2. ASSUME NEW t \in L PROVE stop[t] \/ (parent[t] # NoTask /\ parent[t] \in L)
  <2> DEFINE K == {u \in L : stop[u] \/ (parent[u] # NoTask /\ parent[u] \in L)}
  <2>1. ClosedBelow(K)
    BY <1>1 DEF ClosedBelow
  <2>2. K \in SUBSET TaskIds
    OBVIOUS
  <2>3. t \in K
    BY <2>1, <2>2
  <2> QED BY <2>3
<1> DEFINE g == [t \in TaskIds |-> t \in L]
<1>3. \A t \in TaskIds : t \in L <=> stop[t] \/ (parent[t] # NoTask /\ parent[t] \in L)
  BY <1>1, <1>2 DEF ClosedBelow
<1> HIDE DEF L
<1>4. \A t \in TaskIds : (t \in L) = (stop[t] \/ (parent[t] # NoTask /\ g[parent[t]]))
  <2> SUFFICES ASSUME NEW t \in TaskIds PROVE (t \in L) = (stop[t] \/ (parent[t] # NoTask /\ g[parent[t]]))
    BY Zenon
  <2>1. stop[t] \in BOOLEAN
    OBVIOUS
  <2>2. parent[t] # NoTask => g[parent[t]] = (parent[t] \in L)
    OBVIOUS
  <2>3. (t \in L) <=> (stop[t] \/ (parent[t] # NoTask /\ g[parent[t]]))
    BY <1>3, <2>1, <2>2, Zenon
  <2> HIDE DEF g
  <2> QED BY <2>3
<1>5. Solves(g)
  BY <1>4 DEF Solves
<1> QED BY <1>5

\* StoppedAbove satisfies its equation.
LEMMA StoppedEquation ==
  ASSUME stop \in [TaskIds -> BOOLEAN], parent \in [TaskIds -> TaskIds \cup {NoTask}]
  PROVE  /\ \A t \in TaskIds : StoppedAbove[t] \in BOOLEAN
         /\ \A t \in TaskIds : StoppedAbove[t] <=> stop[t] \/ (parent[t] # NoTask /\ StoppedAbove[parent[t]])
<1>1. StoppedAbove = CHOOSE g : Solves(g)
  BY DEF StoppedAbove, Solves
<1>2. Solves(StoppedAbove)
  BY <1>1, SolutionExists
<1>3. PICK g : g = StoppedAbove
  OBVIOUS
<1>4. Solves(g)
  BY <1>2, <1>3
<1>5. \A t \in TaskIds : g[t] = (stop[t] \/ (parent[t] # NoTask /\ g[parent[t]]))
  BY <1>4, Zenon DEF Solves
<1>6. ASSUME NEW t \in TaskIds PROVE g[t] \in BOOLEAN /\ (g[t] <=> stop[t] \/ (parent[t] # NoTask /\ g[parent[t]]))
  BY <1>5, Zenon
<1> QED BY <1>3, <1>6, Zenon

\* A task below a stopped one has, above it or of its own, every scope of one that is stopped.
LEMMA StoppedBelow ==
  ASSUME stop \in [TaskIds -> BOOLEAN], ParentInv, NEW t \in TaskIds, StoppedAbove[t]
  PROVE  \E m \in TaskIds : stop[m] /\ anc[scopeOf[m]] \subseteq anc[scopeOf[t]]
<1> DEFINE Found(u) == \E m \in TaskIds : stop[m] /\ anc[scopeOf[m]] \subseteq anc[scopeOf[u]]
           B == {u \in TaskIds : StoppedAbove[u] /\ ~Found(u)}
<1>0. parent \in [TaskIds -> TaskIds \cup {NoTask}]
  BY DEF ParentInv
<1>1. SUFFICES ASSUME B # {} PROVE FALSE
  OBVIOUS
<1>2. B \in SUBSET Nat
  BY SchedulerConstants DEF TaskIds
<1>3. PICK u \in B : \A y \in B : u <= y
  BY <1>1, <1>2, LeastNat
<1>4. ~stop[u]
  <2>1. stop[u] => Found(u)
    OBVIOUS
  <2> QED BY <1>3, <2>1
<1>5. parent[u] # NoTask /\ StoppedAbove[parent[u]]
  BY <1>0, <1>3, <1>4, StoppedEquation, Zenon
<1>6. PICK v \in TaskIds : v = parent[u]
  BY <1>0, <1>5
<1>7. v < u /\ anc[scopeOf[v]] \subseteq anc[scopeOf[u]]
  BY <1>5, <1>6 DEF ParentInv
<1>8. v \notin B
  <2>1. u \in Nat /\ v \in Nat
    BY <1>2, <1>6, SchedulerConstants DEF TaskIds
  <2> QED BY <1>3, <1>7, <2>1
<1>9. Found(v)
  BY <1>5, <1>6, <1>8
<1>10. Found(u)
  BY <1>7, <1>9
<1> QED BY <1>3, <1>10

-----------------------------------------------------------------------------
(***************************************************************************)
(* The handles of a group that is cancelled                                *)
(***************************************************************************)
\* CancelOrder lists the tasks it is given.
LEMMA CancelListed ==
  ASSUME NEW S \in SUBSET TaskIds, NEW q \in CancelOrder(S) PROVE q \in Seq(TaskIds) /\ Entries(q) = S
<1>0. IsFiniteSet(S)
  BY TasksFinite, FS_Subset
<1>1. PICK n \in Nat : n = Cardinality(S)
  BY <1>0, FS_CardinalityType
<1>2. q \in [1..n -> S] /\ \A i, j \in 1..n : i # j => q[i] # q[j]
  BY <1>1 DEF CancelOrder, SetToSeqs
<1>3. Len(q) = n /\ q \in Seq(TaskIds)
  <2>1. q \in Seq(S)
    BY <1>2
  <2> QED BY <1>2, <2>1
<1>4. q \in Injection(1..n, S)
  BY <1>2 DEF Injection, IsInjective
<1>5. Cardinality(1..n) = n
  BY FS_Interval
<1>6. q \in Surjection(1..n, S)
  BY <1>0, <1>1, <1>4, <1>5, FS_Injection
<1>7. \A x \in S : \E i \in 1..n : q[i] = x
  BY <1>6 DEF Surjection
<1> QED BY <1>2, <1>3, <1>7 DEF Entries

\* Its head is taken off a list of handles.
LEMMA HeadTaken ==
  ASSUME NEW q \in Seq(TaskIds), q # <<>>
  PROVE  Tail(q) \in Seq(TaskIds) /\ Head(q) \in TaskIds /\ Entries(q) = {Head(q)} \cup Entries(Tail(q))
<1>1. PICK n \in Nat : n = Len(q) /\ n # 0
  OBVIOUS
<1>2. Tail(q) \in Seq(TaskIds) /\ Head(q) = q[1] /\ Len(Tail(q)) = n - 1 /\ \A i \in 1..(n - 1) : Tail(q)[i] = q[i + 1]
  BY <1>1
<1>3. \A i \in 1..n : i = 1 \/ (i - 1 \in 1..(n - 1) /\ (i - 1) + 1 = i)
  BY <1>1
<1>4. \A i \in 1..(n - 1) : i + 1 \in 1..n
  BY <1>1
<1>5. ASSUME NEW i \in 1..n PROVE q[i] \in {Head(q)} \cup Entries(Tail(q))
  <2>1. CASE i = 1
    BY <1>2, <2>1
  <2>2. CASE i # 1
    <3>1. PICK j \in 1..(n - 1) : j + 1 = i
      BY <1>3, <2>2
    <3>2. q[i] = Tail(q)[j]
      BY <1>2, <3>1
    <3>3. Tail(q)[j] \in Entries(Tail(q))
      BY <1>2, <3>1 DEF Entries
    <3> QED BY <3>2, <3>3
  <2> QED BY <2>1, <2>2
<1>6. Entries(Tail(q)) \subseteq Entries(q)
  BY <1>1, <1>2, <1>4 DEF Entries
<1>7. Head(q) \in Entries(q) /\ Head(q) \in TaskIds
  BY <1>1, <1>2 DEF Entries
<1> QED BY <1>1, <1>2, <1>5, <1>6, <1>7 DEF Entries

-----------------------------------------------------------------------------
(***************************************************************************)
(* What a step of the scheduler does, as far as a snapshot is concerned    *)
(***************************************************************************)
\* Task p, or the root machine, starts the tasks of born in scope s.
Launches(p, st, s, born) ==
  /\ Grows(p, st, s, born)
  /\ p \in TaskIds \cup {NoTask} /\ (\A t \in born : p < t)
  /\ cancelling = <<>> /\ (p \in TaskIds => ~stop[p]) /\ UNCHANGED <<stop, cancelling>>
  /\ anc' \in [ScopeIds -> SUBSET ScopeIds]
  /\ \A x \in ScopeIds : x < next_scope => anc'[x] = anc[x] /\ policy'[x] = policy[x] /\ owner'[x] = owner[x]
  /\ DOMAIN inbox' = TaskIds /\ \A u \in TaskIds : inbox'[u] = IF u = p THEN <<>> ELSE inbox[u]
  /\ \/ st = "Running" /\ p \in TaskIds /\ s = scopeOf[p] /\ UNCHANGED <<anc, policy, owner, next_scope, target>>
     \/ /\ st = "WaitScope" /\ s = next_scope /\ next_scope' = s + 1 /\ s + 1 <= MaxScopes
        /\ anc'[s] = {s} \cup anc[Owner(p)] /\ (policy'[s] = "Run" => owner'[s] # NoTask)
        /\ target' = [t \in TaskIds |-> IF t = p THEN s ELSE target[t]]

\* Task t settles as out: F waited for it, and J, who are told r, for its scope.
Concludes(t, out, F, J, r) ==
  /\ t \in TaskIds /\ out \in Terminal /\ tstate[t] \notin Inert /\ tstate'[t] = out
  /\ F = {u \in TaskIds : u # t /\ tstate[u] = "WaitTask" /\ target[u] = t}
  /\ J \subseteq {u \in TaskIds : u # t /\ tstate[u] = "WaitScope" /\ target[u] = scopeOf[t]}
  /\ \A u \in TaskIds : u # t /\ tstate'[u] # tstate[u] => tstate'[u] = "Ready" /\ tstate[u] \notin Inert
  /\ \A u \in F \cup J : tstate'[u] = "Ready"
  /\ \A u \in TaskIds : u \notin F \cup J \cup {t} => target'[u] = target[u]
  /\ DOMAIN inbox' = TaskIds
  /\ \A u \in TaskIds : inbox'[u] = IF u \in F THEN <<out>> ELSE IF u \in J THEN <<r>>
                                    ELSE IF u = t THEN <<>> ELSE inbox[u]
  /\ J # {} => /\ \A u \in TaskIds : scopeOf[u] = scopeOf[t] => tstate'[u] \in Inert
               /\ r = scope_outcome(scopeOf[t], tstate, winner[scopeOf[t]], primary[scopeOf[t]])'
  /\ UNCHANGED <<taskShape, scopeShape>>

\* It settles of its own, by the policy of its scope.
Finishes(t, out) ==
  /\ cancelling = <<>> /\ OwnCancellation(t, out) /\ UNCHANGED stop
  /\ winner' = IF out = "Completed" /\ policy[scopeOf[t]] = "Race" /\ winner[scopeOf[t]] = NoTask
                 THEN [winner EXCEPT ![scopeOf[t]] = t] ELSE winner
  /\ primary' = IF out \in {"Raised", "Failed"} THEN record_primary_failure(t) ELSE primary
  /\ cancelling' \in IF CancelsScope(t, out) THEN CancelOrder(Unsettled(scopeOf[t], tstate')) ELSE {<<>>}

\* It is the next one to be cancelled.
Cancels(t) ==
  /\ cancelling # <<>> /\ t = Head(cancelling) /\ cancelling' = Tail(cancelling)
  /\ stop' = [stop EXCEPT ![t] = @ \/ tstate[t] \notin Inert]
  /\ UNCHANGED <<winner, primary>>

\* The tasks in W begin to wait for a task of a scope above them.
Pauses(W) ==
  /\ Steady(W) /\ UNCHANGED <<stop, cancelling>>
  /\ \A u \in W \cap TaskIds : tstate'[u] = "WaitTask" /\ target'[u] \in TaskIds /\ scopeOf[target'[u]] \in anc[scopeOf[u]]

\* Every step but a launch.
Move ==
  \/ \E t, out, F, J, r : Concludes(t, out, F, J, r) /\ Finishes(t, out)
  \/ \E t, F, J, r : Concludes(t, "Cancelled", F, J, r) /\ Cancels(t)
  \/ \E t : Steady({}) /\ Cancels(t) /\ tstate[t] \in Inert \cup {"WaitHost"}
  \/ \E W : Pauses(W)

\* std.task.start is a launch.
LEMMA StartLaunches ==
  ASSUME SchedulerInvs, TreeInv, NEW p \in TaskIds, NEW job, NEW index, Start(p, job, {}, index)
  PROVE  \E s, born : Launches(p, "Running", s, born)
<1>0. SchedulerInv /\ QueueInv /\ InboxInv
  BY DEF SchedulerInvs
<1>1. PICK s, born : Grows(p, "Running", s, born)
  BY <1>0, StartGrows
<1>2. /\ cancelling = <<>> /\ ~stop[p] /\ UNCHANGED <<stop, cancelling, anc, policy, owner, next_scope, target>>
      /\ tstate[p] = "Running" /\ inbox' = [inbox EXCEPT ![p] = IF @ = <<>> THEN @ ELSE Tail(@)]
  BY DEF Start, Acts, Running, Doomed, take_wakeup
<1>3. inbox'[p] = <<>>
  <2>1. DOMAIN inbox = TaskIds
    BY <1>0 DEF InboxInv
  <2>2. inbox'[p] = IF inbox[p] = <<>> THEN <<>> ELSE Tail(inbox[p])
    BY <1>2, <2>1
  <2>3. CASE inbox[p] # <<>>
    <3>1. PICK x : inbox[p] = <<x>>
      BY <1>0, <2>3 DEF InboxInv
    <3>2. Tail(<<x>>) = <<>>
      OBVIOUS
    <3> QED BY <2>2, <2>3, <3>1, <3>2
  <2> QED BY <2>2, <2>3
<1>4. DOMAIN inbox' = TaskIds /\ \A u \in TaskIds : inbox'[u] = IF u = p THEN <<>> ELSE inbox[u]
  BY <1>0, <1>2, <1>3 DEF InboxInv
<1>5. \A t \in born : p < t
  <2>1. p < next_task /\ p \in Int /\ next_task \in Int
    BY <1>0, <1>2, SchedulerConstants DEF SchedulerInv, Ids, Allocated, TaskIds
  <2>2. \A t \in born : t \in Int /\ next_task <= t
    BY <1>0, <1>1, SchedulerConstants DEF Grows, Born, TaskIds, SchedulerInv, Ids
  <2> QED BY <2>1, <2>2
<1>6. anc' \in [ScopeIds -> SUBSET ScopeIds]
  BY <1>2 DEF TreeInv
<1>7. s = scopeOf[p]
  BY <1>1 DEF Grows
<1>8. Launches(p, "Running", s, born)
  BY <1>1, <1>2, <1>4, <1>5, <1>6, <1>7, Zenon DEF Launches
<1> QED BY <1>8

\* So is a group.
LEMMA GroupLaunches ==
  ASSUME SchedulerInvs, TreeInv, NEW p \in TaskIds \cup {NoTask}, NEW pol, NEW lim, NEW ser,
         NEW jobs \in JobLists, StartGroup(p, pol, lim, ser, jobs, {})
  PROVE  \E s, born : Launches(p, "WaitScope", s, born)
<1>0. SchedulerInv /\ QueueInv /\ InboxInv /\ NoTask \notin TaskIds
  BY SchedulerConstants DEF SchedulerInvs, NoTask, TaskIds
<1>1. PICK born : Grows(p, "WaitScope", next_scope, born)
  BY <1>0, GroupGrows
<1>2. PICK s \in ScopeIds : s = next_scope
  BY <1>0, GroupSpawns
<1>3. /\ anc' = [anc EXCEPT ![s] = {s} \cup anc[IF p # NoTask THEN scopeOf[p] ELSE Root]]
      /\ policy' = [policy EXCEPT ![s] = pol]
      /\ owner' = [owner EXCEPT ![s] = IF pol = "Run" THEN next_task ELSE NoTask]
      /\ target' = [t \in TaskIds |-> IF t = p THEN s ELSE target[t]]
      /\ next_scope' = s + 1 /\ next_scope < MaxScopes /\ UNCHANGED <<stop, cancelling>>
      /\ (IF p # NoTask THEN take_wakeup(p) ELSE UNCHANGED inbox)
      /\ Caller(p) /\ (p # NoTask => Acts(p))
  BY <1>2, Zenon DEF StartGroup
<1>4. cancelling = <<>> /\ (p \in TaskIds => ~stop[p] /\ tstate[p] = "Running")
  BY <1>0, <1>3 DEF Caller, Idle, Running, Acts, Doomed
<1>5. ASSUME p \in TaskIds PROVE inbox'[p] = <<>>
  <2>1. inbox'[p] = IF inbox[p] = <<>> THEN <<>> ELSE Tail(inbox[p])
    BY <1>0, <1>3, <1>5 DEF InboxInv, take_wakeup
  <2>2. CASE inbox[p] # <<>>
    <3>1. PICK x : inbox[p] = <<x>>
      BY <1>0, <1>5, <2>2 DEF InboxInv
    <3>2. Tail(<<x>>) = <<>>
      OBVIOUS
    <3> QED BY <2>1, <2>2, <3>1, <3>2
  <2> QED BY <2>1, <2>2
<1>6. DOMAIN inbox' = TaskIds /\ \A u \in TaskIds : inbox'[u] = IF u = p THEN <<>> ELSE inbox[u]
  BY <1>0, <1>3, <1>5 DEF InboxInv, take_wakeup
<1>7. \A t \in born : p < t
  <2>1. p < next_task /\ p \in Int /\ next_task \in Int
    BY <1>0, <1>4, SchedulerConstants DEF SchedulerInv, Ids, Allocated, TaskIds, NoTask
  <2>2. \A t \in born : t \in Int /\ next_task <= t
    BY <1>0, <1>1, SchedulerConstants DEF Grows, Born, TaskIds, SchedulerInv, Ids
  <2> QED BY <2>1, <2>2
<1>8. anc[IF p # NoTask THEN scopeOf[p] ELSE Root] = anc[Owner(p)] /\ Owner(p) \in ScopeIds
  BY <1>0, SchedulerConstants DEF Owner, QueueInv, QueueTypes, Root, ScopeIds
<1>9. anc' \in [ScopeIds -> SUBSET ScopeIds] /\ anc'[s] = {s} \cup anc[Owner(p)]
  BY <1>2, <1>3, <1>8 DEF TreeInv
<1>10. s \in Int /\ next_task # NoTask /\ s + 1 <= MaxScopes
  BY <1>0, <1>2, <1>3, SchedulerConstants DEF ScopeIds, NoTask, SchedulerInv, Ids
<1>11. \A x \in ScopeIds : x < next_scope => x # s
  BY <1>2, <1>10 DEF ScopeIds
<1>12. \A x \in ScopeIds : x < next_scope => anc'[x] = anc[x] /\ policy'[x] = policy[x] /\ owner'[x] = owner[x]
  BY <1>0, <1>3, <1>11 DEF TreeInv, QueueInv, QueueTypes
<1>13. policy'[s] = "Run" => owner'[s] # NoTask
  BY <1>0, <1>2, <1>3, <1>10 DEF QueueInv, QueueTypes
<1>14. Launches(p, "WaitScope", s, born)
  BY <1>1, <1>2, <1>3, <1>4, <1>6, <1>7, <1>9, <1>10, <1>12, <1>13, Zenon DEF Launches
<1> QED BY <1>14

\* The outcome of a scope depends on the states of its members only.
LEMMA OutcomeOfMembers ==
  ASSUME NEW s, NEW st \in [TaskIds -> TaskStates], NEW su \in [TaskIds -> TaskStates], NEW win, NEW prim,
         \A u \in TaskIds : scopeOf[u] = s => su[u] = st[u],
         {win, prim, owner[s]} \subseteq {u \in TaskIds : scopeOf[u] = s} \cup {NoTask}
  PROVE  scope_outcome(s, su, win, prim) = scope_outcome(s, st, win, prim)
<1> DEFINE kinds(f) == {f[t] : t \in Members(s, f)}
           pk(f) == IF prim = NoTask THEN "Error" ELSE f[prim]
           ok(f) == IF owner[s] = NoTask THEN "Error" ELSE f[owner[s]]
<1>1. Members(s, su) = Members(s, st)
  BY DEF Members
<1>2. \A t \in Members(s, st) : su[t] = st[t]
  BY DEF Members
<1>3. kinds(su) = kinds(st)
  BY <1>1, <1>2
<1>4. pk(su) = pk(st) /\ ok(su) = ok(st) /\ (win # NoTask => su[win] = st[win])
  OBVIOUS
<1>5. scope_outcome(s, su, win, prim) = Outcome(policy[s], kinds(su), prim, pk(su), ok(su), win, su[win])
  BY Zenon DEF scope_outcome, Outcome
<1>6. scope_outcome(s, st, win, prim) = Outcome(policy[s], kinds(st), prim, pk(st), ok(st), win, st[win])
  BY Zenon DEF scope_outcome, Outcome
<1>7. PICK k, a, b : k = kinds(st) /\ a = pk(st) /\ b = ok(st)
  OBVIOUS
<1>8. k = kinds(su) /\ a = pk(su) /\ b = ok(su)
  BY <1>3, <1>4, <1>7
<1> HIDE DEF kinds, pk, ok
<1>9. CASE win # NoTask
  BY <1>4, <1>5, <1>6, <1>7, <1>8, <1>9
<1>10. CASE win = NoTask
  <2>1. \A x, y : Outcome(policy[s], k, prim, a, b, NoTask, x) = Outcome(policy[s], k, prim, a, b, NoTask, y)
    BY DEF Outcome
  <2> QED BY <1>5, <1>6, <1>7, <1>8, <1>10, <2>1
<1> QED BY <1>9, <1>10

\* In the next state it is computed from the states there.
LEMMA OutcomeNext ==
  ASSUME NEW t, NEW w, NEW p, w = winner'[scopeOf[t]], p = primary'[scopeOf[t]], UNCHANGED <<scopeOf, owner, policy>>
  PROVE  scope_outcome(scopeOf[t], tstate, winner[scopeOf[t]], primary[scopeOf[t]])'
           = scope_outcome(scopeOf[t], tstate', w, p)
<1>1. PICK x : x = scopeOf[t]
  OBVIOUS
<1>2. scopeOf'[t] = x
  BY <1>1
<1> DEFINE kinds == {tstate[u] : u \in Members(x, tstate)}
           pk == IF primary[x] = NoTask THEN "Error" ELSE tstate[primary[x]]
           ok == IF owner[x] = NoTask THEN "Error" ELSE tstate[owner[x]]
<1>3. scope_outcome(x, tstate, winner[x], primary[x])'
        = Outcome(policy'[x], kinds', primary'[x], pk', ok', winner'[x], tstate'[winner'[x]])
  BY Zenon DEF scope_outcome, Outcome
<1>4. PICK st : st = tstate'
  OBVIOUS
<1> DEFINE k == {st[u] : u \in Members(x, st)}
           a == IF p = NoTask THEN "Error" ELSE st[p]
           b == IF owner[x] = NoTask THEN "Error" ELSE st[owner[x]]
<1>7. scope_outcome(x, st, w, p) = Outcome(policy[x], k, p, a, b, w, st[w])
  BY Zenon DEF scope_outcome, Outcome
<1>8. k = kinds'
  <2>1. Members(x, tstate)' = Members(x, st)
    BY <1>4 DEF Members
  <2> QED BY <1>4, <2>1
<1>9. a = pk' /\ b = ok' /\ w = winner'[x] /\ p = primary'[x] /\ policy'[x] = policy[x] /\ st[w] = tstate'[winner'[x]]
  BY <1>1, <1>4
<1> HIDE DEF kinds, pk, ok, k, a, b
<1>10. scope_outcome(x, tstate, winner[x], primary[x])' = scope_outcome(x, st, w, p)
  BY <1>3, <1>7, <1>8, <1>9
<1>11. scope_outcome(scopeOf[t], tstate, winner[scopeOf[t]], primary[scopeOf[t]])'
         = scope_outcome(x, tstate, winner[x], primary[x])'
  BY <1>2
<1> QED BY <1>1, <1>4, <1>10, <1>11

\* Settling a task concludes it.
LEMMA EndsConcludes ==
  ASSUME SchedulerInvs, SchedulerInvs', NEW t \in TaskIds, NEW out \in Terminal, NEW win, NEW prim, Ends(t, out, win, prim)
  PROVE  \E F, J, r : Concludes(t, out, F, J, r)
<1> DEFINE s == scopeOf[t]
           st1 == [tstate EXCEPT ![t] = out]
           queue == Retain(waiting, {u \in TaskIds : st1[u] = "WaitResource"})
           onTask(u) == st1[u] = "WaitTask" /\ target[u] = t
           awaiting == {u \in Range(waiters[t]) : onTask(u)}
           st2(G) == [u \in TaskIds |-> IF u \in G \cup awaiting THEN "Ready" ELSE st1[u]]
           result(G) == scope_outcome(s, st2(G), win[s], prim[s])
           onScope(G, u) == result(G) # "Pending" /\ st2(G)[u] = "WaitScope" /\ target[u] = s
           joining(G) == {u \in Range(swaiters[s]) : onScope(G, u)}
<1>0. /\ SchedulerInv /\ QueueInv /\ InboxInv /\ tstate \in [TaskIds -> TaskStates]
      /\ tstate[t] \notin Inert /\ s \in ScopeIds
  BY DEF SchedulerInvs, SchedulerInv, Ids, Ends, QueueInv, QueueTypes
<1>1. PICK G : /\ G \in SUBSET {u \in TaskIds : st1[u] = "WaitResource"}
               /\ tstate' = [u \in TaskIds |-> IF u \in joining(G) THEN "Ready" ELSE st2(G)[u]]
               /\ target' = [u \in TaskIds |-> IF u \in awaiting \cup joining(G) \cup {t} THEN NoTask ELSE target[u]]
               /\ inbox' = [u \in TaskIds |-> IF u \in awaiting THEN Append(inbox[u], out)
                                              ELSE IF u \in joining(G) THEN Append(inbox[u], result(G))
                                              ELSE IF u = t THEN <<>> ELSE inbox[u]]
  BY ZenonT(40) DEF Ends, terminal
<1>2. PICK F, J, r : F = awaiting /\ J = joining(G) /\ r = result(G)
  OBVIOUS
<1>3. \A u \in TaskIds : st1[u] = IF u = t THEN out ELSE tstate[u]
  BY <1>0
<1>4. out \notin {"WaitTask", "WaitScope", "WaitResource"} /\ out \in TaskStates
  BY DEF Terminal, TaskStates, Inert
<1>5. F = {u \in TaskIds : u # t /\ tstate[u] = "WaitTask" /\ target[u] = t}
  <2>1. waiters[t] \in Seq(TaskIds) /\ Range(waiters[t]) = Entries(waiters[t])
    <3>1. waiters[t] \in Seq(TaskIds)
      BY <1>0 DEF QueueInv, QueueTypes
    <3> QED BY <3>1 DEF Range, Entries
  <2>2. Entries(waiters[t]) \subseteq TaskIds
    BY <2>1 DEF Entries
  <2>3. \A u \in TaskIds : tstate[u] = "WaitTask" /\ target[u] = t => u \in Entries(waiters[t])
    BY <1>0 DEF QueueInv, AwaitListed
  <2> QED BY <1>2, <1>3, <1>4, <2>1, <2>2, <2>3
<1>6. J \subseteq {u \in TaskIds : u # t /\ tstate[u] = "WaitScope" /\ target[u] = s}
  <2>1. swaiters[s] \in Seq(TaskIds)
    BY <1>0 DEF QueueInv, QueueTypes
  <2>2. Range(swaiters[s]) \subseteq TaskIds
    BY <2>1 DEF Range
  <2>3. ASSUME NEW u \in TaskIds, st2(G)[u] = "WaitScope" PROVE u # t /\ tstate[u] = "WaitScope"
    BY <1>3, <1>4, <2>3
  <2> QED BY <1>2, <2>2, <2>3
<1>7. \A u \in TaskIds : tstate'[u] = IF u \in G \cup F \cup J THEN "Ready" ELSE IF u = t THEN out ELSE tstate[u]
  BY <1>1, <1>2, <1>3
<1>8. G \subseteq TaskIds /\ \A u \in G : u # t /\ tstate[u] = "WaitResource"
  BY <1>1, <1>3, <1>4
<1>9. /\ tstate'[t] = out /\ \A u \in F \cup J : tstate'[u] = "Ready"
      /\ \A u \in TaskIds : u # t /\ tstate'[u] # tstate[u] => tstate'[u] = "Ready" /\ tstate[u] \notin Inert
  BY <1>5, <1>6, <1>7, <1>8 DEF Inert, Terminal
<1>10. \A u \in TaskIds : u \notin F \cup J \cup {t} => target'[u] = target[u]
  BY <1>1, <1>2
<1>11. \A u \in F \cup J : inbox[u] = <<>>
  BY <1>0, <1>5, <1>6 DEF InboxInv
<1>12. \A u \in TaskIds : inbox'[u] = IF u \in F THEN <<out>> ELSE IF u \in J THEN <<r>>
                                      ELSE IF u = t THEN <<>> ELSE inbox[u]
  <2>1. Append(<<>>, out) = <<out>> /\ Append(<<>>, r) = <<r>>
    OBVIOUS
  <2>2. \A u \in TaskIds : inbox'[u] = IF u \in F THEN Append(inbox[u], out) ELSE IF u \in J THEN Append(inbox[u], r)
                                       ELSE IF u = t THEN <<>> ELSE inbox[u]
    BY <1>1, <1>2
  <2> QED BY <1>11, <2>1, <2>2
<1>13. DOMAIN inbox' = TaskIds
  BY <1>1
<1>14. winner' = win /\ primary' = prim /\ UNCHANGED <<taskShape, scopeShape>>
  BY <1>0, EndsEffect
<1>15. PICK su : su = st2(G)
  OBVIOUS
<1>16. su \in [TaskIds -> TaskStates]
  BY <1>0, <1>3, <1>4, <1>15 DEF TaskStates
<1>17. \A u \in TaskIds : tstate'[u] = IF u \in J THEN "Ready" ELSE su[u]
  BY <1>1, <1>2, <1>15
<1>18. /\ win[s] \in {u \in TaskIds : scopeOf[u] = s} \cup {NoTask}
       /\ prim[s] \in {u \in TaskIds : scopeOf[u] = s} \cup {NoTask}
       /\ owner[s] \in {u \in TaskIds : scopeOf[u] = s} \cup {NoTask}
  <2>1. /\ winner'[s] \in TaskIds \cup {NoTask} /\ (winner'[s] # NoTask => scopeOf'[winner'[s]] = s)
        /\ owner'[s] \in TaskIds \cup {NoTask} /\ (owner'[s] # NoTask => scopeOf'[owner'[s]] = s)
    BY <1>0 DEF SchedulerInvs, RolesInv, QueueInv, QueueTypes
  <2>2. primary'[s] # NoTask => primary'[s] \in TaskIds /\ scopeOf'[primary'[s]] = s
    BY <1>0 DEF SchedulerInvs, FailureInv
  <2>3. scopeOf' = scopeOf /\ owner' = owner
    BY <1>14 DEF taskShape, scopeShape
  <2> QED BY <1>14, <2>1, <2>2, <2>3
<1>19. ASSUME J # {}
       PROVE  /\ \A u \in TaskIds : scopeOf[u] = s => tstate'[u] \in Inert
              /\ r = scope_outcome(s, tstate, winner[s], primary[s])'
  <2>1. r # "Pending" /\ r = scope_outcome(s, su, win[s], prim[s])
    BY <1>2, <1>15, <1>19
  <2>2. PICK w \in TaskIds \cup {NoTask}, p \in TaskIds \cup {NoTask} : w = win[s] /\ p = prim[s]
    BY <1>18
  <2>3. PendingByMembers(s, su, w, p)
    <3>1. policy[s] \in Policies /\ owner[s] \in TaskIds \cup {NoTask}
      BY <1>0 DEF QueueInv, QueueTypes
    <3> QED BY <1>0, <1>16, <3>1, OutcomePending
  <2>4. \A u \in TaskIds : scopeOf[u] = s => su[u] \in Inert
    BY <2>1, <2>2, <2>3 DEF PendingByMembers
  <2>5. \A u \in TaskIds : scopeOf[u] = s => u \notin J /\ tstate'[u] = su[u]
    <3>1. \A u \in J : u \in TaskIds /\ su[u] = "WaitScope"
      BY <1>2, <1>6, <1>15
    <3>2. "WaitScope" \notin Inert
      BY DEF Inert, Terminal
    <3> QED BY <1>17, <2>4, <3>1, <3>2
  <2>6. tstate' \in [TaskIds -> TaskStates]
    BY DEF SchedulerInvs, SchedulerInv, Ids
  <2>7. scope_outcome(s, tstate', w, p) = scope_outcome(s, su, w, p)
    <3>1. PICK st : st = tstate'
      OBVIOUS
    <3>2. st \in [TaskIds -> TaskStates] /\ \A u \in TaskIds : scopeOf[u] = s => st[u] = su[u]
      BY <2>5, <2>6, <3>1
    <3>3. {w, p, owner[s]} \subseteq {u \in TaskIds : scopeOf[u] = s} \cup {NoTask}
      BY <1>18, <2>2
    <3>4. scope_outcome(s, st, w, p) = scope_outcome(s, su, w, p)
      BY <1>16, <3>2, <3>3, OutcomeOfMembers
    <3> QED BY <3>1, <3>4
  <2>8. scopeOf' = scopeOf /\ owner' = owner /\ policy' = policy
    BY <1>14 DEF taskShape, scopeShape
  <2>9. scope_outcome(s, tstate, winner[s], primary[s])' = scope_outcome(s, tstate', w, p)
    BY <1>14, <2>2, <2>8, OutcomeNext
  <2> QED BY <2>1, <2>2, <2>4, <2>5, <2>7, <2>9
<1>20. Concludes(t, out, F, J, r)
  BY <1>0, <1>5, <1>6, <1>9, <1>10, <1>12, <1>13, <1>14, <1>19 DEF Concludes
<1> QED BY <1>20

\* The scheduler's invariants are kept.
LEMMA NextInvs == ASSUME SchedulerInvs, [Next]_vars PROVE SchedulerInvs'
  BY NextInv, NextQueue, NextSlots, NextFailures, NextInbox, NextRoles, NextSetup DEF SchedulerInvs

\* A task that settles of its own.
LEMMA SettleMoves ==
  ASSUME SchedulerInvs, SchedulerInvs', NEW t \in TaskIds, NEW out \in Terminal, settle(t, out),
         tstate[t] \notin Inert, cancelling = <<>>, OwnCancellation(t, out)
  PROVE  Move
<1>1. PICK win, prim :
        /\ win = IF out = "Completed" /\ policy[scopeOf[t]] = "Race" /\ winner[scopeOf[t]] = NoTask
                   THEN [winner EXCEPT ![scopeOf[t]] = t] ELSE winner
        /\ prim = IF out \in {"Raised", "Failed"} THEN record_primary_failure(t) ELSE primary
        /\ terminal(t, out, win, prim)
  BY Zenon DEF settle
<1>2. PICK s \in ScopeIds : s = scopeOf[t]
  BY DEF SchedulerInvs, QueueInv, QueueTypes
<1>3. (win = winner \/ win = [winner EXCEPT ![s] = t]) /\ (prim = primary \/ prim = [primary EXCEPT ![s] = t])
  BY <1>1, <1>2 DEF record_primary_failure
<1>4. winner \in [ScopeIds -> TaskIds \cup {NoTask}] /\ primary \in [ScopeIds -> TaskIds \cup {NoTask}]
  BY DEF SchedulerInvs, QueueInv, QueueTypes
<1>5. win \in [ScopeIds -> TaskIds \cup {NoTask}] /\ prim \in [ScopeIds -> TaskIds \cup {NoTask}]
  BY <1>3, <1>4
<1>6. \A x \in ScopeIds : (win[x] # winner[x] => x = s /\ win[x] = t) /\ (prim[x] # primary[x] => x = s)
  BY <1>3, <1>4
<1>7. Ends(t, out, win, prim)
  BY <1>1, <1>2, <1>5, <1>6 DEF Ends
<1>8. PICK F, J, r : Concludes(t, out, F, J, r)
  BY <1>7, EndsConcludes
<1>9. winner' = win /\ primary' = prim
  BY <1>7, EndsEffect DEF SchedulerInvs
<1>10. /\ cancelling' \in IF CancelsScope(t, out) THEN CancelOrder(Unsettled(scopeOf[t], tstate')) ELSE {<<>>}
       /\ UNCHANGED stop
  BY Zenon DEF settle
<1>11. Finishes(t, out)
  BY <1>1, <1>9, <1>10, Zenon DEF Finishes
<1> QED BY <1>8, <1>11 DEF Move

\* One iteration of cancel_scope_unsettled.
LEMMA CancelMoves == ASSUME SchedulerInvs, SchedulerInvs', CancelNext PROVE Move
<1>1. PICK t \in TaskIds : t = Head(cancelling)
  BY DEF CancelNext
<1>2. /\ cancelling # <<>> /\ cancelling' = Tail(cancelling)
      /\ stop' = [stop EXCEPT ![t] = @ \/ tstate[t] \notin Inert]
  BY <1>1 DEF CancelNext
<1>3. CASE tstate[t] \in Inert \cup {"WaitHost"}
  <2>1. UNCHANGED <<tstate, target, inbox, holders, winner, primary, taskShape, scopeShape>>
    BY <1>1, <1>3 DEF CancelNext
  <2>2. Steady({})
    BY <2>1, StillSteady DEF SchedulerInvs, InboxInv
  <2>3. Cancels(t)
    BY <1>1, <1>2, <2>1 DEF Cancels
  <2> QED BY <1>3, <2>2, <2>3 DEF Move
<1>4. CASE tstate[t] \notin Inert \cup {"WaitHost"}
  <2>1. PICK win, prim : win = winner /\ prim = primary
    OBVIOUS
  <2>2. terminal(t, "Cancelled", win, prim)
    BY <1>1, <1>4, <2>1 DEF CancelNext
  <2>3. win \in [ScopeIds -> TaskIds \cup {NoTask}] /\ prim \in [ScopeIds -> TaskIds \cup {NoTask}]
    BY <2>1 DEF SchedulerInvs, QueueInv, QueueTypes
  <2>4. Ends(t, "Cancelled", win, prim) /\ "Cancelled" \in Terminal
    BY <1>4, <2>1, <2>2, <2>3 DEF Ends, Terminal
  <2>5. PICK F, J, r : Concludes(t, "Cancelled", F, J, r)
    BY <2>4, EndsConcludes
  <2>6. winner' = win /\ primary' = prim
    BY <2>4, EndsEffect DEF SchedulerInvs
  <2>7. Cancels(t)
    BY <1>1, <1>2, <2>1, <2>6 DEF Cancels
  <2> QED BY <2>5, <2>7 DEF Move
<1> QED BY <1>3, <1>4

\* A task awaits one of a scope above it.
LEMMA AwaitMoves ==
  ASSUME SchedulerInvs, NEW t \in TaskIds, NEW u \in TaskIds, HandleInScope(t, u), await_task(t, u) PROVE Move
<1>1. DOMAIN inbox = TaskIds /\ DOMAIN target = TaskIds /\ SchedulerInv
  BY DEF SchedulerInvs, InboxInv, QueueInv, QueueTypes
<1>2. Steady({t}) /\ tstate'[t] = "WaitTask" /\ target'[t] = u
  BY <1>1, AwaitSteady
<1>3. UNCHANGED <<stop, cancelling>>
  BY DEF await_task, Yields
<1>4. Pauses({t})
  BY <1>2, <1>3 DEF Pauses, HandleInScope
<1> QED BY <1>4 DEF Move

\* The steps that touch neither outcomes nor scopes.
LEMMA CalmMoves ==
  ASSUME SchedulerInvs, Calm, ~CancelNext, ~cancel_unsettled PROVE Move
<1>1. Steady({})
  BY CalmSteady DEF SchedulerInvs, InboxInv
<1>2. UNCHANGED <<stop, cancelling>>
  <2>1. ASSUME NEW t, requeue(t) \/ wait_for_host(t) \/ wait_for_cpu(t) PROVE UNCHANGED <<stop, cancelling>>
    BY <2>1, Zenon DEF requeue, wait_for_host, wait_for_cpu, Yields
  <2>2. ASSUME NEW n, Dispatch(n) PROVE UNCHANGED <<stop, cancelling>>
    BY <2>2, Zenon DEF Dispatch
  <2>3. ASSUME NEW t, wake_from_host(t) PROVE UNCHANGED <<stop, cancelling>>
    BY <2>3 DEF wake_from_host
  <2>4. ASSUME DispatchNone PROVE UNCHANGED <<stop, cancelling>>
    BY <2>4, Zenon DEF DispatchNone
  <2>5. ASSUME begin_checkpoint_barrier \/ end_checkpoint_barrier \/ UNCHANGED vars PROVE UNCHANGED <<stop, cancelling>>
    BY <2>5 DEF begin_checkpoint_barrier, end_checkpoint_barrier, vars, taskVars, schedVars
  <2> QED BY <2>1, <2>2, <2>3, <2>4, <2>5, Zenon DEF Calm, Rest
<1>3. Pauses({})
  BY <1>1, <1>2 DEF Pauses
<1> QED BY <1>3 DEF Move

\* What a step does to the references: a wakeup that stays keeps its own, a new one names
\* what its task waited for.
RefStep ==
  /\ DOMAIN reference' = TaskIds
  /\ \A u \in TaskIds :
       /\ inbox'[u] = inbox[u] => reference'[u] = reference[u]
       /\ inbox'[u] = <<>> => reference'[u] = <<>>
       /\ inbox[u] = <<>> /\ (\E x : inbox'[u] = <<x>>) =>
            reference'[u] = <<[kind |-> IF tstate[u] = "WaitTask" THEN "Task" ELSE "Scope", id |-> target[u]]>>

\* A step of the program between restarts.
Step ==
  /\ [Next]_vars /\ RefStep
  /\ \/ \E p, st, s, born : Launches(p, st, s, born) /\ SaveParents(p)
     \/ Move /\ parent' = parent

\* SaveReferences does that.
LEMMA ReferencesSaved == ASSUME ReferenceInv, InboxInv, InboxInv', SaveReferences PROVE RefStep
<1>1. DOMAIN reference' = TaskIds
  BY DEF SaveReferences
<1>2. ASSUME NEW u \in TaskIds
      PROVE  /\ inbox'[u] = inbox[u] => reference'[u] = reference[u]
             /\ inbox'[u] = <<>> => reference'[u] = <<>>
             /\ inbox[u] = <<>> /\ (\E x : inbox'[u] = <<x>>) =>
                  reference'[u] = <<[kind |-> IF tstate[u] = "WaitTask" THEN "Task" ELSE "Scope", id |-> target[u]]>>
  <2>0. PICK rec : rec = [kind |-> IF tstate[u] = "WaitTask" THEN "Task" ELSE "Scope", id |-> target[u]]
    OBVIOUS
  <2>1. PICK m, n : m = Len(inbox[u]) /\ n = Len(inbox'[u])
    OBVIOUS
  <2>2. reference'[u] = CASE n > m -> Append(reference[u], rec)
                          [] n < m -> (IF inbox'[u] = <<>> THEN <<>> ELSE Tail(reference[u]))
                          [] OTHER -> reference[u]
    BY <2>0, <2>1, Zenon DEF SaveReferences
  <2>3. (inbox[u] = <<>> /\ m = 0) \/ (inbox[u] # <<>> /\ m = 1)
    <3>1. CASE inbox[u] = <<>>
      BY <2>1, <3>1
    <3>2. CASE inbox[u] # <<>>
      <4>1. PICK x : inbox[u] = <<x>>
        BY <3>2 DEF InboxInv
      <4> QED BY <2>1, <3>2, <4>1
    <3> QED BY <3>1, <3>2
  <2>4. (inbox'[u] = <<>> /\ n = 0) \/ (inbox'[u] # <<>> /\ n = 1)
    <3>1. CASE inbox'[u] = <<>>
      BY <2>1, <3>1
    <3>2. CASE inbox'[u] # <<>>
      <4>1. PICK x : inbox'[u] = <<x>>
        BY <3>2 DEF InboxInv
      <4> QED BY <2>1, <3>2, <4>1
    <3> QED BY <3>1, <3>2
  <2>5. m = n => reference'[u] = reference[u]
    BY <2>2, <2>3, <2>4
  <2>6. m = 1 /\ n = 0 => reference'[u] = <<>>
    BY <2>2, <2>4
  <2>7. m = 0 /\ n = 1 => reference'[u] = Append(reference[u], rec)
    BY <2>2
  <2>8. m = 0 => reference[u] = <<>>
    <3>1. ASSUME inbox[u] = <<>>, NEW ref, inbox[u] = <<RestoredOutcome(ref)>> PROVE FALSE
      BY <3>1
    <3> QED BY <2>3, <3>1 DEF ReferenceInv
  <2>9. \A x : inbox'[u] = <<x>> => n = 1
    BY <2>1
  <2>10. Append(<<>>, rec) = <<rec>>
    OBVIOUS
  <2> QED BY <2>0, <2>1, <2>3, <2>4, <2>5, <2>6, <2>7, <2>8, <2>9, <2>10
<1> QED BY <1>1, <1>2 DEF RefStep

\* Without a launch tasks and scopes stay what they are.
LEMMA MoveShape == ASSUME Move PROVE UNCHANGED <<taskShape, scopeShape>>
<1>1. ASSUME NEW t, NEW out, NEW F, NEW J, NEW r, Concludes(t, out, F, J, r) PROVE UNCHANGED <<taskShape, scopeShape>>
  BY <1>1, Zenon DEF Concludes
<1>2. ASSUME NEW W, Steady(W) PROVE UNCHANGED <<taskShape, scopeShape>>
  BY <1>2, Zenon DEF Steady
<1> QED BY <1>1, <1>2, Zenon DEF Move, Pauses

\* Nobody gets a parent then.
LEMMA ParentsKept ==
  ASSUME RestoreInv, Move, NEW p, SaveParents(p) PROVE parent' = parent
<1>1. next_task' = next_task
  BY MoveShape DEF taskShape
<1>2. next_task \in Nat
  BY DEF RestoreInv, SchedulerInvs, SchedulerInv, Ids
<1>3. \A t \in TaskIds : ~Born(t)
  BY <1>1, <1>2 DEF Born
<1>4. parent \in [TaskIds -> TaskIds \cup {NoTask}]
  BY DEF RestoreInv, ParentInv
<1> QED BY <1>3, <1>4 DEF SaveParents

\* A step that leaves the scheduler alone.
LEMMA StillSteps == ASSUME RestoreInv, UNCHANGED <<vars, reference, parent>> PROVE Step
<1>1. UNCHANGED <<inbox, tstate, target>>
  BY DEF vars, taskVars
<1>2. RefStep
  <2>1. ASSUME NEW u \in TaskIds, inbox[u] = <<>> PROVE reference[u] = <<>> /\ \A x : inbox[u] # <<x>>
    <3>1. ASSUME NEW ref, inbox[u] = <<RestoredOutcome(ref)>> PROVE FALSE
      BY <2>1, <3>1
    <3> QED BY <2>1, <3>1 DEF RestoreInv, ReferenceInv
  <2> QED BY <1>1, <2>1 DEF RefStep, RestoreInv, ReferenceInv
<1>3. Steady({}) /\ UNCHANGED <<stop, cancelling>>
  <2>1. UNCHANGED <<tstate, target, inbox, holders, winner, primary, taskShape, scopeShape, stop, cancelling>>
    BY DEF vars, taskVars, scopeVars, schedVars, taskShape, scopeShape
  <2> QED BY <2>1, StillSteady DEF RestoreInv, SchedulerInvs, InboxInv
<1>4. Pauses({})
  BY <1>3 DEF Pauses
<1> QED BY <1>2, <1>4 DEF Step, Move

\* A step of Next with its bookkeeping.
LEMMA BookedSteps ==
  ASSUME RestoreInv, [Next]_vars, NEW kind, NEW p, Bookkeeping(kind, p),
         SchedulerInvs' => Move \/ \E st, s, born : Launches(p, st, s, born)
  PROVE  Step
<1>1. SchedulerInvs'
  BY NextInvs DEF RestoreInv
<1>2. RefStep /\ SaveParents(p)
  BY <1>1, ReferencesSaved DEF RestoreInv, SchedulerInvs, Bookkeeping
<1>3. ASSUME Move PROVE Step
  BY <1>2, <1>3, ParentsKept DEF Step
<1>4. ASSUME NEW st, NEW s, NEW born, Launches(p, st, s, born) PROVE Step
  BY <1>2, <1>4 DEF Step
<1> QED BY <1>1, <1>3, <1>4

\* A turn of a task is one of Next, and a launch or a move.
LEMMA TurnMoves ==
  ASSUME RestoreInv, NEW t \in TaskIds, TaskTurn(t)
  PROVE  Next /\ (SchedulerInvs' => Move \/ \E st, s, born : Launches(t, st, s, born))
<1>0. SchedulerInvs /\ TreeInv
  BY DEF RestoreInv
<1>1. \A n : {} \in UnresolvedJobs(n)
  BY DEF UnresolvedJobs
<1>2. ASSUME NEW pol \in GroupPolicies, NEW lim \in Limits, NEW ser \in SerialScopes, NEW jobs \in JobLists,
             StartGroup(t, pol, lim, ser, jobs, {})
      PROVE  Next /\ \E st, s, born : Launches(t, st, s, born)
  <2>1. TaskStep(t)
    BY <1>1, <1>2, Zenon DEF TaskStep
  <2> QED BY <1>0, <1>2, <2>1, GroupLaunches DEF Next
<1>3. ASSUME NEW job \in KeySets, NEW i \in SourceIndexes, Start(t, job, {}, i)
      PROVE  Next /\ \E st, s, born : Launches(t, st, s, born)
  <2>1. TaskStep(t)
    BY <1>1, <1>3, Zenon DEF TaskStep
  <2> QED BY <1>0, <1>3, <2>1, StartLaunches DEF Next
<1>4. ASSUME requeue(t) \/ wait_for_host(t) \/ wait_for_cpu(t) PROVE Next /\ Move
  <2>1. TaskStep(t) /\ Calm
    BY <1>4, Zenon DEF TaskStep, Calm, Rest
  <2>2. Running(t)
    BY <1>4, Zenon DEF requeue, wait_for_host, wait_for_cpu, Yields, Acts
  <2>3. ~CancelNext /\ ~cancel_unsettled
    BY <2>2 DEF Running, CancelNext, cancel_unsettled, Idle
  <2> QED BY <1>0, <2>1, <2>3, CalmMoves DEF Next
<1>5. ASSUME NEW u \in TaskIds, HandleInScope(t, u), await_task(t, u) PROVE Next /\ Move
  <2>1. TaskStep(t)
    BY <1>5, Zenon DEF TaskStep
  <2> QED BY <1>0, <1>5, <2>1, AwaitMoves DEF Next
<1>6. ASSUME NEW out \in Terminal, OwnCancellation(t, out), Finish(t, out) PROVE Next /\ (SchedulerInvs' => Move)
  <2>1. TaskStep(t)
    BY <1>6, Zenon DEF TaskStep
  <2>2. settle(t, out) /\ Running(t)
    BY <1>6, Zenon DEF Finish
  <2>3. tstate[t] \notin Inert /\ cancelling = <<>>
    BY <2>2 DEF Running, Inert, Terminal
  <2> QED BY <1>0, <1>6, <2>1, <2>2, <2>3, SettleMoves DEF Next
<1> QED BY <1>2, <1>3, <1>4, <1>5, <1>6, Zenon DEF TaskTurn

\* So is a step of the coordinator.
LEMMA CoordinationMoves ==
  ASSUME RestoreInv, Coordination PROVE Next /\ (SchedulerInvs' => Move)
<1>0. SchedulerInvs /\ TreeInv /\ "Cancelled" \in Terminal
  BY DEF RestoreInv, Terminal
<1>1. ASSUME \/ \E n \in DOMAIN ready : Dispatch(n)
             \/ DispatchNone \/ begin_checkpoint_barrier \/ end_checkpoint_barrier
             \/ \E t \in TaskIds : wake_from_host(t)
      PROVE  Next /\ Move
  <2>1. Coordinator /\ Calm
    BY <1>1, Zenon DEF Coordinator, Calm, Rest
  <2>2. cancelling = <<>>
    BY <1>1, Zenon DEF Dispatch, DispatchNone, admission_open, begin_checkpoint_barrier, end_checkpoint_barrier,
       wake_from_host, Idle
  <2>3. UNCHANGED cancelling
    BY <1>1, Zenon DEF Dispatch, DispatchNone, begin_checkpoint_barrier, end_checkpoint_barrier, wake_from_host
  <2>4. ~CancelNext
    BY <2>2 DEF CancelNext
  <2>5. Steady({}) /\ UNCHANGED stop
    <3>1. Steady({})
      BY <1>0, <2>1, CalmSteady DEF SchedulerInvs, InboxInv
    <3>2. UNCHANGED stop
      BY <1>1, Zenon DEF Dispatch, DispatchNone, begin_checkpoint_barrier, end_checkpoint_barrier, wake_from_host, taskVars
    <3> QED BY <3>1, <3>2
  <2>6. Pauses({})
    BY <2>3, <2>5 DEF Pauses
  <2> QED BY <2>1, <2>6 DEF Next, Move
<1>2. ASSUME NEW t \in TaskIds, NEW out \in Terminal, OwnCancellation(t, out), CpuFinish(t, out)
      PROVE  Next /\ (SchedulerInvs' => Move)
  <2>1. Coordinator
    BY <1>2, Zenon DEF Coordinator
  <2>2. settle(t, out) /\ Idle /\ tstate[t] = "WaitCpu"
    BY <1>2, Zenon DEF CpuFinish
  <2>3. tstate[t] \notin Inert /\ cancelling = <<>>
    BY <2>2 DEF Idle, Inert, Terminal
  <2> QED BY <1>0, <1>2, <2>1, <2>2, <2>3, SettleMoves DEF Next
<1>3. ASSUME NEW t \in TaskIds, stop[t], NativeCancelled(t) PROVE Next /\ (SchedulerInvs' => Move)
  <2>1. Coordinator
    BY <1>3, Zenon DEF Coordinator
  <2>2. settle(t, "Cancelled") /\ Idle /\ tstate[t] = "Ready"
    BY <1>3, Zenon DEF NativeCancelled
  <2>3. tstate[t] \notin Inert /\ cancelling = <<>> /\ OwnCancellation(t, "Cancelled")
    BY <1>3, <2>2 DEF Idle, Inert, Terminal, OwnCancellation
  <2> QED BY <1>0, <2>1, <2>2, <2>3, SettleMoves DEF Next
<1>4. ASSUME CancelNext PROVE Next /\ (SchedulerInvs' => Move)
  <2>1. Coordinator
    BY <1>4, Zenon DEF Coordinator
  <2> QED BY <1>0, <1>4, <2>1, CancelMoves DEF Next
<1> QED BY <1>1, <1>2, <1>3, <1>4, Zenon DEF Coordination

\* Every step between restarts is one.
LEMMA RestoreSteps ==
  ASSUME RestoreInv, SchedulerStep \/ TokenStep \/ TransferStep \/ UNCHANGED allVars PROVE Step
<1>0. SchedulerInvs /\ TreeInv
  BY DEF RestoreInv
<1>1. ASSUME NEW t \in TaskIds, TaskTurn(t), Bookkeeping("Await", t) PROVE Step
  BY <1>1, TurnMoves, BookedSteps
<1>2. ASSUME NEW pol \in GroupPolicies, NEW lim \in Limits, NEW ser \in SerialScopes, NEW jobs \in JobLists,
             StartGroup(NoTask, pol, lim, ser, jobs, {}), Bookkeeping("Await", NoTask)
      PROVE  Step
  <2>1. {} \in UnresolvedJobs(Len(jobs))
    BY DEF UnresolvedJobs
  <2>2. Coordinator
    BY <1>2, <2>1, Zenon DEF Coordinator
  <2>3. NoTask \in TaskIds \cup {NoTask}
    OBVIOUS
  <2>4. \E s, born : Launches(NoTask, "WaitScope", s, born)
    BY <1>0, <1>2, <2>3, GroupLaunches
  <2> QED BY <1>2, <2>2, <2>4, BookedSteps DEF Next
<1>3. ASSUME Coordination, Bookkeeping("Await", NoTask) PROVE Step
  BY <1>3, CoordinationMoves, BookedSteps
<1>4. CASE SchedulerStep
  BY <1>1, <1>2, <1>3, <1>4, Zenon DEF SchedulerStep
<1>5. CASE TokenStep
  <2>1. UNCHANGED <<vars, reference, parent>>
    BY <1>5, Zenon DEF TokenStep, BindContinuation, ResumeToken, DisposeToken
  <2> QED BY <2>1, StillSteps
<1>6. ASSUME NEW t \in TaskIds, NEW tok, RequeueToken(t, tok) PROVE Step
  <2>1. requeue(t) /\ Bookkeeping("Await", t)
    BY <1>6, Zenon DEF RequeueToken
  <2>2. TaskTurn(t)
    BY <2>1, Zenon DEF TaskTurn
  <2> QED BY <1>1, <2>1, <2>2
<1>7. ASSUME NEW t \in TaskIds, NEW tok, RefusedToken(t, tok) PROVE Step
  <2>1. Acts(t) /\ settle(t, "Failed") /\ Bookkeeping("Await", t) /\ "Failed" \in Terminal
    BY <1>7, Zenon DEF RefusedToken, Terminal
  <2>2. Finish(t, "Failed") /\ OwnCancellation(t, "Failed")
    BY <2>1 DEF Finish, Acts, Doomed, OwnCancellation
  <2>3. TaskTurn(t)
    BY <2>1, <2>2, Zenon DEF TaskTurn
  <2> QED BY <1>1, <2>1, <2>3
<1>8. ASSUME NEW t \in TaskIds, NEW tok, NEW u \in TaskIds, ParkToken(t, tok, u) PROVE Step
  <2>1. /\ HandleInScope(t, u) /\ Bookkeeping("Transfer", t)
        /\ await_task(t, u) \/ UNCHANGED vars
    BY <1>8, Zenon DEF ParkToken
  <2>2. CASE await_task(t, u)
    <3>1. TaskTurn(t)
      BY <2>1, <2>2, Zenon DEF TaskTurn
    <3> QED BY <2>1, <3>1, TurnMoves, BookedSteps
  <2>3. CASE UNCHANGED vars
    <3>1. Calm
      BY <2>3, Zenon DEF Calm, Rest
    <3>2. Steady({}) /\ UNCHANGED <<stop, cancelling>>
      BY <1>0, <2>3, <3>1, CalmSteady DEF SchedulerInvs, InboxInv, vars, taskVars, schedVars
    <3>3. Move
      BY <3>2 DEF Move, Pauses
    <3> QED BY <2>1, <2>3, <3>3, BookedSteps
  <2> QED BY <2>1, <2>2, <2>3
<1>9. CASE TransferStep
  BY <1>6, <1>7, <1>8, <1>9, Zenon DEF TransferStep
<1>10. CASE UNCHANGED allVars
  BY <1>10, StillSteps DEF allVars, restoreVars
<1> QED BY <1>4, <1>5, <1>9, <1>10

-----------------------------------------------------------------------------
(***************************************************************************)
(* What a settled scope reports                                            *)
(***************************************************************************)
\* Scope s has tasks, and all of them have settled.
Reporting(s) ==
  /\ s \in ScopeIds \ {Root} /\ s < next_scope
  /\ \A t \in TaskIds : scopeOf[t] = s => tstate[t] \in Inert
  /\ \E t \in TaskIds : scopeOf[t] = s /\ tstate[t] # "Unborn"

\* It reports an outcome of a task, and a cancellation only of one of its own and when it
\* has nothing else to report.
Reports(s, r) ==
  /\ r \in Terminal
  /\ r = "Cancelled" => ~Swept(s) /\ \E m \in TaskIds : scopeOf[m] = s /\ tstate[m] = "Cancelled"

AllReport == \A s \in ScopeIds : Reporting(s) => Reports(s, scope_outcome(s, tstate, winner[s], primary[s]))

\* Every policy reports so.
LEMMA ScopeReports == SchedulerInvs /\ ResultInv => AllReport
<1> SUFFICES ASSUME SchedulerInvs, ResultInv, NEW s \in ScopeIds, Reporting(s)
             PROVE  Reports(s, scope_outcome(s, tstate, winner[s], primary[s]))
  BY DEF AllReport
<1> DEFINE kinds == {tstate[t] : t \in Members(s, tstate)}
           pk == IF primary[s] = NoTask THEN "Error" ELSE tstate[primary[s]]
           ok == IF owner[s] = NoTask THEN "Error" ELSE tstate[owner[s]]
<1>1. scope_outcome(s, tstate, winner[s], primary[s])
        = Outcome(policy[s], kinds, primary[s], pk, ok, winner[s], tstate[winner[s]])
  BY Zenon DEF scope_outcome, Outcome
<1>2. /\ policy[s] \in Policies /\ owner[s] \in TaskIds \cup {NoTask}
      /\ winner[s] \in TaskIds \cup {NoTask} /\ primary[s] \in TaskIds \cup {NoTask}
  BY DEF SchedulerInvs, QueueInv, QueueTypes
<1>3. kinds \subseteq Terminal /\ kinds # {}
  BY DEF Members, Reporting, Inert
<1>4. primary[s] # NoTask => pk \in {"Raised", "Failed"}
  BY DEF SchedulerInvs, FailureInv, Bad
<1>5. primary[s] = NoTask => pk = "Error" /\ kinds \cap {"Raised", "Failed"} = {}
  BY DEF SchedulerInvs, FailureInv, Bad, Members
<1>6. policy[s] = "Run" => ok \in Terminal /\ ok \in kinds
  <2>1. policy[s] = "Run" => owner[s] # NoTask
    BY DEF ResultInv, Reporting
  <2>2. owner[s] # NoTask => scopeOf[owner[s]] = s /\ tstate[owner[s]] # "Unborn"
    BY DEF SchedulerInvs, RolesInv
  <2> QED BY <1>2, <1>3, <2>1, <2>2 DEF Members
<1>7. winner[s] # NoTask => tstate[winner[s]] = "Completed"
  BY DEF ResultInv
<1>8. policy[s] = "Race" /\ winner[s] = NoTask => "Completed" \notin kinds
  BY DEF ResultInv, Members
<1>9. "Cancelled" \in kinds => \E m \in TaskIds : scopeOf[m] = s /\ tstate[m] = "Cancelled"
  BY DEF Members
<1>10. Swept(s) => \/ policy[s] = "Race" /\ winner[s] # NoTask
                   \/ primary[s] # NoTask /\ (policy[s] = "Collect" => "Failed" \in kinds)
  BY DEF Swept, Members
<1>11. PICK k, a, b, w, p, pol, wk : k = kinds /\ a = pk /\ b = ok /\ w = winner[s] /\ p = primary[s] /\ pol = policy[s]
                                     /\ wk = tstate[winner[s]]
  OBVIOUS
<1> HIDE DEF kinds, pk, ok
<1>12. PICK r : r = Outcome(pol, k, p, a, b, w, wk)
  OBVIOUS
<1>13. r = scope_outcome(s, tstate, winner[s], primary[s])
  BY <1>1, <1>11, <1>12
<1>14. /\ k \subseteq Terminal /\ k # {} /\ (p # NoTask => a \in {"Raised", "Failed"})
       /\ (p = NoTask => a = "Error" /\ "Raised" \notin k /\ "Failed" \notin k)
       /\ (pol = "Run" => b \in Terminal /\ b \in k)
       /\ (w # NoTask => wk = "Completed") /\ (pol = "Race" /\ w = NoTask => "Completed" \notin k)
  BY <1>3, <1>4, <1>5, <1>6, <1>7, <1>8, <1>11
<1>15. settled(k)
  BY <1>14 DEF settled
<1>16. p = NoTask => joined(k) \in {"Completed", "Cancelled"} /\ (joined(k) = "Cancelled" => "Cancelled" \in k)
  BY <1>14 DEF joined, Terminal
<1>17. /\ r \in Terminal
       /\ r = "Cancelled" => "Cancelled" \in k /\ ~(pol = "Race" /\ w # NoTask)
                             /\ ~(p # NoTask /\ (pol = "Collect" => "Failed" \in k))
  <2>1. CASE pol = "Run"
    BY <1>12, <1>14, <1>15, <2>1 DEF Outcome, Terminal
  <2>2. CASE pol = "Join"
    BY <1>12, <1>14, <1>15, <1>16, <2>2 DEF Outcome, Terminal
  <2>3. CASE pol = "TryJoin"
    BY <1>12, <1>14, <1>15, <1>16, <2>3 DEF Outcome, Terminal
  <2>4. CASE pol = "Collect"
    BY <1>12, <1>14, <1>15, <2>4 DEF Outcome, Terminal
  <2>5. CASE pol = "Race"
    BY <1>12, <1>14, <1>15, <2>5 DEF Outcome, Terminal
  <2> QED BY <1>2, <1>11, <2>1, <2>2, <2>3, <2>4, <2>5 DEF Policies
<1> QED BY <1>9, <1>10, <1>11, <1>13, <1>17 DEF Reports

-----------------------------------------------------------------------------
(***************************************************************************)
(* What every step keeps                                                   *)
(***************************************************************************)
Persists ==
  /\ next_scope \in Nat /\ next_scope' \in Nat /\ next_scope <= next_scope'
  /\ \A t \in TaskIds : tstate[t] # "Unborn" => tstate'[t] # "Unborn" /\ scopeOf'[t] = scopeOf[t]
  /\ \A t \in TaskIds : tstate[t] \in Terminal => tstate'[t] = tstate[t]
  /\ \A x \in ScopeIds : x < next_scope => anc'[x] = anc[x] /\ policy'[x] = policy[x] /\ owner'[x] = owner[x]
  /\ \A x \in ScopeIds : (winner[x] # NoTask => winner'[x] = winner[x]) /\ (primary[x] # NoTask => primary'[x] # NoTask)

\* What a launch keeps.
LEMMA LaunchKeeps ==
  ASSUME RestoreInv, SchedulerInvs', NEW p, NEW st, NEW s, NEW born, Launches(p, st, s, born) PROVE Persists
<1>1. next_scope \in Nat /\ next_scope' \in Nat
  BY DEF RestoreInv, SchedulerInvs, QueueInv, QueueTypes
<1>2. next_scope <= next_scope'
  BY <1>1 DEF Launches
<1>3. st \in {"Running", "WaitScope"} /\ Grows(p, st, s, born)
  BY DEF Launches
<1>4. ASSUME NEW t \in TaskIds
      PROVE  /\ tstate[t] # "Unborn" => tstate'[t] # "Unborn" /\ scopeOf'[t] = scopeOf[t]
             /\ tstate[t] \in Terminal => tstate'[t] = tstate[t]
  BY <1>3 DEF Grows, Terminal
<1>5. \A x \in ScopeIds : x < next_scope => anc'[x] = anc[x] /\ policy'[x] = policy[x] /\ owner'[x] = owner[x]
  BY Zenon DEF Launches
<1>6. UNCHANGED <<winner, primary>>
  BY <1>3 DEF Grows
<1> QED BY <1>1, <1>2, <1>4, <1>5, <1>6 DEF Persists

\* A task that has settled stays so and no task is started or forgotten.
MoveKeeps ==
  /\ \A t \in TaskIds : tstate'[t] = "Unborn" <=> tstate[t] = "Unborn"
  /\ \A t \in TaskIds : tstate[t] \in Inert => tstate'[t] = tstate[t]
  /\ UNCHANGED <<taskShape, scopeShape>>

\* A settlement keeps the rest of the table.
LEMMA ConclusionKeeps ==
  ASSUME NEW t, NEW out, NEW F, NEW J, NEW r, Concludes(t, out, F, J, r) PROVE MoveKeeps
<1>1. /\ t \in TaskIds /\ out \in Terminal /\ tstate[t] \notin Inert /\ tstate'[t] = out
      /\ \A u \in TaskIds : u # t /\ tstate'[u] # tstate[u] => tstate'[u] = "Ready" /\ tstate[u] \notin Inert
      /\ UNCHANGED <<taskShape, scopeShape>>
  BY Zenon DEF Concludes
<1>2. "Ready" # "Unborn" /\ "Unborn" \notin Terminal /\ "Unborn" \in Inert /\ Terminal \subseteq Inert
  BY DEF Terminal, Inert
<1>3. ASSUME NEW u \in TaskIds
      PROVE  (tstate'[u] = "Unborn" <=> tstate[u] = "Unborn") /\ (tstate[u] \in Inert => tstate'[u] = tstate[u])
  BY <1>1, <1>2
<1> QED BY <1>1, <1>3 DEF MoveKeeps

\* So does a step that settles nobody.
LEMMA SteadyKeeps == ASSUME NEW W, Steady(W) PROVE MoveKeeps
<1>1. "Unborn" \in Inert
  BY DEF Inert
<1> QED BY <1>1 DEF Steady, MoveKeeps

\* What every other step keeps.
LEMMA MovesKeep == ASSUME RestoreInv, SchedulerInvs', Move PROVE MoveKeeps /\ Persists
<1>1. MoveKeeps
  BY ConclusionKeeps, SteadyKeeps, Zenon DEF Move, Pauses
<1>2. UNCHANGED <<next_scope, scopeOf, anc, policy, owner>>
  BY <1>1 DEF MoveKeeps, taskShape, scopeShape
<1>3. next_scope \in Nat
  BY DEF RestoreInv, SchedulerInvs, QueueInv, QueueTypes
<1>4. ASSUME NEW x \in ScopeIds, winner[x] # NoTask PROVE winner'[x] = winner[x]
  <2>1. ASSUME NEW t, NEW out, NEW F, NEW J, NEW r, Concludes(t, out, F, J, r), Finishes(t, out)
        PROVE  winner'[x] = winner[x]
    <3>1. \/ winner' = winner
          \/ winner[scopeOf[t]] = NoTask /\ winner' = [winner EXCEPT ![scopeOf[t]] = t]
      BY <2>1 DEF Finishes
    <3> QED BY <1>4, <3>1 DEF RestoreInv, SchedulerInvs, QueueInv, QueueTypes
  <2>2. ASSUME NEW t, Cancels(t) PROVE winner'[x] = winner[x]
    BY <2>2 DEF Cancels
  <2>3. ASSUME NEW W, Steady(W) PROVE winner'[x] = winner[x]
    BY <2>3 DEF Steady
  <2> QED BY <2>1, <2>2, <2>3, Zenon DEF Move, Pauses
<1>5. ASSUME NEW x \in ScopeIds, primary[x] # NoTask PROVE primary'[x] # NoTask
  <2>1. PICK p \in TaskIds : scopeOf[p] = x /\ tstate[p] \in Bad
    BY <1>5 DEF RestoreInv, SchedulerInvs, FailureInv
  <2>2. tstate'[p] = tstate[p] /\ scopeOf'[p] = x
    BY <1>1, <1>2, <2>1 DEF MoveKeeps, Bad, Inert, Terminal
  <2> QED BY <2>1, <2>2 DEF SchedulerInvs, FailureInv
<1>6. \A t \in TaskIds : tstate[t] \in Terminal => tstate'[t] = tstate[t]
  BY <1>1 DEF MoveKeeps, Inert
<1>7. \A t \in TaskIds : tstate[t] # "Unborn" => tstate'[t] # "Unborn" /\ scopeOf'[t] = scopeOf[t]
  BY <1>1, <1>2 DEF MoveKeeps
<1>8. Persists
  BY <1>2, <1>3, <1>4, <1>5, <1>6, <1>7 DEF Persists
<1> QED BY <1>1, <1>8

-----------------------------------------------------------------------------
(***************************************************************************)
(* The tree, the parents and the waiting tasks                             *)
(***************************************************************************)
\* Owner is a scope there is.
LEMMA OwnerExists ==
  ASSUME SchedulerInvs, TreeInv, NEW p \in TaskIds \cup {NoTask}, p \in TaskIds => tstate[p] = "Running"
  PROVE  /\ Owner(p) \in ScopeIds /\ Owner(p) \in Nat /\ Owner(p) < next_scope /\ next_scope \in Nat
         /\ p \in TaskIds => Owner(p) = scopeOf[p]
<1>1. next_scope \in 1..MaxScopes /\ scopeOf \in [TaskIds -> ScopeIds] /\ NoTask \notin TaskIds
  BY SchedulerConstants DEF SchedulerInvs, QueueInv, QueueTypes, NoTask, TaskIds
<1>2. Root \in ScopeIds /\ Root < next_scope /\ next_scope \in Nat
  BY <1>1, SchedulerConstants DEF Root, ScopeIds
<1>3. p \in TaskIds => scopeOf[p] < next_scope /\ scopeOf[p] \in ScopeIds
  BY <1>1 DEF TreeInv
<1>4. \A x \in ScopeIds : x \in Nat
  BY SchedulerConstants DEF ScopeIds
<1> QED BY <1>1, <1>2, <1>3, <1>4 DEF Owner

\* A launch keeps the scopes a tree: a new scope is a child of the one it is started from.
LEMMA LaunchTree ==
  ASSUME RestoreInv, SchedulerInvs', NEW p, NEW st, NEW s, NEW born, Launches(p, st, s, born) PROVE TreeInv'
<1>0. SchedulerInvs /\ TreeInv /\ Persists /\ Grows(p, st, s, born) /\ p \in TaskIds \cup {NoTask}
  BY LaunchKeeps DEF RestoreInv, Launches
<1>1. p \in TaskIds => tstate[p] = "Running"
  BY <1>0 DEF Grows
<1>2. PICK o \in ScopeIds : o = Owner(p) /\ o < next_scope /\ o \in Nat /\ (p \in TaskIds => o = scopeOf[p])
  BY <1>0, <1>1, OwnerExists
<1>3. anc' \in [ScopeIds -> SUBSET ScopeIds] /\ next_scope' <= MaxScopes /\ next_scope \in Nat
  BY <1>0 DEF Launches, TreeInv, Persists
<1>4. \A x \in ScopeIds : x \in Nat
  BY SchedulerConstants DEF ScopeIds
<1>5. ASSUME NEW x \in ScopeIds, x < next_scope
      PROVE  x \in anc'[x] /\ \A a \in anc'[x] : a <= x /\ anc'[a] \subseteq anc'[x]
  <2>1. anc'[x] = anc[x] /\ x \in anc[x] /\ anc[x] \subseteq ScopeIds
    BY <1>0, <1>5 DEF Persists, TreeInv
  <2>2. ASSUME NEW a \in anc[x] PROVE a <= x /\ anc'[a] \subseteq anc[x]
    <3>1. a \in ScopeIds /\ a <= x /\ anc[a] \subseteq anc[x]
      BY <1>0, <1>5, <2>1, <2>2 DEF TreeInv
    <3>2. a < next_scope
      BY <1>3, <1>4, <1>5, <3>1
    <3> QED BY <1>0, <3>1, <3>2 DEF Persists
  <2> QED BY <2>1, <2>2
<1>6. ASSUME s = next_scope, anc'[s] = {s} \cup anc[Owner(p)], s \in ScopeIds
      PROVE  s \in anc'[s] /\ \A a \in anc'[s] : a <= s /\ anc'[a] \subseteq anc'[s]
  <2>1. ASSUME NEW a \in anc[o] PROVE a <= s /\ anc'[a] \subseteq anc[o]
    <3>1. anc'[o] = anc[o] /\ a <= o /\ anc'[a] \subseteq anc'[o] /\ a \in ScopeIds
      <4>1. anc'[o] = anc[o] /\ anc[o] \subseteq ScopeIds
        BY <1>0, <1>2 DEF Persists, TreeInv
      <4> QED BY <1>2, <1>5, <2>1, <4>1
    <3>2. a <= s
      <4>1. a \in Nat /\ s \in Nat /\ o \in Nat /\ a <= o
        BY <1>2, <1>4, <1>6, <3>1
      <4>2. o < s
        BY <1>2, <1>6
      <4> QED BY <4>1, <4>2
    <3> QED BY <3>1, <3>2
  <2>2. s <= s
    BY <1>4, <1>6
  <2> QED BY <1>2, <1>6, <2>1, <2>2
<1>7. (next_scope' = next_scope /\ s = scopeOf[p] /\ p \in TaskIds)
      \/ (s = next_scope /\ next_scope' = s + 1 /\ anc'[s] = {s} \cup anc[Owner(p)])
  BY DEF Launches
<1>8. s \in ScopeIds
  BY <1>0 DEF Grows
<1>9. ASSUME NEW x \in ScopeIds, x < next_scope' PROVE x < next_scope \/ (x = s /\ s = next_scope)
  BY <1>3, <1>4, <1>7, <1>9
<1>10. \A x \in ScopeIds : x < next_scope' => x \in anc'[x] /\ \A a \in anc'[x] : a <= x /\ anc'[a] \subseteq anc'[x]
  <2> SUFFICES ASSUME NEW x \in ScopeIds, x < next_scope'
               PROVE  x \in anc'[x] /\ \A a \in anc'[x] : a <= x /\ anc'[a] \subseteq anc'[x]
    OBVIOUS
  <2>1. CASE x < next_scope
    BY <1>5, <2>1
  <2>2. CASE x = s /\ s = next_scope /\ ~(x < next_scope)
    <3>1. anc'[s] = {s} \cup anc[Owner(p)]
      <4>1. ~(next_scope' = next_scope)
        BY <2>2
      <4> QED BY <1>7, <4>1
    <3> QED BY <1>6, <1>8, <2>2, <3>1
  <2> QED BY <1>9, <2>1, <2>2
<1>11. s # Root /\ s < next_scope'
  <2>1. CASE s = scopeOf[p] /\ p \in TaskIds /\ next_scope' = next_scope
    BY <1>0, <1>1, <2>1 DEF TreeInv
  <2>2. CASE s = next_scope /\ next_scope' = s + 1
    <3>1. next_scope # 0
      BY <1>0 DEF SchedulerInvs, QueueInv, QueueTypes
    <3> QED BY <1>3, <2>2, <3>1 DEF Root
  <2> QED BY <1>7, <2>1, <2>2
<1>12. ASSUME NEW t \in TaskIds, tstate'[t] # "Unborn" PROVE scopeOf'[t] # Root /\ scopeOf'[t] < next_scope'
  <2>1. CASE t \in born
    BY <1>0, <1>11, <2>1 DEF Grows
  <2>2. CASE t \notin born
    <3>1. tstate[t] # "Unborn" /\ scopeOf'[t] = scopeOf[t]
      BY <1>0, <1>1, <1>12, <2>2 DEF Grows
    <3>2. scopeOf[t] # Root /\ scopeOf[t] < next_scope /\ scopeOf[t] \in Nat
      BY <1>0, <1>4, <3>1 DEF TreeInv, SchedulerInvs, QueueInv, QueueTypes
    <3>3. next_scope \in Nat /\ next_scope' \in Nat /\ next_scope <= next_scope'
      BY <1>0 DEF Persists
    <3> QED BY <3>1, <3>2, <3>3
  <2> QED BY <2>1, <2>2
<1> QED BY <1>3, <1>10, <1>12 DEF TreeInv

\* No other step touches it.
LEMMA MoveTree == ASSUME RestoreInv, MoveKeeps PROVE TreeInv'
<1>1. UNCHANGED <<anc, scopeOf, next_scope>> /\ \A t \in TaskIds : tstate'[t] = "Unborn" <=> tstate[t] = "Unborn"
  BY DEF MoveKeeps, taskShape, scopeShape
<1> QED BY <1>1 DEF RestoreInv, TreeInv

\* A new task is started by an earlier one, from a scope above.
LEMMA LaunchParents ==
  ASSUME RestoreInv, SchedulerInvs', NEW p, NEW st, NEW s, NEW born, Launches(p, st, s, born), SaveParents(p)
  PROVE  ParentInv'
<1>0. SchedulerInvs /\ TreeInv /\ ParentInv /\ Persists /\ Grows(p, st, s, born) /\ p \in TaskIds \cup {NoTask}
  BY LaunchKeeps DEF RestoreInv, Launches
<1>1. p \in TaskIds => tstate[p] = "Running"
  BY <1>0 DEF Grows
<1>2. PICK o \in ScopeIds : o = Owner(p) /\ o < next_scope /\ (p \in TaskIds => o = scopeOf[p])
  BY <1>0, <1>1, OwnerExists
<1>3. \A t \in TaskIds : parent'[t] = IF t \in born THEN p ELSE parent[t]
  BY <1>0, Zenon DEF SaveParents, Grows
<1>4. parent' \in [TaskIds -> TaskIds \cup {NoTask}]
  <2>1. DOMAIN parent' = TaskIds /\ parent' = [t \in TaskIds |-> parent'[t]]
    BY DEF SaveParents
  <2> QED BY <1>0, <1>3, <2>1 DEF ParentInv
<1>5. \A t \in TaskIds : tstate[t] # "Unborn" => tstate'[t] # "Unborn" /\ anc'[scopeOf'[t]] = anc[scopeOf[t]]
  <2>1. scopeOf \in [TaskIds -> ScopeIds]
    BY <1>0 DEF SchedulerInvs, QueueInv, QueueTypes
  <2>2. \A t \in TaskIds : tstate[t] # "Unborn" => scopeOf[t] < next_scope
    BY <1>0 DEF TreeInv
  <2> QED BY <1>0, <2>1, <2>2 DEF Persists
<1>6. ASSUME NEW t \in born, p \in TaskIds
      PROVE  p < t /\ tstate'[t] # "Unborn" /\ tstate'[p] # "Unborn" /\ anc'[scopeOf'[p]] \subseteq anc'[scopeOf'[t]]
  <2>1. p < t /\ t \in TaskIds /\ tstate'[t] = "Ready" /\ scopeOf'[t] = s
    BY <1>0, <1>6 DEF Launches, Grows
  <2>2. tstate'[p] # "Unborn" /\ anc'[scopeOf'[p]] = anc[o]
    BY <1>1, <1>2, <1>5, <1>6
  <2>3. anc[o] \subseteq anc'[s]
    BY <1>2, <1>6 DEF Launches
  <2> QED BY <2>1, <2>2, <2>3
<1>7. ASSUME NEW t \in TaskIds, parent'[t] # NoTask
      PROVE  /\ parent'[t] < t /\ tstate'[t] # "Unborn" /\ tstate'[parent'[t]] # "Unborn"
             /\ anc'[scopeOf'[parent'[t]]] \subseteq anc'[scopeOf'[t]]
  <2>1. CASE t \in born
    <3>1. parent'[t] = p /\ p \in TaskIds
      BY <1>0, <1>3, <1>7, <2>1
    <3> QED BY <1>6, <2>1, <3>1
  <2>2. CASE t \notin born
    <3>1. PICK q \in TaskIds : q = parent[t] /\ parent'[t] = q
      BY <1>0, <1>3, <1>7, <2>2 DEF ParentInv
    <3>2. q < t /\ tstate[t] # "Unborn" /\ tstate[q] # "Unborn" /\ anc[scopeOf[q]] \subseteq anc[scopeOf[t]]
      BY <1>0, <1>7, <3>1 DEF ParentInv
    <3> QED BY <1>5, <3>1, <3>2
  <2> QED BY <2>1, <2>2
<1> QED BY <1>4, <1>7 DEF ParentInv

\* No other step starts a task.
LEMMA MoveParents == ASSUME RestoreInv, MoveKeeps, parent' = parent PROVE ParentInv'
<1>1. UNCHANGED <<anc, scopeOf>> /\ \A t \in TaskIds : tstate'[t] = "Unborn" <=> tstate[t] = "Unborn"
  BY DEF MoveKeeps, taskShape, scopeShape
<1> QED BY <1>1 DEF RestoreInv, ParentInv

\* Who starts a group waits for the new scope, which is just below its own.
LEMMA LaunchWaits ==
  ASSUME RestoreInv, SchedulerInvs', NEW p, NEW st, NEW s, NEW born, Launches(p, st, s, born)
  PROVE  WaitInv'
<1>0. SchedulerInvs /\ TreeInv /\ WaitInv /\ Persists /\ Grows(p, st, s, born) /\ p \in TaskIds \cup {NoTask}
  BY LaunchKeeps DEF RestoreInv, Launches
<1>1. p \in TaskIds => tstate[p] = "Running"
  BY <1>0 DEF Grows
<1>2. PICK o \in ScopeIds : o = Owner(p) /\ o < next_scope /\ (p \in TaskIds => o = scopeOf[p])
  BY <1>0, <1>1, OwnerExists
<1>5. \A t \in TaskIds : tstate[t] # "Unborn" => scopeOf'[t] = scopeOf[t] /\ anc'[scopeOf'[t]] = anc[scopeOf[t]]
  <2>1. scopeOf \in [TaskIds -> ScopeIds]
    BY <1>0 DEF SchedulerInvs, QueueInv, QueueTypes
  <2>2. \A t \in TaskIds : tstate[t] # "Unborn" => scopeOf[t] < next_scope
    BY <1>0 DEF TreeInv
  <2> QED BY <1>0, <2>1, <2>2 DEF Persists
<1>6. ASSUME NEW t \in TaskIds, tstate'[t] = "WaitTask"
      PROVE  target'[t] \in TaskIds /\ scopeOf'[target'[t]] \in anc'[scopeOf'[t]]
  <2>1. tstate[t] = "WaitTask" /\ t # p
    BY <1>0, <1>6 DEF Grows, Launches
  <2>2. target'[t] = target[t]
    <3>1. target' = target \/ target' = [u \in TaskIds |-> IF u = p THEN s ELSE target[u]]
      BY DEF Launches
    <3> QED BY <2>1, <3>1
  <2>3. PICK u \in TaskIds : u = target[t] /\ scopeOf[u] \in anc[scopeOf[t]] /\ tstate[u] \notin Inert
    BY <1>0, <2>1 DEF WaitInv, SchedulerInvs, QueueInv, AwaitListed
  <2>4. tstate[u] # "Unborn" /\ tstate[t] # "Unborn"
    BY <2>1, <2>3 DEF Inert
  <2> QED BY <1>5, <2>2, <2>3, <2>4
<1>7. ASSUME NEW t \in TaskIds, tstate'[t] = "WaitScope"
      PROVE  /\ target'[t] \in ScopeIds \ {Root} /\ target'[t] < next_scope'
             /\ anc'[target'[t]] = {target'[t]} \cup anc'[scopeOf'[t]]
  <2>1. CASE t = p
    <3>1. tstate[t] = "Running" /\ p \in TaskIds
      BY <1>1, <1>7, <2>1
    <3>2. st = "WaitScope"
      BY <1>0, <1>7, <2>1, <3>1 DEF Grows
    <3>3. s = next_scope /\ next_scope' = s + 1 /\ anc'[s] = {s} \cup anc[Owner(p)] /\ target'[p] = s
      BY <3>1, <3>2 DEF Launches
    <3>4. s \in ScopeIds \ {Root} /\ s < next_scope'
      BY <1>0, <3>3 DEF Grows, SchedulerInvs, QueueInv, QueueTypes, Root
    <3> QED BY <1>2, <1>5, <2>1, <3>1, <3>3, <3>4
  <2>2. CASE t # p
    <3>1. tstate[t] = "WaitScope"
      BY <1>0, <1>7, <2>2 DEF Grows
    <3>2. target'[t] = target[t]
      <4>1. target' = target \/ target' = [u \in TaskIds |-> IF u = p THEN s ELSE target[u]]
        BY DEF Launches
      <4> QED BY <2>2, <4>1
    <3>3. PICK x \in ScopeIds : x = target[t] /\ x # Root /\ x < next_scope /\ anc[x] = {x} \cup anc[scopeOf[t]]
      BY <1>0, <3>1 DEF WaitInv
    <3>4. anc'[x] = anc[x]
      BY <1>0, <3>3 DEF Persists
    <3>5. x < next_scope'
      BY <1>0, <3>3, SchedulerConstants DEF Persists, ScopeIds
    <3> QED BY <1>5, <3>1, <3>2, <3>3, <3>4, <3>5
  <2> QED BY <2>1, <2>2
<1> QED BY <1>6, <1>7 DEF WaitInv

\* What waits after a move waited before, or begins to as a handle allows.
LEMMA MoveWaits == ASSUME RestoreInv, Move PROVE WaitInv'
<1>0. MoveKeeps
  BY ConclusionKeeps, SteadyKeeps, Zenon DEF Move, Pauses
<1>1. UNCHANGED <<anc, scopeOf, next_scope>>
  BY <1>0 DEF MoveKeeps, taskShape, scopeShape
<1>2. ASSUME \A t \in TaskIds : tstate'[t] \in {"WaitTask", "WaitScope"} =>
               \/ tstate'[t] = tstate[t] /\ target'[t] = target[t]
               \/ tstate'[t] = "WaitTask" /\ target'[t] \in TaskIds /\ scopeOf[target'[t]] \in anc[scopeOf[t]]
      PROVE  WaitInv'
  <2>1. ASSUME NEW t \in TaskIds, tstate'[t] = "WaitTask"
        PROVE  target'[t] \in TaskIds /\ scopeOf[target'[t]] \in anc[scopeOf[t]]
    BY <1>2, <2>1 DEF RestoreInv, WaitInv
  <2>2. ASSUME NEW t \in TaskIds, tstate'[t] = "WaitScope" PROVE tstate[t] = "WaitScope" /\ target'[t] = target[t]
    BY <1>2, <2>2
  <2>3. ASSUME NEW t \in TaskIds, tstate'[t] = "WaitScope"
        PROVE  /\ target'[t] \in ScopeIds \ {Root} /\ target'[t] < next_scope
               /\ anc[target'[t]] = {target'[t]} \cup anc[scopeOf[t]]
    BY <2>2, <2>3 DEF RestoreInv, WaitInv
  <2> QED BY <1>1, <2>1, <2>3 DEF WaitInv
<1>3. ASSUME NEW t, NEW out, NEW F, NEW J, NEW r, Concludes(t, out, F, J, r) PROVE WaitInv'
  <2>1. ASSUME NEW u \in TaskIds, tstate'[u] \in {"WaitTask", "WaitScope"} PROVE tstate'[u] = tstate[u] /\ target'[u] = target[u]
    <3>1. u # t
      BY <1>3, <2>1 DEF Concludes, Terminal
    <3>2. u \notin F \cup J
      BY <1>3, <2>1 DEF Concludes
    <3>3. tstate'[u] = tstate[u]
      BY <1>3, <2>1, <3>1 DEF Concludes
    <3>4. target'[u] = target[u]
      BY <1>3, <3>1, <3>2 DEF Concludes
    <3> QED BY <3>3, <3>4
  <2> QED BY <1>2, <2>1
<1>4. ASSUME NEW W, Steady(W), \A u \in W \cap TaskIds : tstate'[u] = "WaitTask" /\ target'[u] \in TaskIds
                                                        /\ scopeOf[target'[u]] \in anc[scopeOf[u]]
      PROVE  WaitInv'
  <2>1. ASSUME NEW u \in TaskIds, tstate'[u] \in {"WaitTask", "WaitScope"}
        PROVE  \/ tstate'[u] = tstate[u] /\ target'[u] = target[u]
               \/ tstate'[u] = "WaitTask" /\ target'[u] \in TaskIds /\ scopeOf[target'[u]] \in anc[scopeOf[u]]
    BY <1>4, <2>1 DEF Steady
  <2> QED BY <1>2, <2>1
<1>5. ASSUME Steady({}) PROVE WaitInv'
  BY <1>4, <1>5
<1> QED BY <1>3, <1>4, <1>5, Zenon DEF Move, Pauses

\* A new scope has no winner yet, and its callback if it is to have one.
LEMMA LaunchResults ==
  ASSUME RestoreInv, SchedulerInvs', NEW p, NEW st, NEW s, NEW born, Launches(p, st, s, born)
  PROVE  ResultInv'
<1>0. SchedulerInvs /\ TreeInv /\ ResultInv /\ Persists /\ Grows(p, st, s, born)
  BY LaunchKeeps DEF RestoreInv, Launches
<1>1. /\ next_scope \in Nat /\ winner \in [ScopeIds -> TaskIds \cup {NoTask}]
      /\ \A x \in ScopeIds : x \in Nat
      /\ \A t \in TaskIds : scopeOf[t] < next_scope
  BY <1>0, SchedulerConstants DEF SchedulerInvs, QueueInv, QueueTypes, ScopeIds
<1>2. UNCHANGED winner
  BY <1>0 DEF Grows
<1>3. ASSUME NEW x \in ScopeIds, policy'[x] = "Run", x # Root, x < next_scope' PROVE owner'[x] # NoTask
  <2>1. CASE x < next_scope
    BY <1>0, <1>3, <2>1 DEF Persists, ResultInv
  <2>2. CASE ~(x < next_scope)
    <3>1. s = next_scope /\ next_scope' = s + 1 /\ (policy'[s] = "Run" => owner'[s] # NoTask)
      <4>1. next_scope' # next_scope
        BY <1>3, <2>2
      <4> QED BY <4>1 DEF Launches
    <3>2. x = s
      BY <1>1, <1>3, <2>2, <3>1
    <3> QED BY <1>3, <3>1, <3>2
  <2> QED BY <2>1, <2>2
<1>4. ASSUME NEW x \in ScopeIds, winner'[x] # NoTask PROVE tstate'[winner'[x]] = "Completed"
  BY <1>0, <1>1, <1>2, <1>4 DEF ResultInv, Persists, Terminal
<1>5. ASSUME NEW x \in ScopeIds, policy'[x] = "Race", winner'[x] = NoTask, NEW t \in TaskIds, scopeOf'[t] = x
      PROVE  tstate'[t] # "Completed"
  <2>1. SUFFICES ASSUME tstate'[t] = "Completed" PROVE FALSE
    OBVIOUS
  <2>2. t \notin born /\ tstate[t] = "Completed" /\ scopeOf[t] = x
    BY <1>0, <1>5, <2>1 DEF Grows, Launches
  <2>3. policy[x] = "Race"
    BY <1>0, <1>1, <1>5, <2>2 DEF Persists
  <2> QED BY <1>0, <1>2, <1>5, <2>2, <2>3 DEF ResultInv
<1> QED BY <1>3, <1>4, <1>5 DEF ResultInv

\* The first task of a race that completes is its winner.
LEMMA MoveResults == ASSUME RestoreInv, SchedulerInvs', Move PROVE ResultInv'
<1>0. SchedulerInvs /\ ResultInv /\ MoveKeeps /\ Persists
  BY MovesKeep DEF RestoreInv
<1>1. UNCHANGED <<policy, owner, scopeOf, next_scope>>
  BY <1>0 DEF MoveKeeps, taskShape, scopeShape
<1>2. winner \in [ScopeIds -> TaskIds \cup {NoTask}] /\ scopeOf \in [TaskIds -> ScopeIds] /\ NoTask \notin TaskIds
  <2>1. NoTask \notin TaskIds
    BY SchedulerConstants DEF NoTask, TaskIds
  <2> QED BY <1>0, <2>1 DEF SchedulerInvs, QueueInv, QueueTypes
<1>3. ASSUME \A x \in ScopeIds : winner'[x] # winner[x] => winner'[x] \in TaskIds /\ tstate'[winner'[x]] = "Completed",
             \A u \in TaskIds : tstate'[u] = "Completed" =>
               tstate[u] = "Completed" \/ ~(policy[scopeOf[u]] = "Race" /\ winner'[scopeOf[u]] = NoTask)
      PROVE  ResultInv'
  <2>1. ASSUME NEW x \in ScopeIds, winner'[x] # NoTask PROVE tstate'[winner'[x]] = "Completed"
    <3>1. CASE winner'[x] = winner[x]
      BY <1>0, <1>2, <2>1, <3>1 DEF ResultInv, Persists, Terminal
    <3>2. CASE winner'[x] # winner[x]
      BY <1>3, <3>2
    <3> QED BY <3>1, <3>2
  <2>2. ASSUME NEW x \in ScopeIds, policy[x] = "Race", winner'[x] = NoTask, NEW t \in TaskIds, scopeOf[t] = x
        PROVE  tstate'[t] # "Completed"
    <3>1. winner[x] = NoTask
      BY <1>0, <2>2 DEF Persists
    <3>2. tstate[t] # "Completed"
      BY <1>0, <2>2, <3>1 DEF ResultInv
    <3> QED BY <1>3, <2>2, <3>2
  <2>3. \A x \in ScopeIds : policy'[x] = "Run" /\ x # Root /\ x < next_scope' => owner'[x] # NoTask
    BY <1>0, <1>1 DEF ResultInv
  <2> QED BY <1>1, <2>1, <2>2, <2>3 DEF ResultInv
<1>4. ASSUME NEW t, NEW out, NEW F, NEW J, NEW r, Concludes(t, out, F, J, r), Finishes(t, out) PROVE ResultInv'
  <2>1. t \in TaskIds /\ tstate'[t] = out
    BY <1>4 DEF Concludes
  <2>2. PICK s \in ScopeIds : s = scopeOf[t]
    BY <1>2, <2>1
  <2>3. winner' = IF out = "Completed" /\ policy[s] = "Race" /\ winner[s] = NoTask THEN [winner EXCEPT ![s] = t] ELSE winner
    BY <1>4, <2>2 DEF Finishes
  <2>4. \A x \in ScopeIds : winner'[x] # winner[x] => winner'[x] \in TaskIds /\ tstate'[winner'[x]] = "Completed"
    BY <1>2, <2>1, <2>3
  <2>5. ASSUME NEW u \in TaskIds, tstate'[u] = "Completed", tstate[u] # "Completed"
        PROVE  ~(policy[scopeOf[u]] = "Race" /\ winner'[scopeOf[u]] = NoTask)
    <3>1. u = t
      BY <1>4, <2>5 DEF Concludes
    <3> QED BY <1>2, <2>1, <2>2, <2>3, <2>5, <3>1
  <2> QED BY <1>3, <2>4, <2>5
<1>5. ASSUME NEW t, NEW F, NEW J, NEW r, Concludes(t, "Cancelled", F, J, r), Cancels(t) PROVE ResultInv'
  <2>1. winner' = winner
    BY <1>5 DEF Cancels
  <2>2. \A u \in TaskIds : tstate'[u] = "Completed" => tstate[u] = "Completed"
    BY <1>5 DEF Concludes
  <2> QED BY <1>3, <2>1, <2>2
<1>6. ASSUME NEW W, Steady(W) PROVE ResultInv'
  <2>1. winner' = winner
    BY <1>6 DEF Steady
  <2>2. \A u \in TaskIds : tstate'[u] = "Completed" => tstate[u] = "Completed"
    BY <1>6 DEF Steady, Inert, Terminal
  <2> QED BY <1>3, <2>1, <2>2
<1> QED BY <1>4, <1>5, <1>6, Zenon DEF Move, Pauses

-----------------------------------------------------------------------------
(***************************************************************************)
(* Who is told to stop                                                     *)
(***************************************************************************)
\* A swept scope stays so when everything alive below it is still condemned.
LEMMA SweptKept ==
  ASSUME RestoreInv, Persists, NEW x, Swept(x), x < next_scope,
         \A t \in TaskIds : tstate'[t] \notin Inert /\ x \in anc'[scopeOf'[t]] => t \in Condemned'
  PROVE  Swept(x)'
<1>1. x \in ScopeIds \ {Root}
  BY DEF Swept
<1>2. policy'[x] = policy[x] /\ (winner[x] # NoTask => winner'[x] # NoTask) /\ (primary[x] # NoTask => primary'[x] # NoTask)
  BY <1>1 DEF Persists
<1>3. ASSUME NEW t \in TaskIds, scopeOf[t] = x, tstate[t] = "Failed" PROVE scopeOf'[t] = x /\ tstate'[t] = "Failed"
  BY <1>3 DEF Persists, Terminal
<1>4. \/ policy'[x] = "Race" /\ winner'[x] # NoTask
      \/ primary'[x] # NoTask /\ (policy'[x] = "Collect" => \E t \in TaskIds : scopeOf'[t] = x /\ tstate'[t] = "Failed")
  BY <1>2, <1>3 DEF Swept
<1> QED BY <1>1, <1>4 DEF Swept

\* The scope above a condemned task that is swept, with what it takes to keep it.
LEMMA SweptAbove ==
  ASSUME RestoreInv, Persists, NEW t \in Condemned
  PROVE  /\ t \in TaskIds /\ tstate'[t] # "Unborn"
         /\ \E x \in anc'[scopeOf'[t]] : Swept(x) /\ x \in ScopeIds \ {Root} /\ x < next_scope
<1>1. t \in TaskIds /\ tstate[t] # "Unborn"
  <2>1. Entries(cancelling) \subseteq TaskIds
    BY DEF RestoreInv, StopInv, Entries
  <2> QED BY <2>1 DEF RestoreInv, StopInv, Condemned
<1>2. PICK x \in anc[scopeOf[t]] : Swept(x)
  BY DEF RestoreInv, StopInv
<1>3. scopeOf[t] \in ScopeIds /\ scopeOf[t] < next_scope /\ scopeOf'[t] = scopeOf[t] /\ tstate'[t] # "Unborn"
  BY <1>1 DEF RestoreInv, TreeInv, SchedulerInvs, QueueInv, QueueTypes, Persists
<1>4. anc'[scopeOf'[t]] = anc[scopeOf[t]]
  BY <1>3 DEF Persists
<1>5. x <= scopeOf[t] /\ x \in ScopeIds \ {Root}
  BY <1>2, <1>3 DEF RestoreInv, TreeInv, Swept
<1>6. x < next_scope
  BY <1>3, <1>5, SchedulerConstants DEF Persists, ScopeIds
<1> QED BY <1>1, <1>2, <1>3, <1>4, <1>5, <1>6

\* A launch is below no swept scope: the task that starts others has not been told to stop.
LEMMA LaunchStops ==
  ASSUME RestoreInv, SchedulerInvs', NEW p, NEW st, NEW s, NEW born, Launches(p, st, s, born)
  PROVE  StopInv'
<1>0. SchedulerInvs /\ TreeInv /\ StopInv /\ Persists /\ Grows(p, st, s, born) /\ p \in TaskIds \cup {NoTask}
  BY LaunchKeeps DEF RestoreInv, Launches
<1>1. p \in TaskIds => tstate[p] = "Running"
  BY <1>0 DEF Grows
<1>2. PICK o \in ScopeIds : o = Owner(p) /\ o < next_scope /\ o \in Nat /\ next_scope \in Nat /\ (p \in TaskIds => o = scopeOf[p])
  BY <1>0, <1>1, OwnerExists
<1>3. cancelling = <<>> /\ (p \in TaskIds => ~stop[p]) /\ UNCHANGED <<stop, cancelling>>
  BY DEF Launches
<1>4. Condemned' = Condemned /\ Condemned = {t \in TaskIds : stop[t]}
  <2>1. Entries(<<>>) = {}
    BY DEF Entries
  <2> QED BY <1>3, <2>1 DEF Condemned
<1>5. ASSUME NEW x \in ScopeIds \ {Root}, Swept(x), x < next_scope PROVE Swept(x)'
  <2>1. ASSUME NEW t \in TaskIds, tstate'[t] \notin Inert, x \in anc'[scopeOf'[t]] PROVE t \in Condemned
    <3>1. CASE t \notin born
      <4>1. tstate[t] \notin Inert /\ scopeOf'[t] = scopeOf[t]
        BY <1>0, <1>1, <2>1, <3>1 DEF Grows, Inert, Terminal
      <4>2. anc'[scopeOf'[t]] = anc[scopeOf[t]]
        <5>1. tstate[t] # "Unborn"
          BY <4>1 DEF Inert
        <5> QED BY <1>0, <4>1, <5>1 DEF Persists, TreeInv, SchedulerInvs, QueueInv, QueueTypes
      <4> QED BY <1>5, <2>1, <4>1, <4>2 DEF Swept
    <3>2. CASE t \in born
      <4>1. scopeOf'[t] = s
        BY <1>0, <2>1, <3>2 DEF Grows
      <4>2. x \in anc[o]
        <5>1. CASE s = scopeOf[p] /\ p \in TaskIds
          <6>1. anc'[o] = anc[o]
            BY <1>0, <1>2 DEF Persists
          <6> QED BY <1>2, <2>1, <4>1, <5>1, <6>1
        <5>2. CASE s = next_scope /\ anc'[s] = {s} \cup anc[Owner(p)]
          <6>1. x # s
            BY <1>2, <1>5, <5>2, SchedulerConstants DEF ScopeIds
          <6> QED BY <1>2, <2>1, <4>1, <5>2, <6>1
        <5> QED BY <5>1, <5>2 DEF Launches
      <4>3. p \in TaskIds
        <5>1. ASSUME p = NoTask PROVE FALSE
          <6>1. o = Root
            BY <1>2, <5>1 DEF Owner
          <6>2. x <= Root
            BY <1>0, <1>2, <4>2, <6>1 DEF TreeInv
          <6> QED BY <1>5, <6>2, SchedulerConstants DEF Root, ScopeIds
        <5> QED BY <1>0, <5>1
      <4>4. p \in Condemned
        BY <1>1, <1>2, <1>5, <4>2, <4>3 DEF Swept, Inert, Terminal
      <4> QED BY <1>3, <1>4, <4>3, <4>4
    <3> QED BY <3>1, <3>2
  <2> QED BY <1>0, <1>4, <1>5, <2>1, SweptKept
<1>6. ASSUME NEW t \in Condemned PROVE tstate'[t] # "Unborn" /\ \E x \in anc'[scopeOf'[t]] : Swept(x)'
  BY <1>0, <1>5, <1>6, SweptAbove
<1>7. ASSUME NEW t \in TaskIds, tstate'[t] = "Cancelled" PROVE stop'[t]
  <2>1. tstate[t] = "Cancelled"
    BY <1>0, <1>7 DEF Grows, Launches
  <2> QED BY <1>0, <1>3, <2>1 DEF StopInv
<1>8. ASSUME NEW t \in TaskIds, inbox'[t] = <<"Cancelled">> PROVE t \in Condemned
  <2>1. inbox[t] = <<"Cancelled">>
    <3>1. inbox'[t] = IF t = p THEN <<>> ELSE inbox[t]
      BY DEF Launches
    <3>2. <<"Cancelled">> # <<>>
      OBVIOUS
    <3> QED BY <1>8, <3>1, <3>2
  <2> QED BY <1>0, <2>1 DEF StopInv
<1>9. stop' \in [TaskIds -> BOOLEAN] /\ cancelling' \in Seq(TaskIds)
  BY <1>0, <1>3 DEF StopInv
<1> QED BY <1>4, <1>6, <1>7, <1>8, <1>9 DEF StopInv

\* What a move has to do for the rest of StopInv.
LEMMA MoveStops ==
  ASSUME RestoreInv, MoveKeeps, Persists, stop' \in [TaskIds -> BOOLEAN], cancelling' \in Seq(TaskIds),
         \A t \in TaskIds : tstate[t] \notin Inert /\ t \in Condemned => t \in Condemned',
         \A t \in Condemned' : t \in Condemned \/ (t \in TaskIds /\ tstate'[t] # "Unborn" /\ \E x \in anc[scopeOf[t]] : Swept(x)')
  PROVE  \A t \in Condemned' : tstate'[t] # "Unborn" /\ \E x \in anc'[scopeOf'[t]] : Swept(x)'
<1>1. UNCHANGED <<scopeOf, anc>>
  BY DEF MoveKeeps, taskShape, scopeShape
<1>2. \A t \in TaskIds : tstate'[t] \notin Inert => tstate[t] \notin Inert
  BY DEF MoveKeeps
<1>3. ASSUME NEW x \in ScopeIds \ {Root}, Swept(x), x < next_scope PROVE Swept(x)'
  <2>1. \A t \in TaskIds : tstate'[t] \notin Inert /\ x \in anc'[scopeOf'[t]] => t \in Condemned'
    BY <1>1, <1>2, <1>3 DEF Swept
  <2> QED BY <1>3, <2>1, SweptKept
<1>4. ASSUME NEW t \in Condemned PROVE tstate'[t] # "Unborn" /\ \E x \in anc'[scopeOf'[t]] : Swept(x)'
  BY <1>3, <1>4, SweptAbove
<1> QED BY <1>1, <1>4

\* Who hears of a cancellation waits below a swept scope, and so is condemned itself.
LEMMA CancelledHeard ==
  ASSUME RestoreInv, SchedulerInvs', ResultInv', MoveKeeps,
         NEW t, NEW out, NEW F, NEW J, NEW r, Concludes(t, out, F, J, r),
         \A u \in TaskIds : tstate[u] \notin Inert /\ u \in Condemned => u \in Condemned',
         \A u \in Condemned' : \E x \in anc'[scopeOf'[u]] : Swept(x)',
         \A u \in TaskIds : tstate'[u] = "Cancelled" => stop'[u]
  PROVE  \A u \in TaskIds : inbox'[u] = <<"Cancelled">> => u \in Condemned'
<1>0. UNCHANGED <<scopeOf, anc, next_scope>>
  BY DEF MoveKeeps, taskShape, scopeShape
<1>1. \A u \in TaskIds : tstate'[u] = "Cancelled" => u \in Condemned'
  BY DEF Condemned
<1>2. SUFFICES ASSUME NEW u \in TaskIds, inbox'[u] = <<"Cancelled">> PROVE u \in Condemned'
  OBVIOUS
<1>3. t \in TaskIds /\ tstate[t] \notin Inert /\ tstate'[t] = out /\ out \in Terminal
  BY DEF Concludes
<1>4. inbox'[u] = IF u \in F THEN <<out>> ELSE IF u \in J THEN <<r>> ELSE IF u = t THEN <<>> ELSE inbox[u]
  BY DEF Concludes
<1>5. \A a : <<a>> = <<"Cancelled">> => a = "Cancelled"
  OBVIOUS
<1>6. CASE u \in F
  <2>1. out = "Cancelled"
    BY <1>2, <1>4, <1>5, <1>6
  <2>2. PICK x \in anc[scopeOf[t]] : Swept(x)'
    BY <1>0, <1>1, <1>3, <2>1
  <2>3. tstate[u] = "WaitTask" /\ target[u] = t /\ tstate'[u] = "Ready"
    BY <1>6 DEF Concludes
  <2>4. scopeOf[t] \in anc[scopeOf[u]]
    BY <2>3 DEF RestoreInv, WaitInv
  <2>5. anc[scopeOf[t]] \subseteq anc[scopeOf[u]]
    <3>1. scopeOf[u] \in ScopeIds /\ scopeOf[u] < next_scope
      BY <2>3 DEF RestoreInv, TreeInv, SchedulerInvs, QueueInv, QueueTypes
    <3> QED BY <2>4, <3>1 DEF RestoreInv, TreeInv
  <2> QED BY <1>0, <2>2, <2>3, <2>5 DEF Swept, Inert, Terminal
<1>7. CASE u \in J /\ u \notin F
  <2>0. PICK s \in ScopeIds \ {Root} : s = scopeOf[t] /\ s < next_scope
    BY <1>3 DEF RestoreInv, TreeInv, SchedulerInvs, QueueInv, QueueTypes, Inert
  <2>1. r = "Cancelled"
    BY <1>2, <1>4, <1>5, <1>7
  <2>2. /\ \A v \in TaskIds : scopeOf[v] = s => tstate'[v] \in Inert
        /\ r = scope_outcome(scopeOf[t], tstate, winner[scopeOf[t]], primary[scopeOf[t]])'
    BY <1>7, <2>0 DEF Concludes
  <2>3. r = scope_outcome(s, tstate, winner[s], primary[s])'
    BY <1>0, <2>0, <2>2
  <2>4. Reporting(s)'
    <3>1. tstate'[t] # "Unborn"
      BY <1>3 DEF Terminal
    <3> QED BY <1>0, <1>3, <2>0, <2>2, <3>1 DEF Reporting
  <2>5. AllReport'
    BY ScopeReports, PTL
  <2>6. Reports(s, scope_outcome(s, tstate, winner[s], primary[s]))'
    BY <2>4, <2>5 DEF AllReport
  <2>7. ~Swept(s)' /\ \E m \in TaskIds : scopeOf'[m] = s /\ tstate'[m] = "Cancelled"
    BY <2>1, <2>3, <2>6 DEF Reports
  <2>8. PICK m \in TaskIds : scopeOf[m] = s /\ tstate'[m] = "Cancelled"
    BY <1>0, <2>7
  <2>9. PICK x \in anc[s] : Swept(x)'
    BY <1>0, <1>1, <2>8
  <2>10. tstate[u] = "WaitScope" /\ target[u] = s /\ tstate'[u] = "Ready"
    BY <1>7, <2>0 DEF Concludes
  <2>11. anc[s] = {s} \cup anc[scopeOf[u]]
    BY <2>10 DEF RestoreInv, WaitInv
  <2>12. x \in anc[scopeOf[u]]
    BY <2>7, <2>9, <2>11
  <2> QED BY <1>0, <2>9, <2>10, <2>12 DEF Swept, Inert, Terminal
<1>8. CASE u \notin F \cup J
  <2>1. u # t /\ inbox[u] = <<"Cancelled">>
    <3>1. <<"Cancelled">> # <<>>
      OBVIOUS
    <3> QED BY <1>2, <1>4, <1>8, <3>1
  <2>2. u \in Condemned /\ tstate[u] \in {"Ready", "Running"}
    <3>1. inbox[u] # <<>>
      BY <2>1
    <3> QED BY <2>1, <3>1 DEF RestoreInv, StopInv, SchedulerInvs, InboxInv
  <2> QED BY <2>2 DEF Inert, Terminal
<1> QED BY <1>6, <1>7, <1>8

\* A task that settles of its own condemns what is alive below its scope, if its policy says so.
LEMMA FinishStops ==
  ASSUME RestoreInv, SchedulerInvs', ResultInv', MoveKeeps, Persists,
         NEW t, NEW out, NEW F, NEW J, NEW r, Concludes(t, out, F, J, r), Finishes(t, out)
  PROVE  StopInv'
<1>0. /\ UNCHANGED <<scopeOf, anc, policy>> /\ stop \in [TaskIds -> BOOLEAN] /\ stop' = stop /\ cancelling = <<>>
      /\ StopInv /\ SchedulerInvs /\ winner \in [ScopeIds -> TaskIds \cup {NoTask}] /\ NoTask \notin TaskIds
  <2>1. UNCHANGED <<scopeOf, anc, policy>>
    BY DEF MoveKeeps, taskShape, scopeShape
  <2>2. stop' = stop /\ cancelling = <<>>
    BY Zenon DEF Finishes
  <2>3. StopInv /\ SchedulerInvs /\ stop \in [TaskIds -> BOOLEAN]
    BY DEF RestoreInv, StopInv
  <2>4. winner \in [ScopeIds -> TaskIds \cup {NoTask}] /\ NoTask \notin TaskIds
    BY SchedulerConstants DEF RestoreInv, SchedulerInvs, QueueInv, QueueTypes, NoTask, TaskIds
  <2> QED BY <2>1, <2>2, <2>3, <2>4
<1>1. t \in TaskIds /\ tstate[t] \notin Inert /\ tstate'[t] = out /\ out \in Terminal
  BY DEF Concludes
<1>2. PICK s \in ScopeIds \ {Root} : s = scopeOf[t]
  BY <1>1 DEF RestoreInv, TreeInv, SchedulerInvs, QueueInv, QueueTypes, Inert
<1>3. PICK q, U, c : q = cancelling' /\ U = Unsettled(s, tstate') /\ (c <=> CancelsScope(t, out))
  OBVIOUS
<1>4. q \in IF c THEN CancelOrder(U) ELSE {<<>>}
  BY <1>2, <1>3 DEF Finishes
<1>5. U = {u \in TaskIds : tstate'[u] \notin Inert /\ s \in anc[scopeOf[u]]}
  BY <1>3 DEF Unsettled
<1>6. q \in Seq(TaskIds) /\ Entries(q) = IF c THEN U ELSE {}
  <2>1. Entries(<<>>) = {} /\ <<>> \in Seq(TaskIds)
    BY DEF Entries
  <2>2. U \in SUBSET TaskIds
    BY <1>5
  <2> QED BY <1>4, <2>1, <2>2, CancelListed
<1>7. Condemned = {u \in TaskIds : stop[u]} /\ Condemned' = Condemned \cup Entries(q)
  <2>1. Entries(<<>>) = {}
    BY DEF Entries
  <2> QED BY <1>0, <1>3, <2>1 DEF Condemned
<1>8. ASSUME c PROVE Swept(s)'
  <2>1. \A u \in TaskIds : tstate'[u] \notin Inert /\ s \in anc'[scopeOf'[u]] => u \in Condemned'
    BY <1>0, <1>5, <1>6, <1>7, <1>8
  <2>2. \/ out = "Completed" /\ policy[s] = "Race" /\ winner[s] = NoTask
        \/ out = "Raised" /\ policy[s] \in {"Run", "Join", "TryJoin"}
        \/ out = "Failed"
    BY <1>1, <1>2, <1>3, <1>8 DEF CancelsScope, Terminal
  <2>3. ASSUME out \in {"Raised", "Failed"} PROVE primary'[s] # NoTask
    BY <1>0, <1>1, <1>2, <2>3 DEF SchedulerInvs, FailureInv, Bad
  <2>4. ASSUME out = "Completed", policy[s] = "Race", winner[s] = NoTask PROVE winner'[s] # NoTask
    <3>1. winner' = [winner EXCEPT ![s] = t]
      BY <1>2, <2>4 DEF Finishes
    <3> QED BY <1>0, <1>1, <3>1
  <2>5. \/ policy'[s] = "Race" /\ winner'[s] # NoTask
        \/ primary'[s] # NoTask /\ (policy'[s] = "Collect" => \E u \in TaskIds : scopeOf'[u] = s /\ tstate'[u] = "Failed")
    BY <1>0, <1>1, <1>2, <2>2, <2>3, <2>4
  <2> QED BY <2>1, <2>5 DEF Swept
<1>9. \A u \in TaskIds : tstate[u] \notin Inert /\ u \in Condemned => u \in Condemned'
  BY <1>7
<1>10. \A u \in Condemned' : u \in Condemned \/ (u \in TaskIds /\ tstate'[u] # "Unborn" /\ \E x \in anc[scopeOf[u]] : Swept(x)')
  BY <1>5, <1>6, <1>7, <1>8 DEF Inert
<1>11. stop' \in [TaskIds -> BOOLEAN] /\ cancelling' \in Seq(TaskIds)
  BY <1>0, <1>3, <1>6
<1>12. \A u \in Condemned' : tstate'[u] # "Unborn" /\ \E x \in anc'[scopeOf'[u]] : Swept(x)'
  BY <1>9, <1>10, <1>11, MoveStops
<1>13. ASSUME NEW u \in TaskIds, tstate'[u] = "Cancelled" PROVE stop'[u]
  <2>1. CASE u # t
    <3>1. tstate[u] = "Cancelled"
      BY <1>13, <2>1 DEF Concludes
    <3> QED BY <1>0, <3>1 DEF StopInv
  <2>2. CASE u = t
    <3>1. out = "Cancelled"
      BY <1>1, <1>13, <2>2
    <3>2. stop[t] \/ (inbox[t] # <<>> /\ Head(inbox[t]) = "Cancelled")
      BY <3>1 DEF Finishes, OwnCancellation
    <3>3. ASSUME inbox[t] # <<>>, Head(inbox[t]) = "Cancelled" PROVE stop[t]
      <4>1. PICK x : inbox[t] = <<x>>
        BY <1>0, <1>1, <3>3 DEF SchedulerInvs, InboxInv
      <4>2. Head(<<x>>) = x
        OBVIOUS
      <4>3. inbox[t] = <<"Cancelled">>
        BY <3>3, <4>1, <4>2
      <4>4. t \in Condemned
        BY <1>0, <1>1, <4>3 DEF StopInv
      <4> QED BY <1>7, <4>4
    <3> QED BY <1>0, <2>2, <3>2, <3>3
  <2> QED BY <2>1, <2>2
<1>14. \A u \in TaskIds : inbox'[u] = <<"Cancelled">> => u \in Condemned'
  BY <1>9, <1>12, <1>13, CancelledHeard
<1> QED BY <1>11, <1>12, <1>13, <1>14 DEF StopInv

\* The next of the condemned is told to stop.
LEMMA CancelCondemned ==
  ASSUME RestoreInv, NEW t, Cancels(t)
  PROVE  /\ t \in TaskIds /\ stop' \in [TaskIds -> BOOLEAN] /\ cancelling' \in Seq(TaskIds) /\ Condemned' \subseteq Condemned
         /\ \A u \in TaskIds : tstate[u] \notin Inert /\ u \in Condemned => u \in Condemned'
         /\ \A u \in TaskIds : stop[u] => stop'[u]
         /\ tstate[t] \notin Inert => stop'[t]
<1>1. stop \in [TaskIds -> BOOLEAN] /\ cancelling \in Seq(TaskIds) /\ cancelling # <<>>
  BY DEF RestoreInv, StopInv, Cancels
<1>2. /\ cancelling' = Tail(cancelling) /\ cancelling' \in Seq(TaskIds) /\ t \in TaskIds
      /\ Entries(cancelling) = {t} \cup Entries(cancelling')
  BY <1>1, HeadTaken DEF Cancels
<1>3. PICK b \in BOOLEAN : b <=> stop[t] \/ tstate[t] \notin Inert
  OBVIOUS
<1>4. stop' = [stop EXCEPT ![t] = b]
  <2>1. (stop[t] \/ tstate[t] \notin Inert) = b
    BY <1>3, Zenon
  <2>2. stop' = [stop EXCEPT ![t] = stop[t] \/ tstate[t] \notin Inert]
    BY Zenon DEF Cancels
  <2> QED BY <2>1, <2>2, Zenon
<1>5. stop' \in [TaskIds -> BOOLEAN]
  BY <1>1, <1>4
<1>6. \A u \in TaskIds : stop'[u] = IF u = t THEN b ELSE stop[u]
  BY <1>1, <1>4
<1>7. PICK A, B : A = Entries(cancelling) /\ B = Entries(cancelling')
  OBVIOUS
<1>8. Condemned = {u \in TaskIds : stop[u]} \cup A /\ Condemned' = {u \in TaskIds : stop'[u]} \cup B /\ A = {t} \cup B
  BY <1>2, <1>7 DEF Condemned
<1>9. Condemned' \subseteq Condemned
  BY <1>6, <1>8
<1>10. \A u \in TaskIds : tstate[u] \notin Inert /\ u \in Condemned => u \in Condemned'
  BY <1>3, <1>6, <1>8
<1> QED BY <1>2, <1>3, <1>5, <1>6, <1>9, <1>10

\* The next handle of a cancelled group: the task is told before it is taken off the list.
LEMMA CancelStops ==
  ASSUME RestoreInv, SchedulerInvs', ResultInv', MoveKeeps, Persists,
         NEW t, NEW F, NEW J, NEW r, Concludes(t, "Cancelled", F, J, r), Cancels(t)
  PROVE  StopInv'
<1>0. tstate[t] \notin Inert /\ StopInv
  BY DEF Concludes, RestoreInv
<1>1. /\ t \in TaskIds /\ stop' \in [TaskIds -> BOOLEAN] /\ cancelling' \in Seq(TaskIds) /\ Condemned' \subseteq Condemned
      /\ \A u \in TaskIds : tstate[u] \notin Inert /\ u \in Condemned => u \in Condemned'
      /\ (\A u \in TaskIds : stop[u] => stop'[u]) /\ stop'[t]
  BY <1>0, CancelCondemned
<1>2. \A u \in Condemned' : tstate'[u] # "Unborn" /\ \E x \in anc'[scopeOf'[u]] : Swept(x)'
  BY <1>1, MoveStops
<1>3. ASSUME NEW u \in TaskIds, tstate'[u] = "Cancelled" PROVE stop'[u]
  <2>1. u # t => tstate[u] = "Cancelled"
    BY <1>3 DEF Concludes
  <2> QED BY <1>0, <1>1, <2>1 DEF StopInv
<1>4. \A u \in TaskIds : inbox'[u] = <<"Cancelled">> => u \in Condemned'
  BY <1>1, <1>2, <1>3, CancelledHeard
<1> QED BY <1>1, <1>2, <1>3, <1>4 DEF StopInv

\* A wakeup is only taken when nobody settles.
LEMMA SteadyInboxes ==
  ASSUME SchedulerInvs, NEW W, Steady(W), NEW u \in TaskIds PROVE inbox'[u] = inbox[u] \/ inbox'[u] = <<>>
<1>1. inbox'[u] = inbox[u] \/ inbox'[u] = IF inbox[u] = <<>> THEN <<>> ELSE Tail(inbox[u])
  BY DEF Steady
<1>2. ASSUME inbox[u] # <<>> PROVE Tail(inbox[u]) = <<>>
  <2>1. PICK x : inbox[u] = <<x>>
    BY <1>2 DEF SchedulerInvs, InboxInv
  <2>2. Tail(<<x>>) = <<>>
    OBVIOUS
  <2> QED BY <2>1, <2>2
<1> QED BY <1>1, <1>2

\* A step in which nobody settles, and at most the next of the condemned is told so.
LEMMA SteadyStops ==
  ASSUME RestoreInv, MoveKeeps, Persists, NEW W, Steady(W),
         stop' \in [TaskIds -> BOOLEAN], cancelling' \in Seq(TaskIds), Condemned' \subseteq Condemned,
         \A u \in TaskIds : tstate[u] \notin Inert /\ u \in Condemned => u \in Condemned',
         \A u \in TaskIds : stop[u] => stop'[u]
  PROVE  StopInv'
<1>1. \A u \in Condemned' : tstate'[u] # "Unborn" /\ \E x \in anc'[scopeOf'[u]] : Swept(x)'
  BY MoveStops
<1>2. ASSUME NEW u \in TaskIds, tstate'[u] = "Cancelled" PROVE stop'[u]
  <2>1. tstate[u] = "Cancelled"
    BY <1>2 DEF Steady, Inert, Terminal
  <2> QED BY <2>1 DEF RestoreInv, StopInv
<1>3. ASSUME NEW u \in TaskIds, inbox'[u] = <<"Cancelled">> PROVE u \in Condemned'
  <2>1. inbox[u] = <<"Cancelled">> /\ inbox[u] # <<>>
    <3>1. <<"Cancelled">> # <<>>
      OBVIOUS
    <3> QED BY <1>3, <3>1, SteadyInboxes DEF RestoreInv
  <2>2. u \in Condemned /\ tstate[u] \in {"Ready", "Running"}
    BY <2>1 DEF RestoreInv, StopInv, SchedulerInvs, InboxInv
  <2> QED BY <2>2 DEF Inert, Terminal
<1> QED BY <1>1, <1>2, <1>3 DEF StopInv

\* Every step but a launch keeps what is known of the tasks that are told to stop.
LEMMA MovesStop == ASSUME RestoreInv, SchedulerInvs', Move PROVE StopInv'
<1>0. MoveKeeps /\ Persists /\ ResultInv'
  BY MovesKeep, MoveResults
<1>1. ASSUME NEW t, NEW out, NEW F, NEW J, NEW r, Concludes(t, out, F, J, r), Finishes(t, out) PROVE StopInv'
  BY <1>0, <1>1, FinishStops
<1>2. ASSUME NEW t, NEW F, NEW J, NEW r, Concludes(t, "Cancelled", F, J, r), Cancels(t) PROVE StopInv'
  BY <1>0, <1>2, CancelStops
<1>3. ASSUME NEW t, Steady({}), Cancels(t) PROVE StopInv'
  BY <1>0, <1>3, CancelCondemned, SteadyStops
<1>4. ASSUME NEW W, Pauses(W) PROVE StopInv'
  <2>1. Steady(W) /\ UNCHANGED <<stop, cancelling>>
    BY <1>4 DEF Pauses
  <2>2. Condemned' = Condemned
    BY <2>1 DEF Condemned
  <2>3. stop \in [TaskIds -> BOOLEAN] /\ cancelling \in Seq(TaskIds)
    BY DEF RestoreInv, StopInv
  <2> QED BY <1>0, <2>1, <2>2, <2>3, SteadyStops
<1> QED BY <1>1, <1>2, <1>3, <1>4, Zenon DEF Move

-----------------------------------------------------------------------------
(***************************************************************************)
(* What wakeups refer to                                                   *)
(***************************************************************************)
\* A wakeup stays true: what it is about has settled for good.
LEMMA ReferenceLasts ==
  ASSUME RestoreInv, SchedulerInvs', [Next]_vars, Persists, NEW ref \in [kind : {"Task", "Scope"}, id : Int], Settles(ref)
  PROVE  Settles(ref)' /\ RestoredOutcome(ref)' = RestoredOutcome(ref)
<1>1. CASE ref.kind = "Task"
  <2>1. ref.id \in TaskIds /\ tstate[ref.id] \in Terminal
    BY <1>1 DEF Settles
  <2>2. tstate'[ref.id] = tstate[ref.id]
    BY <2>1 DEF Persists
  <2> QED BY <1>1, <2>1, <2>2 DEF Settles, RestoredOutcome
<1>2. CASE ref.kind # "Task"
  <2>1. PICK s \in ScopeIds : s = ref.id /\ s < next_scope /\ \A t \in TaskIds : scopeOf[t] = s => tstate[t] \in Inert
    BY <1>2 DEF Settles
  <2>2. Frozen(s)
    BY <2>1, SettledFrozen DEF RestoreInv, SchedulerInvs
  <2>3. scope_outcome(s, tstate, winner[s], primary[s])' = scope_outcome(s, tstate, winner[s], primary[s])
    BY <2>2, FrozenOutcome DEF RestoreInv, SchedulerInvs
  <2>4. \A t \in TaskIds : scopeOf'[t] = s => tstate'[t] \in Inert
    <3>1. ASSUME NEW t \in TaskIds, scopeOf'[t] = s, tstate'[t] # "Unborn" PROVE tstate'[t] \in Inert
      BY <2>1, <2>2, <3>1 DEF Frozen
    <3> QED BY <3>1 DEF Inert
  <2>5. s < next_scope'
    BY <2>1, SchedulerConstants DEF Persists, ScopeIds
  <2>6. RestoredOutcome(ref) = scope_outcome(s, tstate, winner[s], primary[s])
    BY <1>2, <2>1 DEF RestoredOutcome
  <2>7. RestoredOutcome(ref)' = scope_outcome(s, tstate, winner[s], primary[s])'
    BY <1>2, <2>1 DEF RestoredOutcome
  <2> QED BY <1>2, <2>1, <2>3, <2>4, <2>5, <2>6, <2>7 DEF Settles
<1> QED BY <1>1, <1>2

\* What a task hears of one that it waited for.
LEMMA HeardOfTask ==
  ASSUME RestoreInv, NEW t, NEW out, NEW F, NEW J, NEW r, Concludes(t, out, F, J, r), NEW u \in F,
         NEW ref, ref = [kind |-> IF tstate[u] = "WaitTask" THEN "Task" ELSE "Scope", id |-> target[u]]
  PROVE  /\ ref \in [kind : {"Task", "Scope"}, id : Int] /\ Settles(ref)' /\ out = RestoredOutcome(ref)'
         /\ RestoredOutcome(ref)' \in Terminal
<1>1. t \in TaskIds /\ tstate'[t] = out /\ out \in Terminal /\ tstate[u] = "WaitTask" /\ target[u] = t
  BY DEF Concludes
<1>2. t \in Int
  BY <1>1, SchedulerConstants DEF TaskIds
<1>3. ref.kind = "Task" /\ ref.id = t /\ ref \in [kind : {"Task", "Scope"}, id : Int]
  BY <1>1, <1>2
<1>4. RestoredOutcome(ref)' = tstate'[t]
  BY <1>3 DEF RestoredOutcome
<1>5. Settles(ref)'
  BY <1>1, <1>3 DEF Settles
<1> QED BY <1>1, <1>3, <1>4, <1>5

\* What a task hears of a scope that it waited for.
LEMMA HeardOfScope ==
  ASSUME RestoreInv, SchedulerInvs', ResultInv', MoveKeeps,
         NEW t, NEW out, NEW F, NEW J, NEW r, Concludes(t, out, F, J, r), NEW u \in J,
         NEW ref, ref = [kind |-> IF tstate[u] = "WaitTask" THEN "Task" ELSE "Scope", id |-> target[u]]
  PROVE  /\ ref \in [kind : {"Task", "Scope"}, id : Int] /\ Settles(ref)' /\ r = RestoredOutcome(ref)'
         /\ RestoredOutcome(ref)' \in Terminal
<1>1. t \in TaskIds /\ tstate[t] \notin Inert /\ tstate'[t] = out /\ out \in Terminal
  BY DEF Concludes
<1>2. PICK s \in ScopeIds \ {Root} : s = scopeOf[t] /\ s < next_scope
  BY <1>1 DEF RestoreInv, TreeInv, SchedulerInvs, QueueInv, QueueTypes, Inert
<1>3. tstate[u] = "WaitScope" /\ target[u] = s
  BY <1>2 DEF Concludes
<1>4. s \in Int
  BY SchedulerConstants DEF ScopeIds
<1>5. ref.kind = "Scope" /\ ref.id = s /\ ref \in [kind : {"Task", "Scope"}, id : Int]
  BY <1>3, <1>4
<1>6. UNCHANGED <<scopeOf, next_scope>>
  BY DEF MoveKeeps, taskShape, scopeShape
<1>7. /\ \A v \in TaskIds : scopeOf[v] = s => tstate'[v] \in Inert
      /\ r = scope_outcome(scopeOf[t], tstate, winner[scopeOf[t]], primary[scopeOf[t]])'
  BY <1>2 DEF Concludes
<1>8. r = scope_outcome(s, tstate, winner[s], primary[s])'
  BY <1>2, <1>6, <1>7
<1>9. RestoredOutcome(ref)' = scope_outcome(s, tstate, winner[s], primary[s])'
  BY <1>5 DEF RestoredOutcome
<1>10. Reporting(s)'
  <2>1. tstate'[t] # "Unborn"
    BY <1>1 DEF Terminal
  <2> QED BY <1>1, <1>2, <1>6, <1>7, <2>1 DEF Reporting
<1>11. AllReport'
  BY ScopeReports, PTL
<1>12. scope_outcome(s, tstate, winner[s], primary[s])' \in Terminal
  BY <1>10, <1>11 DEF AllReport, Reports
<1>13. Settles(ref)'
  BY <1>2, <1>5, <1>6, <1>7 DEF Settles
<1> QED BY <1>5, <1>8, <1>9, <1>12, <1>13

\* A wakeup of u and what it is about, as ReferenceInv has it.
Referred(u) ==
  \/ inbox[u] = <<>> /\ reference[u] = <<>>
  \/ \E ref \in [kind : {"Task", "Scope"}, id : Int] :
       /\ reference[u] = <<ref>> /\ Settles(ref)
       /\ inbox[u] = <<RestoredOutcome(ref)>> /\ RestoredOutcome(ref) \in Terminal

\* Wakeups that stay or are taken.
LEMMA ReferencesKept ==
  ASSUME RestoreInv, SchedulerInvs', [Next]_vars, Persists, RefStep, NEW u \in TaskIds,
         inbox'[u] = inbox[u] \/ inbox'[u] = <<>>
  PROVE  Referred(u)'
<1>1. CASE inbox'[u] = <<>>
  BY <1>1 DEF RefStep, Referred
<1>2. CASE inbox'[u] = inbox[u] /\ inbox[u] # <<>>
  <2>1. PICK ref \in [kind : {"Task", "Scope"}, id : Int] :
          /\ reference[u] = <<ref>> /\ Settles(ref)
          /\ inbox[u] = <<RestoredOutcome(ref)>> /\ RestoredOutcome(ref) \in Terminal
    BY <1>2 DEF RestoreInv, ReferenceInv
  <2>2. Settles(ref)' /\ RestoredOutcome(ref)' = RestoredOutcome(ref)
    BY <2>1, ReferenceLasts
  <2>3. reference'[u] = reference[u]
    BY <1>2 DEF RefStep
  <2> QED BY <1>2, <2>1, <2>2, <2>3, Zenon DEF Referred
<1> QED BY <1>1, <1>2

\* Wakeups that a settlement delivers.
LEMMA ReferencesGiven ==
  ASSUME RestoreInv, SchedulerInvs', ResultInv', [Next]_vars, MoveKeeps, Persists, RefStep,
         NEW t, NEW out, NEW F, NEW J, NEW r, Concludes(t, out, F, J, r), NEW u \in TaskIds
  PROVE  Referred(u)'
<1>1. inbox'[u] = IF u \in F THEN <<out>> ELSE IF u \in J THEN <<r>> ELSE IF u = t THEN <<>> ELSE inbox[u]
  BY DEF Concludes
<1>2. PICK ref : ref = [kind |-> IF tstate[u] = "WaitTask" THEN "Task" ELSE "Scope", id |-> target[u]]
  OBVIOUS
<1>3. ASSUME u \in F \cup J, NEW x, inbox'[u] = <<x>> PROVE reference'[u] = <<ref>>
  <2>1. tstate[u] \in {"WaitTask", "WaitScope"}
    BY <1>3 DEF Concludes
  <2>2. inbox[u] = <<>>
    BY <2>1 DEF RestoreInv, SchedulerInvs, InboxInv
  <2> QED BY <1>2, <1>3, <2>2 DEF RefStep
<1>4. CASE u \in F
  <2>1. /\ ref \in [kind : {"Task", "Scope"}, id : Int] /\ Settles(ref)' /\ out = RestoredOutcome(ref)'
        /\ RestoredOutcome(ref)' \in Terminal
    BY <1>2, <1>4, HeardOfTask
  <2>2. inbox'[u] = <<out>> /\ reference'[u] = <<ref>>
    BY <1>1, <1>3, <1>4
  <2> QED BY <2>1, <2>2, Zenon DEF Referred
<1>5. CASE u \in J /\ u \notin F
  <2>1. /\ ref \in [kind : {"Task", "Scope"}, id : Int] /\ Settles(ref)' /\ r = RestoredOutcome(ref)'
        /\ RestoredOutcome(ref)' \in Terminal
    BY <1>2, <1>5, HeardOfScope
  <2>2. inbox'[u] = <<r>> /\ reference'[u] = <<ref>>
    BY <1>1, <1>3, <1>5
  <2> QED BY <2>1, <2>2, Zenon DEF Referred
<1>6. CASE u \notin F \cup J
  <2>1. inbox'[u] = inbox[u] \/ inbox'[u] = <<>>
    BY <1>1, <1>6
  <2> QED BY <2>1, ReferencesKept
<1> QED BY <1>4, <1>5, <1>6

\* Everything but the tokens is kept.
LEMMA StepKeeps ==
  ASSUME RestoreInv, Step
  PROVE  /\ SchedulerInvs' /\ ConcurrencyInv' /\ TreeInv' /\ ParentInv' /\ WaitInv' /\ StopInv' /\ ResultInv' /\ ReferenceInv'
         /\ Persists
<1>0. [Next]_vars /\ RefStep /\ SchedulerInvs' /\ ConcurrencyInv'
  BY NextInvs, NextBounded DEF Step, RestoreInv
<1>1. ASSUME \A u \in TaskIds : Referred(u)' PROVE ReferenceInv'
  BY <1>0, <1>1, Zenon DEF ReferenceInv, Referred, RefStep
<1>2. ASSUME NEW p, NEW st, NEW s, NEW born, Launches(p, st, s, born), SaveParents(p)
      PROVE  TreeInv' /\ ParentInv' /\ WaitInv' /\ StopInv' /\ ResultInv' /\ ReferenceInv' /\ Persists
  <2>1. Persists
    BY <1>0, <1>2, LaunchKeeps
  <2>2. \A u \in TaskIds : inbox'[u] = inbox[u] \/ inbox'[u] = <<>>
    BY <1>2 DEF Launches
  <2>3. ReferenceInv'
    BY <1>0, <1>1, <2>1, <2>2, ReferencesKept
  <2> QED BY <1>0, <1>2, <2>1, <2>3, LaunchTree, LaunchParents, LaunchWaits, LaunchStops, LaunchResults
<1>3. ASSUME Move, parent' = parent
      PROVE  TreeInv' /\ ParentInv' /\ WaitInv' /\ StopInv' /\ ResultInv' /\ ReferenceInv' /\ Persists
  <2>1. MoveKeeps /\ Persists /\ ResultInv' /\ StopInv'
    BY <1>0, <1>3, MovesKeep, MoveResults, MovesStop
  <2>2. ASSUME NEW t, NEW out, NEW F, NEW J, NEW r, Concludes(t, out, F, J, r) PROVE ReferenceInv'
    BY <1>0, <1>1, <2>1, <2>2, ReferencesGiven
  <2>3. ASSUME NEW W, Steady(W) PROVE ReferenceInv'
    <3>1. \A u \in TaskIds : inbox'[u] = inbox[u] \/ inbox'[u] = <<>>
      BY <2>3, SteadyInboxes DEF RestoreInv
    <3> QED BY <1>0, <1>1, <2>1, <3>1, ReferencesKept
  <2>4. ReferenceInv'
    BY <1>3, <2>2, <2>3, Zenon DEF Move, Pauses
  <2> QED BY <1>3, <2>1, <2>4, MoveTree, MoveParents, MoveWaits
<1> QED BY <1>0, <1>2, <1>3 DEF Step

-----------------------------------------------------------------------------
(***************************************************************************)
(* The tokens                                                              *)
(***************************************************************************)
\* An entry given up, or whose frames were taken.
Spent(e, x) == [owner |-> e.owner, origin |-> e.origin, frames |-> NoFrames, state |-> x]
Emptied(e, x) == [e EXCEPT !.state = x, !.frames = NoFrames]

\* The frames of a token are not the mark of frames that were taken.
LEMMA FramesDiffer == Frames # NoFrames
<1>1. [k |-> "Body"].k # [k |-> "Taken"].k
  OBVIOUS
<1>2. [k |-> "Body"] # [k |-> "Taken"]
  BY <1>1
<1>3. \A a, b : <<a>> = <<b>> => a = b
  OBVIOUS
<1> QED BY <1>2, <1>3 DEF Frames, NoFrames

\* An entry has four fields.
LEMMA EntryFields ==
  ASSUME NEW e, NEW given, EntryInv(e, given), NEW x \in ContinuationStates \ {"ArmOwned"}
  PROVE  /\ Emptied(e, x) = Spent(e, x)
         /\ Spent(e, x) \in [owner : ScopeIds, origin : TaskIds \cup {NoTask}, frames : {Frames, NoFrames},
                             state : ContinuationStates]
<1>1. e \in [owner : ScopeIds, origin : TaskIds \cup {NoTask}, frames : {Frames, NoFrames}, state : ContinuationStates]
  BY DEF EntryInv
<1>2. Emptied(e, x) = Spent(e, x)
  <2> DEFINE R == [owner : ScopeIds, origin : TaskIds \cup {NoTask}, frames : {Frames, NoFrames}, state : ContinuationStates]
  <2>1. PICK d : d = [e EXCEPT !.state = x]
    OBVIOUS
  <2>2. d \in R /\ d.owner = e.owner /\ d.origin = e.origin /\ d.state = x
    BY <1>1, <2>1
  <2>3. PICK f : f = [d EXCEPT !.frames = NoFrames]
    OBVIOUS
  <2>4. f \in R /\ f.owner = e.owner /\ f.origin = e.origin /\ f.state = x /\ f.frames = NoFrames
    BY <2>2, <2>3
  <2>5. Emptied(e, x) = f
    BY <2>1, <2>3, Zenon DEF Emptied
  <2>6. f = Spent(e, x)
    BY <2>4 DEF Spent
  <2> QED BY <2>5, <2>6
<1>3. Spent(e, x) \in [owner : ScopeIds, origin : TaskIds \cup {NoTask}, frames : {Frames, NoFrames}, state : ContinuationStates]
  BY <1>1 DEF Spent
<1> QED BY <1>2, <1>3

\* consume and dispose of token tok in arena A.
Taken(A, tok, x) == [A EXCEPT !.entries[tok].state = x, !.entries[tok].frames = NoFrames]

\* A is an arena with entries E, and tok is one of them.
HasEntry(A, n, E, tok) ==
  A = [next |-> n, entries |-> E] /\ tok \in DOMAIN E /\ E = [i \in DOMAIN E |-> E[i]]

\* The arena with n entries E, after entry tok became e.
Replaced(n, E, tok, e) == [next |-> n, entries |-> [E EXCEPT ![tok] = e]]

\* The two fields of the entry are replaced by replacing the entry.
LEMMA EntryReplaced ==
  ASSUME NEW A, NEW n, NEW E, NEW tok, HasEntry(A, n, E, tok), NEW x
  PROVE  Taken(A, tok, x) = Replaced(n, E, tok, Emptied(E[tok], x))
<1>0. A = [next |-> n, entries |-> E] /\ tok \in DOMAIN E /\ E = [i \in DOMAIN E |-> E[i]]
  BY DEF HasEntry
<1>1. A.entries = E
  BY <1>0
<1>2. PICK g, F : g = [E[tok] EXCEPT !.state = x] /\ F = [E EXCEPT ![tok] = g]
  OBVIOUS
<1>3. F[tok] = g
  BY <1>0, <1>2
<1>4. PICK B : B = [A EXCEPT !.entries = F]
  OBVIOUS
<1>5. B.entries = F
  BY <1>0, <1>4
<1>6. [A EXCEPT !.entries[tok].state = x] = B
  BY <1>1, <1>2, <1>4, Zenon
<1>7. Taken(A, tok, x) = [B EXCEPT !.entries[tok].frames = NoFrames]
  BY <1>6, Zenon DEF Taken
<1>8. PICK h, K : h = [g EXCEPT !.frames = NoFrames] /\ K = [E EXCEPT ![tok] = h]
  OBVIOUS
<1>9. [B EXCEPT !.entries[tok].frames = NoFrames] = [B EXCEPT !.entries = [F EXCEPT ![tok] = h]]
  BY <1>3, <1>5, <1>8, Zenon
<1>10. [F EXCEPT ![tok] = h] = K
  BY <1>0, <1>2, <1>8
<1>11. [B EXCEPT !.entries = K] = [next |-> n, entries |-> K]
  <2>1. B = [next |-> n, entries |-> F]
    BY <1>0, <1>4
  <2> QED BY <2>1
<1>12. K = [E EXCEPT ![tok] = Emptied(E[tok], x)]
  BY <1>2, <1>8, Zenon DEF Emptied
<1> QED BY <1>7, <1>9, <1>10, <1>11, <1>12, Zenon DEF Replaced

\* A step keeps the owner of an entry, and its origin in the table.
LEMMA EntryOwned ==
  ASSUME Persists, NEW e, NEW given, EntryInv(e, given)
  PROVE  e.owner < next_scope' /\ (e.origin # NoTask => tstate'[e.origin] # "Unborn")
<1>1. e.owner \in ScopeIds /\ e.origin \in TaskIds \cup {NoTask} /\ e.owner < next_scope
  BY DEF EntryInv
<1>2. e.origin # NoTask => tstate[e.origin] # "Unborn"
  BY DEF EntryInv
<1>3. e.owner < next_scope'
  BY <1>1, SchedulerConstants DEF Persists, ScopeIds
<1> QED BY <1>1, <1>2, <1>3 DEF Persists

\* A spent entry is a valid one, whether or not its frames were handed to its origin.
LEMMA SpentEntry ==
  ASSUME Persists, NEW e, NEW given, EntryInv(e, given), NEW x \in ContinuationStates \ {"ArmOwned"},
         NEW g \in {<<>>, <<e.origin>>}
  PROVE  EntryInv(Spent(e, x), g)'
<1>1. PICK d : d = Spent(e, x)
  OBVIOUS
<1>2. d \in [owner : ScopeIds, origin : TaskIds \cup {NoTask}, frames : {Frames, NoFrames}, state : ContinuationStates]
  BY <1>1, EntryFields
<1>3. d.owner = e.owner /\ d.origin = e.origin /\ d.frames = NoFrames /\ d.state = x
  BY <1>1 DEF Spent
<1>4. d.owner < next_scope' /\ (d.origin # NoTask => tstate'[d.origin] # "Unborn")
  BY <1>3, EntryOwned
<1>5. EntryInv(d, g)'
  BY <1>2, <1>3, <1>4, FramesDiffer DEF EntryInv
<1> QED BY <1>1, <1>5

\* An entry whose origin does not settle stays valid.
LEMMA SameEntry ==
  ASSUME Persists, NEW e, NEW given, EntryInv(e, given),
         e.state = "ArmOwned" /\ e.origin # NoTask => tstate'[e.origin] \notin Inert
  PROVE  EntryInv(e, given)'
<1>1. e.owner < next_scope' /\ (e.origin # NoTask => tstate'[e.origin] # "Unborn")
  BY EntryOwned
<1> QED BY <1>1 DEF EntryInv

\* What TokenInv says of an arena with n entries E.
Stored(n, E) ==
  /\ n \in Nat /\ n <= MaxTokens /\ arena = [next |-> n, entries |-> E] /\ E = [i \in 0..(n - 1) |-> E[i]]
  /\ DOMAIN handed = 0..(MaxTokens - 1)
  /\ \A i \in 0..(n - 1) : EntryInv(E[i], handed[i])
  /\ \A i \in 0..(MaxTokens - 1) : i >= n => handed[i] = <<>>

\* TokenInv says so of the arena.
LEMMA TokensStored == ASSUME TokenInv PROVE \E n, E : Stored(n, E)
<1>1. PICK n, E : n = arena.next /\ E = arena.entries
  OBVIOUS
<1>2. Stored(n, E)
  BY <1>1 DEF Stored, TokenInv, ArenaShape
<1> QED BY <1>2

\* An arena of which it holds after a step satisfies TokenInv then.
LEMMA StoredTokens ==
  ASSUME NEW n, NEW E, n \in Nat, n <= MaxTokens, arena' = [next |-> n, entries |-> E], E = [i \in 0..(n - 1) |-> E[i]],
         DOMAIN handed' = 0..(MaxTokens - 1), \A i \in 0..(n - 1) : EntryInv(E[i], handed[i])',
         \A i \in 0..(MaxTokens - 1) : i >= n => handed'[i] = <<>>
  PROVE  TokenInv'
<1>1. arena'.next = n /\ arena'.entries = E
  OBVIOUS
<1>2. ArenaShape(arena.next, arena.entries)'
  BY <1>1 DEF ArenaShape
<1>3. \A i \in 0..(arena'.next - 1) : EntryInv(arena.entries[i], handed[i])'
  BY <1>1
<1>4. \A i \in 0..(MaxTokens - 1) : i >= arena'.next => handed'[i] = <<>>
  BY <1>1
<1> QED BY <1>2, <1>3, <1>4 DEF TokenInv

\* terminal gives up what the tasks that end own.
LEMMA EndedTokens ==
  ASSUME RestoreInv, Persists, arena' = DisposeEnded(arena), UNCHANGED handed PROVE TokenInv'
<1>1. PICK n, E : Stored(n, E)
  BY TokensStored DEF RestoreInv
<1>2. /\ n \in Nat /\ n <= MaxTokens /\ arena = [next |-> n, entries |-> E] /\ E = [i \in 0..(n - 1) |-> E[i]]
      /\ DOMAIN handed = 0..(MaxTokens - 1) /\ \A i \in 0..(MaxTokens - 1) : i >= n => handed[i] = <<>>
  BY <1>1 DEF Stored
<1>3. arena.next = n /\ arena.entries = E /\ DOMAIN E = 0..(n - 1)
  BY <1>2
<1>0. PICK D : D = [i \in 0..(n - 1) |-> IF E[i].origin \in Ended /\ E[i].state = "ArmOwned" THEN Spent(E[i], "Disposed") ELSE E[i]]
  OBVIOUS
<1>4. ASSUME NEW i \in 0..(n - 1), E[i].origin \in Ended
      PROVE  DisposeOrigin(arena, E[i].origin).entries[i]
               = IF E[i].state = "ArmOwned" THEN Spent(E[i], "Disposed") ELSE E[i]
  <2>1. EntryInv(E[i], handed[i])
    BY <1>1 DEF Stored
  <2>2. Emptied(E[i], "Disposed") = Spent(E[i], "Disposed")
    BY <2>1, EntryFields DEF ContinuationStates
  <2>3. PICK o : o = E[i].origin
    OBVIOUS
  <2> DEFINE G == [j \in 0..(n - 1) |-> IF E[j].origin = o /\ E[j].state = "ArmOwned"
                                        THEN Emptied(E[j], "Disposed") ELSE E[j]]
  <2>4. DisposeOrigin(arena, o) = [arena EXCEPT !.entries = G]
    BY <1>3, Zenon DEF DisposeOrigin, Emptied
  <2>5. G[i] = IF E[i].state = "ArmOwned" THEN Spent(E[i], "Disposed") ELSE E[i]
    BY <2>2, <2>3
  <2> HIDE DEF G
  <2>6. [arena EXCEPT !.entries = G].entries = G
    BY <1>2
  <2> QED BY <2>3, <2>4, <2>5, <2>6
<1>5. arena' = [next |-> n, entries |-> D]
  <2> DEFINE H == [i \in 0..(n - 1) |-> IF E[i].origin \in Ended THEN DisposeOrigin(arena, E[i].origin).entries[i] ELSE E[i]]
  <2>1. arena' = [arena EXCEPT !.entries = H]
    BY <1>3, Zenon DEF DisposeEnded
  <2>2. H = D
    BY <1>0, <1>4
  <2> HIDE DEF H
  <2> QED BY <1>2, <2>1, <2>2
<1>6. ASSUME NEW i \in 0..(n - 1) PROVE EntryInv(D[i], handed[i])'
  <2>0. PICK e, g : e = E[i] /\ g = handed[i] /\ handed'[i] = g
    OBVIOUS
  <2>1. EntryInv(e, g)
    BY <1>1, <2>0 DEF Stored
  <2>2. CASE e.origin \in Ended /\ e.state = "ArmOwned"
    <3>1. D[i] = Spent(e, "Disposed")
      BY <1>0, <2>0, <2>2
    <3>2. g \in {<<>>, <<e.origin>>} /\ "Disposed" \in ContinuationStates \ {"ArmOwned"}
      BY <2>1 DEF EntryInv, ContinuationStates
    <3>3. EntryInv(Spent(e, "Disposed"), g)'
      BY <2>1, <3>2, SpentEntry
    <3> QED BY <2>0, <3>1, <3>3
  <2>3. CASE ~(e.origin \in Ended /\ e.state = "ArmOwned")
    <3>1. D[i] = e
      BY <1>0, <2>0, <2>3
    <3>2. ASSUME e.state = "ArmOwned", e.origin # NoTask PROVE tstate'[e.origin] \notin Inert
      <4>1. e.origin \in TaskIds /\ tstate[e.origin] \notin Inert /\ tstate[e.origin] # "Unborn"
        BY <2>1, <3>2 DEF EntryInv
      <4>2. tstate'[e.origin] \notin Terminal
        BY <2>3, <3>2, <4>1 DEF Ended, Inert
      <4>3. tstate'[e.origin] # "Unborn"
        BY <4>1 DEF Persists
      <4> QED BY <4>2, <4>3 DEF Inert
    <3>3. EntryInv(e, g)'
      BY <2>1, <3>2, SameEntry
    <3> QED BY <2>0, <3>1, <3>3
  <2> QED BY <2>2, <2>3
<1>7. D = [i \in 0..(n - 1) |-> D[i]]
  BY <1>0
<1> QED BY <1>2, <1>5, <1>6, <1>7, StoredTokens

\* Nobody settles and the entry tok, if any, is spent.
LEMMA SpentToken ==
  ASSUME RestoreInv, Persists, NEW n, NEW E, Stored(n, E), NEW tok \in 0..(n - 1),
         NEW x \in ContinuationStates \ {"ArmOwned"}, E[tok].state = "ArmOwned",
         \A u \in TaskIds : tstate[u] \notin Inert => tstate'[u] \notin Inert,
         arena' = Taken(arena, tok, x),
         handed' = handed \/ handed' = [handed EXCEPT ![tok] = Append(@, E[tok].origin)]
  PROVE  TokenInv'
<1>1. /\ n \in Nat /\ n <= MaxTokens /\ arena = [next |-> n, entries |-> E] /\ E = [i \in 0..(n - 1) |-> E[i]]
      /\ DOMAIN handed = 0..(MaxTokens - 1) /\ \A i \in 0..(MaxTokens - 1) : i >= n => handed[i] = <<>>
  BY DEF Stored
<1>2. \A i \in 0..(n - 1) : EntryInv(E[i], handed[i])
  BY DEF Stored
<1>3. PICK e : e = E[tok]
  OBVIOUS
<1>4. EntryInv(e, handed[tok]) /\ e.state = "ArmOwned"
  BY <1>2, <1>3
<1>5. Emptied(e, x) = Spent(e, x)
  BY <1>4, EntryFields
<1> DEFINE D == [E EXCEPT ![tok] = Spent(e, x)]
<1>6. arena' = [next |-> n, entries |-> D]
  <2>1. PICK A : A = arena
    OBVIOUS
  <2>2. HasEntry(A, n, E, tok)
    BY <1>1, <2>1 DEF HasEntry
  <2>3. Taken(A, tok, x) = Replaced(n, E, tok, Emptied(E[tok], x))
    BY <2>2, EntryReplaced
  <2>4. arena' = Taken(A, tok, x)
    BY <2>1
  <2> QED BY <1>3, <1>5, <2>3, <2>4, Zenon DEF Replaced
<1>7. tok \in 0..(MaxTokens - 1) /\ handed[tok] = <<>>
  <2>1. tok \in 0..(MaxTokens - 1)
    BY <1>1, RestoreConstants
  <2>2. handed[tok] = <<>>
    BY <1>4 DEF EntryInv
  <2> QED BY <2>1, <2>2
<1>8. /\ DOMAIN handed' = 0..(MaxTokens - 1) /\ handed'[tok] \in {<<>>, <<e.origin>>}
      /\ \A i \in 0..(MaxTokens - 1) : i # tok => handed'[i] = handed[i]
  <2>1. Append(<<>>, e.origin) = <<e.origin>>
    OBVIOUS
  <2> QED BY <1>1, <1>3, <1>7, <2>1
<1>9. ASSUME NEW i \in 0..(n - 1) PROVE EntryInv(D[i], handed[i])'
  <2>1. CASE i = tok
    <3>1. D[i] = Spent(e, x)
      BY <1>1, <2>1
    <3>2. PICK g : g = handed'[tok]
      OBVIOUS
    <3>3. g \in {<<>>, <<e.origin>>}
      BY <1>8, <3>2
    <3>4. PICK h : EntryInv(e, h)
      BY <1>4
    <3>5. EntryInv(Spent(e, x), g)'
      BY <3>3, <3>4, SpentEntry
    <3> QED BY <2>1, <3>1, <3>2, <3>5
  <2>2. CASE i # tok
    <3>1. PICK d, g : d = E[i] /\ g = handed[i]
      OBVIOUS
    <3>2. i \in 0..(MaxTokens - 1)
      BY <1>1, RestoreConstants
    <3>3. D[i] = d /\ handed'[i] = g
      BY <1>1, <1>8, <2>2, <3>1, <3>2
    <3>4. EntryInv(d, g)
      BY <1>2, <3>1
    <3>5. d.state = "ArmOwned" /\ d.origin # NoTask => tstate'[d.origin] \notin Inert
      BY <3>4 DEF EntryInv
    <3>6. EntryInv(d, g)'
      BY <3>4, <3>5, SameEntry
    <3> QED BY <3>3, <3>6
  <2> QED BY <2>1, <2>2
<1>10. D = [i \in 0..(n - 1) |-> D[i]]
  BY <1>1
<1>11. \A i \in 0..(MaxTokens - 1) : i >= n => handed'[i] = <<>>
  BY <1>1, <1>8
<1> HIDE DEF D
<1> QED BY <1>1, <1>6, <1>8, <1>9, <1>10, <1>11, StoredTokens

\* Nothing changes but the tokens: everything known of tasks and scopes is kept.
LEMMA StillKeeps == ASSUME RestoreInv, UNCHANGED vars PROVE Persists
<1>1. next_scope \in Nat
  BY SchedulerConstants DEF RestoreInv, SchedulerInvs, QueueInv, QueueTypes
<1>2. UNCHANGED <<next_scope, tstate, scopeOf, anc, policy, owner, winner, primary>>
  BY DEF vars, taskVars, scopeVars, schedVars
<1> QED BY <1>1, <1>2 DEF Persists

\* A fresh token has its frames, and an origin that runs.
LEMMA BoundToken ==
  ASSUME RestoreInv, NEW p \in TaskIds \cup {NoTask}, BindContinuation(p) PROVE TokenInv'
<1>1. PICK n, E : Stored(n, E)
  BY TokensStored DEF RestoreInv
<1>2. /\ n \in Nat /\ n <= MaxTokens /\ arena = [next |-> n, entries |-> E] /\ E = [i \in 0..(n - 1) |-> E[i]]
      /\ DOMAIN handed = 0..(MaxTokens - 1) /\ \A i \in 0..(MaxTokens - 1) : i >= n => handed[i] = <<>>
  BY <1>1 DEF Stored
<1>3. arena.next = n /\ arena.entries = E
  BY <1>2
<1>4. /\ IF p = NoTask THEN Caller(p) ELSE Acts(p)
      /\ n < MaxTokens /\ arena' = Allocate(arena, Owner(p), p, Frames) /\ UNCHANGED vars /\ UNCHANGED handed
  BY <1>3, Zenon DEF BindContinuation, TokenRoom, Owner
<1>5. Persists /\ UNCHANGED <<tstate, next_scope>>
  BY <1>4, StillKeeps DEF vars, taskVars, schedVars
<1>6. p \in TaskIds => tstate[p] = "Running"
  <2>1. NoTask \notin TaskIds
    BY SchedulerConstants DEF NoTask, TaskIds
  <2> QED BY <1>4, <2>1 DEF Acts, Running
<1>7. Owner(p) \in ScopeIds /\ Owner(p) < next_scope
  BY <1>6, OwnerExists DEF RestoreInv
<1>8. PICK o, e : o = Owner(p) /\ e = [owner |-> o, origin |-> p, frames |-> Frames, state |-> "ArmOwned"]
  OBVIOUS
<1> DEFINE D == [i \in 0..n |-> IF i = n THEN e ELSE E[i]]
<1>9. arena' = [next |-> n + 1, entries |-> D]
  BY <1>3, <1>4, <1>8, Zenon DEF Allocate
<1>10. EntryInv(e, <<>>)'
  <2>1. e \in [owner : ScopeIds, origin : TaskIds \cup {NoTask}, frames : {Frames, NoFrames}, state : ContinuationStates]
    BY <1>7, <1>8 DEF ContinuationStates
  <2>2. e.owner = o /\ e.origin = p /\ e.frames = Frames /\ e.state = "ArmOwned"
    BY <1>8
  <2>3. o < next_scope' /\ (p # NoTask => tstate'[p] = "Running")
    BY <1>5, <1>6, <1>7, <1>8
  <2>4. "Running" \notin Inert
    BY DEF Inert, Terminal
  <2> QED BY <2>1, <2>2, <2>3, <2>4 DEF EntryInv, Inert
<1>11. n + 1 \in Nat /\ n + 1 <= MaxTokens /\ n \in 0..(MaxTokens - 1) /\ (n + 1) - 1 = n
  BY <1>2, <1>4, RestoreConstants
<1>12. ASSUME NEW i \in 0..n PROVE EntryInv(D[i], handed[i])'
  <2>1. CASE i = n
    <3>1. D[i] = e /\ handed'[i] = <<>>
      BY <1>2, <1>4, <1>11, <2>1
    <3> QED BY <1>10, <3>1
  <2>2. CASE i # n
    <3>1. PICK d, g : d = E[i] /\ g = handed[i]
      OBVIOUS
    <3>2. i \in 0..(n - 1)
      BY <1>2, <2>2
    <3>3. D[i] = d /\ handed'[i] = g
      BY <1>4, <2>2, <3>1
    <3>4. EntryInv(d, g)
      BY <1>1, <3>1, <3>2 DEF Stored
    <3>5. d.state = "ArmOwned" /\ d.origin # NoTask => tstate'[d.origin] \notin Inert
      BY <1>5, <3>4 DEF EntryInv
    <3>6. EntryInv(d, g)'
      BY <1>5, <3>4, <3>5, SameEntry
    <3> QED BY <3>3, <3>6
  <2> QED BY <2>1, <2>2
<1>13. D = [i \in 0..((n + 1) - 1) |-> D[i]]
  BY <1>11
<1>14. \A i \in 0..(MaxTokens - 1) : i >= n + 1 => handed'[i] = <<>>
  BY <1>2, <1>4
<1>15. DOMAIN handed' = 0..(MaxTokens - 1) /\ \A i \in 0..((n + 1) - 1) : EntryInv(D[i], handed[i])'
  <2>1. 0..((n + 1) - 1) = 0..n
    BY <1>11
  <2> QED BY <1>2, <1>4, <1>12, <2>1
<1> HIDE DEF D
<1> QED BY <1>9, <1>11, <1>13, <1>14, <1>15, StoredTokens

\* A token that is accepted is its task's, and its arm owns it.
LEMMA AcceptedToken ==
  ASSUME NEW n, NEW E, Stored(n, E), NEW t, NEW tok, Accepts(t, tok)
  PROVE  tok \in 0..(n - 1) /\ E[tok].origin = t /\ E[tok].state = "ArmOwned"
<1>1. arena.entries = E /\ DOMAIN E = 0..(n - 1)
  BY DEF Stored
<1>2. Refusal(arena, tok, Owner(t), t) = "Accepted"
  BY DEF Accepts
<1>3. /\ tok \in DOMAIN arena.entries /\ arena.entries[tok].origin = t
      /\ arena.entries[tok].state = "ArmOwned"
  BY <1>2 DEF Refusal
<1> QED BY <1>1, <1>3

\* resume, finish, requeue and park, of a token that is accepted.
LEMMA UsedToken ==
  ASSUME RestoreInv, Persists, NEW t, NEW tok, Accepts(t, tok), NEW tr \in Transfers,
         \A u \in TaskIds : tstate[u] \notin Inert => tstate'[u] \notin Inert,
         \/ arena' = Consume(arena, tok, tr) /\ HandOut(t, tok)
         \/ arena' = Dispose(arena, tok) /\ UNCHANGED handed
  PROVE  TokenInv'
<1>1. PICK n, E : Stored(n, E)
  BY TokensStored DEF RestoreInv
<1>2. tok \in 0..(n - 1) /\ E[tok].origin = t /\ E[tok].state = "ArmOwned"
  BY <1>1, AcceptedToken
<1>3. PICK x \in ContinuationStates \ {"ArmOwned"} : arena' = Taken(arena, tok, x)
  <2>1. TransferredState(tr) \in ContinuationStates \ {"ArmOwned"}
    BY DEF TransferredState, Transfers, ContinuationStates
  <2>2. "Disposed" \in ContinuationStates \ {"ArmOwned"}
    BY DEF ContinuationStates
  <2>3. Consume(arena, tok, tr) = Taken(arena, tok, TransferredState(tr))
    BY Zenon DEF Consume, Taken
  <2>4. Dispose(arena, tok) = Taken(arena, tok, "Disposed")
    BY Zenon DEF Dispose, Taken
  <2> QED BY <2>1, <2>2, <2>3, <2>4
<1>4. handed' = handed \/ handed' = [handed EXCEPT ![tok] = Append(@, E[tok].origin)]
  BY <1>2, Zenon DEF HandOut
<1> QED BY <1>1, <1>2, <1>3, <1>4, SpentToken

\* A step of a task that does not end it ends nobody.
LEMMA YieldsKeepAlive ==
  ASSUME NEW t \in TaskIds, NEW st, NEW keep, Yields(t, st, keep), st \notin Inert, DOMAIN tstate = TaskIds
  PROVE  \A u \in TaskIds : tstate[u] \notin Inert => tstate'[u] \notin Inert
<1>1. tstate' = [tstate EXCEPT ![t] = st]
  BY Zenon DEF Yields
<1> QED BY <1>1

\* Between restarts the arena agrees with what was handed out.
LEMMA StepTokens ==
  ASSUME RestoreInv, SchedulerStep \/ TokenStep \/ TransferStep \/ UNCHANGED allVars PROVE TokenInv'
<1>0. Persists /\ DOMAIN tstate = TaskIds
  BY RestoreSteps, StepKeeps DEF RestoreInv, SchedulerInvs, SchedulerInv, Ids
<1>1. CASE SchedulerStep
  <2>1. arena' = DisposeEnded(arena) /\ UNCHANGED handed
    BY <1>1, Zenon DEF SchedulerStep
  <2> QED BY <1>0, <2>1, EndedTokens
<1>2. ASSUME NEW t, NEW tok, ResumeToken(t, tok) \/ DisposeToken(t, tok) PROVE TokenInv'
  <2>1. /\ Accepts(t, tok) /\ UNCHANGED vars
        /\ \/ arena' = Consume(arena, tok, "Resume") /\ HandOut(t, tok)
           \/ arena' = Dispose(arena, tok) /\ UNCHANGED handed
    BY <1>2, Zenon DEF ResumeToken, DisposeToken
  <2>2. tstate' = tstate /\ "Resume" \in Transfers
    BY <2>1 DEF vars, taskVars, Transfers
  <2> QED BY <1>0, <2>1, <2>2, UsedToken
<1>3. CASE TokenStep
  BY <1>2, <1>3, BoundToken, Zenon DEF TokenStep
<1>4. ASSUME NEW t \in TaskIds, NEW tok, RequeueToken(t, tok) PROVE TokenInv'
  <2>1. Accepts(t, tok) /\ Yields(t, "Ready", serial) /\ arena' = Consume(arena, tok, "Requeue") /\ HandOut(t, tok)
    BY <1>4, Zenon DEF RequeueToken, requeue
  <2>2. "Requeue" \in Transfers /\ "Ready" \notin Inert
    BY DEF Transfers, Inert, Terminal
  <2>3. \A u \in TaskIds : tstate[u] \notin Inert => tstate'[u] \notin Inert
    BY <1>0, <2>1, <2>2, YieldsKeepAlive
  <2> QED BY <1>0, <2>1, <2>2, <2>3, UsedToken
<1>5. ASSUME NEW t \in TaskIds, NEW tok, RefusedToken(t, tok) PROVE TokenInv'
  <2>1. arena' = DisposeEnded(arena) /\ UNCHANGED handed
    BY <1>5, Zenon DEF RefusedToken
  <2> QED BY <1>0, <2>1, EndedTokens
<1>6. ASSUME NEW t \in TaskIds, NEW tok, NEW u \in TaskIds, ParkToken(t, tok, u) PROVE TokenInv'
  <2>1. /\ Accepts(t, tok) /\ arena' = Consume(arena, tok, "Park") /\ HandOut(t, tok)
        /\ UNCHANGED vars \/ Yields(t, "WaitTask", FALSE)
    BY <1>6, Zenon DEF ParkToken, await_task
  <2>2. "Park" \in Transfers /\ "WaitTask" \notin Inert
    BY DEF Transfers, Inert, Terminal
  <2>3. CASE Yields(t, "WaitTask", FALSE)
    <3>1. \A v \in TaskIds : tstate[v] \notin Inert => tstate'[v] \notin Inert
      BY <1>0, <2>2, <2>3, YieldsKeepAlive
    <3> QED BY <1>0, <2>1, <2>2, <3>1, UsedToken
  <2>4. CASE UNCHANGED vars
    <3>1. tstate' = tstate
      BY <2>4 DEF vars, taskVars
    <3> QED BY <1>0, <2>1, <2>2, <3>1, UsedToken
  <2> QED BY <2>1, <2>3, <2>4
<1>7. CASE TransferStep
  BY <1>4, <1>5, <1>6, <1>7, Zenon DEF TransferStep
<1>8. CASE UNCHANGED allVars
  <2>1. UNCHANGED <<arena, handed, tstate, next_scope>>
    BY <1>8 DEF allVars, restoreVars, vars, taskVars, schedVars
  <2>2. TokenInv
    BY DEF RestoreInv
  <2> QED BY <2>1, <2>2 DEF TokenInv, ArenaShape, EntryInv
<1> QED BY <1>1, <1>3, <1>7, <1>8

\* Every step between restarts keeps the invariant.
LEMMA StepInv ==
  ASSUME RestoreInv, SchedulerStep \/ TokenStep \/ TransferStep \/ UNCHANGED allVars PROVE RestoreInv'
<1>1. Step
  BY RestoreSteps
<1>2. /\ SchedulerInvs' /\ ConcurrencyInv' /\ TreeInv' /\ ParentInv' /\ WaitInv' /\ StopInv' /\ ResultInv'
      /\ ReferenceInv'
  BY <1>1, StepKeeps
<1>3. TokenInv'
  BY StepTokens
<1> QED BY <1>2, <1>3 DEF RestoreInv

-----------------------------------------------------------------------------
(***************************************************************************)
(* Restarting                                                              *)
(***************************************************************************)
\* There is one queue of wakeups for each task.
Mailboxes == inbox = [t \in TaskIds |-> inbox[t]]

\* Every step of the scheduler keeps it.
LEMMA MailboxesKept == ASSUME RestoreInv, Mailboxes, [Next]_vars PROVE Mailboxes'
<1>1. ASSUME NEW t, take_wakeup(t) PROVE Mailboxes'
  <2>1. PICK f, y : f = inbox /\ y = IF inbox[t] = <<>> THEN inbox[t] ELSE Tail(inbox[t])
    OBVIOUS
  <2>2. f = [u \in TaskIds |-> f[u]] /\ inbox' = [f EXCEPT ![t] = y]
    BY <1>1, <2>1 DEF Mailboxes, take_wakeup
  <2> QED BY <2>2 DEF Mailboxes
<1>2. ASSUME inbox' = inbox PROVE Mailboxes'
  BY <1>2 DEF Mailboxes
<1>3. ASSUME NEW t, NEW out, NEW win, NEW prim, terminal(t, out, win, prim) PROVE Mailboxes'
  <2>1. inbox' = [u \in TaskIds |-> inbox'[u]]
    BY <1>3 DEF terminal
  <2> QED BY <2>1 DEF Mailboxes
<1>4. ASSUME NEW p, NEW pol, NEW lim, NEW ser, NEW jobs, NEW u, StartGroup(p, pol, lim, ser, jobs, u) PROVE Mailboxes'
  <2>1. take_wakeup(p) \/ inbox' = inbox
    BY <1>4, Zenon DEF StartGroup
  <2> QED BY <1>1, <1>2, <2>1
<1>5. ASSUME NEW p, NEW job, NEW u, NEW i, Start(p, job, u, i) PROVE Mailboxes'
  <2>1. take_wakeup(p)
    BY <1>5, Zenon DEF Start
  <2> QED BY <1>1, <2>1
<1>6. ASSUME NEW t, NEW st, NEW keep, Yields(t, st, keep) PROVE Mailboxes'
  BY <1>1, <1>6, Zenon DEF Yields
<1>7. ASSUME Calm PROVE Mailboxes'
  <2>1. ASSUME NEW t, requeue(t) \/ wait_for_host(t) \/ wait_for_cpu(t) PROVE Mailboxes'
    BY <1>6, <2>1, Zenon DEF requeue, wait_for_host, wait_for_cpu
  <2>2. ASSUME NEW n, Dispatch(n) PROVE inbox' = inbox
    BY <2>2, Zenon DEF Dispatch
  <2>3. ASSUME \/ DispatchNone \/ \E t \in TaskIds : wake_from_host(t)
               \/ CancelNext /\ tstate[Head(cancelling)] \in Inert \cup {"WaitHost"}
               \/ UNCHANGED vars
               \/ cancel_unsettled \/ begin_checkpoint_barrier \/ end_checkpoint_barrier
        PROVE  inbox' = inbox
    BY <2>3, Zenon DEF DispatchNone, wake_from_host, CancelNext, cancel_unsettled, begin_checkpoint_barrier,
       end_checkpoint_barrier, vars, taskVars
  <2> QED BY <1>2, <1>7, <2>1, <2>2, <2>3, Zenon DEF Calm, Rest
<1>8. ASSUME NEW t, NEW u, await_task(t, u) PROVE Mailboxes'
  BY <1>6, <1>8, Zenon DEF await_task
<1>9. ASSUME NEW t, NEW out, NEW win, NEW prim, Ends(t, out, win, prim) PROVE Mailboxes'
  BY <1>3, <1>9, Zenon DEF Ends
<1>10. SchedulerInv /\ QueueInv
  BY DEF RestoreInv, SchedulerInvs
<1> QED BY <1>4, <1>5, <1>7, <1>8, <1>9, <1>10, StepKinds, Zenon

\* Every wakeup is recomputed to what had been delivered.
LEMMA InboxesRestored == ASSUME RestoreInv, Mailboxes PROVE RestoredInbox = inbox
<1>1. ASSUME NEW t \in TaskIds
      PROVE  [i \in DOMAIN reference[t] |-> RestoredOutcome(reference[t][i])] = inbox[t]
  <2>1. PICK q : q = [i \in DOMAIN reference[t] |-> RestoredOutcome(reference[t][i])]
    OBVIOUS
  <2>2. CASE inbox[t] = <<>> /\ reference[t] = <<>>
    <3>1. q = [i \in DOMAIN <<>> |-> RestoredOutcome(<<>>[i])]
      BY <2>1, <2>2
    <3>2. DOMAIN <<>> = {}
      OBVIOUS
    <3>3. [i \in {} |-> RestoredOutcome(<<>>[i])] = <<>>
      OBVIOUS
    <3> QED BY <2>1, <2>2, <3>1, <3>2, <3>3
  <2>3. ASSUME NEW ref, reference[t] = <<ref>>, inbox[t] = <<RestoredOutcome(ref)>> PROVE q = inbox[t]
    <3>1. PICK o : o = RestoredOutcome(ref)
      OBVIOUS
    <3>2. DOMAIN <<ref>> = {1} /\ <<ref>>[1] = ref
      OBVIOUS
    <3>3. q = [i \in {1} |-> o]
      BY <2>1, <2>3, <3>1, <3>2
    <3>4. [i \in {1} |-> o] = <<o>>
      OBVIOUS
    <3> QED BY <2>3, <3>1, <3>3, <3>4
  <2>4. \/ inbox[t] = <<>> /\ reference[t] = <<>>
        \/ \E ref : reference[t] = <<ref>> /\ inbox[t] = <<RestoredOutcome(ref)>>
    BY Zenon DEF RestoreInv, ReferenceInv
  <2> QED BY <2>1, <2>2, <2>3, <2>4
<1>2. RestoredInbox = [t \in TaskIds |-> inbox[t]]
  BY <1>1 DEF RestoredInbox
<1> QED BY <1>2 DEF Mailboxes

\* Whoever is told to stop again was told, or had a stopped task above it and has settled;
\* the scope whose policy stopped that task is above it too.
LEMMA StopsRestored ==
  ASSUME RestoreInv, cancelling = <<>>
  PROVE  /\ RestoredStop \in [TaskIds -> BOOLEAN]
         /\ \A t \in TaskIds : stop[t] => RestoredStop[t]
         /\ \A t \in TaskIds : tstate[t] \notin Inert => RestoredStop[t] = stop[t]
         /\ \A t \in TaskIds : RestoredStop[t] => tstate[t] # "Unborn" /\ \E x \in anc[scopeOf[t]] : Swept(x)
<1>0. stop \in [TaskIds -> BOOLEAN] /\ parent \in [TaskIds -> TaskIds \cup {NoTask}] /\ ParentInv /\ StopInv
  BY DEF RestoreInv, StopInv, ParentInv
<1>1. /\ \A t \in TaskIds : StoppedAbove[t] \in BOOLEAN
      /\ \A t \in TaskIds : StoppedAbove[t] <=> stop[t] \/ (parent[t] # NoTask /\ StoppedAbove[parent[t]])
  BY <1>0, StoppedEquation
<1>2. Condemned = {t \in TaskIds : stop[t]}
  BY DEF Condemned, Entries
<1>3. ASSUME NEW t \in TaskIds, StoppedAbove[t] PROVE tstate[t] # "Unborn" /\ \E x \in anc[scopeOf[t]] : Swept(x)
  <2>1. PICK m \in TaskIds : stop[m] /\ anc[scopeOf[m]] \subseteq anc[scopeOf[t]]
    BY <1>0, <1>3, StoppedBelow
  <2>2. PICK x \in anc[scopeOf[m]] : Swept(x)
    BY <1>0, <1>2, <2>1 DEF StopInv
  <2>3. CASE stop[t]
    BY <1>0, <1>2, <2>1, <2>2, <2>3 DEF StopInv
  <2>4. CASE ~stop[t]
    <3>1. parent[t] # NoTask
      BY <1>1, <1>3, <2>4
    <3> QED BY <1>0, <2>1, <2>2, <3>1 DEF ParentInv
  <2> QED BY <2>3, <2>4
<1>4. ASSUME NEW t \in TaskIds, tstate[t] \notin Inert PROVE StoppedAbove[t] <=> stop[t]
  <2>1. ASSUME StoppedAbove[t] PROVE stop[t]
    <3>1. PICK x \in anc[scopeOf[t]] : Swept(x)
      BY <1>3, <2>1
    <3> QED BY <1>2, <1>4, <3>1 DEF Swept
  <2> QED BY <1>1, <2>1
<1>5. \A t \in TaskIds : RestoredStop[t] = StoppedAbove[t]
  BY DEF RestoredStop
<1>6. RestoredStop \in [TaskIds -> BOOLEAN]
  BY <1>1 DEF RestoredStop
<1>7. ASSUME NEW t \in TaskIds, tstate[t] \notin Inert PROVE RestoredStop[t] = stop[t]
  BY <1>0, <1>1, <1>4, <1>5, <1>7
<1> QED BY <1>1, <1>3, <1>5, <1>6, <1>7

\* Everything else of the scheduler is as it was.
SameScheduler ==
  UNCHANGED <<tstate, target, slot, waiters, active, winner, primary, swaiters, ready, waiting, holders, cancelling,
              scopeOf, src, keys, next_task, anc, limit, policy, owner, serialHost, next_scope, serial>>

\* A restart leaves all of that, and the wakeups, alone.
LEMMA RestartKeeps ==
  ASSUME RestoreInv, Mailboxes, Restart
  PROVE  /\ SameScheduler /\ UNCHANGED <<arena, reference, parent, handed, inbox>> /\ checkpoint_barrier' = FALSE
         /\ cancelling = <<>> /\ (stop' = RestoredStop \/ stop' = stop)
<1>1. SameScheduler
  BY Zenon DEF Restart, SameScheduler, taskShape, scopeShape
<1>2. UNCHANGED <<arena, reference, parent, handed>> /\ checkpoint_barrier' = FALSE
  BY Zenon DEF Restart
<1>3. cancelling = <<>>
  BY Zenon DEF Restart, AtBarrier, Idle
<1>4. (inbox' = RestoredInbox /\ stop' = RestoredStop) \/ (inbox' = inbox /\ stop' = stop)
  BY Zenon DEF Restart
<1>5. inbox' = inbox
  BY <1>4, InboxesRestored
<1> QED BY <1>1, <1>2, <1>3, <1>4, <1>5

\* The scheduler's invariants do not speak of who is told to stop.
LEMMA RestartScheduler ==
  ASSUME RestoreInv, SameScheduler, inbox' = inbox, checkpoint_barrier' = FALSE PROVE SchedulerInvs' /\ ConcurrencyInv'
<1>0. SchedulerInvs /\ ConcurrencyInv
  BY DEF RestoreInv
<1>1. SchedulerInv'
  BY <1>0 DEF SchedulerInvs, SchedulerInv, Ids, Allocated, HoldersAlive, Exclusive, AdmittedHold, Quiet, SameScheduler
<1>2. QueueInv'
  <2>1. QueueTypes'
    BY <1>0 DEF SchedulerInvs, QueueInv, QueueTypes, SameScheduler
  <2>2. ReadyListed' /\ ParkedListed'
    BY <1>0 DEF SchedulerInvs, QueueInv, ReadyListed, ParkedListed, SameScheduler
  <2>3. AwaitListed'
    BY <1>0 DEF SchedulerInvs, QueueInv, AwaitListed, SameScheduler
  <2>4. JoinListed'
    BY <1>0 DEF SchedulerInvs, QueueInv, JoinListed, SameScheduler
  <2> QED BY <2>1, <2>2, <2>3, <2>4 DEF QueueInv
<1>3. SlotInv'
  BY <1>0 DEF SchedulerInvs, SlotInv, Charged, SameScheduler
<1>4. FailureInv'
  BY <1>0 DEF SchedulerInvs, FailureInv, SourceBefore, SameScheduler
<1>5. InboxInv' /\ RolesInv' /\ SetupInv'
  BY <1>0 DEF SchedulerInvs, InboxInv, RolesInv, SetupInv, SameScheduler
<1>6. ConcurrencyInv'
  BY <1>0 DEF ConcurrencyInv, ScopeTypes, ScopeTree, Bounded, SameScheduler
<1> QED BY <1>1, <1>2, <1>3, <1>4, <1>5, <1>6 DEF SchedulerInvs

\* A restart keeps the invariant.
LEMMA RestartInv == ASSUME RestoreInv, Mailboxes, Restart PROVE RestoreInv' /\ Mailboxes'
<1>0. /\ SameScheduler /\ UNCHANGED <<arena, reference, parent, handed, inbox>> /\ checkpoint_barrier' = FALSE
      /\ cancelling = <<>> /\ (stop' = RestoredStop \/ stop' = stop)
  BY RestartKeeps
<1>1. SchedulerInvs' /\ ConcurrencyInv'
  BY <1>0, RestartScheduler
<1>2. TreeInv' /\ ParentInv' /\ WaitInv' /\ ResultInv'
  <2>1. TreeInv /\ ParentInv /\ WaitInv /\ ResultInv
    BY DEF RestoreInv
  <2>2. TreeInv' /\ ParentInv'
    BY <1>0, <2>1 DEF SameScheduler, TreeInv, ParentInv
  <2>3. WaitInv' /\ ResultInv'
    BY <1>0, <2>1 DEF SameScheduler, WaitInv, ResultInv
  <2> QED BY <2>2, <2>3
<1>3. TokenInv'
  <2>1. TokenInv /\ UNCHANGED <<arena, handed, tstate, next_scope>>
    BY <1>0 DEF RestoreInv, SameScheduler
  <2> QED BY <2>1 DEF TokenInv, ArenaShape, EntryInv
<1>4. ReferenceInv'
  <2>1. ReferenceInv /\ UNCHANGED <<inbox, reference, tstate, scopeOf, next_scope, winner, primary, policy, owner>>
    BY <1>0 DEF RestoreInv, SameScheduler
  <2>2. \A ref : Settles(ref)' <=> Settles(ref)
    BY <2>1 DEF Settles
  <2>3. \A ref : RestoredOutcome(ref)' = RestoredOutcome(ref)
    BY <2>1 DEF RestoredOutcome, scope_outcome, Members, settled, joined
  <2>4. ASSUME NEW t \in TaskIds PROVE Referred(t)'
    <3>1. Referred(t)
      BY <2>1, <2>4, Zenon DEF ReferenceInv, Referred
    <3> QED BY <2>1, <2>2, <2>3, <3>1 DEF Referred
  <2> QED BY <2>1, <2>4, Zenon DEF ReferenceInv, Referred
<1>5. StopInv'
  <2>1. /\ stop' \in [TaskIds -> BOOLEAN] /\ \A t \in TaskIds : stop[t] => stop'[t]
        /\ \A t \in TaskIds : stop'[t] => tstate[t] # "Unborn" /\ \E x \in anc[scopeOf[t]] : Swept(x)
    <3>1. CASE stop' = RestoredStop
      BY <1>0, <3>1, StopsRestored
    <3>2. CASE stop' = stop
      BY <1>0, <3>2 DEF RestoreInv, StopInv, Condemned
    <3> QED BY <1>0, <3>1, <3>2
  <2>2. UNCHANGED <<tstate, scopeOf, anc, policy, winner, primary, inbox, cancelling>>
    BY <1>0 DEF SameScheduler
  <2>3. Condemned = {t \in TaskIds : stop[t]} /\ Condemned' = {t \in TaskIds : stop'[t]}
    BY <1>0, <2>2 DEF Condemned, Entries
  <2>4. ASSUME NEW x, Swept(x) PROVE Swept(x)'
    BY <2>1, <2>2, <2>3, <2>4 DEF Swept
  <2>5. \A t \in Condemned' : tstate'[t] # "Unborn" /\ \E x \in anc'[scopeOf'[t]] : Swept(x)'
    BY <2>1, <2>2, <2>3, <2>4
  <2>6. \A t \in TaskIds : tstate'[t] = "Cancelled" => stop'[t]
    BY <2>1, <2>2 DEF RestoreInv, StopInv
  <2>7. \A t \in TaskIds : inbox'[t] = <<"Cancelled">> => t \in Condemned'
    BY <2>1, <2>2, <2>3 DEF RestoreInv, StopInv
  <2>8. cancelling' \in Seq(TaskIds)
    BY <2>2 DEF RestoreInv, StopInv
  <2> QED BY <2>1, <2>5, <2>6, <2>7, <2>8 DEF StopInv
<1>6. Mailboxes'
  BY <1>0 DEF Mailboxes
<1> QED BY <1>1, <1>2, <1>3, <1>4, <1>5, <1>6 DEF RestoreInv

\* TaskSchedulerMetadataSnapshot::validate accepts.
LEMMA MetadataValid == ASSUME RestoreInv PROVE ValidMetadata
<1>0. SchedulerInvs /\ TreeInv /\ TokenInv
  BY DEF RestoreInv
<1>1. PICK n, E : Stored(n, E)
  BY <1>0, TokensStored
<1>2. arena.next = n /\ arena.entries = E /\ DOMAIN E = 0..(n - 1) /\ n \in Nat
  BY <1>1 DEF Stored
<1>3. \A i \in DOMAIN arena.entries : EntryInv(arena.entries[i], handed[i])
  BY <1>1, <1>2 DEF Stored
<1>4. ValidArena(arena)
  <2>1. ASSUME NEW i \in DOMAIN arena.entries PROVE i < arena.next
    BY <1>2
  <2>2. ASSUME NEW i \in DOMAIN arena.entries
        PROVE  (arena.entries[i].state = "ArmOwned") <=> (arena.entries[i].frames # NoFrames)
    <3>1. PICK e, g : e = arena.entries[i] /\ EntryInv(e, g)
      BY <1>3
    <3>2. e.frames \in {Frames, NoFrames} /\ (e.frames = Frames <=> e.state = "ArmOwned")
      BY <3>1 DEF EntryInv
    <3> QED BY <3>1, <3>2, FramesDiffer
  <2> QED BY <2>1, <2>2 DEF ValidArena
<1>5. ASSUME NEW s \in 0..(next_scope - 1)
      PROVE  /\ \A a \in anc[s] : a <= s
             /\ {owner[s], primary[s], winner[s]} \subseteq Members(s, tstate) \cup {NoTask}
             /\ active[s] = Cardinality({t \in TaskIds : slot[t] /\ s \in anc[scopeOf[t]]})
             /\ \A i \in DOMAIN swaiters[s] : Known(swaiters[s][i])
  <2>1. s \in ScopeIds /\ s < next_scope
    <3>1. next_scope \in 1..MaxScopes
      BY <1>0 DEF SchedulerInvs, QueueInv, QueueTypes
    <3> QED BY <3>1, SchedulerConstants DEF ScopeIds
  <2>2. \A a \in anc[s] : a <= s
    BY <1>0, <2>1 DEF TreeInv
  <2>3. {owner[s], primary[s], winner[s]} \subseteq Members(s, tstate) \cup {NoTask}
    <3>1. owner[s] \in TaskIds \cup {NoTask} /\ primary[s] \in TaskIds \cup {NoTask} /\ winner[s] \in TaskIds \cup {NoTask}
      BY <1>0, <2>1 DEF SchedulerInvs, QueueInv, QueueTypes
    <3>2. /\ owner[s] # NoTask => scopeOf[owner[s]] = s /\ tstate[owner[s]] # "Unborn"
          /\ winner[s] # NoTask => scopeOf[winner[s]] = s /\ tstate[winner[s]] # "Unborn"
      BY <1>0, <2>1 DEF SchedulerInvs, RolesInv, Terminal
    <3>3. primary[s] # NoTask => scopeOf[primary[s]] = s /\ tstate[primary[s]] # "Unborn"
      BY <1>0, <2>1 DEF SchedulerInvs, FailureInv, Bad
    <3> QED BY <3>1, <3>2, <3>3 DEF Members
  <2>4. active[s] = Cardinality({t \in TaskIds : slot[t] /\ s \in anc[scopeOf[t]]})
    BY <1>0, <2>1 DEF SchedulerInvs, SlotInv, Charged
  <2>5. \A i \in DOMAIN swaiters[s] : Known(swaiters[s][i])
    <3>1. \A w \in Entries(swaiters[s]) : tstate[w] # "Unborn"
      BY <1>0, <2>1 DEF SchedulerInvs, QueueInv, JoinListed, Terminal
    <3>2. swaiters[s] \in Seq(TaskIds)
      BY <1>0, <2>1 DEF SchedulerInvs, QueueInv, QueueTypes
    <3> QED BY <3>1, <3>2 DEF Entries, Known
  <2> QED BY <2>2, <2>3, <2>4, <2>5
<1>6. ASSUME NEW t \in TaskIds, Known(t) PROVE t < next_task /\ scopeOf[t] < next_scope
  <2>1. next_task \in Nat /\ t \in Nat /\ ~(t >= next_task)
    BY <1>0, <1>6, SchedulerConstants DEF SchedulerInvs, SchedulerInv, Ids, Allocated, Known, TaskIds
  <2>2. scopeOf[t] < next_scope
    BY <1>0, <1>6 DEF TreeInv, Known
  <2> QED BY <2>1, <2>2
<1>7. \A i \in DOMAIN ready : Known(ready[i])
  <2>1. \A t \in Entries(ready) : tstate[t] # "Unborn"
    BY <1>0 DEF SchedulerInvs, QueueInv, ReadyListed, Terminal
  <2>2. \A i \in DOMAIN ready : ready[i] \in Entries(ready)
    BY <1>0 DEF SchedulerInvs, QueueInv, ReadyListed, Lists, Entries
  <2> QED BY <2>1, <2>2 DEF Known
<1>8. \A i \in DOMAIN waiting : Known(waiting[i])
  <2>1. Lists(waiting, {t \in TaskIds : tstate[t] = "WaitResource"})
    BY <1>0 DEF SchedulerInvs, QueueInv, ParkedListed
  <2>2. \A i \in DOMAIN waiting : waiting[i] \in {t \in TaskIds : tstate[t] = "WaitResource"}
    BY <2>1 DEF Lists, Entries
  <2> QED BY <2>2 DEF Known
<1>9. \A t \in holders : tstate[t] \notin Terminal
  BY <1>0 DEF SchedulerInvs, SchedulerInv, HoldersAlive, Inert
<1>10. \A i \in DOMAIN arena.entries :
         /\ arena.entries[i].owner < next_scope
         /\ arena.entries[i].origin # NoTask => Known(arena.entries[i].origin)
  BY <1>3 DEF EntryInv, Known
<1> QED BY <1>4, <1>5, <1>6, <1>7, <1>8, <1>9, <1>10, Zenon DEF ValidMetadata

\* What capture and restore refuse is a continuation that a settled task kept, if anything.
LEMMA RefusalKind ==
  ASSUME RestoreInv, Mailboxes, cancelling = <<>>
  PROVE  SnapshotRefusal \in {"", "terminal task still owns an executable continuation"}
<1>1. ValidMetadata
  BY MetadataValid
<1>2. \A t \in TaskIds : Known(t) => ~(parent[t] >= t)
  <2>1. \A t \in TaskIds : parent[t] # NoTask => parent[t] < t
    BY DEF RestoreInv, ParentInv
  <2>2. parent \in [TaskIds -> TaskIds \cup {NoTask}]
    BY DEF RestoreInv, ParentInv
  <2> QED BY <2>1, <2>2, SchedulerConstants DEF TaskIds, NoTask
<1>3. \A t \in TaskIds : tstate[t] = "Cancelled" => RestoredStop[t]
  BY StopsRestored DEF RestoreInv, StopInv
<1>4. \A t \in TaskIds : \A i \in DOMAIN RestoredInbox[t] : RestoredInbox[t][i] \in Terminal
  <2>1. ASSUME NEW t \in TaskIds, NEW i \in DOMAIN inbox[t] PROVE inbox[t][i] \in Terminal
    <3>1. inbox[t] = <<>> \/ \E x \in Terminal : inbox[t] = <<x>>
      BY Zenon DEF RestoreInv, ReferenceInv
    <3> QED BY <2>1, <3>1
  <2> QED BY <2>1, InboxesRestored
<1> QED BY <1>1, <1>2, <1>3, <1>4, Zenon DEF SnapshotRefusal

-----------------------------------------------------------------------------
(***************************************************************************)
(* The theorems                                                            *)
(***************************************************************************)
\* The inductive invariant, with what it says of restarts.
RestoreInvs == RestoreInv /\ Mailboxes /\ SnapshotsAreAccepted

\* The initial state satisfies the invariant.
LEMMA InitRestore == RestoreInit => RestoreInvs
<1> SUFFICES ASSUME RestoreInit PROVE RestoreInvs
  OBVIOUS
<1>0. Init
  BY DEF RestoreInit
<1>1. SchedulerInvs /\ ConcurrencyInv
  BY <1>0, InitInv, InitQueue, InitSlots, InitFailures, InitInbox, InitRoles, InitSetup, InitBounded DEF SchedulerInvs
<1>2. /\ \A t \in TaskIds : tstate[t] = "Unborn" /\ stop[t] = FALSE /\ inbox[t] = <<>> /\ scopeOf[t] = Root
      /\ next_scope = 1 /\ cancelling = <<>> /\ stop \in [TaskIds -> BOOLEAN] /\ Mailboxes
  BY <1>0 DEF Init, Mailboxes
<1>3. TreeInv
  <2>1. anc \in [ScopeIds -> SUBSET ScopeIds] /\ 1 <= MaxScopes
    BY <1>0, SchedulerConstants DEF Init, Root, ScopeIds
  <2>2. ASSUME NEW s \in ScopeIds, s < 1 PROVE s \in anc[s] /\ \A a \in anc[s] : a <= s /\ anc[a] \subseteq anc[s]
    <3>1. s = Root
      BY <2>2, SchedulerConstants DEF ScopeIds, Root
    <3>2. anc[s] = {s} /\ s <= s
      BY <1>0, <3>1 DEF Init, Root
    <3> QED BY <3>2
  <2> QED BY <1>2, <2>1, <2>2 DEF TreeInv
<1>4. TokenInv
  <2>1. arena = [next |-> 0, entries |-> [i \in {} |-> 0]] /\ handed = [i \in 0..(MaxTokens - 1) |-> <<>>]
    BY DEF RestoreInit, NewArena
  <2>2. arena.next = 0 /\ arena.entries = [i \in {} |-> 0] /\ 0..(0 - 1) = {}
    BY <2>1
  <2>3. [i \in {} |-> 0] = [i \in 0..(0 - 1) |-> arena.entries[i]]
    BY <2>2
  <2>4. ArenaShape(arena.next, arena.entries)
    BY <2>1, <2>2, <2>3, RestoreConstants DEF ArenaShape
  <2> QED BY <2>1, <2>2, <2>4 DEF TokenInv
<1>5. ParentInv /\ WaitInv
  BY <1>2 DEF RestoreInit, ParentInv, WaitInv
<1>6. StopInv
  <2>1. Condemned = {}
    BY <1>2 DEF Condemned, Entries
  <2>2. \A t \in TaskIds : inbox[t] # <<"Cancelled">>
    BY <1>2
  <2> QED BY <1>2, <2>1, <2>2 DEF StopInv
<1>7. ResultInv
  <2>1. \A s \in ScopeIds : s < next_scope => s = Root
    BY <1>2, SchedulerConstants DEF ScopeIds, Root
  <2>2. \A s \in ScopeIds : winner[s] = NoTask /\ policy[s] = "Run"
    BY <1>0 DEF Init
  <2> QED BY <1>2, <2>1, <2>2 DEF ResultInv
<1>8. ReferenceInv
  BY <1>2 DEF RestoreInit, ReferenceInv
<1>9. SnapshotsAreAccepted
  BY DEF RestoreInit, SnapshotsAreAccepted
<1> QED BY <1>1, <1>2, <1>3, <1>4, <1>5, <1>6, <1>7, <1>8, <1>9 DEF RestoreInvs, RestoreInv

\* Every step keeps the invariant.
LEMMA NextRestore == RestoreInvs /\ [RestoreNext]_allVars => RestoreInvs'
<1> SUFFICES ASSUME RestoreInvs, [RestoreNext]_allVars PROVE RestoreInvs'
  OBVIOUS
<1>0. RestoreInv /\ Mailboxes /\ SnapshotsAreAccepted
  BY DEF RestoreInvs
<1>1. CASE Restart
  <2>1. RestoreInv' /\ Mailboxes'
    BY <1>0, <1>1, RestartInv
  <2>2. cancelling = <<>> /\ refused' = SnapshotRefusal
    BY <1>1, Zenon DEF Restart, AtBarrier, Idle
  <2>3. SnapshotsAreAccepted'
    BY <1>0, <2>2, RefusalKind DEF SnapshotsAreAccepted
  <2> QED BY <2>1, <2>3 DEF RestoreInvs
<1>2. CASE SchedulerStep \/ TokenStep \/ TransferStep \/ UNCHANGED allVars
  <2>1. RestoreInv' /\ Step
    BY <1>0, <1>2, StepInv, RestoreSteps
  <2>2. Mailboxes'
    BY <1>0, <2>1, MailboxesKept DEF Step
  <2>3. refused' = refused
    BY <1>2, Zenon DEF SchedulerStep, TokenStep, TransferStep, Bookkeeping, BindContinuation, ResumeToken, DisposeToken,
       RequeueToken, RefusedToken, ParkToken, allVars, restoreVars
  <2> QED BY <1>0, <2>1, <2>2, <2>3 DEF RestoreInvs, SnapshotsAreAccepted
<1> QED BY <1>1, <1>2 DEF RestoreNext

\* It holds in every run, over any number of restarts.
THEOREM RestoreInvariant == RestoreSpec => []RestoreInvs
  BY InitRestore, NextRestore, PTL DEF RestoreSpec

\* A continuation is used once, by the task whose arm bound it, whatever is passed around,
\* cancelled or restarted in between (consume and its checks).
THEOREM ContinuationsAreOneShot == RestoreSpec => []OneShot
<1>1. RestoreInvs => OneShot
  <2> SUFFICES ASSUME RestoreInv, NEW tok \in DOMAIN arena.entries
               PROVE  /\ Len(handed[tok]) <= 1
                      /\ handed[tok] # <<>> => /\ handed[tok][1] = arena.entries[tok].origin
                                               /\ arena.entries[tok].state # "ArmOwned"
    BY DEF RestoreInvs, OneShot
  <2>1. PICK e, g : e = arena.entries[tok] /\ g = handed[tok]
    OBVIOUS
  <2>2. EntryInv(e, g)
    <3>1. PICK n, E : Stored(n, E)
      BY TokensStored DEF RestoreInv
    <3>2. arena.entries = E /\ DOMAIN E = 0..(n - 1)
      BY <3>1 DEF Stored
    <3> QED BY <2>1, <3>1, <3>2 DEF Stored
  <2>3. (g = <<>> \/ g = <<e.origin>>) /\ (e.state = "ArmOwned" => g = <<>>)
    BY <2>2 DEF EntryInv
  <2>4. Len(g) <= 1 /\ (g # <<>> => g[1] = e.origin)
    BY <2>3
  <2> QED BY <2>1, <2>3, <2>4
<1> QED BY <1>1, RestoreInvariant, PTL

\* A token that can still be used belongs to a task that can still use it: terminal gives
\* up what a task owns, however it ends.
THEOREM TokensHaveLiveOwners == RestoreSpec => []LiveTokens
<1>1. RestoreInvs => LiveTokens
  <2> SUFFICES ASSUME RestoreInv, NEW i \in DOMAIN arena.entries, arena.entries[i].state = "ArmOwned"
               PROVE  arena.entries[i].origin = NoTask \/ Alive(arena.entries[i].origin)
    BY DEF RestoreInvs, LiveTokens
  <2>1. PICK n, E : Stored(n, E)
    BY TokensStored DEF RestoreInv
  <2>2. arena.entries = E /\ DOMAIN E = 0..(n - 1)
    BY <2>1 DEF Stored
  <2>3. EntryInv(arena.entries[i], handed[i])
    BY <2>1, <2>2 DEF Stored
  <2> QED BY <2>3 DEF EntryInv, Alive
<1> QED BY <1>1, RestoreInvariant, PTL

\* Apart from the continuation a cancelled waiter keeps, every snapshot taken at the
\* barrier passes validate, at capture and at restore.
THEOREM SnapshotsRestore == RestoreSpec => []SnapshotsAreAccepted
<1>1. RestoreInvs => SnapshotsAreAccepted
  BY DEF RestoreInvs
<1> QED BY <1>1, RestoreInvariant, PTL

\* A restart changes nothing a task can see: the wakeups it has not taken are recomputed to
\* what was delivered, and who is told to stop again had been told.
THEOREM RestartsAreExact == RestoreSpec => RestartIsExact
<1>1. RestoreInvs /\ [RestoreNext]_allVars =>
        [restarts' # restarts => inbox' = inbox /\ \A t \in TaskIds : Alive(t) => stop'[t] = stop[t]]_allVars
  <2> SUFFICES ASSUME RestoreInvs, [RestoreNext]_allVars, restarts' # restarts
               PROVE  inbox' = inbox /\ \A t \in TaskIds : Alive(t) => stop'[t] = stop[t]
    OBVIOUS
  <2>1. Restart
    <3>1. ASSUME SchedulerStep \/ TokenStep \/ TransferStep \/ UNCHANGED allVars PROVE restarts' = restarts
      BY <3>1, Zenon DEF SchedulerStep, TokenStep, TransferStep, Bookkeeping, BindContinuation, ResumeToken, DisposeToken,
         RequeueToken, RefusedToken, ParkToken, allVars, restoreVars
    <3> QED BY <3>1 DEF RestoreNext
  <2>2. inbox' = inbox /\ cancelling = <<>> /\ (stop' = RestoredStop \/ stop' = stop)
    BY <2>1, RestartKeeps DEF RestoreInvs
  <2>3. \A t \in TaskIds : tstate[t] \notin Inert => RestoredStop[t] = stop[t]
    BY <2>2, StopsRestored DEF RestoreInvs
  <2> QED BY <2>2, <2>3 DEF Alive
<1> QED BY <1>1, RestoreInvariant, PTL DEF RestoreSpec, RestartIsExact

\* Over restarts too slots and counters agree.
THEOREM SlotsAreCountedOverRestarts == RestoreSpec => []SlotAccounting
<1>1. RestoreInvs => SlotAccounting
  BY DEF RestoreInvs, RestoreInv, SchedulerInvs, SlotInv, SlotAccounting, Charged, Slotted
<1> QED BY <1>1, RestoreInvariant, PTL

\* Over restarts too the limits of the scopes are kept.
THEOREM ConcurrencyIsBoundedOverRestarts == RestoreSpec => []ConcurrencyBound
<1>1. RestoreInvs => ConcurrencyBound
  BY DEF RestoreInvs, RestoreInv, ConcurrencyInv, Bounded, ConcurrencyBound
<1> QED BY <1>1, RestoreInvariant, PTL

\* What a scope came to is what it came to after a restart.
THEOREM ScopesSettleForGoodOverRestarts == RestoreSpec => ScopeOutcomesAreFinal
<1>1. ASSUME RestoreInvs, [RestoreNext]_allVars, NEW s \in ScopeIds \ {Root}, s < next_scope,
             scope_outcome(s, tstate, winner[s], primary[s]) # "Pending"
      PROVE  scope_outcome(s, tstate, winner[s], primary[s])' = scope_outcome(s, tstate, winner[s], primary[s])
  <2>0. RestoreInv /\ Mailboxes
    BY <1>1 DEF RestoreInvs
  <2>1. CASE Restart
    <3>1. UNCHANGED <<tstate, scopeOf, winner, primary, policy, owner>>
      BY <2>0, <2>1, RestartKeeps DEF SameScheduler
    <3> QED BY <3>1 DEF scope_outcome, Members, settled, joined
  <2>2. CASE SchedulerStep \/ TokenStep \/ TransferStep \/ UNCHANGED allVars
    <3>1. [Next]_vars
      BY <2>0, <2>2, RestoreSteps DEF Step
    <3> QED BY <1>1, <2>0, <3>1, OutcomeKept DEF RestoreInv
  <2> QED BY <1>1, <2>1, <2>2 DEF RestoreNext
<1>2. RestoreInvs /\ [RestoreNext]_allVars =>
        [\A s \in ScopeIds \ {Root} : s < next_scope =>
           LET before == scope_outcome(s, tstate, winner[s], primary[s])
               after == scope_outcome(s, tstate, winner[s], primary[s])'
           IN before # "Pending" => after = before]_vars
  BY <1>1
<1> QED BY <1>2, RestoreInvariant, PTL DEF RestoreSpec, ScopeOutcomesAreFinal

=============================================================================
