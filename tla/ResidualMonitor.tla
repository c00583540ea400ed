--------------------------- MODULE ResidualMonitor ---------------------------
(***************************************************************************)
(* The residual monitor of one task: a callable with a trace specification *)
(* `guard >> target` runs its body under a scope of its own; every action  *)
(* performed inside is previewed and committed by all enclosing scopes,    *)
(* gets one permit, and its outcome becomes evidence in those scopes.      *)
(*                                                                         *)
(* The stack (its head is the top) holds the frames that matter here:      *)
(* scopes, `handle` and `?` boundaries, dispatched arms with the frames    *)
(* they captured, and the outcome correlation of a performed action.  A    *)
(* frame lists the scopes and attempts it owns, so that dropping it drops  *)
(* them.  The program is the environment: any legal form may follow until  *)
(* the fuel is spent.                                                      *)
(***************************************************************************)
EXTENDS Integers, Sequences, FiniteSets, SequencesExt, FiniteSetsExt, Queues

CONSTANTS
  Guards,        \* actions the specifications require first
  Roles,         \* whose monitor: the root's, or a scheduled task's
  MaxForms,      \* bound: forms a program evaluates
  MaxRestarts,   \* bound: crashes followed by a resumption
  MaxActive,     \* max_active_scopes
  MaxPending,    \* max_pending
  Capacity       \* max_exit_records

Approval == "approval"   \* the standard approval action
Target == "target"       \* the action every specification guards
Actions == Guards \cup {Target}

ASSUME MonitorConstants ==
  /\ {MaxForms, MaxRestarts, MaxActive, MaxPending, Capacity} \subseteq Nat
  /\ Target \notin Guards
  /\ Roles \subseteq {"root", "task"}

VARIABLES
  role,
  ctl,        \* running, dispatching or awaiting an attempt, ending, ended
  stack,
  scopes,     \* live scope states, by invocation number
  attempts,   \* attempt tags, by attempt number
  cursor,     \* next_cursor
  log,        \* the run's exit log
  saved,      \* the last checkpoint, or NoCheckpoint
  fuel, restarts,
  exits,      \* history: how often the exit of a scope was recorded
  bad,        \* history: scopes that exited without acceptance, in order
  done        \* history: guards that really took place, [scope, action, run]

vars == <<role, ctl, stack, scopes, attempts, cursor, log, saved, fuel, restarts,
          exits, bad, done>>

NoCheckpoint == [fuel |-> -1]
NoRecord == [scope |-> 0]
Running == [m |-> "run"]
Ending(outcome, why) == [m |-> "ending", outcome |-> outcome, why |-> why]

----------------------------------------------------------------------------
(* Frames.                                                                 *)

Leaf(k) == [k |-> k, id |-> 0, saved |-> <<>>, owns |-> {}, tags |-> {}]
ScopeFrame(s) == [Leaf("scope") EXCEPT !.id = s, !.owns = {s}]
OutcomeFrame(a) == [Leaf("outcome") EXCEPT !.id = a, !.tags = {a}]
Owned(frames) == UNION {frames[i].owns : i \in DOMAIN frames}
Tags(frames) == UNION {frames[i].tags : i \in DOMAIN frames}
ArmFrame(frames) ==
  [Leaf("arm") EXCEPT !.saved = frames, !.owns = Owned(frames), !.tags = Tags(frames)]

\* The mirror: scopes of the frames on the stack, not of captured ones.
Mirror(frames) == {frames[i].id : i \in {j \in DOMAIN frames : frames[j].k = "scope"}}
Positions(k) == {i \in DOMAIN stack : stack[i].k = k}
Above(i) == SubSeq(stack, 1, i - 1)
Below(i) == SubSeq(stack, i + 1, Len(stack))
Active == {s \in DOMAIN scopes : scopes[s].exit = "none"}

----------------------------------------------------------------------------
(* The exit log.                                                           *)

NewLog == [unsatisfied |-> 0, dropped |-> 0, exits |-> <<>>, first |-> NoRecord]
Unsatisfied(r) == r.result # "Accepting"
Failures(records) == Retain(records, {r \in Range(records) : Unsatisfied(r)})

\* Mutant: the earliest failure is kept in the ring only.
RecordExit_RingOnly(l, r) ==
  [unsatisfied |-> l.unsatisfied + (IF Unsatisfied(r) THEN 1 ELSE 0),
   dropped |-> l.dropped,
   exits |-> Append(IF Len(l.exits) = Capacity THEN Tail(l.exits) ELSE l.exits, r),
   first |-> NoRecord]

\* ResidualRunLog::record
RecordExit(l, r) ==
  LET full == Capacity = 0 \/ Len(l.exits) = Capacity
      ring == IF full /\ Capacity > 0 THEN Tail(l.exits) ELSE l.exits
  IN [unsatisfied |-> l.unsatisfied + (IF Unsatisfied(r) THEN 1 ELSE 0),
      dropped |-> l.dropped + (IF full THEN 1 ELSE 0),
      exits |-> IF Capacity = 0 THEN ring ELSE Append(ring, r),
      first |-> IF Unsatisfied(r) /\ l.first = NoRecord THEN r ELSE l.first]

\* The log after several exits.
Recorded(l, records) ==
  LET after[i \in 0..Len(records)] ==
        IF i = 0 THEN l ELSE RecordExit(after[i - 1], records[i])
  IN  after[Len(records)]

\* The first unsatisfied exit, when the ring has lost it.
Evicted(l, records) ==
  /\ l.first # NoRecord
  /\ \A i \in DOMAIN records : records[i].scope # l.first.scope

\* take_diagnostics: what the run reports.
Diagnostics(l) ==
  LET records == Failures(l.exits)
  IN IF Evicted(l, records) THEN <<l.first>> \o records ELSE records

RecordCeiling == Max({Capacity, 1})

\* ResidualRunLog::snapshot
LogSnapshot(l) ==
  LET records == Failures(l.exits)
      shortened == IF Len(records) = RecordCeiling THEN Front(records) ELSE records
  IN [unsatisfied |-> l.unsatisfied, omitted |-> l.dropped,
      records |-> IF Evicted(l, records) THEN <<l.first>> \o shortened ELSE records]

\* ResidualExitLogSnapshot::validate and the ceiling of restore_history
LogAccepted(doc, invocations) ==
  /\ Len(doc.records) <= doc.unsatisfied
  /\ doc.unsatisfied <= invocations
  /\ doc.omitted <= invocations
  /\ (doc.unsatisfied = 0) = (doc.records = <<>>)
  /\ Len(doc.records) <= RecordCeiling
  /\ \A i, j \in DOMAIN doc.records :
        /\ Unsatisfied(doc.records[i])
        /\ doc.records[i].scope \in 1..invocations
        /\ i # j => doc.records[i].scope # doc.records[j].scope

\* restore_history
RestoredLog(doc) ==
  [unsatisfied |-> doc.unsatisfied, dropped |-> doc.omitted, exits |-> doc.records,
   first |-> IF doc.records = <<>> THEN NoRecord ELSE Head(doc.records)]

----------------------------------------------------------------------------
(* Scopes: their exits, their evidence.                                    *)

\* ResidualScopeInstance::activate
NewScope(guard) ==
  [guard |-> guard, version |-> 0, last |-> 0, pending |-> {}, exit |-> "none",
   accepted |-> [x \in Actions |-> [at |-> 0, current |-> FALSE]]]

\* finish, with the monitor accepting every completed `guard >> target`.
ExitResult(s, kind) ==
  IF kind # "Return" THEN "Incomplete"
  ELSE IF scopes[s].pending # {} THEN "PendingEvidence" ELSE "Accepting"

\* What is recorded of the exits in list, which holds [scope, kind].
ExitRecords(list) ==
  [i \in DOMAIN list |-> [scope |-> list[i].scope, kind |-> list[i].kind,
                         result |-> ExitResult(list[i].scope, list[i].kind)]]

\* The exits of several active scopes, each once, in the order they are recorded.
SettleScopes(list) ==
  LET records == ExitRecords(list)
      lost == Failures(records)
      ended == {list[i].scope : i \in DOMAIN list}
  IN /\ scopes' = [s \in DOMAIN scopes |->
                     IF s \in ended
                     THEN [scopes[s] EXCEPT !.exit = (CHOOSE r \in Range(records) : r.scope = s).kind]
                     ELSE scopes[s]]
     /\ log' = Recorded(log, records)
     /\ exits' = [s \in DOMAIN exits |-> exits[s] + (IF s \in ended THEN 1 ELSE 0)]
     /\ bad' = bad \o [i \in DOMAIN lost |-> lost[i].scope]

\* The same exit of several scopes, in the order of their numbers.
Listed(set, kind) ==
  LET order == Retain([s \in 1..Len(scopes) |-> s], set)
  IN [i \in DOMAIN order |-> [scope |-> order[i], kind |-> kind]]

\* Mutant: a dropped scope leaves no record.
Abandon_Silent(set) == <<>>

\* Drop: a scope whose last owner goes without an exit.
Abandon(set) == Listed(set \cap Active, "Abort")

\* ScopeEvidence::query and the monitor's verdict on `guard >> target`.
Permits(s, x) ==
  \/ x # Target
  \/ LET e == scopes[s].accepted[scopes[s].guard]
     IN e.current /\ e.at # 0 /\ e.at < cursor + 1

\* validate_next_cursor and the exit check of preview.
Receptive(s, at) == scopes[s].exit = "none" /\ at > scopes[s].last

Committed(s, a) == [scopes[s] EXCEPT !.version = @ + 1, !.last = cursor + 1, !.pending = @ \cup {a}]

\* ResidualAttemptTag::complete: what the delivered value v is worth.
OutcomeStatus(tag, v) ==
  IF tag.action # Approval THEN "Accepted"
  ELSE IF tag.trusted = "yes" /\ v THEN "Accepted"
  ELSE IF tag.trusted = "no" /\ ~v THEN "Denied" ELSE "Failed"

\* record_outcome
Settled(s, a, tag, v) ==
  [scopes[s] EXCEPT
    !.version = @ + 1, !.last = cursor + 1, !.pending = @ \ {a},
    !.accepted[tag.action] = IF OutcomeStatus(tag, v) = "Accepted"
                             THEN [at |-> cursor + 1, current |-> TRUE] ELSE @]

Correlates(s, a) ==
  scopes[s].exit = "none" => Receptive(s, cursor + 1) /\ a \in scopes[s].pending

----------------------------------------------------------------------------
Init ==
  /\ role \in Roles
  /\ ctl = Running
  /\ stack = <<>>
  /\ scopes = <<>>
  /\ attempts = <<>>
  /\ cursor = 0
  /\ log = NewLog
  /\ saved = NoCheckpoint
  /\ fuel = MaxForms
  /\ restarts = 0
  /\ exits = <<>>
  /\ bad = <<>>
  /\ done = {}

Spend == ctl = Running /\ fuel > 0 /\ fuel' = fuel - 1
KeepScopes == UNCHANGED <<scopes, log, exits, bad>>
KeepRun == UNCHANGED <<role, saved, restarts>>

\* A call of a callable with a specification: activate_residual_scope.
Activate(guard) ==
  /\ Spend
  /\ IF Cardinality(Active) >= MaxActive
     THEN ctl' = Ending("Failed", "ceiling") /\ UNCHANGED <<scopes, stack, exits>>
     ELSE /\ scopes' = Append(scopes, NewScope(guard))
          /\ exits' = Append(exits, 0)
          /\ stack' = <<ScopeFrame(Len(scopes) + 1)>> \o stack
          /\ UNCHANGED ctl
  /\ UNCHANGED <<attempts, cursor, log, bad, done>> /\ KeepRun

\* A `handle` or a `?` around what follows.
Enter(k) ==
  /\ Spend
  /\ stack' = <<Leaf(k)>> \o stack
  /\ UNCHANGED <<ctl, attempts, cursor, done>> /\ KeepScopes /\ KeepRun

\* Its body has produced a value.
Leave ==
  /\ ctl = Running /\ stack # <<>> /\ stack[1].k \in {"handle", "try"}
  /\ stack' = Tail(stack)
  /\ UNCHANGED <<ctl, attempts, cursor, fuel, done>> /\ KeepScopes /\ KeepRun

\* observe_residual_attempt: preview in every scope, then commit in all.
Perform(x) ==
  LET seen == Mirror(stack)
      a == Len(attempts) + 1
      fault == IF \E s \in seen : ~Receptive(s, cursor + 1) THEN "monitor"
               ELSE IF \E s \in seen : ~Permits(s, x) THEN "rejected"
               ELSE IF \E s \in seen : Cardinality(scopes[s].pending) >= MaxPending THEN "ceiling"
               ELSE "none"
  IN /\ Spend
     /\ seen # {}
     /\ cursor' = cursor + 1
     /\ attempts' = Append(attempts,
          [action |-> x, at |-> cursor + 1, trusted |-> "unknown",
           version |-> [s \in seen |-> scopes[s].version + 1],
           dispatched |-> FALSE, completed |-> FALSE])
     /\ IF fault # "none"
        THEN ctl' = Ending("Failed", fault) /\ UNCHANGED <<scopes, stack>>
        ELSE /\ scopes' = [s \in DOMAIN scopes |->
                             IF s \in seen THEN Committed(s, a) ELSE scopes[s]]
             /\ stack' = <<OutcomeFrame(a)>> \o stack
             /\ ctl' = [m |-> "dispatch", a |-> a]
     /\ UNCHANGED <<log, exits, bad, done>> /\ KeepRun

\* consume_permit: unused, and no scope has moved or ended since.
PermitHolds(a) ==
  /\ ~attempts[a].dispatched
  /\ \A s \in DOMAIN attempts[a].version :
        scopes[s].exit = "none" /\ scopes[s].version = attempts[a].version[s]

\* The permit is used for a handler's arm at position i, or for the Host.
Dispatch(next, frames) ==
  /\ ctl.m = "dispatch"
  /\ attempts' = [attempts EXCEPT ![ctl.a].dispatched = TRUE]
  /\ IF PermitHolds(ctl.a) THEN ctl' = next /\ stack' = frames
     ELSE ctl' = Ending("Failed", "permit") /\ UNCHANGED stack
  /\ UNCHANGED <<cursor, fuel, done>> /\ KeepScopes /\ KeepRun

DispatchArm ==
  \E i \in Positions("handle") :
    Dispatch(Running, <<ArmFrame(Above(i)), stack[i]>> \o Below(i))

DispatchHost == Dispatch([m |-> "host", a |-> ctl.a], stack)

\* A value v reaches the outcome correlation of attempt a, over frames.
Complete(a, tag, v, real, frames) ==
  LET seen == DOMAIN tag.version
      open == seen \cap Active
  IN /\ cursor' = cursor + 1
     /\ attempts' = [attempts EXCEPT ![a] = [tag EXCEPT !.completed = TRUE]]
     /\ IF \A s \in seen : Correlates(s, a)
        THEN /\ scopes' = [s \in DOMAIN scopes |->
                             IF s \in open THEN Settled(s, a, tag, v) ELSE scopes[s]]
             /\ ctl' = Running
             /\ stack' = frames
        ELSE ctl' = Ending("Failed", "monitor") /\ UNCHANGED <<scopes, stack>>
     /\ done' = done \cup (IF real
                           THEN [scope : open, action : {tag.action}, run : {restarts}] ELSE {})
     /\ UNCHANGED <<fuel, log, exits, bad>> /\ KeepRun

\* The Host answers; an approval's decision is recorded with the attempt.
HostAnswers(v) ==
  /\ ctl.m = "host"
  /\ LET tag == attempts[ctl.a]
         decided == IF tag.action = Approval
                    THEN [tag EXCEPT !.trusted = IF v THEN "yes" ELSE "no"] ELSE tag
     IN /\ tag.action # Approval => v
        /\ Complete(ctl.a, decided, v, v, Tail(stack))

\* resume in an arm: the captured frames come back.
Resume(v) ==
  /\ ctl = Running /\ stack # <<>> /\ stack[1].k = "arm"
  /\ LET back == stack[1].saved
         tag == attempts[back[1].id]
     IN /\ tag.action # Approval => v
        /\ Complete(back[1].id, tag, v, tag.action # Approval, Tail(back) \o Tail(stack))

\* finish in an arm: the captured frames are dropped.
FinishArm ==
  /\ ctl = Running /\ stack # <<>> /\ stack[1].k = "arm"
  /\ stack' = SubSeq(stack, 3, Len(stack))
  /\ SettleScopes(Abandon(stack[1].owns))
  /\ UNCHANGED <<ctl, attempts, cursor, fuel, done>> /\ KeepRun

\* Scopes the arms among these frames have captured.
CapturedIn(frames) == Owned(frames) \ Mirror(frames)
\* The scopes on the way exit, then what the arms captured is dropped.
Unwound(frames) ==
  LET left == Retain(frames, {f \in Range(frames) : f.k = "scope"})
  IN [i \in DOMAIN left |-> [scope |-> left[i].id, kind |-> "ErrorPropagation"]]
       \o Abandon(CapturedIn(frames))

\* A typed error: it unwinds to the innermost `?`, or ends the run.
Unwind ==
  LET tries == Positions("try")
      frames == IF tries = {} THEN stack ELSE Above(Min(tries))
  IN /\ SettleScopes(Unwound(frames))
     /\ stack' = IF tries = {} THEN <<>> ELSE Below(Min(tries))
     /\ ctl' = IF tries = {} THEN Ending("Failed", "unhandled") ELSE Running
     /\ UNCHANGED <<attempts, cursor, done>> /\ KeepRun

Raise == Spend /\ Unwind

\* The Host fails: an approval ends the run, other actions raise an error.
HostFails ==
  /\ ctl.m = "host"
  /\ UNCHANGED fuel
  /\ IF attempts[ctl.a].action = Approval
     THEN /\ ctl' = Ending("Failed", "host")
          /\ UNCHANGED <<stack, attempts, cursor, done>> /\ KeepScopes /\ KeepRun
     ELSE Unwind

\* return, or the value of the body: the innermost scope validates its exit.
Return ==
  /\ ctl = Running /\ Positions("scope") # {}
  /\ LET i == Min(Positions("scope"))
         s == stack[i].id
     IN /\ SettleScopes(Abandon(CapturedIn(Above(i))) \o <<[scope |-> s, kind |-> "Return"]>>)
        /\ stack' = Below(i)
        /\ ctl' = IF ExitResult(s, "Return") = "Accepting" THEN Running
                  ELSE Ending("Failed", "incomplete")
  /\ UNCHANGED <<attempts, cursor, fuel, done>> /\ KeepRun

\* The entry returns outside every scope.
EndBody ==
  /\ ctl = Running /\ Positions("scope") = {}
  /\ SettleScopes(Abandon(Owned(stack)))
  /\ stack' = <<>>
  /\ ctl' = Ending("Completed", "none")
  /\ UNCHANGED <<attempts, cursor, fuel, done>> /\ KeepRun

Cancel ==
  /\ ctl.m \in {"run", "host"}
  /\ ctl' = Ending("Cancelled", "none")
  /\ UNCHANGED <<stack, attempts, cursor, fuel, done>> /\ KeepScopes /\ KeepRun

\* finish_active, newest scope first.
FinishActive(kind) == Reverse(Listed(Active, kind))
ExitKind(outcome) ==
  CASE outcome = "Cancelled" -> "Cancellation"
    [] outcome = "Failed" -> "Fault"
    [] OTHER -> "Abort"

\* residual_exit::finish for the root; a task just drops machine and log.
Finish ==
  /\ ctl.m = "ending"
  /\ IF role = "root"
     THEN LET list == FinishActive(ExitKind(ctl.outcome))
          IN /\ SettleScopes(list)
             /\ ctl' = [m |-> "ended", why |-> ctl.why, shown |-> Diagnostics(log'),
                        outcome |-> IF ctl.outcome = "Completed" /\ Diagnostics(log') # <<>>
                                    THEN "Failed" ELSE ctl.outcome]
     ELSE /\ SettleScopes(Abandon(Active))
          /\ ctl' = [m |-> "ended", why |-> ctl.why, shown |-> <<>>, outcome |-> ctl.outcome]
  /\ stack' = <<>>
  /\ UNCHANGED <<attempts, cursor, fuel, done>> /\ KeepRun

----------------------------------------------------------------------------
(* Checkpoint and resumption.                                              *)

Document ==
  [stack |-> stack, scopes |-> scopes, attempts |-> attempts, cursor |-> cursor,
   log |-> LogSnapshot(log), fuel |-> fuel, exits |-> exits, bad |-> bad, done |-> done]

\* ResidualMachineSnapshot::is_empty
NothingSaved(doc) == Owned(doc.stack) = {} /\ Tags(doc.stack) = {} /\ doc.log.unsatisfied = 0

\* validate_counters and the checks of the two restore functions, on what the
\* frames own.
DocumentAccepted(doc) ==
  /\ LogAccepted(doc.log, Len(doc.scopes))
  /\ Cardinality({s \in Owned(doc.stack) : doc.scopes[s].exit = "none"}) <= MaxActive
  /\ \A s \in Owned(doc.stack) : LET sc == doc.scopes[s] IN
        /\ (sc.version = 0) = (sc.last = 0)
        /\ sc.last <= doc.cursor
        /\ \A x \in Actions : sc.accepted[x].at <= sc.last
        /\ Cardinality(sc.pending) <= MaxPending
  /\ \A a \in Tags(doc.stack) : LET tag == doc.attempts[a] IN
        /\ tag.dispatched
        /\ tag.at <= doc.cursor
        /\ \A s \in DOMAIN tag.version :
              /\ s \in Owned(doc.stack)
              /\ (a \in doc.scopes[s].pending) = ~tag.completed
              /\ tag.version[s] <= doc.scopes[s].version

Checkpoint ==
  /\ Spend
  /\ saved' = [Document EXCEPT !.fuel = fuel - 1]
  /\ ctl' = IF DocumentAccepted(Document) THEN Running ELSE Ending("Failed", "checkpoint")
  /\ UNCHANGED <<role, stack, attempts, cursor, restarts, done>> /\ KeepScopes

\* Mutant: a saved approval still authorises.
RestoredScope_Current(sc) == sc

\* ResidualScopeInstance::restore: an approval becomes history.
RestoredScope(sc) ==
  [sc EXCEPT !.accepted = [x \in Actions |-> [at |-> sc.accepted[x].at,
                                              current |-> sc.accepted[x].at # 0 /\ x # Approval]]]

\* ResidualAttemptTag::restore: the trusted flag is not saved.
RestoredAttempt(tag) == [tag EXCEPT !.trusted = "unknown"]

\* Mutant: the counters start again.
RestoredCursor_Zero(doc) == 0

\* restore_counters
RestoredCursor(doc) == Max({0, doc.cursor})

\* The process dies; a new one resumes the last checkpoint.
Restart ==
  /\ saved # NoCheckpoint /\ restarts < MaxRestarts /\ ctl.m # "ended"
  /\ restarts' = restarts + 1
  /\ stack' = saved.stack
  /\ scopes' = [s \in DOMAIN saved.scopes |-> RestoredScope(saved.scopes[s])]
  /\ attempts' = [a \in DOMAIN saved.attempts |-> RestoredAttempt(saved.attempts[a])]
  /\ cursor' = RestoredCursor(saved)
  /\ log' = IF NothingSaved(saved) THEN NewLog ELSE RestoredLog(saved.log)
  /\ fuel' = saved.fuel /\ exits' = saved.exits /\ bad' = saved.bad /\ done' = saved.done
  /\ ctl' = IF DocumentAccepted(saved) THEN Running ELSE Ending("Failed", "checkpoint")
  /\ UNCHANGED <<role, saved>>

Next ==
  \/ \E g \in Guards : Activate(g)
  \/ \E k \in {"handle", "try"} : Enter(k)
  \/ Leave
  \/ \E x \in Actions : Perform(x)
  \/ DispatchArm \/ DispatchHost
  \/ \E v \in BOOLEAN : HostAnswers(v) \/ Resume(v)
  \/ HostFails \/ FinishArm \/ Raise \/ Return \/ EndBody \/ Cancel
  \/ Finish
  \/ Checkpoint \/ Restart

Spec == Init /\ [][Next]_vars

----------------------------------------------------------------------------
(* Properties.                                                             *)

Records ==
  [scope : Nat, kind : {"Return", "ErrorPropagation", "Abort", "Cancellation", "Fault"},
   result : {"Accepting", "PendingEvidence", "Incomplete"}]

\* The state of the monitor is well formed: every owned scope and attempt
\* exists, and an exited scope is owned by no frame on the stack.
ResidualTypeOK ==
  /\ role \in {"root", "task"}
  /\ ctl.m \in {"run", "dispatch", "host", "ending", "ended"}
  /\ Owned(stack) \subseteq DOMAIN scopes /\ Tags(stack) \subseteq DOMAIN attempts
  /\ Range(log.exits) \subseteq Records
  /\ DOMAIN exits = DOMAIN scopes
  /\ ctl.m \in {"run", "dispatch", "host"} => Active = Owned(stack)

\* `guard >> target`: whenever a target is dispatched, to a handler or to the
\* Host, the guard of every enclosing scope has taken place before, inside that
\* very invocation of the scope.  An approval counts only when the Host gave it
\* in the present run: not when a handler resumed with true, and not when it
\* comes from a checkpoint (consume_permit, complete, ScopeEvidence::query).
GuardedDispatch ==
  [][\A a \in DOMAIN attempts \cap DOMAIN attempts' :
       (attempts[a].action = Target /\ ctl.m = "dispatch" /\ ctl.a = a /\ ctl'.m \in {"run", "host"}
          /\ restarts' = restarts) =>
         \A s \in DOMAIN attempts[a].version :
           \E e \in done : /\ e.scope = s
                           /\ e.action = scopes[s].guard
                           /\ e.action = Approval => e.run = restarts]_vars

\* No legal program meets one of the monitor's internal errors: an event that
\* does not advance a cursor, an event after an exit, an outcome without its
\* attempt, a stale or used permit, a checkpoint that its own validation or the
\* restoration refuses.
MonitorNeverConfused ==
  ctl.m \in {"ending", "ended"} => ctl.why \notin {"monitor", "permit", "checkpoint"}

\* Every scope that was activated has exactly one recorded exit when the run is
\* over, and never two, whatever dropped it: a return, an error, an abandoned
\* continuation, a cancellation, or a resumption in another process.
SettledOnce ==
  /\ \A s \in DOMAIN exits : exits[s] <= 1
  /\ ctl.m = "ended" => \A s \in DOMAIN exits : exits[s] = 1

\* A run of the root that completes has no scope that ended unaccepted, and one
\* that ends otherwise reports the first such scope and counts them all, even
\* when later exits have pushed it out of the ring and when it happened before
\* a checkpoint (residual_exit::finish, take_diagnostics).
UnsatisfiedScopesSurface ==
  ctl.m = "ended" /\ role = "root" =>
    /\ ctl.outcome = "Completed" => bad = <<>>
    /\ bad # <<>> => ctl.shown # <<>> /\ ctl.shown[1].scope = bad[1]
    /\ log.unsatisfied = Len(bad)

\* The same of a scheduled task.
TaskScopesSurface ==
  ctl.m = "ended" /\ role = "task" /\ ctl.outcome = "Completed" => bad = <<>>
=============================================================================
