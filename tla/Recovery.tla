------------------------------ MODULE Recovery ------------------------------
(***************************************************************************)
(* Storage boundaries of a workflow across crashes and resumptions         *)
(* (driver/dispatch/memory*.rs, host_dispatch.rs, eval/checkpoint.rs,       *)
(* driver/lifecycle).  The root program is a straight line of memory        *)
(* operations; its boundaries are awaited one at a time.  The host and the  *)
(* store behind it answer late, lose answers or apply a request after its   *)
(* caller is gone; another workflow may write to the same store; the run    *)
(* may be stopped, and the process may die at any point and be resumed from *)
(* any checkpoint it has written.                                           *)
(*                                                                         *)
(* A version is the number of the mutation that created it, 0 stands for an *)
(* absent entry, and a value is known by the program position that wrote it.*)
(***************************************************************************)
EXTENDS Integers, Sequences, FiniteSets, FiniteSetsExt, Functions

CONSTANTS
    Keys,         \* keys of one store
    Programs,     \* the programs: sequences of operations
    Sources,      \* code revisions a source artifact compiles on resumption
    MaxReceipts,  \* StorageLimits::max_receipts
    MaxAttempts,  \* attempts of a retry statement
    MaxRestarts,  \* bound on crashes and resumptions
    MaxForeign    \* bound on the other workflow's writes

\* The operations of a program: a condition is stated by a put or a delete, retry
\* tells that a retry statement encloses the operation, and handled that a handler
\* inside of it takes the typed errors the operation raises; refused tells that the
\* run's operation registry may turn its boundaries down (an instance restricts the
\* environment so).
Operations ==
  [kind : {"get", "put", "delete", "clear", "prepare", "commit", "reconcile", "checkpoint"},
   key : Keys, cond : {"Any", "Match", "Missing", "Exists"}, value : Nat,
   retry : BOOLEAN, handled : BOOLEAN, refused : BOOLEAN]

ASSUME RecoveryConstants ==
  /\ Programs \subseteq Seq(Operations)
  /\ MaxAttempts \in Nat \ {0} /\ MaxReceipts \in Nat /\ Sources \in Nat
  /\ MaxRestarts \in Nat /\ MaxForeign \in Nat

VARIABLES
    program,   \* the checked program, fixed
    run,       \* the run's volatile state, which checkpoints copy
    pending,   \* the boundary the run awaits
    status,    \* running, completed, failed, cancelled or crashed
    stop,      \* the invocation scope was asked to stop
    saved,     \* checkpoints written so far
    restarts,  \* number of resumptions so far
    issued,    \* operation keys issued to intents so far
    store, clock, receipts, inflight, effects, foreign

runVars == <<run, pending, status, stop>>
durableVars == <<saved, restarts, issued>>
hostVars == <<store, clock, receipts, inflight, effects, foreign>>
vars == <<program, runVars, durableVars, hostVars>>

NoRequest == [id |-> -1]
Awaiting == [status |-> "awaiting"]
HostError == [status |-> "error"]

Any == -2
Exists == -1
Missing == 0          \* a positive condition is Match(version)

(***************************************************************************)
(* The run's own state                                                      *)
(***************************************************************************)
NewRun ==
  [pc |-> 1, attempt |-> 1, next |-> 0, identity |-> 0,
   last |-> 0, scanned |-> FALSE, todo |-> {}, intent |-> 0,
   ledger |-> {}, versions |-> [k \in Keys |-> 0],
   operations |-> [i \in {} |-> 0], writes |-> [i \in {} |-> 0]]

Init ==
  /\ program \in Programs
  /\ run = NewRun
  /\ pending = [req |-> NoRequest, reply |-> Awaiting]
  /\ status = "running" /\ stop = FALSE
  /\ saved = {} /\ restarts = 0 /\ issued = 0
  /\ store \in [Keys -> {0}] /\ clock = 0
  /\ receipts = [o \in {} |-> 0] /\ inflight = {} /\ effects = <<>> /\ foreign = 0

Idle == pending.req = NoRequest
\* The machine checks the stop signal before every step.
Ready == status = "running" /\ Idle /\ ~stop /\ run.pc <= Len(program)
Op == program[run.pc]
Extend(f, x, y) == [z \in DOMAIN f \cup {x} |-> IF z = x THEN y ELSE f[z]]

Advance(r) == [r EXCEPT !.pc = @ + 1, !.attempt = 1]
End(outcome) == status' = outcome /\ pending' = [req |-> NoRequest, reply |-> Awaiting]
Continue(r) == /\ run' = r /\ status' = status
               /\ pending' = [req |-> NoRequest, reply |-> Awaiting]

\* The next attempt executes the operation from its start.
Again(r) == [r EXCEPT !.attempt = @ + 1, !.scanned = FALSE, !.todo = {}]
MayRetry == Op.retry /\ run.attempt < MaxAttempts

\* retry_or_report, of a failure that is known to have changed nothing: the next
\* attempt of the enclosing retry statement, under a new request number.
RetryOrReport(r) == \/ MayRetry /\ Continue(Again(r))
                    \/ ~MayRetry /\ End("failed") /\ run' = r

\* A typed error: a handler of the program takes it, or it leaves the program,
\* where retry_boundary_failure looks for a retry statement.
Raise(r) == \/ Op.handled /\ Continue(Advance([r EXCEPT !.scanned = FALSE, !.todo = {}]))
            \/ ~Op.handled /\ RetryOrReport(r)

(***************************************************************************)
(* Issuing a boundary                                                       *)
(***************************************************************************)
\* The condition a program states: put is unconditional, put_versioned takes
\* the version the program read, and inserts where it read none.
Condition(cond) == CASE cond = "Match" -> run.last
                     [] cond = "Missing" -> Missing
                     [] cond = "Exists" -> Exists
                     [] cond = "Any" -> Any

Mutation(del, key, cond, value) == [del |-> del, key |-> key, cond |-> cond, value |-> value]

\* The operation key of a write that the program did not prepare itself: derived
\* from the run's storage identity and the number of the request.
DerivedKey(r) == [issuer |-> r.identity, number |-> r.next, prepared |-> FALSE]
IntentKey(n) == [issuer |-> 0, number |-> n, prepared |-> TRUE]

Dispatch(r, kind, opkey, mutation, write) ==
  LET request == [id |-> r.next, incarnation |-> restarts, kind |-> kind,
                  opkey |-> opkey, mutation |-> mutation, write |-> write]
  IN /\ run' = [r EXCEPT !.next = @ + 1]
     /\ pending' = [req |-> request, reply |-> Awaiting]
     /\ inflight' = inflight \cup {request}
     /\ UNCHANGED <<program, status, stop, durableVars, store, clock, receipts, effects, foreign>>

\* bind_storage_operation: the occurrence is new and the ledger has room.  The
\* phase tells whether the boundary has begun, HostRequestStarted in the run's events.
bind_storage_operation(r, opkey, mutation, phase) ==
  [r EXCEPT !.operations =
     Extend(@, r.next, [opkey |-> opkey, mutation |-> mutation, phase |-> phase])]

\* HostDispatch::begin fails behind the binding: a stop has arrived while the
\* boundary's permission was awaited, or the registry refuses the operation.
NotDispatched(r) ==
  /\ \/ stop' = TRUE /\ End("cancelled") /\ run' = r
     \/ stop' = stop /\ Op.refused /\ Op.kind = "commit" /\ Raise(r)
     \/ stop' = stop /\ Op.refused /\ Op.kind # "commit" /\ RetryOrReport(r)
  /\ UNCHANGED <<program, durableVars, hostVars>>

\* A write: its operation is bound first, then the boundary begins.
Send(r, kind, opkey, mutation, write) ==
  \/ Dispatch(bind_storage_operation(r, opkey, mutation, "begun"), kind, opkey, mutation, write)
  \/ NotDispatched([bind_storage_operation(r, opkey, mutation, "bound") EXCEPT !.next = @ + 1])

CanBind == run.next \notin DOMAIN run.operations /\ Cardinality(DOMAIN run.operations) < MaxReceipts

BeginGet == /\ Ready /\ Op.kind = "get"
            /\ Dispatch(run, "get", 0, Mutation(FALSE, Op.key, Any, 0), 0)

\* put, put_versioned, insert and delete of memory_store.rs.
BeginWrite ==
  /\ Ready /\ Op.kind \in {"put", "delete"} /\ CanBind
  /\ LET mutation == Mutation(Op.kind = "delete", Op.key, Condition(Op.cond), Op.value)
         write == [at |-> run.pc, key |-> Op.key, version |-> 0, prepared |-> FALSE]
     IN Send(run, "write", DerivedKey(run), mutation, write)

\* clear: a complete scan first, whose further pages take request numbers too.
BeginScan ==
  /\ Ready /\ Op.kind = "clear" /\ ~run.scanned
  /\ \E pages \in 1..2 :
       Dispatch([run EXCEPT !.next = @ + pages - 1], "scan", 0, Mutation(FALSE, Op.key, Any, 0), 0)

\* Mutant: clear deletes whatever is there.
ClearCondition_Any(key) == Any

\* The version recorded when the scan returned.
ClearCondition(key) == run.versions[key]

\* resume_memory_clear_delete_keys: one conditional delete per scanned key.
BeginClearDelete ==
  /\ Ready /\ Op.kind = "clear" /\ run.scanned /\ run.todo # {} /\ CanBind
  /\ LET key == CHOOSE k \in run.todo : TRUE
         mutation == Mutation(TRUE, key, ClearCondition(key), 0)
         write == [at |-> run.pc, key |-> key, version |-> run.versions[key], prepared |-> FALSE]
     IN Send([run EXCEPT !.todo = @ \ {key}], "write", DerivedKey(run), mutation, write)

ClearDone ==
  /\ Ready /\ Op.kind = "clear" /\ run.scanned /\ run.todo = {}
  /\ Continue(Advance([run EXCEPT !.scanned = FALSE]))
  /\ UNCHANGED <<program, stop, durableVars, hostVars>>

\* prepare_put: an operation key of its own, and no host call.
Prepare ==
  /\ Ready /\ Op.kind = "prepare"
  /\ issued' = issued + 1
  /\ Continue(Advance([run EXCEPT !.intent = issued + 1]))
  /\ UNCHANGED <<program, stop, saved, restarts, hostVars>>

BeginCommit ==
  /\ Ready /\ Op.kind = "commit" /\ CanBind
  /\ LET mutation == Mutation(FALSE, Op.key, Any, Op.value)
         write == [at |-> run.intent, key |-> Op.key, version |-> 0, prepared |-> TRUE]
     IN Send(run, "commit", IntentKey(run.intent), mutation, write)

BeginReconcile ==
  /\ Ready /\ Op.kind = "reconcile" /\ CanBind
  /\ LET mutation == Mutation(FALSE, Op.key, Any, Op.value)
     IN Dispatch(bind_storage_operation(run, IntentKey(run.intent), mutation, "begun"),
                 "reconcile", IntentKey(run.intent), mutation, 0)

(***************************************************************************)
(* The host and the store (external): one receipt per operation key         *)
(***************************************************************************)
Holds(cond, version) ==
  CASE cond = Any -> TRUE [] cond = Exists -> version # 0 [] OTHER -> version = cond

\* What the store decides about an operation key it has not seen.
Decide(m) == IF ~Holds(m.cond, store[m.key]) THEN "conflict"
             ELSE IF m.del /\ store[m.key] = 0 THEN "unchanged" ELSE "committed"

Known(r) == r.opkey \in DOMAIN receipts

Reply(r, result) == IF pending.req = r /\ pending.reply = Awaiting
                    THEN pending' = [pending EXCEPT !.reply = result] ELSE UNCHANGED pending

\* A read sees the store as it is.
ServeRead(r) ==
  /\ r.kind \in {"get", "scan", "reconcile"}
  /\ Reply(r, CASE r.kind = "get"  -> [status |-> "value", version |-> store[r.mutation.key]]
                [] r.kind = "scan" -> [status |-> "entries", entries |-> store]
                [] r.kind = "reconcile" -> [status |-> IF Known(r) THEN "found" ELSE "unresolved"])
  /\ UNCHANGED <<store, clock, receipts, effects>>

\* A write whose key has a receipt gets the recorded outcome, and is refused
\* when it is not the operation the receipt is about.
ServeKnown(r) ==
  /\ r.kind \in {"write", "commit"} /\ Known(r)
  /\ \E heard \in BOOLEAN :
       Reply(r, IF heard /\ receipts[r.opkey].mutation = r.mutation
                THEN receipts[r.opkey].result ELSE HostError)
  /\ UNCHANGED <<store, clock, receipts, effects>>

\* A new write is decided, and recorded; the answer may still be lost.
ServeNew(r) ==
  /\ r.kind \in {"write", "commit"} /\ ~Known(r)
  /\ \E heard \in BOOLEAN, decision \in {Decide(r.mutation), "rejected"} :
       LET m == r.mutation
           version == IF m.del THEN 0 ELSE clock + 1
           result == [status |-> decision, version |-> IF decision = "committed" THEN version ELSE 0]
       IN /\ receipts' = Extend(receipts, r.opkey, [mutation |-> m, result |-> result])
          /\ Reply(r, IF heard THEN result ELSE HostError)
          /\ IF decision = "committed"
             THEN /\ store' = [store EXCEPT ![m.key] = version]
                  /\ clock' = clock + 1
                  /\ effects' = Append(effects, [write |-> r.write, removed |-> store[m.key]])
             ELSE UNCHANGED <<store, clock, effects>>

Serve(r) ==
  /\ r \in inflight
  /\ inflight' = inflight \ {r}
  /\ ServeRead(r) \/ ServeKnown(r) \/ ServeNew(r)
  /\ UNCHANGED <<program, run, status, stop, durableVars, foreign>>

\* The host gives up waiting: the request may still arrive, or never will.  A read
\* or a reconciliation that could not be started looks the same to the run.
HostFails ==
  /\ ~Idle /\ pending.reply = Awaiting
  /\ pending' = [pending EXCEPT !.reply = HostError]
  /\ \E arrives \in BOOLEAN :
       inflight' = IF arrives THEN inflight ELSE inflight \ {pending.req}
  /\ UNCHANGED <<program, run, status, stop, durableVars, store, clock, receipts, effects, foreign>>

\* Another workflow writes to the store or deletes from it.
Foreign(key) ==
  /\ foreign < MaxForeign /\ foreign' = foreign + 1
  /\ clock' = clock + 1
  /\ \E version \in {0, clock + 1} : store' = [store EXCEPT ![key] = version]
  /\ UNCHANGED <<program, runVars, durableVars, receipts, inflight, effects>>

(***************************************************************************)
(* Taking an answer                                                         *)
(***************************************************************************)
Answered(kinds) == status = "running" /\ ~Idle /\ pending.reply # Awaiting /\ pending.req.kind \in kinds

\* HostDispatch::finish and memory_write::finish: the evidence of one request.
Evidence(reply) == CASE reply.status = "committed" -> "committed"
                     [] reply.status = "error" -> "unknown"
                     [] OTHER -> "not_committed"
Record(r, request, reply) ==
  [r EXCEPT !.writes = Extend(@, request.id, [write |-> request.write, status |-> Evidence(reply)])]

\* record_memory_result_versions and record_completed_host_boundary.
Complete(r, request, reply) ==
  [r EXCEPT !.ledger = @ \cup {request.id},
            !.versions = CASE reply.status = "entries" ->
                                [k \in Keys |-> IF reply.entries[k] # 0 THEN reply.entries[k] ELSE @[k]]
                           [] reply.status \in {"value", "committed"} /\ reply.version # 0 ->
                                [@ EXCEPT ![request.mutation.key] = reply.version]
                           [] OTHER -> @]

\* A read that fails is tried again by an enclosing retry statement.
FinishRead ==
  /\ Answered({"get", "scan"})
  /\ LET reply == pending.reply  done == Complete(run, pending.req, pending.reply)
     IN CASE stop -> End("cancelled") /\ run' = run
          [] ~stop /\ reply = HostError -> RetryOrReport(run)
          [] ~stop /\ reply.status = "value" -> Continue(Advance([done EXCEPT !.last = reply.version]))
          [] ~stop /\ reply.status = "entries" ->
               Continue([done EXCEPT !.scanned = TRUE, !.todo = {k \in Keys : reply.entries[k] # 0}])
  /\ UNCHANGED <<program, stop, durableVars, hostVars>>

\* Mutant: a stop request hides the outcome.
FinishWriteEvidence_Lost == IF stop THEN run ELSE Record(run, pending.req, pending.reply)

\* The evidence is recorded first, whatever happens to the run.
FinishWriteEvidence == Record(run, pending.req, pending.reply)

\* A full receipt ledger: the write is refused before it is sent.  It is known
\* not to have happened, so a retry statement tries it again; of a prepared one
\* the program gets an error.
RefuseWrite ==
  /\ Ready /\ ~CanBind
  /\ LET numbered == [run EXCEPT !.next = @ + 1]
     IN \/ Op.kind \in {"commit", "reconcile"} /\ Raise(numbered)
        \/ Op.kind \in {"put", "delete"} /\ RetryOrReport(numbered)
        \/ Op.kind = "clear" /\ run.scanned /\ run.todo # {} /\ RetryOrReport(numbered)
  /\ UNCHANGED <<program, stop, durableVars, hostVars>>

\* memory_write::finish and finish_response.  A conflict is an error of the
\* program; a write that may have happened is never tried again.
FinishWrite ==
  /\ Answered({"write"})
  /\ LET reply == pending.reply
         known == FinishWriteEvidence
         done == Complete(known, pending.req, reply)
     IN \/ stop /\ End("cancelled") /\ run' = known
        \/ ~stop /\ reply.status \in {"committed", "unchanged"}
           /\ Continue(IF Op.kind = "clear" THEN done ELSE Advance(done))
        \/ ~stop /\ reply.status = "conflict" /\ Raise(known)
        \/ ~stop /\ reply.status = "rejected" /\ RetryOrReport(known)
        \/ ~stop /\ reply = HostError /\ End("failed") /\ run' = known
  /\ UNCHANGED <<program, stop, durableVars, hostVars>>

\* memory_commit::dispatch: every outcome is a value of the program.  A stop is
\* looked for before a lost answer is recorded as unknown.
FinishCommit ==
  /\ Answered({"commit"})
  /\ LET known == Record(run, pending.req, pending.reply)
     IN IF stop THEN End("cancelled") /\ run' = (IF pending.reply = HostError THEN run ELSE known)
        ELSE Continue(Advance(known))
  /\ UNCHANGED <<program, stop, durableVars, hostVars>>

\* Reconciliation only asks; of a lost answer the program gets an error.
FinishReconcile ==
  /\ Answered({"reconcile"})
  /\ \/ stop /\ End("cancelled") /\ run' = run
     \/ ~stop /\ pending.reply # HostError /\ Continue(Advance(run))
     \/ ~stop /\ pending.reply = HostError /\ Raise(run)
  /\ UNCHANGED <<program, stop, durableVars, hostVars>>

(***************************************************************************)
(* Checkpoints, the end of a run, and resumption                            *)
(***************************************************************************)
\* validate_checkpoint: every storage record belongs to an issued request.
ValidStorage(r) ==
  /\ \A i \in DOMAIN r.operations : i < r.next
  /\ Cardinality(DOMAIN r.operations) <= MaxReceipts
  /\ \A i \in DOMAIN r.writes : i < r.next /\ i \in DOMAIN r.operations

Checkpoint ==
  /\ Ready /\ Op.kind = "checkpoint"
  /\ IF ValidStorage(run)
     THEN saved' = saved \cup {Advance(run)} /\ Continue(Advance(run))
     ELSE End("failed") /\ UNCHANGED <<saved, run>>
  /\ UNCHANGED <<program, stop, restarts, issued, hostVars>>

Finished ==
  /\ status = "running" /\ Idle /\ (stop \/ run.pc > Len(program))
  /\ End(IF stop THEN "cancelled" ELSE "completed")
  /\ UNCHANGED <<program, run, stop, durableVars, hostVars>>

\* RunControl::stop, at any time before the run has ended.
Stop == /\ status = "running" /\ ~stop /\ stop' = TRUE
        /\ UNCHANGED <<program, run, pending, status, durableVars, hostVars>>

\* The process dies; what it has sent may still arrive.
Crash == /\ status = "running" /\ restarts < MaxRestarts /\ End("crashed")
         /\ UNCHANGED <<program, run, stop, durableVars, hostVars>>
\* seed_resume_counters, after resume_source_inner has compiled the saved sources.
RestoredCounter(checkpoint) == checkpoint.next + Sources

\* Mutant: the run gets an identity of its own.
RestoredIdentity_Fresh(checkpoint) == restarts + 1

RestoredIdentity(checkpoint) == checkpoint.identity

\* execute_from_checkpoint_signal: a new invocation of a run that has ended.
Resume(checkpoint) ==
  /\ status # "running" /\ restarts < MaxRestarts
  /\ ValidStorage(checkpoint)
  /\ run' = [checkpoint EXCEPT !.next = RestoredCounter(checkpoint),
                               !.identity = RestoredIdentity(checkpoint)]
  /\ status' = "running" /\ stop' = FALSE /\ restarts' = restarts + 1
  /\ pending' = [req |-> NoRequest, reply |-> Awaiting]
  /\ UNCHANGED <<program, saved, issued, hostVars>>

Step == \/ BeginGet \/ BeginWrite \/ BeginScan \/ BeginClearDelete \/ ClearDone
        \/ Prepare \/ BeginCommit \/ BeginReconcile \/ RefuseWrite
        \/ FinishRead \/ FinishWrite \/ FinishCommit \/ FinishReconcile
        \/ Checkpoint \/ Finished

Next == \/ Step
        \/ \E r \in inflight : Serve(r)
        \/ HostFails
        \/ \E key \in Keys : Foreign(key)
        \/ Stop \/ Crash
        \/ \E checkpoint \in saved : Resume(checkpoint)

Spec == Init /\ [][Next]_vars

(***************************************************************************)
(* Properties                                                               *)
(***************************************************************************)
\* Every variable has its type, and request numbers only identify requests that
\* were issued (run_state.rs, orchestration/checkpoint.rs).
RecoveryTypeOK ==
  /\ program \in Programs
  /\ run.pc \in 1..(Len(program) + 1) /\ run.attempt \in 1..MaxAttempts
  /\ run.ledger \subseteq 0..(run.next - 1)
  /\ pending.req # NoRequest => pending.req.id = run.next - 1 /\ pending.req.id \notin run.ledger
  /\ status \in {"running", "completed", "failed", "cancelled", "crashed"}
  /\ store \in [Keys -> 0..clock]
\* What the run has recorded about a derived write is what the store has done, and
\* a run that has ended by itself, also by a stop, has recorded something about
\* every such write it has sent; one whose boundary was never begun may be bound
\* without a record (memory_write.rs, host_dispatch.rs).
Truthful(i) ==
  LET opkey == run.operations[i].opkey  s == run.writes[i].status
  IN /\ s = "committed" => opkey \in DOMAIN receipts /\ receipts[opkey].result.status = "committed"
     /\ s = "not_committed" => opkey \in DOMAIN receipts /\ receipts[opkey].result.status # "committed"
WriteEvidence ==
  /\ \A i \in DOMAIN run.writes : Truthful(i)
  /\ status \in {"completed", "failed", "cancelled"} =>
       \A i \in DOMAIN run.operations :
         run.operations[i].phase = "begun" /\ ~run.operations[i].opkey.prepared => i \in DOMAIN run.writes

\* Clear removes only entries its own scan has returned: an entry another
\* workflow puts in their place survives (memory_selection.rs).
ClearSparesReplacements ==
  \A i \in DOMAIN effects : effects[i].write.version # 0 => effects[i].removed = effects[i].write.version

\* Every write of the program reaches the store at most once, across crashes, late
\* requests, attempts at a write the store has turned down and resumptions, and
\* committed answers are true: the storage boundary implements AtMostOnce, where a
\* replay repeats the program's request numbers (memory_write.rs, checkpoint.rs).
Known_answer(r) ==
  [w \in {r.writes[i].write : i \in DOMAIN r.writes} |->
     LET about == {i \in DOMAIN r.writes : r.writes[i].write = w}
     IN IF \E i \in about : r.writes[i].status = "committed" THEN "committed"
        ELSE r.writes[Max(about)].status]

Promise == INSTANCE AtMostOnce WITH
    effects <- [i \in DOMAIN effects |-> effects[i].write],
    answer <- Known_answer(run),
    kept <- {Known_answer(c) : c \in saved}
ImplementsAtMostOnce == Promise!AbsSpec

\* "No duplicate confirmed writes": no write of the program is applied twice,
\* also when a resumption compiles the sources saved with the checkpoint again
\* (resume/source.rs).
NoDuplicateWrites ==
  \A i, j \in DOMAIN effects : effects[i].write = effects[j].write => i = j

\* "Update ledger evidence even if the run is concurrently cancelled": a run that
\* ends by a stop has recorded something about the prepared write it awaited
\* (memory_commit.rs).
IntentEvidence ==
  [][~Idle /\ pending.req.kind = "commit" /\ status' = "cancelled"
       => pending.req.id \in DOMAIN run'.writes]_vars

=============================================================================
