--------------------------- MODULE RecoveryProofs ---------------------------
(***************************************************************************)
(* What the storage boundary of a run keeps true, for every set of         *)
(* programs and every limit.  BaseInv is the inductive invariant: evidence *)
(* is true of the store's receipts in the live run and in every checkpoint *)
(* alike, since a resumption makes a checkpoint the live run, and whatever *)
(* has been sent without evidence is what the run awaits.                  *)
(***************************************************************************)
EXTENDS Recovery, TLAPS, FiniteSetTheorems, SequenceTheorems, WellFoundedInduction, NaturalsInduction

RunFields == {"pc", "attempt", "next", "identity", "last", "scanned", "todo", "intent",
              "ledger", "versions", "operations", "writes"}
WriteNames == [at : Nat, key : Keys, version : Nat, prepared : BOOLEAN]
EffectRecords == [write : WriteNames, removed : Nat]

\* A run's own state, live or saved: requests that have a record were issued,
\* and the keys clear still has to delete have a version.
WellFormed(r) ==
  /\ DOMAIN r = RunFields
  /\ r.pc \in 1..(Len(program) + 1) /\ r.attempt \in 1..MaxAttempts
  /\ r.next \in Nat /\ r.intent \in Nat
  /\ r.ledger \subseteq 0..(r.next - 1)
  /\ r.versions \in [Keys -> Nat]
  /\ r.todo \subseteq Keys /\ \A k \in r.todo : r.versions[k] # 0
  /\ DOMAIN r.operations \subseteq 0..(r.next - 1)
  /\ DOMAIN r.writes \subseteq DOMAIN r.operations

\* Its evidence is what the store has done.
TrueRecords(r) ==
  \A i \in DOMAIN r.writes :
    LET opkey == r.operations[i].opkey  s == r.writes[i].status
    IN /\ s = "committed" => opkey \in DOMAIN receipts /\ receipts[opkey].result.status = "committed"
       /\ s = "not_committed" => opkey \in DOMAIN receipts /\ receipts[opkey].result.status # "committed"

\* It has evidence of every derived write it has sent, but the one it awaits.
Covered(r, awaited) ==
  \A i \in DOMAIN r.operations :
    r.operations[i].phase = "begun" /\ ~r.operations[i].opkey.prepared => i \in DOMAIN r.writes \cup awaited

RequestOK(q) ==
  /\ q.id \in Nat
  /\ q.kind \in {"get", "scan", "write", "commit", "reconcile"}
  /\ q.mutation.key \in Keys
  /\ q.kind \in {"write", "commit"} =>
       /\ q.write \in WriteNames
       /\ q.write.version # 0 => q.mutation.cond = q.write.version /\ q.mutation.key = q.write.key
                                 /\ q.mutation.del

ReplyOK(q, reply) ==
  \/ reply = Awaiting
  \/ reply = HostError
  \/ q.kind = "get" /\ reply.status = "value" /\ reply.version \in Nat
  \/ q.kind = "scan" /\ reply.status = "entries" /\ reply.entries \in [Keys -> Nat]
  \/ q.kind = "reconcile" /\ reply.status \in {"found", "unresolved"}
  \/ q.kind \in {"write", "commit"} /\ q.opkey \in DOMAIN receipts
     /\ reply = receipts[q.opkey].result /\ receipts[q.opkey].mutation = q.mutation

BoundaryOf(kind) ==
  CASE kind = "get" -> {"get"} [] kind = "scan" -> {"clear"} [] kind = "commit" -> {"commit"}
    [] kind = "reconcile" -> {"reconcile"} [] OTHER -> {"put", "delete", "clear"}

\* The boundary a run awaits is the last one it has issued.
AwaitedOK ==
  LET q == pending.req
  IN  /\ status = "running" /\ run.pc <= Len(program)
      /\ q.id = run.next - 1 /\ q.id \notin run.ledger
      /\ RequestOK(q) /\ ReplyOK(q, pending.reply)
      /\ Op.kind \in BoundaryOf(q.kind)
      /\ q.kind \in {"write", "commit"} =>
           /\ q.id \in DOMAIN run.operations /\ q.id \notin DOMAIN run.writes
           /\ run.operations[q.id].opkey = q.opkey

AwaitedWrite == IF ~Idle /\ pending.req.kind = "write" THEN {pending.req.id} ELSE {}

HostInv ==
  /\ clock \in Nat /\ store \in [Keys -> 0..clock]
  /\ \A o \in DOMAIN receipts :
       /\ receipts[o].result.status \in {"committed", "unchanged", "conflict", "rejected"}
       /\ receipts[o].result.version \in Nat
  /\ \A q \in inflight : RequestOK(q)
  /\ effects \in Seq(EffectRecords)
  /\ ClearSparesReplacements

RunInv ==
  /\ program \in Programs
  /\ status \in {"running", "completed", "failed", "cancelled", "crashed"} /\ stop \in BOOLEAN
  /\ WellFormed(run) /\ TrueRecords(run)
  /\ status # "crashed" => Covered(run, AwaitedWrite)

SavedInv ==
  /\ issued \in Nat /\ restarts \in Nat
  /\ \A c \in saved : WellFormed(c) /\ TrueRecords(c) /\ Covered(c, {})

PendingInv == 
  /\ DOMAIN pending = {"req", "reply"}
  /\ ~Idle => AwaitedOK

BaseInv == HostInv /\ RunInv /\ SavedInv /\ PendingInv

-----------------------------------------------------------------------------
\* A new run has issued and recorded nothing.
LEMMA InitBase == Init => BaseInv
<1> SUFFICES ASSUME Init PROVE BaseInv
  OBVIOUS
<1> USE RecoveryConstants DEF Init
<1>1. HostInv
  BY DEF HostInv, ClearSparesReplacements
<1>2. RunInv
  <2>1. WellFormed(run)
    BY DEF WellFormed, NewRun, RunFields
  <2>2. DOMAIN run.operations = {} /\ DOMAIN run.writes = {}
    BY DEF NewRun
  <2> QED BY <2>1, <2>2 DEF RunInv, TrueRecords, Covered
<1>3. SavedInv /\ PendingInv
  BY DEF SavedInv, PendingInv, Idle, NoRequest
<1> QED BY <1>1, <1>2, <1>3 DEF BaseInv

\* Saved states stay as they were while the store only learns more.
LEMMA KeepSaved ==
  ASSUME SavedInv, UNCHANGED <<program, saved, issued>>, restarts' \in Nat,
         \A o \in DOMAIN receipts : o \in DOMAIN receipts' /\ receipts'[o] = receipts[o]
  PROVE  SavedInv'
<1> SUFFICES ASSUME NEW c \in saved PROVE WellFormed(c)' /\ TrueRecords(c)' /\ Covered(c, {})'
  BY DEF SavedInv
<1>1. WellFormed(c) /\ TrueRecords(c) /\ Covered(c, {})
  BY DEF SavedInv
<1>2. WellFormed(c)'
  BY <1>1 DEF WellFormed
<1>3. TrueRecords(c)'
  BY <1>1 DEF TrueRecords
<1>4. Covered(c, {})'
  BY <1>1 DEF Covered
<1> QED BY <1>2, <1>3, <1>4

\* Advance moves the program counter and starts a new count of attempts.
LEMMA AdvanceFields ==
  ASSUME NEW r, DOMAIN r = RunFields
  PROVE  LET x == Advance(r) IN
         /\ DOMAIN x = RunFields
         /\ x.pc = r.pc + 1 /\ x.attempt = 1 /\ x.next = r.next /\ x.identity = r.identity
         /\ x.last = r.last /\ x.scanned = r.scanned /\ x.todo = r.todo /\ x.intent = r.intent
         /\ x.ledger = r.ledger /\ x.versions = r.versions
         /\ x.operations = r.operations /\ x.writes = r.writes
  BY DEF RunFields, Advance

\* Record changes the evidence of one request.
LEMMA RecordFields ==
  ASSUME NEW r, NEW q, NEW reply, DOMAIN r = RunFields
  PROVE  LET x == Record(r, q, reply) IN
         /\ DOMAIN x = RunFields
         /\ x.pc = r.pc /\ x.attempt = r.attempt /\ x.next = r.next /\ x.identity = r.identity
         /\ x.scanned = r.scanned /\ x.todo = r.todo /\ x.intent = r.intent
         /\ x.ledger = r.ledger /\ x.versions = r.versions /\ x.operations = r.operations
         /\ DOMAIN x.writes = DOMAIN r.writes \cup {q.id}
         /\ x.writes[q.id] = [write |-> q.write, status |-> Evidence(reply)]
         /\ \A i \in DOMAIN r.writes : i # q.id => x.writes[i] = r.writes[i]
<1>1. Record(r, q, reply).writes = Extend(r.writes, q.id, [write |-> q.write, status |-> Evidence(reply)])
  BY DEF RunFields, Record
<1>2. /\ DOMAIN Record(r, q, reply).writes = DOMAIN r.writes \cup {q.id}
      /\ Record(r, q, reply).writes[q.id] = [write |-> q.write, status |-> Evidence(reply)]
      /\ \A i \in DOMAIN r.writes : i # q.id => Record(r, q, reply).writes[i] = r.writes[i]
  BY <1>1 DEF Extend
<1>3. LET x == Record(r, q, reply) IN
         /\ DOMAIN x = RunFields
         /\ x.pc = r.pc /\ x.attempt = r.attempt /\ x.next = r.next /\ x.identity = r.identity
         /\ x.scanned = r.scanned /\ x.todo = r.todo /\ x.intent = r.intent
         /\ x.ledger = r.ledger /\ x.versions = r.versions /\ x.operations = r.operations
  BY DEF RunFields, Record
<1> QED BY <1>2, <1>3

\* Complete changes the ledger and the known versions; a version that was known stays known.
LEMMA CompleteFields ==
  ASSUME NEW r, NEW q, NEW reply, DOMAIN r = RunFields, r.versions \in [Keys -> Nat],
         q.mutation.key \in Keys,
         reply.status = "entries" => reply.entries \in [Keys -> Nat],
         reply.status \in {"value", "committed"} => reply.version \in Nat
  PROVE  LET x == Complete(r, q, reply) IN
         /\ DOMAIN x = RunFields
         /\ x.pc = r.pc /\ x.attempt = r.attempt /\ x.next = r.next /\ x.identity = r.identity
         /\ x.scanned = r.scanned /\ x.todo = r.todo /\ x.intent = r.intent
         /\ x.ledger = r.ledger \cup {q.id} /\ x.operations = r.operations /\ x.writes = r.writes
         /\ x.versions \in [Keys -> Nat]
         /\ \A k \in Keys : r.versions[k] # 0 => x.versions[k] # 0
         /\ reply.status = "entries" => \A k \in Keys : reply.entries[k] # 0 => x.versions[k] # 0
<1> DEFINE x == Complete(r, q, reply)
<1>1. /\ DOMAIN x = RunFields
      /\ x.pc = r.pc /\ x.attempt = r.attempt /\ x.next = r.next /\ x.identity = r.identity
      /\ x.scanned = r.scanned /\ x.todo = r.todo /\ x.intent = r.intent
      /\ x.ledger = r.ledger \cup {q.id} /\ x.operations = r.operations /\ x.writes = r.writes
  BY DEF RunFields, Complete
<1>2. x.versions = CASE reply.status = "entries" ->
                          [k \in Keys |-> IF reply.entries[k] # 0 THEN reply.entries[k] ELSE r.versions[k]]
                     [] reply.status \in {"value", "committed"} /\ reply.version # 0 ->
                          [r.versions EXCEPT ![q.mutation.key] = reply.version]
                     [] OTHER -> r.versions
  BY DEF RunFields, Complete
<1> HIDE DEF x
<1>3. CASE reply.status = "entries"
  <2>1. x.versions = [k \in Keys |-> IF reply.entries[k] # 0 THEN reply.entries[k] ELSE r.versions[k]]
    BY <1>2, <1>3
  <2>2. x.versions \in [Keys -> Nat]
    BY <2>1, <1>3
  <2> QED BY <1>1, <2>1, <2>2, <1>3 DEF x
<1>4. CASE reply.status \in {"value", "committed"} /\ reply.version # 0
  <2>1. x.versions = [r.versions EXCEPT ![q.mutation.key] = reply.version]
    BY <1>2, <1>4
  <2> QED BY <1>1, <2>1, <1>4 DEF x
<1>5. CASE reply.status # "entries" /\ ~(reply.status \in {"value", "committed"} /\ reply.version # 0)
  <2>1. x.versions = r.versions
    BY <1>2, <1>5
  <2> QED BY <1>1, <2>1, <1>5 DEF x
<1> QED BY <1>3, <1>4, <1>5

\* bind_storage_operation adds the operation of the next request.
LEMMA BindFields ==
  ASSUME NEW r, NEW opkey, NEW mutation, NEW phase, DOMAIN r = RunFields
  PROVE  LET x == bind_storage_operation(r, opkey, mutation, phase) IN
         /\ DOMAIN x = RunFields
         /\ x.pc = r.pc /\ x.attempt = r.attempt /\ x.next = r.next /\ x.identity = r.identity
         /\ x.scanned = r.scanned /\ x.todo = r.todo /\ x.intent = r.intent
         /\ x.ledger = r.ledger /\ x.versions = r.versions /\ x.writes = r.writes
         /\ DOMAIN x.operations = DOMAIN r.operations \cup {r.next}
         /\ x.operations[r.next] = [opkey |-> opkey, mutation |-> mutation, phase |-> phase]
         /\ \A i \in DOMAIN r.operations : i # r.next => x.operations[i] = r.operations[i]
<1> DEFINE x == bind_storage_operation(r, opkey, mutation, phase)
<1>1. /\ DOMAIN x = RunFields
      /\ x.pc = r.pc /\ x.attempt = r.attempt /\ x.next = r.next /\ x.identity = r.identity
      /\ x.scanned = r.scanned /\ x.todo = r.todo /\ x.intent = r.intent
      /\ x.ledger = r.ledger /\ x.versions = r.versions /\ x.writes = r.writes
  BY DEF RunFields, bind_storage_operation
<1>2. x.operations = Extend(r.operations, r.next, [opkey |-> opkey, mutation |-> mutation, phase |-> phase])
  BY DEF RunFields, bind_storage_operation
<1>3. /\ DOMAIN x.operations = DOMAIN r.operations \cup {r.next}
      /\ x.operations[r.next] = [opkey |-> opkey, mutation |-> mutation, phase |-> phase]
      /\ \A i \in DOMAIN r.operations : i # r.next => x.operations[i] = r.operations[i]
  BY <1>2 DEF Extend
<1> QED BY <1>1, <1>3

\* Taking a request number changes nothing else.
LEMMA NumberedFields ==
  ASSUME NEW r, NEW n, DOMAIN r = RunFields
  PROVE  LET x == [r EXCEPT !.next = n] IN
         /\ DOMAIN x = RunFields
         /\ x.pc = r.pc /\ x.attempt = r.attempt /\ x.next = n /\ x.identity = r.identity
         /\ x.scanned = r.scanned /\ x.todo = r.todo /\ x.intent = r.intent
         /\ x.ledger = r.ledger /\ x.versions = r.versions
         /\ x.operations = r.operations /\ x.writes = r.writes
  BY DEF RunFields

-----------------------------------------------------------------------------
\* Sending a request: what a run becomes, and what it then awaits.
LEMMA DispatchBase ==
  ASSUME BaseInv, Ready, NEW r, NEW kind, NEW opkey, NEW mutation, NEW write,
         Dispatch(r, kind, opkey, mutation, write),
         r.next \in Nat, run'.next = r.next + 1, run'.pc = run.pc,
         WellFormed(run'), TrueRecords(run'), run'.ledger = run.ledger,
         run.next <= r.next,
         Covered(run', IF kind = "write" THEN {r.next} ELSE {}),
         RequestOK([id |-> r.next, incarnation |-> restarts, kind |-> kind,
                    opkey |-> opkey, mutation |-> mutation, write |-> write]),
         Op.kind \in BoundaryOf(kind),
         kind \in {"write", "commit"} =>
           r.next \in DOMAIN run'.operations /\ r.next \notin DOMAIN run'.writes
           /\ run'.operations[r.next].opkey = opkey
  PROVE  BaseInv'
<1>0. PICK q : q = [id |-> r.next, incarnation |-> restarts, kind |-> kind,
                    opkey |-> opkey, mutation |-> mutation, write |-> write]
  OBVIOUS
<1>1. /\ pending' = [req |-> q, reply |-> Awaiting]
      /\ inflight' = inflight \cup {q}
      /\ UNCHANGED <<program, status, stop, saved, restarts, issued, store, clock, receipts,
                     effects, foreign>>
  BY <1>0 DEF Dispatch, durableVars
<1>2. q.id = r.next /\ q.kind = kind /\ q.opkey = opkey /\ RequestOK(q)
  BY <1>0
<1>3. ~Idle'
  BY <1>1, <1>2 DEF Idle, NoRequest
<1>4. pending'.req = q /\ pending'.reply = Awaiting /\ DOMAIN pending' = {"req", "reply"}
  BY <1>1
<1>5. HostInv'
  <2>1. \A z \in inflight' : RequestOK(z)
    BY <1>1, <1>2 DEF BaseInv, HostInv
  <2>2. \A z : RequestOK(z)' <=> RequestOK(z)
    BY DEF RequestOK
  <2> QED BY <1>1, <2>1, <2>2 DEF BaseInv, HostInv, ClearSparesReplacements
<1>6. RunInv'
  <2>1. AwaitedWrite' = IF kind = "write" THEN {r.next} ELSE {}
    BY <1>2, <1>3, <1>4 DEF AwaitedWrite
  <2>2. WellFormed(run)' /\ TrueRecords(run)'
    BY <1>1 DEF WellFormed, TrueRecords
  <2>3. Covered(run, AwaitedWrite)'
    BY <2>1 DEF Covered
  <2> QED BY <1>1, <2>2, <2>3 DEF BaseInv, RunInv
<1>7. SavedInv'
  BY <1>1, KeepSaved DEF BaseInv, SavedInv
<1>8. PendingInv'
  <2>1. RequestOK(q)'
    BY <1>2 DEF RequestOK
  <2>2. run.ledger \subseteq 0..(run.next - 1) /\ run.next \in Nat
    BY DEF BaseInv, RunInv, WellFormed
  <2>3. q.id \notin run'.ledger /\ q.id = run'.next - 1
    BY <1>2, <2>2
  <2>4. status' = "running" /\ run'.pc <= Len(program') /\ Op' = Op
    BY <1>1 DEF Ready, Op
  <2>5. ReplyOK(q, Awaiting)'
    BY DEF ReplyOK
  <2>6. BoundaryOf(kind)' = BoundaryOf(kind)
    BY DEF BoundaryOf
  <2> QED BY <1>2, <1>4, <2>1, <2>3, <2>4, <2>5, <2>6 DEF PendingInv, AwaitedOK
<1> QED BY <1>5, <1>6, <1>7, <1>8 DEF BaseInv

\* A step of the run that sends nothing leaves it idle, or at its end.
LEMMA QuietBase ==
  ASSUME BaseInv, UNCHANGED <<program, hostVars>>,
         pending' = [req |-> NoRequest, reply |-> Awaiting],
         WellFormed(run'), TrueRecords(run'), SavedInv',
         stop' \in BOOLEAN,
         status' \in {"running", "completed", "failed", "cancelled", "crashed"},
         status' # "crashed" => Covered(run', {})
  PROVE  BaseInv'
<1>1. HostInv'
  <2>1. \A z : RequestOK(z)' <=> RequestOK(z)
    BY DEF RequestOK
  <2> QED BY <2>1 DEF BaseInv, HostInv, hostVars, ClearSparesReplacements
<1>2. pending'.req = NoRequest /\ DOMAIN pending' = {"req", "reply"}
  OBVIOUS
<1>3. Idle' /\ AwaitedWrite' = {}
  BY <1>2 DEF Idle, AwaitedWrite
<1>4. RunInv'
  <2>1. WellFormed(run)' /\ TrueRecords(run)'
    BY DEF WellFormed, TrueRecords, hostVars
  <2>2. (status # "crashed" => Covered(run, AwaitedWrite))'
    BY <1>3 DEF Covered
  <2> QED BY <2>1, <2>2 DEF BaseInv, RunInv
<1>5. PendingInv'
  BY <1>2, <1>3 DEF PendingInv
<1> QED BY <1>1, <1>4, <1>5 DEF BaseInv

\* What holds of a run that may take its next step.
LEMMA ReadyFacts ==
  ASSUME BaseInv, Ready
  PROVE  /\ WellFormed(run) /\ TrueRecords(run) /\ Covered(run, {}) /\ DOMAIN run = RunFields
         /\ run.next \in Nat /\ run.pc \in 1..Len(program) /\ run.intent \in Nat
         /\ Op \in Operations /\ Op.key \in Keys
         /\ stop = FALSE /\ status = "running"
         /\ program \in Programs
<1>1. WellFormed(run) /\ TrueRecords(run) /\ Covered(run, AwaitedWrite) /\ program \in Programs
  BY DEF BaseInv, RunInv, Ready
<1>2. AwaitedWrite = {}
  BY DEF AwaitedWrite, Ready
<1>3. DOMAIN run = RunFields /\ run.next \in Nat /\ run.intent \in Nat /\ run.pc \in 1..(Len(program) + 1)
  BY <1>1 DEF WellFormed
<1>4. program \in Seq(Operations)
  BY <1>1, RecoveryConstants
<1>5. run.pc \in 1..Len(program)
  BY <1>3, <1>4 DEF Ready
<1>6. Op \in Operations
  BY <1>4, <1>5 DEF Op
<1>7. Op.key \in Keys
  BY <1>6 DEF Operations
<1> QED BY <1>1, <1>2, <1>3, <1>5, <1>6, <1>7 DEF Ready

\* Moving past an operation keeps a run well formed.
LEMMA AdvanceBase ==
  ASSUME NEW r, WellFormed(r), TrueRecords(r), r.pc <= Len(program), program \in Programs
  PROVE  /\ WellFormed(Advance(r)) /\ TrueRecords(Advance(r))
         /\ \A aw : Covered(r, aw) => Covered(Advance(r), aw)
<1>1. DOMAIN r = RunFields
  BY DEF WellFormed
<1>2. program \in Seq(Operations) /\ 1 \in 1..MaxAttempts /\ Len(program) \in Nat
  BY RecoveryConstants
<1> DEFINE x == Advance(r)
<1>3. /\ DOMAIN x = RunFields
      /\ x.pc = r.pc + 1 /\ x.attempt = 1 /\ x.next = r.next /\ x.todo = r.todo /\ x.intent = r.intent
      /\ x.ledger = r.ledger /\ x.versions = r.versions
      /\ x.operations = r.operations /\ x.writes = r.writes
  BY <1>1, AdvanceFields
<1> HIDE DEF x
<1>4. WellFormed(x)
  BY <1>2, <1>3 DEF WellFormed
<1>5. TrueRecords(x)
  BY <1>3 DEF TrueRecords
<1>6. \A aw : Covered(r, aw) => Covered(x, aw)
  BY <1>3 DEF Covered
<1> QED BY <1>4, <1>5, <1>6 DEF x

-----------------------------------------------------------------------------
\* Sending a request that changes no record.
LEMMA SendReadBase ==
  ASSUME BaseInv, Ready, NEW r, NEW kind \in {"get", "scan"}, Op.kind \in BoundaryOf(kind),
         Dispatch(r, kind, 0, Mutation(FALSE, Op.key, Any, 0), 0),
         DOMAIN r = RunFields, r.next \in Nat, run.next <= r.next,
         r.pc = run.pc, r.attempt = run.attempt, r.scanned = run.scanned, r.todo = run.todo,
         r.intent = run.intent, r.ledger = run.ledger, r.versions = run.versions,
         r.operations = run.operations, r.writes = run.writes
  PROVE  BaseInv'
<1>2. run' = [r EXCEPT !.next = r.next + 1]
  BY DEF Dispatch
<1>3. /\ DOMAIN run' = RunFields
      /\ run'.pc = run.pc /\ run'.attempt = run.attempt /\ run'.next = r.next + 1
      /\ run'.scanned = run.scanned /\ run'.todo = run.todo /\ run'.intent = run.intent
      /\ run'.ledger = run.ledger /\ run'.versions = run.versions
      /\ run'.operations = run.operations /\ run'.writes = run.writes
  BY <1>2, NumberedFields
<1>4. WellFormed(run')
  BY <1>3, ReadyFacts DEF WellFormed
<1>5. TrueRecords(run') /\ Covered(run', {})
  BY <1>3, ReadyFacts DEF TrueRecords, Covered
<1>6. RequestOK([id |-> r.next, incarnation |-> restarts, kind |-> kind,
                 opkey |-> 0, mutation |-> Mutation(FALSE, Op.key, Any, 0), write |-> 0])
  BY ReadyFacts DEF RequestOK, Mutation
<1> QED BY <1>3, <1>4, <1>5, <1>6, DispatchBase

\* Steps that neither save nor decide keep the checkpoints.
LEMMA KeepSavedQuiet ==
  ASSUME BaseInv, UNCHANGED <<program, saved, issued, restarts, receipts>> PROVE SavedInv'
  BY KeepSaved DEF BaseInv, SavedInv

\* What an operation that fails leaves behind for the next attempt, and for a handler.
Dropped(r) == [r EXCEPT !.scanned = FALSE, !.todo = {}]
LEMMA AgainFields ==
  ASSUME NEW r, DOMAIN r = RunFields
  PROVE  LET x == Again(r) IN
         /\ DOMAIN x = RunFields
         /\ x.pc = r.pc /\ x.attempt = r.attempt + 1 /\ x.next = r.next /\ x.identity = r.identity
         /\ x.todo = {} /\ x.intent = r.intent
         /\ x.ledger = r.ledger /\ x.versions = r.versions
         /\ x.operations = r.operations /\ x.writes = r.writes
  BY DEF RunFields, Again

\* A handler keeps the run's requests and evidence.
LEMMA DroppedFields ==
  ASSUME NEW r, DOMAIN r = RunFields
  PROVE  LET x == Dropped(r) IN
         /\ DOMAIN x = RunFields
         /\ x.pc = r.pc /\ x.attempt = r.attempt /\ x.next = r.next /\ x.identity = r.identity
         /\ x.todo = {} /\ x.intent = r.intent
         /\ x.ledger = r.ledger /\ x.versions = r.versions
         /\ x.operations = r.operations /\ x.writes = r.writes
  BY DEF RunFields, Dropped

\* An operation of the run r fails: the run ends, the operation is tried again, or
\* a handler takes the error.
Fails(r) == Raise(r) \/ RetryOrReport(r) \/ ((End("cancelled") \/ End("failed")) /\ run' = r)

LEMMA FailsCases ==
  ASSUME NEW r, Fails(r)
  PROVE  /\ pending' = [req |-> NoRequest, reply |-> Awaiting]
         /\ \/ MayRetry /\ run' = Again(r) /\ status' = status
            \/ Op.handled /\ run' = Advance(Dropped(r)) /\ status' = status
            \/ status' \in {"cancelled", "failed"} /\ run' = r
  BY DEF Fails, Raise, RetryOrReport, Continue, End, Dropped

\* A failure keeps the records of the run.
LEMMA FailsBase ==
  ASSUME BaseInv, status = "running", run.pc <= Len(program), NEW r,
         WellFormed(r), TrueRecords(r), Covered(r, {}), r.pc = run.pc, r.attempt = run.attempt,
         Fails(r), stop' \in BOOLEAN, UNCHANGED <<program, saved, restarts, issued, hostVars>>
  PROVE  BaseInv'
<1>1. DOMAIN r = RunFields /\ program \in Programs
  BY DEF WellFormed, BaseInv, RunInv
<1>2. SavedInv'
  BY KeepSavedQuiet DEF hostVars
<1>3. CASE MayRetry /\ run' = Again(r) /\ status' = status
  <2>1. PICK x : x = Again(r)
    OBVIOUS
  <2>2. /\ DOMAIN x = RunFields
        /\ x.pc = r.pc /\ x.attempt = r.attempt + 1 /\ x.next = r.next
        /\ x.todo = {} /\ x.intent = r.intent /\ x.ledger = r.ledger /\ x.versions = r.versions
        /\ x.operations = r.operations /\ x.writes = r.writes
    BY <1>1, <2>1, AgainFields
  <2>3. r.attempt < MaxAttempts
    BY <1>3 DEF MayRetry
  <2>4. WellFormed(x)
    BY <2>2, <2>3, RecoveryConstants DEF WellFormed
  <2>5. TrueRecords(x) /\ Covered(x, {})
    BY <2>2 DEF TrueRecords, Covered
  <2> QED BY <1>2, <1>3, <2>1, <2>4, <2>5, QuietBase, FailsCases
<1>4. CASE Op.handled /\ run' = Advance(Dropped(r)) /\ status' = status
  <2>1. PICK x : x = Dropped(r)
    OBVIOUS
  <2>2. /\ DOMAIN x = RunFields
        /\ x.pc = r.pc /\ x.attempt = r.attempt /\ x.next = r.next
        /\ x.todo = {} /\ x.intent = r.intent /\ x.ledger = r.ledger /\ x.versions = r.versions
        /\ x.operations = r.operations /\ x.writes = r.writes
    BY <1>1, <2>1, DroppedFields
  <2>3. WellFormed(x)
    BY <2>2 DEF WellFormed
  <2>4. TrueRecords(x) /\ Covered(x, {})
    BY <2>2 DEF TrueRecords, Covered
  <2>5. WellFormed(run') /\ TrueRecords(run') /\ Covered(run', {})
    BY <1>1, <1>4, <2>1, <2>2, <2>3, <2>4, AdvanceBase
  <2> QED BY <1>2, <1>4, <2>5, QuietBase, FailsCases
<1>5. CASE status' \in {"cancelled", "failed"} /\ run' = r
  BY <1>2, <1>5, QuietBase, FailsCases
<1> QED BY <1>3, <1>4, <1>5, FailsCases

\* An operation is bound, and its boundary never begins.
LEMMA NotDispatchedBase ==
  ASSUME BaseInv, Ready, CanBind, NEW r, NEW opkey, NEW mutation,
         WellFormed(r), TrueRecords(r), Covered(r, {}),
         r.next = run.next, r.pc = run.pc, r.attempt = run.attempt,
         NotDispatched([bind_storage_operation(r, opkey, mutation, "bound") EXCEPT !.next = @ + 1])
  PROVE  BaseInv'
<1>1. DOMAIN r = RunFields /\ r.next \in Nat
  BY DEF WellFormed
<1>2. PICK b : b = bind_storage_operation(r, opkey, mutation, "bound")
  OBVIOUS
<1>3. /\ DOMAIN b = RunFields
      /\ b.pc = r.pc /\ b.attempt = r.attempt /\ b.next = r.next
      /\ b.scanned = r.scanned /\ b.todo = r.todo /\ b.intent = r.intent
      /\ b.ledger = r.ledger /\ b.versions = r.versions /\ b.writes = r.writes
      /\ DOMAIN b.operations = DOMAIN r.operations \cup {r.next}
      /\ b.operations[r.next] = [opkey |-> opkey, mutation |-> mutation, phase |-> "bound"]
      /\ \A i \in DOMAIN r.operations : i # r.next => b.operations[i] = r.operations[i]
  BY <1>1, <1>2, BindFields
<1>4. PICK x : x = [b EXCEPT !.next = r.next + 1]
  OBVIOUS
<1>5. /\ DOMAIN x = RunFields
      /\ x.pc = r.pc /\ x.attempt = r.attempt /\ x.next = r.next + 1
      /\ x.scanned = r.scanned /\ x.todo = r.todo /\ x.intent = r.intent
      /\ x.ledger = r.ledger /\ x.versions = r.versions
      /\ x.operations = b.operations /\ x.writes = r.writes
  BY <1>3, <1>4, NumberedFields
<1>6. WellFormed(x)
  BY <1>1, <1>3, <1>5 DEF WellFormed
<1>7. r.next \notin DOMAIN r.operations
  BY <1>1 DEF WellFormed
<1>8. TrueRecords(x)
  <2>1. \A i \in DOMAIN x.writes : i \in DOMAIN r.writes /\ x.writes[i] = r.writes[i]
                                   /\ x.operations[i] = r.operations[i]
    BY <1>3, <1>5, <1>7 DEF WellFormed
  <2> QED BY <2>1 DEF TrueRecords
<1>9. Covered(x, {})
  <2>1. x.operations[r.next].phase = "bound"
    BY <1>3, <1>5
  <2> QED BY <2>1, <1>3, <1>5, <1>7 DEF Covered
<1>10. NotDispatched(x)
  BY <1>2, <1>3, <1>4
<1>11. Fails(x) /\ stop' \in BOOLEAN /\ UNCHANGED <<program, saved, restarts, issued, hostVars>>
  <2>1. Fails(x)
    BY <1>10, Zenon DEF NotDispatched, Fails
  <2>2. stop \in BOOLEAN
    BY DEF BaseInv, RunInv
  <2>3. stop' \in BOOLEAN
    BY <1>10, <2>2 DEF NotDispatched
  <2>4. UNCHANGED <<program, saved, restarts, issued, hostVars>>
    BY <1>10 DEF NotDispatched, durableVars
  <2> QED BY <2>1, <2>3, <2>4
<1>12. status = "running" /\ run.pc <= Len(program)
  BY DEF Ready
<1> QED BY <1>5, <1>6, <1>8, <1>9, <1>11, <1>12, FailsBase

\* Sending a request under an operation key that is recorded first.
LEMMA SendBoundBase ==
  ASSUME BaseInv, Ready, CanBind, NEW r, NEW kind \in {"write", "commit", "reconcile"},
         NEW opkey, NEW mutation, NEW write,
         WellFormed(r), TrueRecords(r), Covered(r, {}),
         r.next = run.next, r.pc = run.pc, r.ledger = run.ledger,
         Op.kind \in BoundaryOf(kind),
         kind # "write" => opkey.prepared,
         RequestOK([id |-> r.next, incarnation |-> restarts, kind |-> kind,
                    opkey |-> opkey, mutation |-> mutation, write |-> write]),
         Dispatch(bind_storage_operation(r, opkey, mutation, "begun"), kind, opkey, mutation, write)
  PROVE  BaseInv'
<1> DEFINE b == bind_storage_operation(r, opkey, mutation, "begun")
<1>1. DOMAIN r = RunFields /\ r.next \in Nat
  BY DEF WellFormed
<1>2. /\ DOMAIN b = RunFields
      /\ b.pc = r.pc /\ b.attempt = r.attempt /\ b.next = r.next
      /\ b.scanned = r.scanned /\ b.todo = r.todo /\ b.intent = r.intent
      /\ b.ledger = r.ledger /\ b.versions = r.versions /\ b.writes = r.writes
      /\ DOMAIN b.operations = DOMAIN r.operations \cup {r.next}
      /\ b.operations[r.next] = [opkey |-> opkey, mutation |-> mutation, phase |-> "begun"]
      /\ \A i \in DOMAIN r.operations : i # r.next => b.operations[i] = r.operations[i]
  BY <1>1, BindFields
<1>3. run' = [b EXCEPT !.next = r.next + 1]
  BY <1>2 DEF Dispatch
<1> HIDE DEF b
<1>4. /\ DOMAIN run' = RunFields
      /\ run'.pc = r.pc /\ run'.attempt = r.attempt /\ run'.next = r.next + 1
      /\ run'.scanned = r.scanned /\ run'.todo = r.todo /\ run'.intent = r.intent
      /\ run'.ledger = r.ledger /\ run'.versions = r.versions
      /\ run'.operations = b.operations /\ run'.writes = r.writes
  BY <1>2, <1>3, NumberedFields
<1>5. r.next \notin DOMAIN r.operations
  BY <1>1 DEF WellFormed
<1>6. WellFormed(run')
  BY <1>1, <1>2, <1>4 DEF WellFormed
<1>7. \A i \in DOMAIN r.operations : run'.operations[i] = r.operations[i]
  BY <1>2, <1>4, <1>5
<1>8. TrueRecords(run')
  <2>1. \A i \in DOMAIN run'.writes : i \in DOMAIN r.writes /\ run'.writes[i] = r.writes[i]
                                      /\ run'.operations[i] = r.operations[i]
    BY <1>4, <1>7 DEF WellFormed
  <2> QED BY <2>1 DEF TrueRecords
<1>9. Covered(run', IF kind = "write" THEN {r.next} ELSE {})
  <2>1. DOMAIN run'.operations = DOMAIN r.operations \cup {r.next} /\ run'.writes = r.writes
        /\ run'.operations[r.next].opkey = opkey
    BY <1>2, <1>4
  <2> QED BY <2>1, <1>7 DEF Covered
<1>10. r.next \in DOMAIN run'.operations /\ r.next \notin DOMAIN run'.writes
       /\ run'.operations[r.next].opkey = opkey
  BY <1>2, <1>4, <1>5 DEF WellFormed
<1>11. /\ b.next \in Nat /\ run.next <= b.next /\ run'.next = b.next + 1
       /\ run'.pc = run.pc /\ run'.ledger = run.ledger
       /\ Covered(run', IF kind = "write" THEN {b.next} ELSE {})
       /\ b.next \in DOMAIN run'.operations /\ b.next \notin DOMAIN run'.writes
       /\ run'.operations[b.next].opkey = opkey
  BY <1>1, <1>2, <1>4, <1>9, <1>10
<1>12. RequestOK([id |-> b.next, incarnation |-> restarts, kind |-> kind,
                  opkey |-> opkey, mutation |-> mutation, write |-> write])
  BY <1>2
<1>13. Dispatch(b, kind, opkey, mutation, write)
  BY DEF b
<1> QED BY <1>6, <1>8, <1>11, <1>12, <1>13, DispatchBase

\* A write is bound, and its boundary begins or not.
LEMMA SendBase ==
  ASSUME BaseInv, Ready, CanBind, NEW r, NEW kind \in {"write", "commit"},
         NEW opkey, NEW mutation, NEW write,
         WellFormed(r), TrueRecords(r), Covered(r, {}),
         r.next = run.next, r.pc = run.pc, r.attempt = run.attempt, r.ledger = run.ledger,
         Op.kind \in BoundaryOf(kind),
         kind # "write" => opkey.prepared,
         RequestOK([id |-> r.next, incarnation |-> restarts, kind |-> kind,
                    opkey |-> opkey, mutation |-> mutation, write |-> write]),
         Send(r, kind, opkey, mutation, write)
  PROVE  BaseInv'
<1>1. CASE Dispatch(bind_storage_operation(r, opkey, mutation, "begun"), kind, opkey, mutation, write)
  BY <1>1, SendBoundBase
<1>2. CASE NotDispatched([bind_storage_operation(r, opkey, mutation, "bound") EXCEPT !.next = @ + 1])
  BY <1>2, NotDispatchedBase
<1> QED BY <1>1, <1>2 DEF Send

\* A get or a scan is sent.
LEMMA BeginReadBase == ASSUME BaseInv, BeginGet \/ BeginScan PROVE BaseInv'
<1>1. CASE BeginGet
  <2>1. Ready /\ Op.kind = "get" /\ Dispatch(run, "get", 0, Mutation(FALSE, Op.key, Any, 0), 0)
    BY <1>1 DEF BeginGet
  <2>2. Op.kind \in BoundaryOf("get") /\ run.next <= run.next
    BY <2>1, ReadyFacts DEF BoundaryOf
  <2> QED BY <2>1, <2>2, SendReadBase, ReadyFacts
<1>2. CASE BeginScan
  <2>1. Ready /\ Op.kind = "clear"
    BY <1>2 DEF BeginScan
  <2>2. PICK pages \in 1..2 : Dispatch([run EXCEPT !.next = run.next + pages - 1], "scan", 0,
                                       Mutation(FALSE, Op.key, Any, 0), 0)
    BY <1>2 DEF BeginScan
  <2> DEFINE n == run.next + pages - 1
             r == [run EXCEPT !.next = n]
  <2>3. n \in Nat /\ run.next <= n
    BY <2>1, ReadyFacts
  <2>4. Dispatch(r, "scan", 0, Mutation(FALSE, Op.key, Any, 0), 0)
    BY <2>2
  <2> HIDE DEF n
  <2>5. /\ DOMAIN r = RunFields
        /\ r.pc = run.pc /\ r.attempt = run.attempt /\ r.next = n
        /\ r.scanned = run.scanned /\ r.todo = run.todo /\ r.intent = run.intent
        /\ r.ledger = run.ledger /\ r.versions = run.versions
        /\ r.operations = run.operations /\ r.writes = run.writes
    BY <2>1, ReadyFacts, NumberedFields
  <2> HIDE DEF r
  <2>6. Op.kind \in BoundaryOf("scan")
    BY <2>1 DEF BoundaryOf
  <2> QED BY <2>1, <2>3, <2>4, <2>5, <2>6, SendReadBase
<1> QED BY <1>1, <1>2

\* A put or a delete is bound and sent.
LEMMA BeginWriteBase == ASSUME BaseInv, BeginWrite PROVE BaseInv'
<1> DEFINE mutation == Mutation(Op.kind = "delete", Op.key, Condition(Op.cond), Op.value)
           write == [at |-> run.pc, key |-> Op.key, version |-> 0, prepared |-> FALSE]
<1>1. Ready /\ CanBind /\ Op.kind \in {"put", "delete"}
      /\ Send(run, "write", DerivedKey(run), mutation, write)
  BY DEF BeginWrite
<1>2. mutation.key = Op.key
  BY DEF Mutation
<1>3. write \in WriteNames /\ write.version = 0
  BY <1>1, ReadyFacts DEF WriteNames
<1> HIDE DEF mutation, write
<1>4. RequestOK([id |-> run.next, incarnation |-> restarts, kind |-> "write",
                 opkey |-> DerivedKey(run), mutation |-> mutation, write |-> write])
  BY <1>1, <1>2, <1>3, ReadyFacts DEF RequestOK
<1>5. Op.kind \in BoundaryOf("write")
  BY <1>1 DEF BoundaryOf
<1> QED BY <1>1, <1>4, <1>5, ReadyFacts, SendBase

\* clear sends the delete of one scanned key.
LEMMA BeginClearDeleteBase == ASSUME BaseInv, BeginClearDelete PROVE BaseInv'
<1> DEFINE key == CHOOSE k \in run.todo : TRUE
           mutation == Mutation(TRUE, key, ClearCondition(key), 0)
           write == [at |-> run.pc, key |-> key, version |-> run.versions[key], prepared |-> FALSE]
           r == [run EXCEPT !.todo = @ \ {key}]
<1>1. Ready /\ CanBind /\ Op.kind = "clear" /\ run.todo # {}
      /\ Send(r, "write", DerivedKey(run), mutation, write)
  BY DEF BeginClearDelete
<1>2. key \in run.todo
  BY <1>1
<1> HIDE DEF key
<1>3. key \in Keys /\ run.versions[key] \in Nat
  BY <1>1, <1>2, ReadyFacts DEF WellFormed
<1>4. mutation.key = key /\ mutation.cond = run.versions[key] /\ mutation.del
  BY DEF Mutation, ClearCondition
<1>5. write \in WriteNames /\ write.version = run.versions[key] /\ write.key = key
  BY <1>1, <1>3, ReadyFacts DEF WriteNames
<1> HIDE DEF mutation, write
<1>6. /\ DOMAIN r = RunFields
      /\ r.pc = run.pc /\ r.attempt = run.attempt /\ r.next = run.next /\ r.todo = run.todo \ {key}
      /\ r.intent = run.intent /\ r.ledger = run.ledger /\ r.versions = run.versions
      /\ r.operations = run.operations /\ r.writes = run.writes
  BY <1>1, ReadyFacts DEF RunFields
<1> HIDE DEF r
<1>7. WellFormed(r) /\ TrueRecords(r) /\ Covered(r, {})
  <2>1. WellFormed(run) /\ TrueRecords(run) /\ Covered(run, {})
    BY <1>1, ReadyFacts
  <2>2. WellFormed(r)
    BY <2>1, <1>6 DEF WellFormed
  <2> QED BY <2>1, <2>2, <1>6 DEF TrueRecords, Covered
<1>8. RequestOK([id |-> r.next, incarnation |-> restarts, kind |-> "write",
                 opkey |-> DerivedKey(run), mutation |-> mutation, write |-> write])
  BY <1>1, <1>3, <1>4, <1>5, <1>6, ReadyFacts DEF RequestOK
<1>9. Op.kind \in BoundaryOf("write")
  BY <1>1 DEF BoundaryOf
<1> QED BY <1>1, <1>6, <1>7, <1>8, <1>9, SendBase

\* A prepared write is sent, or asked about.
LEMMA BeginIntentBase == ASSUME BaseInv, BeginCommit \/ BeginReconcile PROVE BaseInv'
<1> DEFINE mutation == Mutation(FALSE, Op.key, Any, Op.value)
           write == [at |-> run.intent, key |-> Op.key, version |-> 0, prepared |-> TRUE]
<1>1. Ready /\ CanBind
  BY DEF BeginCommit, BeginReconcile
<1>2. mutation.key = Op.key /\ IntentKey(run.intent).prepared
  BY DEF Mutation, IntentKey
<1>3. write \in WriteNames /\ write.version = 0
  BY <1>1, ReadyFacts DEF WriteNames
<1>4. CASE BeginCommit
  <2>1. Send(run, "commit", IntentKey(run.intent), mutation, write)
    BY <1>4 DEF BeginCommit
  <2> HIDE DEF mutation, write
  <2>2. RequestOK([id |-> run.next, incarnation |-> restarts, kind |-> "commit",
                   opkey |-> IntentKey(run.intent), mutation |-> mutation, write |-> write])
    BY <1>1, <1>2, <1>3, ReadyFacts DEF RequestOK
  <2>3. Op.kind \in BoundaryOf("commit")
    BY <1>4 DEF BoundaryOf, BeginCommit
  <2> QED BY <1>1, <1>2, <2>1, <2>2, <2>3, ReadyFacts, SendBase
<1>5. CASE BeginReconcile
  <2>1. Dispatch(bind_storage_operation(run, IntentKey(run.intent), mutation, "begun"),
                 "reconcile", IntentKey(run.intent), mutation, 0)
    BY <1>5 DEF BeginReconcile
  <2> HIDE DEF mutation, write
  <2>2. RequestOK([id |-> run.next, incarnation |-> restarts, kind |-> "reconcile",
                   opkey |-> IntentKey(run.intent), mutation |-> mutation, write |-> 0])
    BY <1>1, <1>2, ReadyFacts DEF RequestOK
  <2>3. Op.kind \in BoundaryOf("reconcile")
    BY <1>5 DEF BoundaryOf, BeginReconcile
  <2> QED BY <1>1, <1>2, <2>1, <2>2, <2>3, ReadyFacts, SendBoundBase
<1> QED BY <1>4, <1>5

-----------------------------------------------------------------------------
\* A run with other registers, but the same requests and evidence.
LEMMA SameEvidence ==
  ASSUME NEW r, NEW x, WellFormed(r), TrueRecords(r), DOMAIN x = RunFields,
         x.pc \in 1..(Len(program) + 1), x.attempt \in 1..MaxAttempts,
         x.next \in Nat, r.next <= x.next, x.intent \in Nat,
         x.ledger \subseteq 0..(x.next - 1), x.versions \in [Keys -> Nat],
         x.todo \subseteq Keys, \A k \in x.todo : x.versions[k] # 0,
         x.operations = r.operations, x.writes = r.writes
  PROVE  /\ WellFormed(x) /\ TrueRecords(x)
         /\ \A aw : Covered(r, aw) => Covered(x, aw)
<1>1. WellFormed(x)
  BY DEF WellFormed
<1>2. TrueRecords(x)
  BY DEF TrueRecords
<1>3. \A aw : Covered(r, aw) => Covered(x, aw)
  BY DEF Covered
<1> QED BY <1>1, <1>2, <1>3

\* clear has deleted what it scanned.
LEMMA ClearDoneBase == ASSUME BaseInv, ClearDone PROVE BaseInv'
<1> DEFINE r == [run EXCEPT !.scanned = FALSE]
<1>1. Ready /\ Op.kind = "clear" /\ Continue(Advance(r))
      /\ UNCHANGED <<program, stop, saved, restarts, issued, hostVars>>
  BY DEF ClearDone, durableVars
<1>2. /\ DOMAIN r = RunFields
      /\ r.pc = run.pc /\ r.attempt = run.attempt /\ r.next = run.next /\ r.todo = run.todo
      /\ r.intent = run.intent /\ r.ledger = run.ledger /\ r.versions = run.versions
      /\ r.operations = run.operations /\ r.writes = run.writes
  BY <1>1, ReadyFacts DEF RunFields
<1> HIDE DEF r
<1>3. WellFormed(r) /\ TrueRecords(r) /\ Covered(r, {})
  BY <1>1, <1>2, ReadyFacts DEF WellFormed, TrueRecords, Covered
<1>4. WellFormed(run') /\ TrueRecords(run') /\ Covered(run', {})
  BY <1>1, <1>2, <1>3, AdvanceBase, ReadyFacts DEF Continue
<1>5. SavedInv'
  BY <1>1, KeepSavedQuiet DEF hostVars
<1> QED BY <1>1, <1>4, <1>5, QuietBase, ReadyFacts DEF Continue

\* prepare_put takes an operation key.
LEMMA PrepareBase == ASSUME BaseInv, Prepare PROVE BaseInv'
<1> DEFINE r == [run EXCEPT !.intent = issued + 1]
<1>1. Ready /\ Continue(Advance(r)) /\ issued' = issued + 1
      /\ UNCHANGED <<program, stop, saved, restarts, hostVars>>
  BY DEF Prepare
<1>2. /\ DOMAIN r = RunFields
      /\ r.pc = run.pc /\ r.attempt = run.attempt /\ r.next = run.next /\ r.todo = run.todo
      /\ r.intent = issued + 1 /\ r.ledger = run.ledger /\ r.versions = run.versions
      /\ r.operations = run.operations /\ r.writes = run.writes
  BY <1>1, ReadyFacts DEF RunFields
<1> HIDE DEF r
<1>3. WellFormed(r) /\ TrueRecords(r) /\ Covered(r, {})
  <2>1. issued + 1 \in Nat
    BY DEF BaseInv, SavedInv
  <2> QED BY <1>1, <1>2, <2>1, ReadyFacts DEF WellFormed, TrueRecords, Covered
<1>4. WellFormed(run') /\ TrueRecords(run') /\ Covered(run', {})
  BY <1>1, <1>2, <1>3, AdvanceBase, ReadyFacts DEF Continue
<1>5. SavedInv'
  <2>1. \A c \in saved : WellFormed(c)' /\ TrueRecords(c)' /\ Covered(c, {})'
    <3> SUFFICES ASSUME NEW c \in saved PROVE WellFormed(c)' /\ TrueRecords(c)' /\ Covered(c, {})'
      OBVIOUS
    <3>1. WellFormed(c) /\ TrueRecords(c) /\ Covered(c, {})
      BY DEF BaseInv, SavedInv
    <3> QED BY <3>1, <1>1 DEF WellFormed, TrueRecords, Covered, hostVars
  <2> QED BY <1>1, <2>1 DEF BaseInv, SavedInv
<1> QED BY <1>1, <1>4, <1>5, QuietBase, ReadyFacts DEF Continue

\* A full receipt ledger refuses a write.
LEMMA RefuseWriteBase == ASSUME BaseInv, RefuseWrite PROVE BaseInv'
<1> DEFINE r == [run EXCEPT !.next = @ + 1]
<1>1. Ready /\ UNCHANGED <<program, stop, saved, restarts, issued, hostVars>>
  BY DEF RefuseWrite, durableVars
<1>2. /\ DOMAIN r = RunFields
      /\ r.pc = run.pc /\ r.attempt = run.attempt /\ r.next = run.next + 1 /\ r.todo = run.todo
      /\ r.intent = run.intent /\ r.ledger = run.ledger /\ r.versions = run.versions
      /\ r.operations = run.operations /\ r.writes = run.writes
  BY <1>1, ReadyFacts DEF RunFields
<1>3. Fails(r)
  BY DEF RefuseWrite, Fails
<1> HIDE DEF r
<1>4. WellFormed(r) /\ TrueRecords(r) /\ Covered(r, {})
  <2>1. WellFormed(run) /\ TrueRecords(run) /\ Covered(run, {})
    BY <1>1, ReadyFacts
  <2>2. WellFormed(r)
    BY <2>1, <1>2 DEF WellFormed
  <2> QED BY <2>1, <2>2, <1>2 DEF TrueRecords, Covered
<1>5. status = "running" /\ run.pc <= Len(program) /\ stop' \in BOOLEAN
  BY <1>1, ReadyFacts DEF Ready
<1> QED BY <1>1, <1>2, <1>3, <1>4, <1>5, FailsBase

\* A checkpoint copies a run with evidence of all it has sent.
LEMMA CheckpointBase == ASSUME BaseInv, Checkpoint PROVE BaseInv'
<1>1. Ready /\ UNCHANGED <<program, stop, restarts, issued, hostVars>>
  BY DEF Checkpoint
<1>2. \A c \in saved : WellFormed(c)' /\ TrueRecords(c)' /\ Covered(c, {})'
  <2> SUFFICES ASSUME NEW c \in saved PROVE WellFormed(c)' /\ TrueRecords(c)' /\ Covered(c, {})'
    OBVIOUS
  <2>1. WellFormed(c) /\ TrueRecords(c) /\ Covered(c, {})
    BY DEF BaseInv, SavedInv
  <2> QED BY <2>1, <1>1 DEF WellFormed, TrueRecords, Covered, hostVars
<1>3. issued' \in Nat /\ restarts' \in Nat
  BY <1>1 DEF BaseInv, SavedInv
<1>4. CASE saved' = saved \cup {Advance(run)} /\ Continue(Advance(run))
  <2>1. PICK x : x = Advance(run)
    OBVIOUS
  <2>2. WellFormed(x) /\ TrueRecords(x) /\ Covered(x, {})
    BY <1>1, <2>1, AdvanceBase, ReadyFacts
  <2>3. WellFormed(x)' /\ TrueRecords(x)' /\ Covered(x, {})'
    BY <1>1, <2>2 DEF WellFormed, TrueRecords, Covered, hostVars
  <2>4. SavedInv'
    BY <1>2, <1>3, <1>4, <2>1, <2>3 DEF SavedInv
  <2> QED BY <1>1, <1>4, <2>1, <2>2, <2>4, QuietBase, ReadyFacts DEF Continue
<1>5. CASE End("failed") /\ UNCHANGED <<saved, run>>
  <2>1. SavedInv'
    BY <1>2, <1>3, <1>5 DEF SavedInv
  <2> QED BY <1>1, <1>5, <2>1, QuietBase, ReadyFacts DEF End
<1> QED BY <1>4, <1>5 DEF Checkpoint

\* The end of a run, a stop request and a crash.
LEMMA LifecycleBase == ASSUME BaseInv, Finished \/ Stop \/ Crash PROVE BaseInv'
<1>1. /\ WellFormed(run) /\ TrueRecords(run) /\ stop \in BOOLEAN
      /\ status \in {"running", "completed", "failed", "cancelled", "crashed"}
      /\ status # "crashed" => Covered(run, AwaitedWrite)
  BY DEF BaseInv, RunInv
<1>2. CASE Finished
  <2>1. UNCHANGED <<program, run, stop, saved, restarts, issued, hostVars>> /\ status = "running" /\ Idle
    BY <1>2 DEF Finished, durableVars
  <2>2. Covered(run, {})
    BY <1>1, <2>1 DEF AwaitedWrite
  <2>3. SavedInv'
    BY <2>1, KeepSavedQuiet DEF hostVars
  <2>4. status' \in {"cancelled", "completed"} /\ pending' = [req |-> NoRequest, reply |-> Awaiting]
    BY <1>2 DEF Finished, End
  <2> QED BY <1>1, <2>1, <2>2, <2>3, <2>4, QuietBase
<1>3. CASE Crash
  <2>1. UNCHANGED <<program, run, stop, saved, restarts, issued, hostVars>>
    BY <1>3 DEF Crash, durableVars
  <2>2. SavedInv'
    BY <2>1, KeepSavedQuiet DEF hostVars
  <2>3. status' = "crashed" /\ pending' = [req |-> NoRequest, reply |-> Awaiting]
    BY <1>3 DEF Crash, End
  <2> QED BY <1>1, <2>1, <2>2, <2>3, QuietBase
<1>4. CASE Stop
  <2>1. UNCHANGED <<program, run, pending, status, saved, restarts, issued, hostVars>> /\ stop' = TRUE
    BY <1>4 DEF Stop, durableVars
  <2>2. SavedInv'
    BY <2>1, KeepSavedQuiet DEF hostVars
  <2>3. HostInv'
    <3>1. \A z : RequestOK(z)' <=> RequestOK(z)
      BY DEF RequestOK
    <3> QED BY <2>1, <3>1 DEF BaseInv, HostInv, hostVars, ClearSparesReplacements
  <2>4. RunInv'
    BY <2>1 DEF BaseInv, RunInv, WellFormed, TrueRecords, Covered, AwaitedWrite, Idle, hostVars
  <2>5. PendingInv'
    BY <2>1 DEF BaseInv, PendingInv, AwaitedOK, Idle, RequestOK, ReplyOK, BoundaryOf, Op, hostVars
  <2> QED BY <2>2, <2>3, <2>4, <2>5 DEF BaseInv
<1> QED BY <1>2, <1>3, <1>4

\* A resumption starts from a checkpoint, whose evidence is complete.
LEMMA ResumeBase == ASSUME BaseInv, NEW c \in saved, Resume(c) PROVE BaseInv'
<1> DEFINE x == [c EXCEPT !.next = RestoredCounter(c), !.identity = RestoredIdentity(c)]
<1>1. /\ run' = x /\ status' = "running" /\ stop' = FALSE /\ restarts' = restarts + 1
      /\ pending' = [req |-> NoRequest, reply |-> Awaiting]
      /\ UNCHANGED <<program, saved, issued, hostVars>>
  BY DEF Resume
<1>2. WellFormed(c) /\ TrueRecords(c) /\ Covered(c, {}) /\ restarts \in Nat
  BY DEF BaseInv, SavedInv
<1>3. DOMAIN c = RunFields
  BY <1>2 DEF WellFormed
<1>4. /\ DOMAIN x = RunFields
      /\ x.pc = c.pc /\ x.attempt = c.attempt /\ x.next = c.next + Sources /\ x.todo = c.todo
      /\ x.intent = c.intent /\ x.ledger = c.ledger /\ x.versions = c.versions
      /\ x.operations = c.operations /\ x.writes = c.writes
  BY <1>3 DEF RunFields, RestoredCounter
<1> HIDE DEF x
<1>5. WellFormed(x)
  <2>1. Sources \in Nat
    BY RecoveryConstants
  <2> QED BY <1>2, <1>4, <2>1 DEF WellFormed
<1>6. TrueRecords(x) /\ Covered(x, {})
  BY <1>2, <1>4 DEF TrueRecords, Covered
<1>7. SavedInv'
  BY <1>1, <1>2, KeepSaved DEF BaseInv, hostVars
<1> QED BY <1>1, <1>5, <1>6, <1>7, QuietBase

-----------------------------------------------------------------------------
\* What holds of a run whose boundary was answered.
LEMMA AnsweredFacts ==
  ASSUME BaseInv, NEW kinds, Answered(kinds)
  PROVE  /\ WellFormed(run) /\ TrueRecords(run) /\ Covered(run, AwaitedWrite)
         /\ DOMAIN run = RunFields /\ AwaitedOK /\ pending.req.kind \in kinds
         /\ pending.reply # Awaiting /\ status = "running" /\ ~Idle
         /\ program \in Programs /\ stop \in BOOLEAN
         /\ run.pc <= Len(program) /\ run.next \in Nat /\ run.pc \in Nat
         /\ pending.req.id = run.next - 1 /\ pending.req.id \in 0..(run.next - 1)
         /\ pending.req.id \in Nat
<1>1. /\ WellFormed(run) /\ TrueRecords(run) /\ Covered(run, AwaitedWrite) /\ program \in Programs
      /\ stop \in BOOLEAN
  BY DEF BaseInv, RunInv, Answered
<1>2. /\ pending.req.kind \in kinds /\ pending.reply # Awaiting /\ status = "running" /\ ~Idle
      /\ AwaitedOK
  BY DEF BaseInv, PendingInv, Answered
<1>3. DOMAIN run = RunFields /\ run.next \in Nat /\ run.pc \in 1..(Len(program) + 1)
  BY <1>1 DEF WellFormed
<1>4. Len(program) \in Nat
  BY <1>1, RecoveryConstants
<1>5. run.pc <= Len(program) /\ pending.req.id = run.next - 1 /\ pending.req.id \in Nat
  BY <1>2 DEF AwaitedOK, RequestOK
<1> QED BY <1>1, <1>2, <1>3, <1>4, <1>5

\* Recording the evidence of the awaited write keeps the records true, and
\* leaves no write without evidence.
LEMMA RecordBase ==
  ASSUME BaseInv, Answered({"write", "commit"})
  PROVE  LET x == Record(run, pending.req, pending.reply) IN
         WellFormed(x) /\ TrueRecords(x) /\ Covered(x, {})
<1> DEFINE q == pending.req
           x == Record(run, q, pending.reply)
<1>1. /\ DOMAIN x = RunFields
      /\ x.pc = run.pc /\ x.attempt = run.attempt /\ x.next = run.next /\ x.identity = run.identity
      /\ x.scanned = run.scanned /\ x.todo = run.todo /\ x.intent = run.intent
      /\ x.ledger = run.ledger /\ x.versions = run.versions /\ x.operations = run.operations
      /\ DOMAIN x.writes = DOMAIN run.writes \cup {q.id}
      /\ x.writes[q.id] = [write |-> q.write, status |-> Evidence(pending.reply)]
      /\ \A i \in DOMAIN run.writes : i # q.id => x.writes[i] = run.writes[i]
  BY AnsweredFacts, RecordFields
<1>2. /\ q.id \in DOMAIN run.operations /\ q.id \notin DOMAIN run.writes
      /\ run.operations[q.id].opkey = q.opkey
      /\ q.kind \in {"write", "commit"}
      /\ ReplyOK(q, pending.reply)
  BY AnsweredFacts DEF AwaitedOK
<1>3. x.writes[q.id].status = Evidence(pending.reply)
  BY <1>1
<1>4. \/ pending.reply = HostError
      \/ q.opkey \in DOMAIN receipts /\ pending.reply = receipts[q.opkey].result
  BY <1>2, AnsweredFacts DEF ReplyOK
<1> HIDE DEF x
<1>5. WellFormed(x)
  BY <1>1, <1>2, AnsweredFacts DEF WellFormed
<1>6. TrueRecords(x)
  <2> SUFFICES ASSUME NEW i \in DOMAIN x.writes
               PROVE  LET opkey == x.operations[i].opkey  s == x.writes[i].status
                      IN /\ s = "committed" => opkey \in DOMAIN receipts
                                               /\ receipts[opkey].result.status = "committed"
                         /\ s = "not_committed" => opkey \in DOMAIN receipts
                                               /\ receipts[opkey].result.status # "committed"
    BY DEF TrueRecords
  <2>1. CASE i = q.id
    <3>1. CASE pending.reply = HostError
      <4>1. Evidence(pending.reply) = "unknown"
        BY <3>1 DEF Evidence, HostError
      <4> QED BY <2>1, <4>1, <1>3
    <3>2. CASE q.opkey \in DOMAIN receipts /\ pending.reply = receipts[q.opkey].result
      <4>1. /\ Evidence(pending.reply) = "committed" => pending.reply.status = "committed"
            /\ Evidence(pending.reply) = "not_committed" => pending.reply.status # "committed"
        BY DEF Evidence
      <4> QED BY <2>1, <3>2, <4>1, <1>1, <1>2, <1>3
    <3> QED BY <3>1, <3>2, <1>4
  <2>2. CASE i # q.id
    <3>1. i \in DOMAIN run.writes /\ x.writes[i] = run.writes[i] /\ x.operations = run.operations
      BY <1>1, <2>2
    <3> QED BY <3>1, AnsweredFacts DEF TrueRecords
  <2> QED BY <2>1, <2>2
<1>7. Covered(x, {})
  <2>1. AwaitedWrite \subseteq {q.id}
    BY DEF AwaitedWrite
  <2> QED BY <2>1, <1>1, AnsweredFacts DEF Covered
<1> QED BY <1>5, <1>6, <1>7 DEF x

\* So does completing a boundary.
LEMMA CompleteBase ==
  ASSUME BaseInv, NEW kinds, Answered(kinds), NEW r, WellFormed(r), TrueRecords(r), Covered(r, {}),
         r.next = run.next, r.pc = run.pc,
         pending.reply.status = "entries" => pending.reply.entries \in [Keys -> Nat],
         pending.reply.status \in {"value", "committed"} => pending.reply.version \in Nat
  PROVE  LET x == Complete(r, pending.req, pending.reply) IN
         /\ WellFormed(x) /\ TrueRecords(x) /\ Covered(x, {}) /\ x.pc = run.pc
         /\ pending.reply.status = "entries" =>
              \A k \in Keys : pending.reply.entries[k] # 0 => x.versions[k] # 0
<1> DEFINE q == pending.req
           x == Complete(r, q, pending.reply)
<1>1. DOMAIN r = RunFields /\ r.versions \in [Keys -> Nat]
  BY DEF WellFormed
<1>2. q.mutation.key \in Keys
  BY AnsweredFacts DEF AwaitedOK, RequestOK
<1>3. /\ DOMAIN x = RunFields
      /\ x.pc = r.pc /\ x.attempt = r.attempt /\ x.next = r.next
      /\ x.scanned = r.scanned /\ x.todo = r.todo /\ x.intent = r.intent
      /\ x.ledger = r.ledger \cup {q.id} /\ x.operations = r.operations /\ x.writes = r.writes
      /\ x.versions \in [Keys -> Nat]
      /\ \A k \in Keys : r.versions[k] # 0 => x.versions[k] # 0
      /\ pending.reply.status = "entries" =>
           \A k \in Keys : pending.reply.entries[k] # 0 => x.versions[k] # 0
  BY <1>1, <1>2, CompleteFields
<1>4. q.id \in 0..(r.next - 1)
  BY AnsweredFacts
<1> HIDE DEF x, q
<1>5. WellFormed(x)
  BY <1>3, <1>4 DEF WellFormed
<1>6. TrueRecords(x) /\ Covered(x, {})
  BY <1>3 DEF TrueRecords, Covered
<1> QED BY <1>3, <1>5, <1>6 DEF x, q

\* The answer to a get or a scan.
LEMMA FinishReadBase == ASSUME BaseInv, FinishRead PROVE BaseInv'
<1> DEFINE done == Complete(run, pending.req, pending.reply)
<1>1. Answered({"get", "scan"}) /\ UNCHANGED <<program, stop, saved, restarts, issued, hostVars>>
  BY DEF FinishRead, durableVars
<1>2. WellFormed(run) /\ TrueRecords(run) /\ Covered(run, {})
  BY <1>1, AnsweredFacts DEF AwaitedWrite
<1>3. SavedInv'
  BY <1>1, KeepSavedQuiet DEF hostVars
<1>4. \/ pending.reply = HostError
      \/ pending.reply.status = "value" /\ pending.reply.version \in Nat
      \/ pending.reply.status = "entries" /\ pending.reply.entries \in [Keys -> Nat]
  BY <1>1, AnsweredFacts DEF AwaitedOK, ReplyOK
<1>5. CASE stop
  <2>1. End("cancelled") /\ run' = run
    BY <1>5 DEF FinishRead
  <2> QED BY <1>1, <1>2, <1>3, <2>1, AnsweredFacts, QuietBase DEF End
<1>6. CASE ~stop /\ pending.reply = HostError
  <2>1. Fails(run)
    BY <1>6 DEF FinishRead, HostError, Fails
  <2> QED BY <1>1, <1>2, <2>1, AnsweredFacts, FailsBase
<1>7. CASE ~stop /\ pending.reply.status = "value" /\ pending.reply.version \in Nat
  <2> DEFINE x == [done EXCEPT !.last = pending.reply.version]
  <2>1. Continue(Advance(x))
    BY <1>7 DEF FinishRead, HostError
  <2>2. WellFormed(done) /\ TrueRecords(done) /\ Covered(done, {}) /\ done.pc = run.pc
    BY <1>1, <1>2, <1>7, CompleteBase
  <2> HIDE DEF done
  <2>3. DOMAIN done = RunFields
    BY <2>2 DEF WellFormed
  <2>4. /\ DOMAIN x = RunFields
        /\ x.pc = done.pc /\ x.attempt = done.attempt /\ x.next = done.next /\ x.todo = done.todo
        /\ x.intent = done.intent /\ x.ledger = done.ledger /\ x.versions = done.versions
        /\ x.operations = done.operations /\ x.writes = done.writes
    BY <2>3 DEF RunFields
  <2> HIDE DEF x
  <2>5. WellFormed(x) /\ TrueRecords(x) /\ Covered(x, {})
    <3>1. WellFormed(x)
      BY <2>2, <2>4 DEF WellFormed
    <3> QED BY <3>1, <2>2, <2>4 DEF TrueRecords, Covered
  <2>6. WellFormed(run') /\ TrueRecords(run') /\ Covered(run', {})
    BY <1>1, <2>1, <2>2, <2>4, <2>5, AdvanceBase, AnsweredFacts DEF Continue
  <2> QED BY <1>1, <1>3, <2>1, <2>6, QuietBase, AnsweredFacts DEF Continue
<1>8. CASE ~stop /\ pending.reply.status = "entries" /\ pending.reply.entries \in [Keys -> Nat]
  <2> DEFINE x == [done EXCEPT !.scanned = TRUE, !.todo = {k \in Keys : pending.reply.entries[k] # 0}]
  <2>1. Continue(x)
    BY <1>8 DEF FinishRead, HostError
  <2>2. /\ WellFormed(done) /\ TrueRecords(done) /\ Covered(done, {}) /\ done.pc = run.pc
        /\ \A k \in Keys : pending.reply.entries[k] # 0 => done.versions[k] # 0
    BY <1>1, <1>2, <1>8, CompleteBase
  <2> HIDE DEF done
  <2>3. DOMAIN done = RunFields
    BY <2>2 DEF WellFormed
  <2>4. /\ DOMAIN x = RunFields
        /\ x.pc = done.pc /\ x.attempt = done.attempt /\ x.next = done.next
        /\ x.todo = {k \in Keys : pending.reply.entries[k] # 0}
        /\ x.intent = done.intent /\ x.ledger = done.ledger /\ x.versions = done.versions
        /\ x.operations = done.operations /\ x.writes = done.writes
    BY <2>3 DEF RunFields
  <2> HIDE DEF x
  <2>5. WellFormed(x) /\ TrueRecords(x) /\ Covered(x, {})
    <3>1. WellFormed(x)
      BY <2>2, <2>4 DEF WellFormed
    <3> QED BY <3>1, <2>2, <2>4 DEF TrueRecords, Covered
  <2> QED BY <1>1, <1>3, <2>1, <2>5, QuietBase, AnsweredFacts DEF Continue
<1> QED BY <1>1, <1>4, <1>5, <1>6, <1>7, <1>8, AnsweredFacts

\* The answer to a write, a stop request included: its evidence is recorded first.
LEMMA FinishWriteBase == ASSUME BaseInv, FinishWrite PROVE BaseInv'
<1> DEFINE known == Record(run, pending.req, pending.reply)
           done == Complete(known, pending.req, pending.reply)
<1>1. Answered({"write"}) /\ UNCHANGED <<program, stop, saved, restarts, issued, hostVars>>
  BY DEF FinishWrite, durableVars
<1>2. Answered({"write", "commit"})
  BY <1>1 DEF Answered
<1>3. WellFormed(known) /\ TrueRecords(known) /\ Covered(known, {})
  BY <1>2, RecordBase
<1>4. /\ DOMAIN known = RunFields /\ known.pc = run.pc /\ known.attempt = run.attempt
      /\ known.next = run.next /\ known.intent = run.intent
  <2>1. DOMAIN run = RunFields
    BY <1>1, AnsweredFacts
  <2>2. /\ DOMAIN known = RunFields
        /\ known.pc = run.pc /\ known.attempt = run.attempt /\ known.next = run.next /\ known.identity = run.identity
        /\ known.scanned = run.scanned /\ known.todo = run.todo /\ known.intent = run.intent
        /\ known.ledger = run.ledger /\ known.versions = run.versions /\ known.operations = run.operations
        /\ DOMAIN known.writes = DOMAIN run.writes \cup {pending.req.id}
        /\ known.writes[pending.req.id] = [write |-> pending.req.write, status |-> Evidence(pending.reply)]
        /\ \A i \in DOMAIN run.writes : i # pending.req.id => known.writes[i] = run.writes[i]
    BY <2>1, RecordFields
  <2> QED BY <2>2
<1>5. SavedInv'
  BY <1>1, KeepSavedQuiet DEF hostVars
<1>6. \/ pending.reply = HostError
      \/ pending.reply.status \in {"committed", "unchanged", "conflict", "rejected"}
         /\ pending.reply.version \in Nat
  BY <1>1, AnsweredFacts DEF AwaitedOK, ReplyOK, BaseInv, HostInv
<1>7. CASE Fails(known)
  BY <1>1, <1>3, <1>4, <1>7, FailsBase, AnsweredFacts
<1>9. CASE /\ pending.reply.status \in {"committed", "unchanged"}
           /\ Continue(IF Op.kind = "clear" THEN done ELSE Advance(done))
  <2>1. pending.reply.version \in Nat
    BY <1>6, <1>9 DEF HostError
  <2> HIDE DEF known
  <2>2. WellFormed(done) /\ TrueRecords(done) /\ Covered(done, {}) /\ done.pc = run.pc
    BY <1>1, <1>3, <1>4, <1>9, <2>1, CompleteBase
  <2> HIDE DEF done
  <2>3. WellFormed(Advance(done)) /\ TrueRecords(Advance(done)) /\ Covered(Advance(done), {})
    BY <1>1, <2>2, AdvanceBase, AnsweredFacts
  <2>4. WellFormed(run') /\ TrueRecords(run') /\ Covered(run', {})
    BY <1>9, <2>2, <2>3 DEF Continue
  <2> QED BY <1>1, <1>5, <1>9, <2>4, QuietBase, AnsweredFacts DEF Continue
<1> QED BY <1>7, <1>9 DEF FinishWrite, FinishWriteEvidence, Fails

\* The answer to a prepared write, or to a question about one.
LEMMA FinishIntentBase == ASSUME BaseInv, FinishCommit \/ FinishReconcile PROVE BaseInv'
<1>1. CASE FinishCommit
  <2> DEFINE known == Record(run, pending.req, pending.reply)
  <2>1. Answered({"commit"}) /\ UNCHANGED <<program, stop, saved, restarts, issued, hostVars>>
    BY <1>1 DEF FinishCommit, durableVars
  <2>2. Answered({"write", "commit"})
    BY <2>1 DEF Answered
  <2>3. WellFormed(known) /\ TrueRecords(known) /\ Covered(known, {})
    BY <2>2, RecordBase
  <2>4. known.pc = run.pc
    <3>1. DOMAIN run = RunFields
      BY <2>1, AnsweredFacts
    <3>2. /\ DOMAIN known = RunFields
          /\ known.pc = run.pc /\ known.attempt = run.attempt /\ known.next = run.next /\ known.identity = run.identity
          /\ known.scanned = run.scanned /\ known.todo = run.todo /\ known.intent = run.intent
          /\ known.ledger = run.ledger /\ known.versions = run.versions /\ known.operations = run.operations
          /\ DOMAIN known.writes = DOMAIN run.writes \cup {pending.req.id}
          /\ known.writes[pending.req.id] = [write |-> pending.req.write, status |-> Evidence(pending.reply)]
          /\ \A i \in DOMAIN run.writes : i # pending.req.id => known.writes[i] = run.writes[i]
      BY <3>1, RecordFields
    <3> QED BY <3>2
  <2>5. SavedInv'
    BY <2>1, KeepSavedQuiet DEF hostVars
  <2>6. WellFormed(run) /\ TrueRecords(run) /\ Covered(run, {})
    BY <2>1, AnsweredFacts DEF AwaitedWrite
  <2>7. \/ End("cancelled") /\ run' \in {run, known}
        \/ Continue(Advance(known))
    BY <1>1 DEF FinishCommit
  <2> HIDE DEF known
  <2>8. CASE End("cancelled") /\ run' \in {run, known}
    BY <2>1, <2>3, <2>5, <2>6, <2>8, QuietBase, AnsweredFacts DEF End
  <2>9. CASE Continue(Advance(known))
    <3>1. WellFormed(run') /\ TrueRecords(run') /\ Covered(run', {})
      BY <2>1, <2>3, <2>4, <2>9, AdvanceBase, AnsweredFacts DEF Continue
    <3> QED BY <2>1, <2>5, <2>9, <3>1, QuietBase, AnsweredFacts DEF Continue
  <2> QED BY <2>7, <2>8, <2>9
<1>2. CASE FinishReconcile
  <2>1. Answered({"reconcile"}) /\ UNCHANGED <<program, stop, saved, restarts, issued, hostVars>>
    BY <1>2 DEF FinishReconcile, durableVars
  <2>2. SavedInv'
    BY <2>1, KeepSavedQuiet DEF hostVars
  <2>3. WellFormed(run) /\ TrueRecords(run) /\ Covered(run, {})
    BY <2>1, AnsweredFacts DEF AwaitedWrite
  <2>4. CASE Continue(Advance(run))
    <3>1. WellFormed(run') /\ TrueRecords(run') /\ Covered(run', {})
      BY <2>1, <2>3, <2>4, AdvanceBase, AnsweredFacts DEF Continue
    <3> QED BY <2>1, <2>2, <2>4, <3>1, QuietBase, AnsweredFacts DEF Continue
  <2>5. CASE Fails(run)
    BY <2>1, <2>3, <2>5, FailsBase, AnsweredFacts
  <2> QED BY <1>2, <2>4, <2>5 DEF FinishReconcile, Fails
<1> QED BY <1>1, <1>2

-----------------------------------------------------------------------------
\* A step of the host: the run keeps its state, and the store forgets nothing.
LEMMA HostStepBase ==
  ASSUME BaseInv, UNCHANGED <<program, run, status, stop, saved, restarts, issued>>,
         HostInv', DOMAIN pending' = {"req", "reply"}, pending'.req = pending.req,
         \A o \in DOMAIN receipts : o \in DOMAIN receipts' /\ receipts'[o] = receipts[o],
         ~Idle => pending'.reply = pending.reply \/ ReplyOK(pending.req, pending.reply)'
  PROVE  BaseInv'
<1>1. SavedInv'
  BY KeepSaved DEF BaseInv, SavedInv
<1>2. Idle' = Idle /\ AwaitedWrite' = AwaitedWrite
  BY DEF Idle, AwaitedWrite
<1>3. RunInv'
  <2>1. TrueRecords(run)'
    BY DEF BaseInv, RunInv, TrueRecords
  <2>2. WellFormed(run)'
    BY DEF BaseInv, RunInv, WellFormed
  <2>3. (status # "crashed" => Covered(run, AwaitedWrite))'
    BY <1>2 DEF BaseInv, RunInv, Covered
  <2> QED BY <2>1, <2>2, <2>3 DEF BaseInv, RunInv
<1>4. PendingInv'
  <2> SUFFICES ASSUME ~Idle PROVE AwaitedOK'
    BY <1>2 DEF PendingInv
  <2>1. AwaitedOK
    BY DEF BaseInv, PendingInv
  <2>2. ReplyOK(pending.req, pending.reply)'
    <3>1. CASE pending'.reply = pending.reply
      <4>1. ReplyOK(pending.req, pending.reply)
        BY <2>1 DEF AwaitedOK
      <4> QED BY <3>1, <4>1 DEF ReplyOK
    <3> QED BY <3>1
  <2>3. RequestOK(pending.req)'
    BY <2>1 DEF AwaitedOK, RequestOK
  <2> QED BY <2>1, <2>2, <2>3 DEF AwaitedOK, Op, BoundaryOf
<1> QED BY <1>1, <1>3, <1>4 DEF BaseInv

\* The host answers only the request the run awaits.
LEMMA ReplyFacts ==
  ASSUME PendingInv, NEW q, NEW result, Reply(q, result), q.id # -1
  PROVE  /\ DOMAIN pending' = {"req", "reply"} /\ pending'.req = pending.req
         /\ pending'.reply # pending.reply => pending.req = q /\ pending'.reply = result
  BY DEF PendingInv, Reply

\* The host serves a request: reads, repeats a recorded outcome, or decides and records.
LEMMA ServeBase == ASSUME BaseInv, NEW q \in inflight, Serve(q) PROVE BaseInv'
<1>1. /\ inflight' = inflight \ {q}
      /\ UNCHANGED <<program, run, status, stop, saved, restarts, issued, foreign>>
      /\ ServeRead(q) \/ ServeKnown(q) \/ ServeNew(q)
  BY DEF Serve, durableVars
<1>2. RequestOK(q) /\ q.id # -1
  BY DEF BaseInv, HostInv, RequestOK
<1>3. \A z : RequestOK(z)' <=> RequestOK(z)
  BY DEF RequestOK
<1>4. clock \in Nat /\ store \in [Keys -> 0..clock] /\ effects \in Seq(EffectRecords) /\ PendingInv
  BY DEF BaseInv, HostInv
<1>5. CASE ServeRead(q)
  <2>1. UNCHANGED <<store, clock, receipts, effects>>
    BY <1>5 DEF ServeRead
  <2>2. HostInv'
    BY <1>1, <1>3, <2>1 DEF BaseInv, HostInv, ClearSparesReplacements
  <2> DEFINE result == CASE q.kind = "get"  -> [status |-> "value", version |-> store[q.mutation.key]]
                [] q.kind = "scan" -> [status |-> "entries", entries |-> store]
                [] q.kind = "reconcile" -> [status |-> IF Known(q) THEN "found" ELSE "unresolved"]
  <2>3. PICK x : x = result
    OBVIOUS
  <2>4. Reply(q, x)
    BY <1>5, <2>3 DEF ServeRead
  <2>5. ReplyOK(q, x)
    <3>1. CASE q.kind = "get"
      <4>1. x = [status |-> "value", version |-> store[q.mutation.key]]
        BY <3>1, <2>3
      <4>2. store[q.mutation.key] \in Nat
        BY <1>2, <1>4 DEF RequestOK
      <4> QED BY <3>1, <4>1, <4>2 DEF ReplyOK
    <3>2. CASE q.kind = "scan"
      <4>1. x = [status |-> "entries", entries |-> store]
        BY <3>2, <2>3
      <4>2. store \in [Keys -> Nat]
        BY <1>4
      <4> QED BY <3>2, <4>1, <4>2 DEF ReplyOK
    <3>3. CASE q.kind = "reconcile"
      <4>1. x = [status |-> IF Known(q) THEN "found" ELSE "unresolved"]
        BY <3>3, <2>3
      <4> QED BY <3>3, <4>1 DEF ReplyOK
    <3> QED BY <1>5, <3>1, <3>2, <3>3 DEF ServeRead
  <2>6. ReplyOK(q, x)'
    BY <2>1, <2>5 DEF ReplyOK
  <2>7. /\ DOMAIN pending' = {"req", "reply"} /\ pending'.req = pending.req
        /\ pending'.reply # pending.reply => pending.req = q /\ pending'.reply = x
    BY <1>2, <1>4, <2>4, ReplyFacts
  <2>8. ~Idle => pending'.reply = pending.reply \/ ReplyOK(pending.req, pending.reply)'
    BY <2>6, <2>7
  <2> QED BY <1>1, <2>1, <2>2, <2>7, <2>8, HostStepBase
<1>6. CASE ServeKnown(q)
  <2>1. UNCHANGED <<store, clock, receipts, effects>> /\ q.kind \in {"write", "commit"} /\ Known(q)
    BY <1>6 DEF ServeKnown
  <2>2. HostInv'
    BY <1>1, <1>3, <2>1 DEF BaseInv, HostInv, ClearSparesReplacements
  <2>3. PICK x : /\ \/ x = HostError
                    \/ x = receipts[q.opkey].result /\ receipts[q.opkey].mutation = q.mutation
                 /\ Reply(q, x)
    <3>1. PICK heard \in BOOLEAN : Reply(q, IF heard /\ receipts[q.opkey].mutation = q.mutation
                                            THEN receipts[q.opkey].result ELSE HostError)
      BY <1>6 DEF ServeKnown
    <3>2. PICK y : y = IF heard /\ receipts[q.opkey].mutation = q.mutation
                       THEN receipts[q.opkey].result ELSE HostError
      OBVIOUS
    <3>3. Reply(q, y)
      BY <3>1, <3>2
    <3>4. y = HostError \/ (y = receipts[q.opkey].result /\ receipts[q.opkey].mutation = q.mutation)
      BY <3>2
    <3> QED BY <3>3, <3>4
  <2>4. ReplyOK(q, x)'
    BY <2>1, <2>3 DEF ReplyOK, Known
  <2>5. /\ DOMAIN pending' = {"req", "reply"} /\ pending'.req = pending.req
        /\ pending'.reply # pending.reply => pending.req = q /\ pending'.reply = x
    BY <1>2, <1>4, <2>3, ReplyFacts
  <2>6. ~Idle => pending'.reply = pending.reply \/ ReplyOK(pending.req, pending.reply)'
    BY <2>4, <2>5
  <2> QED BY <1>1, <2>1, <2>2, <2>5, <2>6, HostStepBase
<1>7. CASE ServeNew(q)
  <2> DEFINE m == q.mutation
             version == IF m.del THEN 0 ELSE clock + 1
  <2>1. q.kind \in {"write", "commit"} /\ q.opkey \notin DOMAIN receipts
    BY <1>7 DEF ServeNew, Known
  <2>2. PICK heard \in BOOLEAN, decision \in {Decide(m), "rejected"} :
          LET result == [status |-> decision, version |-> IF decision = "committed" THEN version ELSE 0]
          IN /\ receipts' = Extend(receipts, q.opkey, [mutation |-> m, result |-> result])
             /\ Reply(q, IF heard THEN result ELSE HostError)
             /\ IF decision = "committed"
                THEN /\ store' = [store EXCEPT ![m.key] = version]
                     /\ clock' = clock + 1
                     /\ effects' = Append(effects, [write |-> q.write, removed |-> store[m.key]])
                ELSE UNCHANGED <<store, clock, effects>>
    BY <1>7 DEF ServeNew
  <2>3. PICK result : result = [status |-> decision, version |-> IF decision = "committed" THEN version ELSE 0]
    OBVIOUS
  <2>4. /\ DOMAIN receipts' = DOMAIN receipts \cup {q.opkey}
        /\ receipts'[q.opkey] = [mutation |-> m, result |-> result]
        /\ \A o \in DOMAIN receipts : receipts'[o] = receipts[o]
    BY <2>1, <2>2, <2>3 DEF Extend
  <2>5. m.key \in Keys /\ q.write \in WriteNames /\ version \in 0..(clock + 1)
        /\ (q.write.version # 0 => m.cond = q.write.version)
    BY <1>2, <1>4, <2>1 DEF RequestOK
  <2>6. /\ result.status \in {"committed", "unchanged", "conflict", "rejected"}
        /\ result.version \in Nat /\ result.status = decision
    BY <2>3, <2>5, <1>4 DEF Decide
  <2>7. PICK x : x \in {result, HostError} /\ Reply(q, x)
    BY <2>2, <2>3
  <2>8. ReplyOK(q, x)'
    BY <2>1, <2>4, <2>7 DEF ReplyOK
  <2>9. /\ DOMAIN pending' = {"req", "reply"} /\ pending'.req = pending.req
        /\ pending'.reply # pending.reply => pending.req = q /\ pending'.reply = x
    BY <1>2, <1>4, <2>7, ReplyFacts
  <2>10. ~Idle => pending'.reply = pending.reply \/ ReplyOK(pending.req, pending.reply)'
    BY <2>8, <2>9
  <2>11. \A o \in DOMAIN receipts' :
           /\ receipts'[o].result.status \in {"committed", "unchanged", "conflict", "rejected"}
           /\ receipts'[o].result.version \in Nat
    <3> SUFFICES ASSUME NEW o \in DOMAIN receipts'
                 PROVE  /\ receipts'[o].result.status \in {"committed", "unchanged", "conflict", "rejected"}
                        /\ receipts'[o].result.version \in Nat
      OBVIOUS
    <3>1. CASE o = q.opkey
      BY <3>1, <2>4, <2>6
    <3>2. CASE o # q.opkey
      BY <3>2, <2>4 DEF BaseInv, HostInv
    <3> QED BY <3>1, <3>2
  <2> HIDE DEF m, version
  <2>12. CASE decision = "committed"
    <3>1. /\ store' = [store EXCEPT ![m.key] = version] /\ clock' = clock + 1
          /\ effects' = Append(effects, [write |-> q.write, removed |-> store[m.key]])
      BY <2>2, <2>12
    <3>2. clock' \in Nat /\ store' \in [Keys -> 0..clock']
      BY <1>4, <2>5, <3>1
    <3>3. [write |-> q.write, removed |-> store[m.key]] \in EffectRecords
      BY <1>4, <2>5 DEF EffectRecords
    <3>4. effects' \in Seq(EffectRecords)
      BY <1>4, <3>1, <3>3
    <3>5. q.write.version # 0 => store[m.key] = q.write.version
      <4> SUFFICES ASSUME q.write.version # 0 PROVE store[m.key] = q.write.version
        OBVIOUS
      <4>1. q.write.version \in Nat /\ m.cond = q.write.version
        BY <2>5 DEF WriteNames
      <4>2. Holds(m.cond, store[m.key])
        BY <2>2, <2>12 DEF Decide
      <4> QED BY <4>1, <4>2 DEF Holds, Any, Exists
    <3>6. ClearSparesReplacements'
      <4> SUFFICES ASSUME NEW i \in DOMAIN effects', effects'[i].write.version # 0
                   PROVE  effects'[i].removed = effects'[i].write.version
        BY DEF ClearSparesReplacements
      <4>1. CASE i \in DOMAIN effects
        <5>1. effects'[i] = effects[i]
          BY <1>4, <3>1, <4>1
        <5> QED BY <4>1, <5>1 DEF BaseInv, HostInv, ClearSparesReplacements
      <4>2. CASE i \notin DOMAIN effects
        <5>1. effects'[i] = [write |-> q.write, removed |-> store[m.key]]
          BY <1>4, <3>1, <4>2
        <5> QED BY <5>1, <3>5
      <4> QED BY <4>1, <4>2
    <3>7. HostInv'
      BY <1>1, <1>3, <2>11, <3>2, <3>4, <3>6 DEF BaseInv, HostInv
    <3> QED BY <1>1, <2>4, <2>9, <2>10, <3>7, HostStepBase
  <2>13. CASE decision # "committed"
    <3>1. UNCHANGED <<store, clock, effects>>
      BY <2>2, <2>13
    <3>2. HostInv'
      BY <1>1, <1>3, <2>11, <3>1 DEF BaseInv, HostInv, ClearSparesReplacements
    <3> QED BY <1>1, <2>4, <2>9, <2>10, <3>2, HostStepBase
  <2> QED BY <2>12, <2>13
<1> QED BY <1>1, <1>5, <1>6, <1>7

\* The host gives up waiting.
LEMMA HostFailsBase == ASSUME BaseInv, HostFails PROVE BaseInv'
<1>1. /\ pending' = [pending EXCEPT !.reply = HostError] /\ inflight' \subseteq inflight
      /\ UNCHANGED <<program, run, status, stop, saved, restarts, issued, store, clock, receipts,
                     effects, foreign>>
  BY DEF HostFails, durableVars
<1>2. \A z : RequestOK(z)' <=> RequestOK(z)
  BY DEF RequestOK
<1>3. HostInv'
  BY <1>1, <1>2 DEF BaseInv, HostInv, ClearSparesReplacements
<1>4. DOMAIN pending' = {"req", "reply"} /\ pending'.req = pending.req /\ pending'.reply = HostError
  BY <1>1 DEF BaseInv, PendingInv
<1>5. ReplyOK(pending.req, pending.reply)'
  BY <1>4 DEF ReplyOK
<1> QED BY <1>1, <1>3, <1>4, <1>5, HostStepBase

\* Another workflow writes.
LEMMA ForeignBase == ASSUME BaseInv, NEW key \in Keys, Foreign(key) PROVE BaseInv'
<1>1. /\ clock' = clock + 1
      /\ UNCHANGED <<program, run, pending, status, stop, saved, restarts, issued, receipts,
                     inflight, effects>>
  BY DEF Foreign, runVars, durableVars
<1>2. PICK version \in {0, clock + 1} : store' = [store EXCEPT ![key] = version]
  BY DEF Foreign
<1>3. \A z : RequestOK(z)' <=> RequestOK(z)
  BY DEF RequestOK
<1>4. clock' \in Nat /\ store' \in [Keys -> 0..clock']
  BY <1>1, <1>2 DEF BaseInv, HostInv
<1>5. HostInv'
  BY <1>1, <1>3, <1>4 DEF BaseInv, HostInv, ClearSparesReplacements
<1> QED BY <1>1, <1>5, HostStepBase DEF BaseInv, PendingInv

\* Every step keeps the inductive invariant.
LEMMA NextBase == BaseInv /\ [Next]_vars => BaseInv'
<1> SUFFICES ASSUME BaseInv, [Next]_vars PROVE BaseInv'
  OBVIOUS
<1>1. CASE Step
  BY <1>1, BeginReadBase, BeginWriteBase, BeginClearDeleteBase, BeginIntentBase, ClearDoneBase,
     PrepareBase, RefuseWriteBase, FinishReadBase, FinishWriteBase, FinishIntentBase,
     CheckpointBase, LifecycleBase DEF Step
<1>2. CASE \E q \in inflight : Serve(q)
  BY <1>2, ServeBase
<1>3. CASE HostFails
  BY <1>3, HostFailsBase
<1>4. CASE \E key \in Keys : Foreign(key)
  BY <1>4, ForeignBase
<1>5. CASE Stop \/ Crash
  BY <1>5, LifecycleBase
<1>6. CASE \E c \in saved : Resume(c)
  BY <1>6, ResumeBase
<1>7. CASE UNCHANGED vars
  <2>1. UNCHANGED <<program, run, pending, status, stop, saved, restarts, issued, hostVars>>
    BY <1>7 DEF vars, runVars, durableVars
  <2>2. HostInv'
    <3>1. \A z : RequestOK(z)' <=> RequestOK(z)
      BY DEF RequestOK
    <3> QED BY <2>1, <3>1 DEF BaseInv, HostInv, hostVars, ClearSparesReplacements
  <2> QED BY <2>1, <2>2, HostStepBase DEF BaseInv, PendingInv, hostVars
<1> QED BY <1>1, <1>2, <1>3, <1>4, <1>5, <1>6, <1>7 DEF Next

\* The inductive invariant of the storage boundary: what the host holds, what the
\* run has recorded, what checkpoints have copied and what is awaited agree.
THEOREM BaseHolds == Spec => []BaseInv
<1> QED BY InitBase, NextBase, PTL DEF Spec

\* Every variable has its type, and request numbers only identify requests that
\* were issued.
THEOREM RecoveryTypes == Spec => []RecoveryTypeOK
<1>1. BaseInv => RecoveryTypeOK
  <2> SUFFICES ASSUME BaseInv PROVE RecoveryTypeOK
    OBVIOUS
  <2>1. pending.req # NoRequest => pending.req.id = run.next - 1 /\ pending.req.id \notin run.ledger
    BY DEF BaseInv, PendingInv, AwaitedOK, Idle
  <2> QED BY <2>1 DEF BaseInv, HostInv, RunInv, WellFormed, RecoveryTypeOK
<1> QED BY <1>1, BaseHolds, PTL

\* What a run has recorded about a derived write is what the store has done, and a
\* run that has ended by itself, or by a stop, has recorded something about every
\* such write it has sent (memory_write.rs, host_dispatch.rs).
THEOREM EvidenceHolds == Spec => []WriteEvidence
<1>1. BaseInv => WriteEvidence
  <2> SUFFICES ASSUME BaseInv PROVE WriteEvidence
    OBVIOUS
  <2>1. \A i \in DOMAIN run.writes : Truthful(i)
    BY DEF BaseInv, RunInv, TrueRecords, Truthful
  <2>2. ASSUME status \in {"completed", "failed", "cancelled"} PROVE Covered(run, {})
    <3>1. Idle
      BY <2>2 DEF BaseInv, PendingInv, AwaitedOK
    <3> QED BY <2>2, <3>1 DEF BaseInv, RunInv, AwaitedWrite
  <2> QED BY <2>1, <2>2 DEF WriteEvidence, Covered
<1> QED BY <1>1, BaseHolds, PTL

\* clear removes only the entries its own scan has returned, whatever another
\* workflow puts in their place meanwhile (memory_selection.rs).
THEOREM ClearSpares == Spec => []ClearSparesReplacements
<1>1. BaseInv => ClearSparesReplacements
  BY DEF BaseInv, HostInv
<1> QED BY <1>1, BaseHolds, PTL

-----------------------------------------------------------------------------
(***************************************************************************)
(* The storage boundary implements AtMostOnce, for programs whose request  *)
(* numbers a replay repeats.                                               *)
(*                                                                         *)
(* The operation key of a write is derived from the number of its request. *)
(* What keeps a resumed run from writing twice is that it takes the same   *)
(* numbers again: how many a program uses up to a position depends only on *)
(* the program and on which attempts the store has turned down, and that a *)
(* receipt tells for ever.  Where it depends on more, a position is loose, *)
(* and no write may lie behind it.  A trace records those numbers; the     *)
(* invariant says that every incarnation, live or saved, is on one trace,  *)
(* and that the receipts and the effects of the store tell of each other   *)
(* through it.                                                             *)
(***************************************************************************)
Positions == 1..(Len(program) + 1)
KindAt(p) == IF p <= Len(program) THEN program[p].kind ELSE "end"
Derived(n) == [issuer |-> 0, number |-> n, prepared |-> FALSE]

\* An operation that takes a varying number of requests: a clear, and with a retry
\* statement around it a read, or any boundary a registry may refuse to start.
Loose(op) == \/ op.kind = "clear"
             \/ op.retry /\ op.kind \in {"get", "reconcile"}
             \/ op.retry /\ op.kind \in {"put", "delete", "commit"} /\ op.refused
LooseAt(p) == p <= Len(program) /\ Loose(program[p])

\* The store has turned request n down, and the program tries position p again.
RedoneAt(p, n) ==
  /\ Derived(n) \in DOMAIN receipts
  /\ \/ receipts[Derived(n)].result.status = "rejected"
     \/ receipts[Derived(n)].result.status = "conflict" /\ ~program[p].handled

\* Request n is an attempt at position p: the attempts before it were turned down.
Attempted(f, p, n) ==
  /\ p \in Positions /\ n \in Nat /\ f[p] >= 0 /\ f[p] <= n
  /\ \A j \in f[p]..(n - 1) : RedoneAt(p, j)

\* The request number at which the program leaves position p.
Follows(f, p, n) ==
  /\ ~LooseAt(p)
  /\ KindAt(p) \in {"put", "delete"} =>
       /\ Attempted(f, p, n - 1)
       /\ Derived(n - 1) \in DOMAIN receipts /\ ~RedoneAt(p, n - 1)
  /\ KindAt(p) \in {"get", "commit", "reconcile"} => n = f[p] + 1
  /\ KindAt(p) \in {"prepare", "checkpoint"} => n = f[p]

\* f gives the number of the first request at each position that was reached,
\* and -1 to the others.
Trace(f) ==
  /\ f \in [Positions -> Int] /\ f[1] = 0
  /\ \A p, q \in Positions : p < q /\ f[q] >= 0 => 0 <= f[p] /\ f[p] <= f[q]
  /\ \A p \in 1..Len(program) : f[p + 1] >= 0 => Follows(f, p, f[p + 1])

HasRoom(r) == Cardinality(DOMAIN r.operations) < MaxReceipts
NoLooseBefore(p) == \A j \in 1..(p - 1) : ~LooseAt(j)

\* A run that may still write takes the numbers of the trace.
OnTrace(f, r, sent) ==
  HasRoom(r) /\ NoLooseBefore(r.pc) =>
    /\ f[r.pc] >= 0
    /\ LooseAt(r.pc) => r.next >= f[r.pc]
    /\ ~LooseAt(r.pc) => r.next = f[r.pc] + r.attempt - 1 + sent
    /\ KindAt(r.pc) \in {"put", "delete"} => Attempted(f, r.pc, f[r.pc] + r.attempt - 1)
    /\ ~LooseAt(r.pc) /\ KindAt(r.pc) \notin {"put", "delete"} => r.attempt = 1

\* The write a request with operation key o and mutation m is about.
Fits(f, o, m, w) ==
  \/ w.prepared /\ o = IntentKey(w.at) /\ w.version = 0 /\ w.key = m.key
  \/ /\ ~w.prepared /\ w.version = 0
     /\ w.at \in 1..Len(program) /\ KindAt(w.at) \in {"put", "delete"} /\ w.key = program[w.at].key
     /\ o = Derived(o.number) /\ Attempted(f, w.at, o.number)
  \/ /\ ~w.prepared /\ w.version # 0 /\ w.version = m.cond /\ w.key = m.key
     /\ w.at \in 1..Len(program) /\ KindAt(w.at) = "clear" /\ f[w.at] >= 0
     /\ o = Derived(o.number) /\ o.number \in Nat /\ f[w.at] <= o.number

CommittedKey(o) == o \in DOMAIN receipts /\ receipts[o].result.status = "committed"

\* The receipts of committed writes and the store's effects tell of each other.
Matched(f) ==
  /\ \A o \in DOMAIN receipts :
       CommittedKey(o) => \E i \in DOMAIN effects : Fits(f, o, receipts[o].mutation, effects[i].write)
  /\ \A i \in DOMAIN effects :
       \E o \in DOMAIN receipts : CommittedKey(o) /\ Fits(f, o, receipts[o].mutation, effects[i].write)

Tracked(f) ==
  /\ Trace(f)
  /\ status = "running" => OnTrace(f, run, IF Idle THEN 0 ELSE 1)
  /\ \A c \in saved : OnTrace(f, c, 0)
  /\ \A q \in inflight : q.kind \in {"write", "commit"} => Fits(f, q.opkey, q.mutation, q.write)
  /\ ~Idle /\ pending.req.kind \in {"write", "commit"} =>
       Fits(f, pending.req.opkey, pending.req.mutation, pending.req.write)
  /\ Matched(f)

TrackInv == \E f \in [Positions -> Int] : Tracked(f)

SameIdentity ==
  /\ run.identity = 0 /\ \A c \in saved : c.identity = 0
  /\ ~Idle /\ pending.req.kind = "write" => pending.req.opkey = Derived(pending.req.id)

DeletedOnce ==
  \A i \in DOMAIN effects :
    LET w == effects[i].write
    IN w.version # 0 => store[w.key] # w.version /\ w.version <= clock
-----------------------------------------------------------------------------
\* Programs that write nothing at or behind a loose operation, unless it is the clear
\* itself.
Replayable ==
  \A p \in Programs : \A i, j \in 1..Len(p) :
    i <= j /\ Loose(p[i]) /\ p[j].kind \in {"put", "delete", "clear"} => i = j /\ p[j].kind = "clear"

Grows(f, g) == \A p \in Positions : f[p] >= 0 => g[p] = f[p]

\* A position of the program has one of the kinds of an operation.
LEMMA ProgramKinds ==
  ASSUME program \in Programs
  PROVE  /\ Len(program) \in Nat /\ program \in Seq(Operations)
         /\ \A p \in 1..Len(program) :
              /\ KindAt(p) = program[p].kind
              /\ LooseAt(p) <=> Loose(program[p])
              /\ KindAt(p) = "clear" => LooseAt(p)
              /\ KindAt(p) \in {"get", "put", "delete", "clear", "prepare", "commit",
                                "reconcile", "checkpoint"}
<1>1. program \in Seq(Operations)
  BY RecoveryConstants
<1>2. \A p \in 1..Len(program) : program[p] \in Operations
  BY <1>1
<1>3. \A x \in Operations : x.kind \in {"get", "put", "delete", "clear", "prepare", "commit",
                                       "reconcile", "checkpoint"}
  BY DEF Operations
<1>4. \A p \in 1..Len(program) : KindAt(p) = program[p].kind
  BY <1>1 DEF KindAt
<1>5. \A p \in 1..Len(program) : p <= Len(program) /\ (LooseAt(p) <=> Loose(program[p]))
  BY <1>1 DEF LooseAt
<1>6. \A p \in 1..Len(program) : KindAt(p) = "clear" => LooseAt(p)
  BY <1>4, <1>5 DEF Loose
<1> QED BY <1>1, <1>2, <1>3, <1>4, <1>5, <1>6

\* The numbers at which a program leaves a position are the same in every run.
LEMMA FollowsUnique ==
  ASSUME program \in Programs, NEW f \in [Positions -> Int], NEW p \in 1..Len(program),
         NEW m \in Int, NEW n \in Int, Follows(f, p, m), Follows(f, p, n)
  PROVE  m = n
<1>1. CASE KindAt(p) \in {"put", "delete"}
  <2>1. \A a, b \in Int : Attempted(f, p, a - 1) /\ Attempted(f, p, b - 1)
                           /\ ~RedoneAt(p, a - 1) => ~(a < b)
    <3> SUFFICES ASSUME NEW a \in Int, NEW b \in Int, Attempted(f, p, a - 1), Attempted(f, p, b - 1),
                        ~RedoneAt(p, a - 1), a < b
                 PROVE  FALSE
      OBVIOUS
    <3>1. f[p] \in Int
      BY DEF Attempted
    <3>2. a - 1 \in f[p]..(b - 1 - 1)
      BY <3>1 DEF Attempted
    <3> QED BY <3>2 DEF Attempted
  <2> QED BY <1>1, <2>1 DEF Follows
<1>2. CASE KindAt(p) \notin {"put", "delete"}
  BY <1>2, ProgramKinds DEF Follows
<1> QED BY <1>1, <1>2

\* Reaching the next position, for the first time or again.
LEMMA Reach ==
  ASSUME program \in Programs, NEW f, Trace(f), NEW p \in 1..Len(program), f[p] >= 0,
         NEW n \in Nat, f[p] <= n, Follows(f, p, n)
  PROVE  \E g \in [Positions -> Int] : Trace(g) /\ Grows(f, g) /\ g[p + 1] = n
<1>1. f \in [Positions -> Int] /\ Len(program) \in Nat
  BY ProgramKinds DEF Trace
<1>2. p \in Positions /\ p + 1 \in Positions /\ p + 1 # 1
  BY <1>1 DEF Positions
<1>3. CASE f[p + 1] >= 0
  <2>1. Follows(f, p, f[p + 1]) /\ f[p + 1] \in Int
    BY <1>1, <1>2, <1>3 DEF Trace
  <2>2. f[p + 1] = n
    BY <1>1, <2>1, FollowsUnique
  <2> QED BY <1>1, <2>2 DEF Grows
<1>4. CASE f[p + 1] < 0
  <2> DEFINE g == [f EXCEPT ![p + 1] = n]
  <2>1. g \in [Positions -> Int] /\ g[p + 1] = n /\ g[1] = 0
        /\ \A q \in Positions : q # p + 1 => g[q] = f[q]
    BY <1>1, <1>2 DEF Trace
  <2> HIDE DEF g
  <2>2. Grows(f, g)
    BY <1>1, <1>2, <1>4, <2>1 DEF Grows
  <2>3. \A q \in Positions : q > p + 1 => f[q] < 0
    BY <1>1, <1>2, <1>4 DEF Trace
  <2>4. \A a, b \in Positions : a < b /\ g[b] >= 0 => 0 <= g[a] /\ g[a] <= g[b]
    <3> SUFFICES ASSUME NEW a \in Positions, NEW b \in Positions, a < b, g[b] >= 0
                 PROVE  0 <= g[a] /\ g[a] <= g[b]
      OBVIOUS
    <3>0. a \in Int /\ b \in Int /\ p \in Int /\ f[a] \in Int /\ f[p] \in Int
      BY <1>1, <1>2 DEF Positions
    <3>1. CASE b = p + 1
      <4>1. a = p \/ a < p
        BY <3>0, <3>1
      <4>2. 0 <= f[a] /\ f[a] <= f[p]
        BY <4>1, <1>2, <3>0 DEF Trace
      <4> QED BY <3>0, <3>1, <4>2, <2>1
    <3>2. CASE b # p + 1
      <4>1. b < p + 1
        BY <3>0, <3>2, <2>1, <2>3
      <4> QED BY <3>0, <3>2, <4>1, <2>1 DEF Trace
    <3> QED BY <3>1, <3>2
  <2>5. \A q \in 1..Len(program), k \in Int : f[q] >= 0 /\ Follows(f, q, k) => Follows(g, q, k)
    <3> SUFFICES ASSUME NEW q \in 1..Len(program), NEW k \in Int, f[q] >= 0, Follows(f, q, k)
                 PROVE  Follows(g, q, k)
      OBVIOUS
    <3>1. g[q] = f[q]
      BY <2>2, <1>1 DEF Grows, Positions
    <3> QED BY <3>1 DEF Follows, Attempted
  <2>6. \A q \in 1..Len(program) : g[q + 1] >= 0 => Follows(g, q, g[q + 1])
    <3> SUFFICES ASSUME NEW q \in 1..Len(program), g[q + 1] >= 0 PROVE Follows(g, q, g[q + 1])
      OBVIOUS
    <3>1. CASE q = p
      BY <3>1, <2>1, <2>5
    <3>2. CASE q # p
      <4>1. q \in Positions /\ q + 1 \in Positions /\ q + 1 # p + 1 /\ q < q + 1
        BY <1>1, <3>2 DEF Positions
      <4>2. g[q + 1] = f[q + 1]
        BY <4>1, <2>1
      <4>3. f[q] >= 0 /\ f[q + 1] \in Int /\ Follows(f, q, f[q + 1])
        BY <4>1, <4>2, <1>1 DEF Trace
      <4> QED BY <4>2, <4>3, <2>5
    <3> QED BY <3>1, <3>2
  <2>7. Trace(g)
    BY <2>1, <2>4, <2>6 DEF Trace
  <2> QED BY <2>1, <2>2, <2>7
<1> QED BY <1>1, <1>2, <1>3, <1>4

\* The attempts at a position lie before the first request of any later one.
LEMMA Separated ==
  ASSUME program \in Programs, NEW f, Trace(f), NEW p \in 1..Len(program), NEW q \in Positions,
         p < q, f[q] >= 0
  PROVE  /\ KindAt(p) # "clear"
         /\ \A n : KindAt(p) \in {"put", "delete"} /\ Attempted(f, p, n) => n < f[q]
<1>1. f \in [Positions -> Int] /\ Len(program) \in Nat
  BY ProgramKinds DEF Trace
<1>2. p \in Positions /\ p + 1 \in Positions /\ q \in Int /\ p \in Int
  BY <1>1 DEF Positions
<1>3. 0 <= f[p + 1] /\ f[p + 1] <= f[q] /\ f[p + 1] \in Int /\ f[q] \in Int
  <2>1. p + 1 = q \/ p + 1 < q
    BY <1>2
  <2> QED BY <1>1, <1>2, <2>1 DEF Trace
<1>4. Follows(f, p, f[p + 1])
  BY <1>3 DEF Trace
<1>5. ASSUME NEW n, KindAt(p) \in {"put", "delete"}, Attempted(f, p, n) PROVE n < f[q]
  <2>1. n \in Nat /\ f[p] \in Int /\ \A j \in f[p]..(n - 1) : RedoneAt(p, j)
    BY <1>1, <1>2, <1>5 DEF Attempted
  <2>2. f[p] <= f[p + 1] - 1 /\ ~RedoneAt(p, f[p + 1] - 1)
    BY <1>4, <1>5 DEF Follows, Attempted
  <2>3. f[p + 1] - 1 \notin f[p]..(n - 1)
    BY <2>1, <2>2
  <2> QED BY <2>1, <2>2, <2>3, <1>3
<1>6. KindAt(p) # "clear"
  BY <1>4, ProgramKinds DEF Follows
<1> QED BY <1>5, <1>6

\* An operation key and a mutation belong to one write of the program.
LEMMA FitsUnique ==
  ASSUME program \in Programs, NEW f, Trace(f), NEW o, NEW m,
         NEW w \in WriteNames, NEW v \in WriteNames, Fits(f, o, m, w), Fits(f, o, m, v)
  PROVE  w = v
<1>1. \A x, y \in WriteNames : x.at = y.at /\ x.key = y.key /\ x.version = y.version
                                /\ x.prepared = y.prepared => x = y
  BY DEF WriteNames
<1>2. \A n, k : /\ Derived(n).prepared = FALSE /\ IntentKey(k).prepared = TRUE
                /\ IntentKey(k).number = k /\ Derived(n).number = n
  BY DEF Derived, IntentKey
<1>3. CASE w.prepared
  <2>1. o = IntentKey(w.at) /\ w.version = 0 /\ w.key = m.key
    BY <1>3 DEF Fits
  <2>2. v.prepared /\ o = IntentKey(v.at) /\ v.version = 0 /\ v.key = m.key
    BY <1>2, <2>1 DEF Fits
  <2>3. w.at = v.at
    BY <1>2, <2>1, <2>2
  <2>4. w.prepared = v.prepared
    BY <1>3, <2>2 DEF WriteNames
  <2> QED BY <1>1, <2>1, <2>2, <2>3, <2>4
<1>4. CASE ~w.prepared
  <2>1. o.number \in Nat /\ ~v.prepared
    BY <1>2, <1>4 DEF Fits, Attempted
  <2>2. ASSUME NEW x \in WriteNames, NEW y \in WriteNames, Fits(f, o, m, x), Fits(f, o, m, y),
               ~x.prepared, ~y.prepared, x.at < y.at
        PROVE  FALSE
    <3>1. x.at \in 1..Len(program) /\ y.at \in Positions /\ f[y.at] >= 0 /\ f[y.at] <= o.number
      BY <2>2, ProgramKinds DEF Fits, Attempted, Positions
    <3>2. KindAt(x.at) # "clear"
      BY <2>2, <3>1, Separated
    <3>3. KindAt(x.at) \in {"put", "delete"} /\ Attempted(f, x.at, o.number)
      BY <2>2, <3>2 DEF Fits
    <3>4. o.number < f[y.at] /\ f[y.at] \in Int
      BY <2>2, <3>1, <3>3, Separated DEF Trace
    <3> QED BY <2>1, <3>1, <3>4
  <2>3. w.at \in Int /\ v.at \in Int
    BY DEF WriteNames
  <2>4. w.at = v.at
    BY <1>4, <2>1, <2>2, <2>3
  <2>5. w.key = v.key /\ w.version = v.version
    BY <1>4, <2>1, <2>4 DEF Fits
  <2>6. w.prepared = v.prepared
    BY <1>4, <2>1 DEF WriteNames
  <2> QED BY <1>1, <2>4, <2>5, <2>6
<1> QED BY <1>3, <1>4

-----------------------------------------------------------------------------
\* What a step does to a trace: it grows, as the receipts do.
ReceiptsGrow ==
  /\ \A o \in DOMAIN receipts : o \in DOMAIN receipts' /\ receipts'[o] = receipts[o]
  /\ program' = program

\* A trace stays one while the receipts grow.
LEMMA TraceKept ==
  ASSUME ReceiptsGrow, NEW f, Trace(f)
  PROVE  Trace(f)'
<1>1. \A p, n : RedoneAt(p, n) => RedoneAt(p, n)'
  BY DEF RedoneAt, ReceiptsGrow
<1>2. \A p, n : Derived(n) \in DOMAIN receipts /\ ~RedoneAt(p, n) => ~RedoneAt(p, n)'
  BY DEF RedoneAt, ReceiptsGrow
<1>3. Positions' = Positions /\ \A p : KindAt(p)' = KindAt(p) /\ (LooseAt(p)' <=> LooseAt(p))
  BY DEF ReceiptsGrow, Positions, KindAt, LooseAt
<1>4. \A p, n : Attempted(f, p, n) => Attempted(f, p, n)'
  BY <1>1, <1>3 DEF Attempted
<1>5. \A p, n : Follows(f, p, n) => Follows(f, p, n)'
  BY <1>2, <1>3, <1>4 DEF Follows, ReceiptsGrow
<1> QED BY <1>3, <1>5 DEF Trace, ReceiptsGrow

\* An attempt stays one.
LEMMA AttemptedKept ==
  ASSUME ReceiptsGrow, NEW f, NEW g, Grows(f, g), NEW p, NEW n, Attempted(f, p, n)
  PROVE  Attempted(g, p, n)'
<1>1. \A j : RedoneAt(p, j) => RedoneAt(p, j)'
  BY DEF RedoneAt, ReceiptsGrow
<1>2. p \in Positions /\ g[p] = f[p] /\ Positions' = Positions
  BY DEF Attempted, Grows, ReceiptsGrow, Positions
<1> QED BY <1>1, <1>2 DEF Attempted

\* A request stays about the write it is about.
LEMMA FitsKept ==
  ASSUME ReceiptsGrow, program \in Programs, NEW f, NEW g, Grows(f, g), NEW o, NEW m, NEW w,
         Fits(f, o, m, w)
  PROVE  Fits(g, o, m, w)'
<1>1. \A p : KindAt(p)' = KindAt(p) /\ program' = program
  BY DEF ReceiptsGrow, KindAt
<1>2. 1..Len(program) \subseteq Positions
  BY ProgramKinds DEF Positions
<1>3. CASE w.prepared
  BY <1>3 DEF Fits
<1>4. CASE ~w.prepared /\ w.version = 0
  <2>1. Attempted(g, w.at, o.number)'
    BY <1>4, AttemptedKept DEF Fits
  <2> QED BY <1>1, <1>4, <2>1 DEF Fits
<1>5. CASE ~w.prepared /\ w.version # 0
  <2>1. g[w.at] = f[w.at]
    BY <1>2, <1>5 DEF Fits, Grows
  <2> QED BY <1>1, <1>5, <2>1 DEF Fits
<1> QED BY <1>3, <1>4, <1>5

\* A run that takes no step keeps its place on the trace.
LEMMA OnTraceKept ==
  ASSUME ReceiptsGrow, NEW f, NEW g, Grows(f, g), NEW r, NEW sent, r.pc \in Positions,
         OnTrace(f, r, sent)
  PROVE  OnTrace(g, r, sent)'
<1>1. (\A p : KindAt(p)' = KindAt(p) /\ (LooseAt(p)' <=> LooseAt(p))) /\ (HasRoom(r)' <=> HasRoom(r))
  BY DEF ReceiptsGrow, KindAt, LooseAt, HasRoom
<1>2. NoLooseBefore(r.pc)' <=> NoLooseBefore(r.pc)
  BY <1>1 DEF NoLooseBefore
<1> SUFFICES ASSUME HasRoom(r), NoLooseBefore(r.pc)
             PROVE  /\ g[r.pc] >= 0
                    /\ LooseAt(r.pc) => r.next >= g[r.pc]
                    /\ ~LooseAt(r.pc) => r.next = g[r.pc] + r.attempt - 1 + sent
                    /\ KindAt(r.pc) \in {"put", "delete"} =>
                         Attempted(g, r.pc, g[r.pc] + r.attempt - 1)'
                    /\ ~LooseAt(r.pc) /\ KindAt(r.pc) \notin {"put", "delete"} => r.attempt = 1
  BY <1>1, <1>2 DEF OnTrace
<1>3. f[r.pc] >= 0 /\ g[r.pc] = f[r.pc]
  BY DEF OnTrace, Grows
<1> QED BY <1>3, AttemptedKept DEF OnTrace

\* Receipts and effects still tell of each other.
LEMMA MatchedKept ==
  ASSUME ReceiptsGrow, program \in Programs, NEW f, NEW g, Grows(f, g), Matched(f),
         UNCHANGED <<receipts, effects>>
  PROVE  Matched(g)'
<1>1. \A o, m, w : Fits(f, o, m, w) => Fits(g, o, m, w)'
  BY FitsKept
<1>2. \A o : CommittedKey(o)' = CommittedKey(o)
  BY DEF CommittedKey
<1> QED BY <1>1, <1>2 DEF Matched

\* A trace grows into itself.
LEMMA GrowsRefl == \A f : Grows(f, f)
  BY DEF Grows

-----------------------------------------------------------------------------
\* The invariant of the refinement, under its two hypotheses.
ReplayInv ==
  /\ Sources = 0 /\ Replayable
  /\ BaseInv /\ SameIdentity /\ DeletedOnce /\ TrackInv

\* Initially only the first position is reached, by request 0.
LEMMA ReplayInit == Sources = 0 /\ Replayable /\ Init => ReplayInv
<1> SUFFICES ASSUME Sources = 0, Replayable, Init PROVE ReplayInv
  OBVIOUS
<1>1. BaseInv
  BY InitBase
<1>2. SameIdentity
  BY DEF Init, SameIdentity, NewRun, Idle
<1>3. DeletedOnce
  BY DEF Init, DeletedOnce
<1>4. TrackInv
  <2>0. program \in Programs /\ Len(program) \in Nat
    BY ProgramKinds DEF Init
  <2> DEFINE f == [p \in Positions |-> IF p = 1 THEN 0 ELSE -1]
  <2>1. f \in [Positions -> Int] /\ f[1] = 0 /\ \A p \in Positions : p # 1 => f[p] = -1
    BY <2>0 DEF Positions
  <2> HIDE DEF f
  <2>2. \A p \in 1..Len(program) : p + 1 \in Positions /\ p + 1 # 1
    BY <2>0 DEF Positions
  <2>3. \A p, q \in Positions : p < q => q # 1
    BY DEF Positions
  <2>4. Trace(f)
    BY <2>1, <2>2, <2>3 DEF Trace
  <2>5. run.pc = 1 /\ run.attempt = 1 /\ run.next = 0
    BY DEF Init, NewRun
  <2>6. OnTrace(f, run, IF Idle THEN 0 ELSE 1)
    <3>1. Idle
      BY DEF Init, Idle
    <3>2. Attempted(f, 1, 0)
      BY <2>0, <2>1 DEF Attempted, Positions
    <3> QED BY <2>1, <2>5, <3>1, <3>2 DEF OnTrace
  <2>7. Matched(f)
    BY DEF Matched, Init
  <2>8. Tracked(f)
    BY <2>4, <2>6, <2>7 DEF Tracked, Init, Idle
  <2> QED BY <2>1, <2>8 DEF TrackInv
<1> QED BY <1>1, <1>2, <1>3, <1>4 DEF ReplayInv

\* A step of the run that sends nothing.
LEMMA QuietTrack ==
  ASSUME BaseInv, NEW f, Tracked(f), UNCHANGED <<program, hostVars>>, Idle',
         NEW g \in [Positions -> Int], Trace(g), Grows(f, g),
         status' = "running" => OnTrace(g, run', 0),
         \A c \in saved' : c \in saved \/ OnTrace(g, c, 0)
  PROVE  TrackInv'
<1>1. ReceiptsGrow /\ program \in Programs /\ Positions' = Positions
  BY DEF ReceiptsGrow, hostVars, BaseInv, RunInv, Positions
<1>2. \A r : OnTrace(g, r, 0) => OnTrace(g, r, 0)'
  BY DEF OnTrace, HasRoom, NoLooseBefore, LooseAt, KindAt, Attempted, RedoneAt, Positions, hostVars
<1>3. \A c \in saved : OnTrace(g, c, 0)'
  <2> SUFFICES ASSUME NEW c \in saved PROVE OnTrace(g, c, 0)'
    OBVIOUS
  <2>1. OnTrace(f, c, 0) /\ c.pc \in Positions
    BY DEF Tracked, BaseInv, SavedInv, WellFormed, Positions
  <2> QED BY <1>1, <2>1, OnTraceKept
<1>4. \A q \in inflight' : q.kind \in {"write", "commit"} => Fits(g, q.opkey, q.mutation, q.write)'
  BY <1>1, FitsKept DEF Tracked, hostVars
<1>5. Matched(g)'
  BY <1>1, MatchedKept DEF Tracked, hostVars
<1>6. Trace(g)'
  BY <1>1, TraceKept
<1>7. (status = "running" => OnTrace(g, run, IF Idle THEN 0 ELSE 1))'
  <2>1. ASSUME status' = "running" PROVE OnTrace(g, run, 0)'
    <3>1. PICK r : r = run'
      OBVIOUS
    <3>2. OnTrace(g, r, 0)'
      BY <1>2, <2>1, <3>1
    <3> QED BY <3>1, <3>2
  <2> QED BY <2>1
<1>8. Tracked(g)'
  BY <1>2, <1>3, <1>4, <1>5, <1>6, <1>7 DEF Tracked
<1> QED BY <1>1, <1>8 DEF TrackInv

\* Sending a request.
LEMMA SendTrack ==
  ASSUME BaseInv, NEW f, Tracked(f), f \in [Positions -> Int],
         NEW r, NEW kind, NEW opkey, NEW mutation, NEW write,
         Dispatch(r, kind, opkey, mutation, write), r.next \in Nat,
         OnTrace(f, run', 1),
         kind \in {"write", "commit"} => Fits(f, opkey, mutation, write)
  PROVE  TrackInv'
<1>0. PICK q : q = [id |-> r.next, incarnation |-> restarts, kind |-> kind,
                    opkey |-> opkey, mutation |-> mutation, write |-> write]
  OBVIOUS
<1>1. /\ pending' = [req |-> q, reply |-> Awaiting]
      /\ inflight' = inflight \cup {q}
      /\ UNCHANGED <<program, status, stop, saved, restarts, issued, store, clock, receipts,
                     effects, foreign>>
  BY <1>0 DEF Dispatch, durableVars
<1>2. /\ q.id = r.next /\ q.kind = kind /\ q.opkey = opkey /\ q.mutation = mutation /\ q.write = write
      /\ pending'.req = q
  BY <1>0, <1>1
<1>3. ~Idle'
  BY <1>2 DEF Idle, NoRequest
<1>4. ReceiptsGrow /\ program \in Programs /\ Positions' = Positions /\ Grows(f, f)
  BY <1>1, GrowsRefl DEF ReceiptsGrow, BaseInv, RunInv, Positions
<1>5. \A x : OnTrace(f, x, 1) => OnTrace(f, x, 1)'
  BY <1>1 DEF OnTrace, HasRoom, NoLooseBefore, LooseAt, KindAt, Attempted, RedoneAt, Positions
<1>6. \A c \in saved : OnTrace(f, c, 0)'
  <2> SUFFICES ASSUME NEW c \in saved PROVE OnTrace(f, c, 0)'
    OBVIOUS
  <2>1. OnTrace(f, c, 0) /\ c.pc \in Positions
    BY DEF Tracked, BaseInv, SavedInv, WellFormed, Positions
  <2> QED BY <1>4, <2>1, OnTraceKept
<1>7. q.kind \in {"write", "commit"} => Fits(f, q.opkey, q.mutation, q.write)'
  BY <1>2, <1>4, FitsKept
<1>8. \A z \in inflight' : z.kind \in {"write", "commit"} => Fits(f, z.opkey, z.mutation, z.write)'
  <2>1. \A z \in inflight : z.kind \in {"write", "commit"} => Fits(f, z.opkey, z.mutation, z.write)'
    BY <1>4, FitsKept DEF Tracked
  <2> QED BY <1>1, <1>7, <2>1
<1>9. Matched(f)' /\ Trace(f)'
  BY <1>1, <1>4, MatchedKept, TraceKept DEF Tracked
<1>10. OnTrace(f, run, 1)'
  <2>1. PICK x : x = run'
    OBVIOUS
  <2>2. OnTrace(f, x, 1)'
    BY <1>5, <2>1
  <2> QED BY <2>1, <2>2
<1>11. Tracked(f)'
  BY <1>1, <1>2, <1>3, <1>6, <1>7, <1>8, <1>9, <1>10 DEF Tracked
<1> QED BY <1>4, <1>11 DEF TrackInv

-----------------------------------------------------------------------------
\* Past a position: the run is on the trace, which may now reach further.
LEMMA AdvanceTrack ==
  ASSUME BaseInv, NEW f, Tracked(f), status = "running", run.pc <= Len(program), NEW x, NEW sent,
         DOMAIN x = RunFields, x.pc = run.pc, HasRoom(x) => HasRoom(run), x.next \in Nat,
         OnTrace(f, run, sent),
         /\ HasRoom(run) /\ NoLooseBefore(run.pc) /\ ~LooseAt(run.pc) =>
            Follows(f, run.pc, x.next) /\ f[run.pc] <= x.next
  PROVE  \E g \in [Positions -> Int] :
           Trace(g) /\ Grows(f, g) /\ OnTrace(g, Advance(x), 0)
<1>1. /\ program \in Programs /\ Len(program) \in Nat /\ run.pc \in 1..Len(program)
      /\ f \in [Positions -> Int] /\ Trace(f)
  BY ProgramKinds DEF BaseInv, RunInv, WellFormed, Tracked, Trace
<1> DEFINE y == Advance(x)
           p == run.pc
<1>2. /\ y.pc = p + 1 /\ y.attempt = 1 /\ y.next = x.next /\ y.operations = x.operations
  BY AdvanceFields
<1> HIDE DEF y
<1>3. HasRoom(y) <=> HasRoom(x)
  BY <1>2 DEF HasRoom
<1>4. NoLooseBefore(p + 1) => NoLooseBefore(p) /\ ~LooseAt(p)
  BY <1>1 DEF NoLooseBefore
<1>5. CASE HasRoom(x) /\ NoLooseBefore(p + 1)
  <2>1. NoLooseBefore(p) /\ ~LooseAt(p) /\ f[p] >= 0
    BY <1>4, <1>5 DEF OnTrace
  <2>2. PICK g \in [Positions -> Int] : Trace(g) /\ Grows(f, g) /\ g[p + 1] = x.next
    BY <1>1, <1>5, <2>1, Reach
  <2>3. p + 1 \in Positions
    BY <1>1 DEF Positions
  <2>4. Attempted(g, p + 1, x.next)
    BY <2>2, <2>3 DEF Attempted
  <2>5. OnTrace(g, y, 0)
    BY <1>2, <2>2, <2>4 DEF OnTrace
  <2> QED BY <2>2, <2>5 DEF y
<1>6. CASE ~(HasRoom(x) /\ NoLooseBefore(p + 1))
  <2>1. OnTrace(f, y, 0)
    BY <1>2, <1>3, <1>6 DEF OnTrace
  <2> QED BY <1>1, <2>1, GrowsRefl DEF y
<1> QED BY <1>5, <1>6

\* A run that may write: it has room, and nothing loose lies behind it.
LEMMA WriterFacts ==
  ASSUME ReplayInv, run.pc \in 1..Len(program), Op.kind \in {"put", "delete", "clear"}
  PROVE  NoLooseBefore(run.pc) /\ (LooseAt(run.pc) => Op.kind = "clear")
<1>1. program \in Programs /\ Len(program) \in Nat
  BY ProgramKinds DEF ReplayInv, BaseInv, RunInv
<1>2. ASSUME NEW j \in 1..run.pc, LooseAt(j) PROVE j = run.pc /\ Op.kind = "clear"
  <2>1. j \in 1..Len(program) /\ j <= run.pc
    BY <1>1, <1>2
  <2>2. Loose(program[j])
    BY <1>2 DEF LooseAt
  <2> QED BY <1>1, <2>1, <2>2 DEF ReplayInv, Replayable, Op
<1>3. \A j \in 1..(run.pc - 1) : j \in 1..run.pc /\ j # run.pc
  OBVIOUS
<1>4. run.pc \in 1..run.pc
  OBVIOUS
<1> QED BY <1>2, <1>3, <1>4 DEF NoLooseBefore

\* Binding one more operation takes room.
LEMMA RoomLost ==
  ASSUME NEW r, NEW x, WellFormed(r), NEW n, DOMAIN x.operations = DOMAIN r.operations \cup {n},
         HasRoom(x)
  PROVE  HasRoom(r)
<1>1. IsFiniteSet(DOMAIN r.operations)
  <2>1. r.next - 1 \in Int /\ DOMAIN r.operations \subseteq 0..(r.next - 1)
    BY DEF WellFormed
  <2>2. IsFiniteSet(0..(r.next - 1))
    BY <2>1, FS_Interval
  <2> QED BY <2>1, <2>2, FS_Subset
<1>2. IsFiniteSet(DOMAIN x.operations)
  BY <1>1, FS_AddElement
<1>3. Cardinality(DOMAIN r.operations) <= Cardinality(DOMAIN x.operations)
  BY <1>2, FS_Subset
<1>4. Cardinality(DOMAIN r.operations) \in Nat /\ Cardinality(DOMAIN x.operations) \in Nat
  BY <1>1, <1>2, FS_CardinalityType
<1> QED BY <1>3, <1>4, RecoveryConstants DEF HasRoom

\* A request that was numbered keeps the run on the trace.
LEMMA SentTrack ==
  ASSUME NEW f, NEW r, NEW x, WellFormed(r), OnTrace(f, r, 0), x.pc = r.pc, x.attempt = r.attempt,
         x.next \in Nat, HasRoom(x) => HasRoom(r), f[r.pc] \in Int,
         x.next = r.next + 1 \/ (LooseAt(r.pc) /\ x.next >= r.next)
  PROVE  OnTrace(f, x, 1)
<1>1. r.next \in Nat /\ r.attempt \in Int
  BY RecoveryConstants DEF WellFormed
<1> QED BY <1>1 DEF OnTrace

\* A run about to take a step, and its place on the trace.
LEMMA ReadyTrack ==
  ASSUME ReplayInv, Ready, NEW f \in [Positions -> Int], Tracked(f)
  PROVE  /\ WellFormed(run) /\ status = "running" /\ Idle /\ run.next \in Nat /\ run.attempt \in Nat
         /\ DOMAIN run = RunFields /\ run.pc \in 1..Len(program) /\ run.pc \in Positions
         /\ KindAt(run.pc) = Op.kind /\ program \in Programs /\ run.pc <= Len(program)
         /\ LooseAt(run.pc) <=> Loose(Op)
         /\ OnTrace(f, run, 0) /\ f[run.pc] \in Int /\ Trace(f)
<1>1. /\ WellFormed(run) /\ run.next \in Nat /\ DOMAIN run = RunFields /\ run.pc \in 1..Len(program)
      /\ program \in Programs
  BY ReadyFacts DEF ReplayInv
<1>2. status = "running" /\ Idle
  BY DEF Ready
<1>3. Len(program) \in Nat /\ KindAt(run.pc) = Op.kind /\ (LooseAt(run.pc) <=> Loose(Op))
  BY <1>1, ProgramKinds DEF Op
<1>4. run.pc \in Positions /\ run.pc <= Len(program)
  BY <1>1, <1>3 DEF Positions
<1>5. run.attempt \in Nat
  BY <1>1, RecoveryConstants DEF WellFormed
<1>6. OnTrace(f, run, 0) /\ Trace(f)
  BY <1>2 DEF Tracked
<1> QED BY <1>1, <1>2, <1>3, <1>4, <1>5, <1>6

\* Sending a bound request.
LEMMA SendBoundTrack ==
  ASSUME ReplayInv, Ready, CanBind, NEW f, Tracked(f), f \in [Positions -> Int],
         NEW r, NEW kind, NEW opkey, NEW mutation, NEW write,
         DOMAIN r = RunFields, r.next = run.next, r.pc = run.pc, r.attempt = run.attempt,
         r.operations = run.operations,
         Dispatch(bind_storage_operation(r, opkey, mutation, "begun"), kind, opkey, mutation, write),
         kind \in {"write", "commit"} => Fits(f, opkey, mutation, write)
  PROVE  TrackInv'
<1>1. PICK b : b = bind_storage_operation(r, opkey, mutation, "begun")
  OBVIOUS
<1>2. /\ DOMAIN b = RunFields
      /\ b.pc = r.pc /\ b.attempt = r.attempt /\ b.next = r.next /\ b.identity = r.identity
      /\ b.scanned = r.scanned /\ b.todo = r.todo /\ b.intent = r.intent
      /\ b.ledger = r.ledger /\ b.versions = r.versions /\ b.writes = r.writes
      /\ DOMAIN b.operations = DOMAIN r.operations \cup {r.next}
      /\ b.operations[r.next] = [opkey |-> opkey, mutation |-> mutation, phase |-> "begun"]
      /\ \A i \in DOMAIN r.operations : i # r.next => b.operations[i] = r.operations[i]
  BY <1>1, BindFields
<1>3. Dispatch(b, kind, opkey, mutation, write)
  BY <1>1
<1>4. run' = [b EXCEPT !.next = r.next + 1]
  BY <1>2, <1>3 DEF Dispatch
<1>5. /\ run'.pc = run.pc /\ run'.attempt = run.attempt /\ run'.next = run.next + 1
      /\ DOMAIN run'.operations = DOMAIN run.operations \cup {run.next}
  BY <1>2, <1>4 DEF RunFields
<1>6. WellFormed(run) /\ run.next \in Nat /\ f[run.pc] \in Int
  BY ReadyTrack
<1>7. OnTrace(f, run, 0)
  BY ReadyTrack
<1>8. OnTrace(f, run', 1)
  <2>1. HasRoom(run') => HasRoom(run)
    BY <1>5, <1>6, RoomLost
  <2> QED BY <1>5, <1>6, <1>7, <2>1, SentTrack
<1> QED BY <1>2, <1>3, <1>6, <1>8, SendTrack DEF ReplayInv

\* A step that leaves the run where it is, or ends it.
LEMMA QuietStayTrack ==
  ASSUME ReplayInv, UNCHANGED <<program, saved, hostVars>>, Idle',
         \A f : Tracked(f) /\ status' = "running" => OnTrace(f, run', 0)
  PROVE  TrackInv'
<1>1. PICK f \in [Positions -> Int] : Tracked(f)
  BY DEF ReplayInv, TrackInv
<1>2. BaseInv /\ Trace(f) /\ Grows(f, f)
  BY <1>1, GrowsRefl DEF ReplayInv, Tracked
<1> QED BY <1>1, <1>2, QuietTrack

\* Nothing is awaited once a boundary is settled.
LEMMA IdleNext ==
  ASSUME pending' = [req |-> NoRequest, reply |-> Awaiting] PROVE Idle'
  BY DEF Idle

\* A loose operation that is tried again stays behind its first request.
LEMMA LooseStay ==
  ASSUME ReplayInv, run.pc \in 1..Len(program), Loose(Op), NEW f \in [Positions -> Int], NEW sent,
         OnTrace(f, run, sent), NEW x, x.pc = run.pc, HasRoom(x) => HasRoom(run),
         x.next \in Nat, run.next \in Nat, run.next <= x.next
  PROVE  OnTrace(f, x, 0)
<1>1. program \in Programs
  BY DEF ReplayInv, BaseInv, RunInv
<1>2. LooseAt(run.pc) /\ KindAt(run.pc) = Op.kind /\ Len(program) \in Nat
  BY <1>1, ProgramKinds DEF Op
<1>3. Op.kind \notin {"put", "delete"}
  BY <1>2, WriterFacts
<1>4. f[run.pc] \in Int
  BY <1>2 DEF Positions
<1> QED BY <1>2, <1>3, <1>4 DEF OnTrace

\* An operation whose boundary never begins has taken its number all the same.
LEMMA NotDispatchedTrack ==
  ASSUME ReplayInv, Ready, CanBind, Op.kind \in {"put", "delete", "clear", "commit"},
         NEW r, NEW opkey, NEW mutation, DOMAIN r = RunFields, r.next = run.next, r.pc = run.pc,
         r.attempt = run.attempt, r.operations = run.operations,
         NotDispatched([bind_storage_operation(r, opkey, mutation, "bound") EXCEPT !.next = @ + 1])
  PROVE  TrackInv'
<1>1. PICK f \in [Positions -> Int] : Tracked(f)
  BY DEF ReplayInv, TrackInv
<1>2. /\ BaseInv /\ status = "running" /\ run.pc \in 1..Len(program) /\ run.pc <= Len(program)
      /\ OnTrace(f, run, 0) /\ KindAt(run.pc) = Op.kind /\ f[run.pc] \in Int
      /\ run.next \in Nat /\ run.attempt \in Nat /\ WellFormed(run)
  BY <1>1, ReadyTrack DEF ReplayInv
<1>3. PICK b : b = bind_storage_operation(r, opkey, mutation, "bound")
  OBVIOUS
<1>4. /\ DOMAIN b = RunFields
      /\ b.pc = r.pc /\ b.attempt = r.attempt /\ b.next = r.next
      /\ b.scanned = r.scanned /\ b.todo = r.todo /\ b.intent = r.intent
      /\ b.ledger = r.ledger /\ b.versions = r.versions /\ b.writes = r.writes
      /\ DOMAIN b.operations = DOMAIN r.operations \cup {r.next}
      /\ b.operations[r.next] = [opkey |-> opkey, mutation |-> mutation, phase |-> "bound"]
      /\ \A i \in DOMAIN r.operations : i # r.next => b.operations[i] = r.operations[i]
  BY <1>3, BindFields
<1>5. PICK x : x = [b EXCEPT !.next = r.next + 1]
  OBVIOUS
<1>6. /\ DOMAIN x = RunFields /\ x.pc = run.pc /\ x.attempt = run.attempt /\ x.next = run.next + 1
      /\ x.operations = b.operations
  BY <1>4, <1>5 DEF RunFields
<1>7. HasRoom(x) => HasRoom(run)
  BY <1>2, <1>4, <1>6, RoomLost
<1>8. NotDispatched(x)
  BY <1>3, <1>4, <1>5
<1>9. UNCHANGED <<program, saved, hostVars>>
  BY <1>8 DEF NotDispatched, durableVars
<1>10. CASE End("cancelled") \/ End("failed")
  <2>1. status' # "running" /\ Idle'
    BY <1>10, IdleNext DEF End
  <2> QED BY <1>9, <2>1, QuietStayTrack
<1>11. CASE Op.refused /\ MayRetry /\ Continue(Again(x))
  <2>1. run' = Again(x) /\ Idle'
    BY <1>11, IdleNext DEF Continue
  <2>2. run'.pc = run.pc /\ run'.next = run.next + 1 /\ run'.operations = x.operations
    BY <1>6, <2>1, AgainFields
  <2>3. Loose(Op)
    BY <1>11 DEF MayRetry, Loose
  <2>4. HasRoom(run') => HasRoom(run)
    BY <1>7, <2>2 DEF HasRoom
  <2>5. ASSUME NEW g, Tracked(g) PROVE OnTrace(g, run', 0)
    <3>1. g \in [Positions -> Int] /\ OnTrace(g, run, 0)
      BY <2>5, ReadyTrack DEF Tracked, Trace
    <3>2. PICK y : y = run'
      OBVIOUS
    <3>3. y.pc = run.pc /\ (HasRoom(y) => HasRoom(run)) /\ y.next \in Nat /\ run.next <= y.next
      BY <1>2, <2>2, <2>4, <3>2
    <3>4. OnTrace(g, y, 0)
      BY <1>2, <2>3, <3>1, <3>3, LooseStay
    <3> QED BY <3>2, <3>4
  <2> QED BY <1>9, <2>1, <2>5, QuietStayTrack
<1>12. CASE Op.kind = "commit" /\ Continue(Advance(Dropped(x)))
  <2>1. PICK y : y = Dropped(x)
    OBVIOUS
  <2>2. DOMAIN y = RunFields /\ y.pc = run.pc /\ y.next = run.next + 1 /\ y.operations = x.operations
    BY <1>6, <2>1, DroppedFields
  <2>3. run' = Advance(y) /\ Idle'
    BY <1>12, <2>1, IdleNext DEF Continue
  <2>4. HasRoom(y) => HasRoom(run)
    BY <1>7, <2>2 DEF HasRoom
  <2>5. HasRoom(run) /\ NoLooseBefore(run.pc) /\ ~LooseAt(run.pc) =>
          Follows(f, run.pc, y.next) /\ f[run.pc] <= y.next
    BY <1>2, <1>12, <2>2 DEF OnTrace, Follows
  <2>6. PICK g \in [Positions -> Int] : Trace(g) /\ Grows(f, g) /\ OnTrace(g, Advance(y), 0)
    <3>1. y.next \in Nat /\ DOMAIN y = RunFields /\ y.pc = run.pc
      BY <1>2, <2>2
    <3>2. BaseInv /\ status = "running" /\ run.pc <= Len(program) /\ OnTrace(f, run, 0)
      BY <1>2
    <3> QED BY <1>1, <2>4, <2>5, <3>1, <3>2, AdvanceTrack
  <2> QED BY <1>1, <1>2, <1>9, <2>3, <2>6, QuietTrack
<1> QED BY <1>8, <1>10, <1>11, <1>12, Zenon DEF NotDispatched, Raise, RetryOrReport, Dropped

\* A write is bound, and its boundary begins or not.
LEMMA BoundTrack ==
  ASSUME ReplayInv, Ready, CanBind, Op.kind \in {"put", "delete", "clear", "commit"},
         NEW f, Tracked(f), f \in [Positions -> Int],
         NEW r, NEW kind, NEW opkey, NEW mutation, NEW write,
         DOMAIN r = RunFields, r.next = run.next, r.pc = run.pc, r.attempt = run.attempt,
         r.operations = run.operations, Send(r, kind, opkey, mutation, write),
         Fits(f, opkey, mutation, write)
  PROVE  TrackInv'
<1>1. CASE Dispatch(bind_storage_operation(r, opkey, mutation, "begun"), kind, opkey, mutation, write)
  BY <1>1, SendBoundTrack
<1>2. CASE NotDispatched([bind_storage_operation(r, opkey, mutation, "bound") EXCEPT !.next = @ + 1])
  BY <1>2, NotDispatchedTrack
<1> QED BY <1>1, <1>2 DEF Send

\* A get or a scan takes the next number of the trace.
LEMMA BeginReadTrack == ASSUME ReplayInv, BeginGet \/ BeginScan PROVE TrackInv'
<1>1. PICK f \in [Positions -> Int] : Tracked(f)
  BY DEF ReplayInv, TrackInv
<1>2. Ready
  BY DEF BeginGet, BeginScan
<1>3. WellFormed(run) /\ status = "running" /\ Idle /\ run.next \in Nat /\ run.pc \in Positions
      /\ (LooseAt(run.pc) <=> Loose(Op))
      /\ DOMAIN run = RunFields /\ KindAt(run.pc) = Op.kind
  BY <1>1, <1>2, ReadyTrack
<1>4. OnTrace(f, run, 0) /\ f[run.pc] \in Int
  BY <1>1, <1>2, ReadyTrack
<1>5. CASE BeginGet
  <2>1. Dispatch(run, "get", 0, Mutation(FALSE, Op.key, Any, 0), 0)
    BY <1>5 DEF BeginGet
  <2>2. run' = [run EXCEPT !.next = run.next + 1]
    BY <2>1 DEF Dispatch
  <2>3. run'.pc = run.pc /\ run'.attempt = run.attempt /\ run'.next = run.next + 1
        /\ run'.operations = run.operations
    BY <1>3, <2>2 DEF RunFields
  <2>4. OnTrace(f, run', 1)
    BY <1>1, <1>3, <1>4, <2>3, SentTrack DEF HasRoom
  <2> QED BY <1>1, <1>3, <2>1, <2>4, SendTrack DEF ReplayInv
<1>6. CASE BeginScan
  <2>1. PICK pages \in 1..2 : Dispatch([run EXCEPT !.next = run.next + pages - 1], "scan", 0,
                                       Mutation(FALSE, Op.key, Any, 0), 0)
    BY <1>6 DEF BeginScan
  <2>2. PICK r : r = [run EXCEPT !.next = run.next + pages - 1]
    OBVIOUS
  <2>3. /\ r.next = run.next + pages - 1 /\ DOMAIN r = RunFields /\ r.pc = run.pc
        /\ r.attempt = run.attempt /\ r.operations = run.operations
    BY <1>3, <2>2 DEF RunFields
  <2>4. Dispatch(r, "scan", 0, Mutation(FALSE, Op.key, Any, 0), 0)
    BY <2>1, <2>2
  <2>9. r.next \in Nat
    BY <1>3, <2>1, <2>3
  <2>5. run' = [r EXCEPT !.next = r.next + 1]
    BY <2>4 DEF Dispatch
  <2>6. run'.pc = run.pc /\ run'.attempt = run.attempt /\ run'.next = r.next + 1
        /\ run'.operations = run.operations
    BY <2>3, <2>5 DEF RunFields
  <2>7. LooseAt(run.pc) /\ run'.next \in Nat /\ run'.next >= run.next
    BY <1>3, <1>6, <2>3, <2>6, <2>9 DEF BeginScan, Loose
  <2>8. OnTrace(f, run', 1)
    BY <1>1, <1>3, <1>4, <2>6, <2>7, SentTrack DEF HasRoom
  <2> QED BY <1>1, <2>4, <2>8, <2>9, SendTrack DEF ReplayInv
<1> QED BY <1>5, <1>6

\* A put or a delete is an attempt at its position.
LEMMA BeginWriteTrack == ASSUME ReplayInv, BeginWrite PROVE TrackInv'
<1> DEFINE mutation == Mutation(Op.kind = "delete", Op.key, Condition(Op.cond), Op.value)
           write == [at |-> run.pc, key |-> Op.key, version |-> 0, prepared |-> FALSE]
<1>1. PICK f \in [Positions -> Int] : Tracked(f)
  BY DEF ReplayInv, TrackInv
<1>2. Ready /\ CanBind /\ Op.kind \in {"put", "delete"}
      /\ Send(run, "write", DerivedKey(run), mutation, write)
  BY DEF BeginWrite
<1>3. /\ status = "running" /\ Idle /\ run.next \in Nat /\ run.pc \in 1..Len(program)
      /\ DOMAIN run = RunFields /\ KindAt(run.pc) = Op.kind /\ run.attempt \in Int
      /\ run.pc \in Positions
  BY <1>1, <1>2, ReadyTrack
<1>4. OnTrace(f, run, 0)
  BY <1>1, <1>2, ReadyTrack
<1>5. Attempted(f, run.pc, run.next)
  <2>1. f[run.pc] \in Int
    BY <1>1, <1>3
  <2>2. /\ Attempted(f, run.pc, f[run.pc] + run.attempt - 1)
        /\ run.next = f[run.pc] + run.attempt - 1 + 0
    <3>1. HasRoom(run) /\ NoLooseBefore(run.pc) /\ ~LooseAt(run.pc)
      BY <1>2, <1>3, WriterFacts DEF CanBind, HasRoom
    <3> QED BY <1>2, <1>3, <1>4, <3>1 DEF OnTrace
  <2>3. run.next = f[run.pc] + run.attempt - 1
    BY <1>3, <2>1, <2>2
  <2> QED BY <2>2, <2>3
<1>6. DerivedKey(run) = Derived(run.next) /\ DerivedKey(run).number = run.next
  BY DEF DerivedKey, Derived, ReplayInv, SameIdentity
<1>7. Fits(f, DerivedKey(run), mutation, write)
  BY <1>2, <1>3, <1>5, <1>6 DEF Fits, Op
<1> HIDE DEF mutation, write
<1> QED BY <1>1, <1>2, <1>3, <1>7, BoundTrack

\* A delete of clear fits the scanned version.
LEMMA BeginClearDeleteTrack == ASSUME ReplayInv, BeginClearDelete PROVE TrackInv'
<1> DEFINE key == CHOOSE k \in run.todo : TRUE
           mutation == Mutation(TRUE, key, ClearCondition(key), 0)
           write == [at |-> run.pc, key |-> key, version |-> run.versions[key], prepared |-> FALSE]
           r == [run EXCEPT !.todo = @ \ {key}]
<1>1. PICK f \in [Positions -> Int] : Tracked(f)
  BY DEF ReplayInv, TrackInv
<1>2. Ready /\ CanBind /\ Op.kind = "clear" /\ run.todo # {}
      /\ Send(r, "write", DerivedKey(run), mutation, write)
  BY DEF BeginClearDelete
<1>3. /\ status = "running" /\ Idle /\ run.next \in Nat /\ run.pc \in 1..Len(program)
      /\ DOMAIN run = RunFields /\ KindAt(run.pc) = Op.kind /\ run.pc \in Positions
  BY <1>1, <1>2, ReadyTrack
<1>4. OnTrace(f, run, 0)
  BY <1>1, <1>2, ReadyTrack
<1>5. f[run.pc] \in Int /\ f[run.pc] >= 0 /\ f[run.pc] <= run.next
  <2>1. HasRoom(run) /\ NoLooseBefore(run.pc) /\ LooseAt(run.pc)
    BY <1>1, <1>2, <1>3, WriterFacts, ReadyTrack DEF CanBind, HasRoom, Loose
  <2> QED BY <1>1, <1>3, <1>4, <2>1 DEF OnTrace
<1>6. DerivedKey(run) = Derived(run.next) /\ DerivedKey(run).number = run.next
  BY DEF DerivedKey, Derived, ReplayInv, SameIdentity
<1>7. key \in run.todo
  BY <1>2
<1> HIDE DEF key
<1>8. run.versions[key] # 0
  BY <1>2, <1>7, ReadyFacts DEF ReplayInv, WellFormed
<1>9. /\ mutation.key = key /\ mutation.cond = run.versions[key] /\ write.at = run.pc
      /\ write.key = key /\ write.version = run.versions[key] /\ write.prepared = FALSE
  BY DEF Mutation, ClearCondition
<1> HIDE DEF mutation, write
<1>10. Fits(f, DerivedKey(run), mutation, write)
  BY <1>2, <1>3, <1>5, <1>6, <1>8, <1>9 DEF Fits
<1>11. /\ DOMAIN r = RunFields /\ r.next = run.next /\ r.pc = run.pc /\ r.attempt = run.attempt
       /\ r.operations = run.operations
  BY <1>3 DEF RunFields
<1> HIDE DEF r
<1> QED BY <1>1, <1>2, <1>10, <1>11, BoundTrack

\* A prepared write is known by its intent.
LEMMA BeginIntentTrack == ASSUME ReplayInv, BeginCommit \/ BeginReconcile PROVE TrackInv'
<1> DEFINE mutation == Mutation(FALSE, Op.key, Any, Op.value)
           write == [at |-> run.intent, key |-> Op.key, version |-> 0, prepared |-> TRUE]
<1>1. PICK f \in [Positions -> Int] : Tracked(f)
  BY DEF ReplayInv, TrackInv
<1>2. Ready /\ CanBind
  BY DEF BeginCommit, BeginReconcile
<1>3. DOMAIN run = RunFields
  BY <1>2, ReadyFacts DEF ReplayInv
<1>4. Fits(f, IntentKey(run.intent), mutation, write)
  BY DEF Fits, Mutation
<1>5. \/ Op.kind = "commit" /\ Send(run, "commit", IntentKey(run.intent), mutation, write)
      \/ Dispatch(bind_storage_operation(run, IntentKey(run.intent), mutation, "begun"),
                 "reconcile", IntentKey(run.intent), mutation, 0)
  BY DEF BeginCommit, BeginReconcile
<1> HIDE DEF mutation, write
<1> QED BY <1>1, <1>2, <1>3, <1>4, <1>5, SendBoundTrack, BoundTrack

-----------------------------------------------------------------------------
\* A step that moves past an operation without a request of its own.
LEMMA QuietAdvanceTrack ==
  ASSUME ReplayInv, Ready, NEW x, DOMAIN x = RunFields, x.pc = run.pc, x.operations = run.operations,
         x.next = run.next, run' = Advance(x), status' = "running",
         \A c \in saved' : c \in saved \/ c = Advance(x),
         UNCHANGED <<program, hostVars>>, Idle',
         Op.kind \in {"clear", "prepare", "checkpoint"}
  PROVE  TrackInv'
<1>1. PICK f \in [Positions -> Int] : Tracked(f)
  BY DEF ReplayInv, TrackInv
<1>2. /\ BaseInv /\ status = "running" /\ run.pc <= Len(program) /\ x.next \in Nat
      /\ OnTrace(f, run, 0) /\ KindAt(run.pc) = Op.kind /\ f[run.pc] \in Int /\ run.attempt \in Nat
  BY <1>1, ReadyTrack DEF ReplayInv
<1>3. HasRoom(run) /\ NoLooseBefore(run.pc) /\ ~LooseAt(run.pc) =>
        Follows(f, run.pc, x.next) /\ f[run.pc] <= x.next
  BY <1>2 DEF OnTrace, Follows
<1>4. PICK g \in [Positions -> Int] : Trace(g) /\ Grows(f, g) /\ OnTrace(g, Advance(x), 0)
  BY <1>1, <1>2, <1>3, AdvanceTrack DEF HasRoom
<1> QED BY <1>1, <1>2, <1>4, QuietTrack

\* Behind a clear the trace says nothing.
LEMMA ClearDoneTrack == ASSUME ReplayInv, ClearDone PROVE TrackInv'
<1>1. PICK x : x = [run EXCEPT !.scanned = FALSE]
  OBVIOUS
<1>2. Ready /\ Op.kind = "clear" /\ Continue(Advance(x)) /\ UNCHANGED <<program, saved, hostVars>>
  BY <1>1 DEF ClearDone, durableVars
<1>3. DOMAIN run = RunFields
  BY <1>2, ReadyFacts DEF ReplayInv
<1>4. DOMAIN x = RunFields /\ x.pc = run.pc /\ x.operations = run.operations /\ x.next = run.next
  BY <1>1, <1>3 DEF RunFields
<1>5. run' = Advance(x) /\ status' = "running" /\ Idle'
  BY <1>2, IdleNext DEF Continue, Ready
<1> QED BY <1>2, <1>4, <1>5, QuietAdvanceTrack

\* prepare_put takes no request number.
LEMMA PrepareTrack == ASSUME ReplayInv, Prepare PROVE TrackInv'
<1>1. PICK x : x = [run EXCEPT !.intent = issued + 1]
  OBVIOUS
<1>2. Ready /\ Op.kind = "prepare" /\ Continue(Advance(x)) /\ UNCHANGED <<program, saved, hostVars>>
  BY <1>1 DEF Prepare
<1>3. DOMAIN run = RunFields
  BY <1>2, ReadyFacts DEF ReplayInv
<1>4. DOMAIN x = RunFields /\ x.pc = run.pc /\ x.operations = run.operations /\ x.next = run.next
  BY <1>1, <1>3 DEF RunFields
<1>5. run' = Advance(x) /\ status' = "running" /\ Idle'
  BY <1>2, IdleNext DEF Continue, Ready
<1> QED BY <1>2, <1>4, <1>5, QuietAdvanceTrack

\* A checkpoint takes no request number, and copies the place of the run.
LEMMA CheckpointTrack == ASSUME ReplayInv, Checkpoint PROVE TrackInv'
<1>1. Ready /\ Op.kind = "checkpoint" /\ UNCHANGED <<program, hostVars>>
  BY DEF Checkpoint
<1>2. DOMAIN run = RunFields
  BY <1>1, ReadyFacts DEF ReplayInv
<1>3. CASE saved' = saved \cup {Advance(run)} /\ Continue(Advance(run))
  <2>1. run' = Advance(run) /\ status' = "running" /\ Idle'
    BY <1>1, <1>3, IdleNext DEF Continue, Ready
  <2> QED BY <1>1, <1>2, <1>3, <2>1, QuietAdvanceTrack
<1>4. CASE End("failed") /\ UNCHANGED <<saved, run>>
  <2>1. Idle' /\ status' = "failed"
    BY <1>4, IdleNext DEF End
  <2> QED BY <1>1, <1>4, <2>1, QuietStayTrack
<1> QED BY <1>3, <1>4 DEF Checkpoint

\* A refused write: the ledger is full, and stays so.
LEMMA RefuseWriteTrack == ASSUME ReplayInv, RefuseWrite PROVE TrackInv'
<1>1. PICK r : r = [run EXCEPT !.next = @ + 1]
  OBVIOUS
<1>2. Ready /\ ~CanBind /\ UNCHANGED <<program, saved, hostVars>>
  BY DEF RefuseWrite, durableVars
<1>3. Fails(r)
  BY <1>1, Zenon DEF RefuseWrite, Fails
<1>4. DOMAIN run = RunFields /\ run.next \notin DOMAIN run.operations
  <2>1. WellFormed(run)
    BY <1>2, ReadyFacts DEF ReplayInv
  <2> QED BY <2>1 DEF WellFormed
<1>5. ~HasRoom(run)
  BY <1>2, <1>4 DEF CanBind, HasRoom
<1>6. DOMAIN r = RunFields /\ r.operations = run.operations
  BY <1>1, <1>4 DEF RunFields
<1>7. run'.operations = run.operations
  <2>1. PICK y : y = Dropped(r)
    OBVIOUS
  <2>2. DOMAIN y = RunFields /\ y.operations = run.operations
    BY <1>6, <2>1, DroppedFields
  <2>3. Again(r).operations = run.operations /\ Advance(y).operations = run.operations
    BY <1>6, <2>2, AgainFields, AdvanceFields
  <2> QED BY <1>3, <1>6, <2>1, <2>3, FailsCases
<1>8. Idle'
  BY <1>3, FailsCases, IdleNext
<1>9. \A f : OnTrace(f, run', 0)
  BY <1>5, <1>7 DEF OnTrace, HasRoom
<1> QED BY <1>2, <1>8, <1>9, QuietStayTrack

\* A run that has ended has no place on the trace.
LEMMA LifecycleTrack == ASSUME ReplayInv, Finished \/ Crash PROVE TrackInv'
<1>1. UNCHANGED <<program, saved, hostVars>> /\ status' # "running" /\ Idle'
  BY IdleNext DEF Finished, Crash, End, durableVars
<1> QED BY <1>1, QuietStayTrack

\* A resumed run has the place of its checkpoint, because it compiles nothing.
LEMMA ResumeTrack == ASSUME ReplayInv, NEW c \in saved, Resume(c) PROVE TrackInv'
<1>1. UNCHANGED <<program, saved, hostVars>> /\ Idle'
      /\ run' = [c EXCEPT !.next = RestoredCounter(c), !.identity = RestoredIdentity(c)]
  BY IdleNext DEF Resume
<1>2. WellFormed(c)
  BY DEF ReplayInv, BaseInv, SavedInv
<1>3. DOMAIN c = RunFields /\ c.next + Sources = c.next
  BY <1>2 DEF WellFormed, ReplayInv
<1>4. run'.pc = c.pc /\ run'.attempt = c.attempt /\ run'.next = c.next /\ run'.operations = c.operations
  BY <1>1, <1>3 DEF RunFields, RestoredCounter
<1>5. \A f : Tracked(f) => OnTrace(f, run', 0)
  BY <1>4 DEF Tracked, OnTrace, HasRoom
<1> QED BY <1>1, <1>5, QuietStayTrack

-----------------------------------------------------------------------------
\* The run has its answer: where it stands on the trace.
LEMMA AnsweredTrack ==
  ASSUME ReplayInv, NEW kinds, Answered(kinds), NEW f \in [Positions -> Int], Tracked(f)
  PROVE  /\ BaseInv /\ status = "running" /\ run.pc \in 1..Len(program) /\ run.pc <= Len(program)
         /\ OnTrace(f, run, 1) /\ KindAt(run.pc) = Op.kind /\ f[run.pc] \in Int
         /\ run.next \in Nat /\ run.attempt \in Nat /\ DOMAIN run = RunFields
         /\ AwaitedOK /\ pending.req.kind \in kinds /\ pending.req.id = run.next - 1
         /\ pending.reply # Awaiting /\ (LooseAt(run.pc) <=> Loose(Op))
<1>1. BaseInv
  BY DEF ReplayInv
<1>2. /\ WellFormed(run) /\ DOMAIN run = RunFields /\ AwaitedOK /\ pending.req.kind \in kinds
      /\ pending.reply # Awaiting /\ status = "running" /\ ~Idle /\ program \in Programs
      /\ run.pc <= Len(program) /\ run.next \in Nat /\ pending.req.id = run.next - 1
  BY <1>1, AnsweredFacts
<1>3. Len(program) \in Nat
  BY <1>2, ProgramKinds
<1>4. run.pc \in 1..Len(program) /\ run.attempt \in Nat
  BY <1>2, <1>3, RecoveryConstants DEF WellFormed
<1>5. KindAt(run.pc) = Op.kind /\ (LooseAt(run.pc) <=> Loose(Op))
  BY <1>2, <1>4, ProgramKinds DEF Op
<1>6. f[run.pc] \in Int
  BY <1>3, <1>4 DEF Positions
<1>7. OnTrace(f, run, 1)
  BY <1>2 DEF Tracked
<1> QED BY <1>1, <1>2, <1>4, <1>5, <1>6, <1>7

\* Past an operation whose request was answered.
LEMMA AnswerAdvanceTrack ==
  ASSUME ReplayInv, NEW kinds, Answered(kinds), NEW x, DOMAIN x = RunFields,
         x.pc = run.pc, x.operations = run.operations, x.next = run.next,
         run' = Advance(x), status' = "running", UNCHANGED <<program, saved, hostVars>>, Idle',
         \/ Op.kind \in {"get", "commit", "reconcile", "clear"}
         \/ /\ Op.kind \in {"put", "delete"} /\ pending.req.kind = "write"
            /\ pending.reply # HostError /\ pending.reply.status # "rejected"
            /\ pending.reply.status = "conflict" => Op.handled
  PROVE  TrackInv'
<1>1. PICK f \in [Positions -> Int] : Tracked(f)
  BY DEF ReplayInv, TrackInv
<1>2. /\ BaseInv /\ status = "running" /\ run.pc \in 1..Len(program) /\ run.pc <= Len(program)
      /\ OnTrace(f, run, 1) /\ KindAt(run.pc) = Op.kind /\ f[run.pc] \in Int
      /\ run.next \in Nat /\ run.attempt \in Nat
      /\ AwaitedOK /\ pending.req.id = run.next - 1 /\ pending.reply # Awaiting
  BY <1>1, AnsweredTrack
<1>3. ASSUME HasRoom(run), NoLooseBefore(run.pc), ~LooseAt(run.pc)
      PROVE  Follows(f, run.pc, x.next) /\ f[run.pc] <= x.next
  <2>1. f[run.pc] >= 0 /\ run.next = f[run.pc] + run.attempt - 1 + 1
    BY <1>2, <1>3 DEF OnTrace
  <2>2. CASE Op.kind \in {"get", "commit", "reconcile"}
    <3>1. run.attempt = 1
      BY <1>2, <1>3, <2>2 DEF OnTrace
    <3>2. x.next = f[run.pc] + 1 /\ f[run.pc] <= x.next
      BY <1>2, <2>1, <3>1
    <3>3. KindAt(run.pc) \in {"get", "commit", "reconcile"}
      BY <1>2, <2>2
    <3> QED BY <1>3, <3>2, <3>3 DEF Follows
  <2>3. CASE /\ Op.kind \in {"put", "delete"} /\ pending.req.kind = "write"
             /\ pending.reply # HostError /\ pending.reply.status # "rejected"
             /\ pending.reply.status = "conflict" => Op.handled
    <3>1. pending.req.opkey = Derived(pending.req.id)
      <4>1. ~Idle
        BY DEF Answered
      <4> QED BY <2>3, <4>1 DEF ReplayInv, SameIdentity
    <3>2. Derived(run.next - 1) \in DOMAIN receipts
          /\ receipts[Derived(run.next - 1)].result = pending.reply
      BY <1>2, <2>3, <3>1 DEF AwaitedOK, ReplyOK
    <3>3. Attempted(f, run.pc, f[run.pc] + run.attempt - 1)
      BY <1>2, <1>3, <2>3 DEF OnTrace
    <3>4. f[run.pc] + run.attempt - 1 = x.next - 1 /\ f[run.pc] <= x.next
      BY <1>2, <2>1, <3>3 DEF Attempted
    <3>5. Attempted(f, run.pc, x.next - 1)
      BY <3>3, <3>4
    <3>6. ~RedoneAt(run.pc, x.next - 1)
      BY <2>3, <3>2 DEF RedoneAt, Op
    <3> QED BY <1>2, <1>3, <2>3, <3>2, <3>4, <3>5, <3>6 DEF Follows
  <2>4. Op.kind # "clear"
    BY <1>1, <1>3, AnsweredTrack DEF Loose
  <2> QED BY <1>2, <1>3, <2>2, <2>3, <2>4
<1>4. PICK g \in [Positions -> Int] : Trace(g) /\ Grows(f, g) /\ OnTrace(g, Advance(x), 0)
  BY <1>1, <1>2, <1>3, AdvanceTrack DEF HasRoom
<1> QED BY <1>1, <1>2, <1>4, QuietTrack

\* An operation that was answered is tried again: it is loose.
LEMMA AnswerAgainTrack ==
  ASSUME ReplayInv, NEW kinds, Answered(kinds), NEW x, DOMAIN x = RunFields,
         x.pc = run.pc, x.operations = run.operations, x.next = run.next,
         run' = Again(x), UNCHANGED <<program, saved, hostVars>>, Idle', Loose(Op)
  PROVE  TrackInv'
<1>1. run'.pc = run.pc /\ run'.next = run.next /\ run'.operations = run.operations
  BY AgainFields
<1>2. ASSUME NEW f, Tracked(f) PROVE OnTrace(f, run', 0)
  <2>1. f \in [Positions -> Int]
    BY <1>2 DEF Tracked, Trace
  <2>2. OnTrace(f, run, 1) /\ run.pc \in 1..Len(program) /\ run.next \in Nat
    BY <1>2, <2>1, AnsweredTrack
  <2> QED BY <1>1, <2>1, <2>2, LooseStay DEF HasRoom
<1> QED BY <1>2, QuietStayTrack

\* The answer to a read leads to the next position.
LEMMA FinishReadTrack == ASSUME ReplayInv, FinishRead PROVE TrackInv'
<1>1. PICK done : done = Complete(run, pending.req, pending.reply)
  OBVIOUS
<1>2. Answered({"get", "scan"}) /\ UNCHANGED <<program, stop, saved, hostVars>> /\ BaseInv
  BY DEF FinishRead, durableVars, ReplayInv
<1>3. AwaitedOK /\ pending.reply # Awaiting /\ WellFormed(run) /\ DOMAIN run = RunFields
      /\ stop \in BOOLEAN /\ status = "running"
  BY <1>2, AnsweredFacts
<1>4. \/ pending.reply = HostError
      \/ pending.reply.status = "value" /\ pending.reply.version \in Nat /\ Op.kind = "get"
      \/ pending.reply.status = "entries" /\ pending.reply.entries \in [Keys -> Nat] /\ Op.kind = "clear"
  BY <1>2, <1>3 DEF AwaitedOK, ReplyOK, BoundaryOf, Answered
<1>5. CASE stop \/ pending.reply = HostError
  <2>1. End("cancelled") \/ RetryOrReport(run)
    <3>1. CASE stop
      BY <3>1 DEF FinishRead
    <3>2. CASE ~stop /\ pending.reply = HostError
      BY <3>2 DEF FinishRead, HostError
    <3> QED BY <1>5, <3>1, <3>2
  <2>2. CASE End("cancelled") \/ End("failed")
    <3>1. status' # "running" /\ Idle'
      BY <2>2, IdleNext DEF End
    <3> QED BY <1>2, <3>1, QuietStayTrack
  <2>3. CASE MayRetry /\ Continue(Again(run))
    <3>1. run' = Again(run) /\ Idle'
      BY <2>3, IdleNext DEF Continue
    <3>2. Op.kind \in {"get", "clear"}
      BY <1>2, <1>3 DEF AwaitedOK, BoundaryOf, Answered
    <3>3. Loose(Op)
      BY <2>3, <3>2 DEF MayRetry, Loose
    <3> QED BY <1>2, <1>3, <3>1, <3>3, AnswerAgainTrack
  <2> QED BY <2>1, <2>2, <2>3 DEF RetryOrReport
<1>6. DOMAIN run = RunFields /\ run.versions \in [Keys -> Nat] /\ pending.req.mutation.key \in Keys
  BY <1>3 DEF WellFormed, AwaitedOK, RequestOK
<1>7. CASE ~stop /\ pending.reply.status = "value" /\ pending.reply.version \in Nat /\ Op.kind = "get"
  <2>1. PICK x : x = [done EXCEPT !.last = pending.reply.version]
    OBVIOUS
  <2>2. Continue(Advance(x))
    BY <1>1, <1>7, <2>1 DEF FinishRead, HostError
  <2>3. DOMAIN done = RunFields /\ done.pc = run.pc /\ done.operations = run.operations
        /\ done.next = run.next
    BY <1>1, <1>6 DEF Complete, RunFields
  <2>4. DOMAIN x = RunFields /\ x.pc = run.pc /\ x.operations = run.operations /\ x.next = run.next
    BY <2>1, <2>3 DEF RunFields
  <2>5. run' = Advance(x) /\ status' = "running" /\ Idle'
    BY <1>3, <2>2, IdleNext DEF Continue
  <2> QED BY <1>2, <1>7, <2>4, <2>5, AnswerAdvanceTrack
<1>8. CASE ~stop /\ pending.reply.status = "entries" /\ Op.kind = "clear"
  <2>1. Continue([done EXCEPT !.scanned = TRUE, !.todo = {k \in Keys : pending.reply.entries[k] # 0}])
    BY <1>1, <1>8 DEF FinishRead, HostError
  <2>2. DOMAIN done = RunFields /\ done.pc = run.pc /\ done.operations = run.operations
        /\ done.next = run.next /\ done.attempt = run.attempt
    BY <1>1, <1>6 DEF Complete, RunFields
  <2>3. /\ run'.pc = run.pc /\ run'.operations = run.operations /\ run'.next = run.next
        /\ run'.attempt = run.attempt /\ Idle'
    BY <2>1, <2>2, IdleNext DEF Continue, RunFields
  <2>4. ASSUME NEW f, Tracked(f) PROVE OnTrace(f, run', 0)
    <3>1. f \in [Positions -> Int]
      BY <2>4 DEF Tracked, Trace
    <3>2. OnTrace(f, run, 1) /\ LooseAt(run.pc)
      BY <1>2, <1>8, <2>4, <3>1, AnsweredTrack DEF Loose
    <3>3. KindAt(run.pc) = "clear"
      BY <1>2, <1>8, <2>4, <3>1, AnsweredTrack
    <3> QED BY <2>3, <3>2, <3>3 DEF OnTrace, HasRoom
  <2> QED BY <1>2, <2>3, <2>4, QuietStayTrack
<1> QED BY <1>3, <1>4, <1>5, <1>7, <1>8

\* The answer to a write leads to the next attempt if the store has rejected it, and
\* to the next position otherwise.
LEMMA FinishWriteTrack == ASSUME ReplayInv, FinishWrite PROVE TrackInv'
<1>1. PICK known : known = Record(run, pending.req, pending.reply)
  OBVIOUS
<1>2. PICK done : done = Complete(known, pending.req, pending.reply)
  OBVIOUS
<1>3. Answered({"write"}) /\ UNCHANGED <<program, saved, hostVars>> /\ BaseInv
  BY DEF FinishWrite, durableVars, ReplayInv
<1>4. /\ AwaitedOK /\ pending.reply # Awaiting /\ DOMAIN run = RunFields /\ status = "running"
      /\ pending.req.kind \in {"write"}
  BY <1>3, AnsweredFacts
<1>5. Op.kind \in {"put", "delete", "clear"}
  BY <1>4 DEF AwaitedOK, BoundaryOf
<1>6. DOMAIN known = RunFields /\ known.pc = run.pc /\ known.operations = run.operations
      /\ known.next = run.next /\ known.attempt = run.attempt
  BY <1>1, <1>4 DEF Record, RunFields
<1>7. DOMAIN done = RunFields /\ done.pc = run.pc /\ done.operations = run.operations
      /\ done.next = run.next /\ done.attempt = run.attempt
  BY <1>2, <1>6 DEF Complete, RunFields
<1>8. CASE End("cancelled") \/ End("failed")
  <2>1. status' # "running" /\ Idle'
    BY <1>8, IdleNext DEF End
  <2> QED BY <1>3, <2>1, QuietStayTrack
<1>9. CASE pending.reply.status \in {"committed", "unchanged"} /\ Op.kind = "clear" /\ Continue(done)
  <2>1. run' = done /\ Idle'
    BY <1>9, IdleNext DEF Continue
  <2>2. ASSUME NEW f, Tracked(f) PROVE OnTrace(f, run', 0)
    <3>1. f \in [Positions -> Int]
      BY <2>2 DEF Tracked, Trace
    <3>2. OnTrace(f, run, 1) /\ LooseAt(run.pc) /\ KindAt(run.pc) = "clear"
      BY <1>3, <1>9, <2>2, <3>1, AnsweredTrack DEF Loose
    <3> QED BY <1>7, <2>1, <3>2 DEF OnTrace, HasRoom
  <2> QED BY <1>3, <2>1, <2>2, QuietStayTrack
<1>10. CASE pending.reply.status \in {"committed", "unchanged"} /\ Op.kind # "clear" /\ Continue(Advance(done))
  <2>1. run' = Advance(done) /\ status' = "running" /\ Idle'
    BY <1>4, <1>10, IdleNext DEF Continue
  <2>2. pending.reply # HostError /\ pending.reply.status \notin {"rejected", "conflict"}
    BY <1>10 DEF HostError
  <2> QED BY <1>3, <1>4, <1>5, <1>7, <2>1, <2>2, AnswerAdvanceTrack
<1>11. CASE pending.reply.status = "conflict" /\ Op.handled /\ Continue(Advance(Dropped(known)))
  <2>1. PICK x : x = Dropped(known)
    OBVIOUS
  <2>2. DOMAIN x = RunFields /\ x.pc = run.pc /\ x.operations = run.operations /\ x.next = run.next
    BY <1>6, <2>1, DroppedFields
  <2>3. run' = Advance(x) /\ status' = "running" /\ Idle'
    BY <1>4, <1>11, <2>1, IdleNext DEF Continue
  <2>4. pending.reply # HostError /\ pending.reply.status # "rejected"
    BY <1>11 DEF HostError
  <2> QED BY <1>3, <1>4, <1>5, <1>11, <2>2, <2>3, <2>4, AnswerAdvanceTrack
<1>12. CASE MayRetry /\ Op.kind = "clear" /\ Continue(Again(known))
  <2>1. run' = Again(known) /\ Idle'
    BY <1>12, IdleNext DEF Continue
  <2>2. Loose(Op)
    BY <1>12 DEF Loose
  <2> QED BY <1>3, <1>6, <2>1, <2>2, AnswerAgainTrack
<1>13. CASE /\ Op.kind # "clear" /\ Continue(Again(known))
            /\ \/ pending.reply.status = "rejected"
               \/ pending.reply.status = "conflict" /\ ~Op.handled
  <2>1. /\ run'.pc = run.pc /\ run'.operations = run.operations /\ run'.next = run.next
        /\ run'.attempt = run.attempt + 1 /\ Idle'
    BY <1>6, <1>13, IdleNext, AgainFields DEF Continue
  <2>2. Op.kind \in {"put", "delete"} /\ pending.reply # HostError
    BY <1>5, <1>13 DEF HostError
  <2>3. ASSUME NEW f, Tracked(f) PROVE OnTrace(f, run', 0)
    <3> SUFFICES ASSUME HasRoom(run'), NoLooseBefore(run'.pc) PROVE OnTrace(f, run', 0)
      BY DEF OnTrace
    <3>0. f \in [Positions -> Int]
      BY <2>3 DEF Tracked, Trace
    <3>1. /\ OnTrace(f, run, 1) /\ KindAt(run.pc) = Op.kind /\ f[run.pc] \in Int
          /\ run.next \in Nat /\ run.attempt \in Nat /\ pending.req.id = run.next - 1
      BY <1>3, <2>3, <3>0, AnsweredTrack
    <3>2. HasRoom(run) /\ NoLooseBefore(run.pc)
      BY <2>1 DEF HasRoom
    <3>3. /\ f[run.pc] >= 0 /\ run.next = f[run.pc] + run.attempt - 1 + 1
          /\ Attempted(f, run.pc, f[run.pc] + run.attempt - 1)
      <4>1. ~LooseAt(run.pc)
        BY <1>3, <2>2, <2>3, <3>0, AnsweredTrack, WriterFacts
      <4> QED BY <2>2, <3>1, <3>2, <4>1 DEF OnTrace
    <3>4. pending.req.opkey = Derived(pending.req.id)
      <4>1. ~Idle
        BY <1>3 DEF Answered
      <4> QED BY <1>4, <4>1 DEF ReplayInv, SameIdentity
    <3>5. RedoneAt(run.pc, run.next - 1)
      <4>1. /\ pending.req.opkey \in DOMAIN receipts
            /\ pending.reply = receipts[pending.req.opkey].result
        BY <1>4, <2>2 DEF AwaitedOK, ReplyOK, HostError
      <4> QED BY <1>13, <3>1, <3>4, <4>1 DEF RedoneAt, Op
    <3>6. f[run.pc] + run.attempt - 1 = run.next - 1 /\ f[run.pc] + (run.attempt + 1) - 1 = run.next
      BY <3>1, <3>3
    <3>7. Attempted(f, run.pc, run.next - 1)
      BY <3>3, <3>6
    <3>8. \A j \in f[run.pc]..(run.next - 1) : j = run.next - 1 \/ j \in f[run.pc]..(run.next - 1 - 1)
      BY <3>1
    <3>9. Attempted(f, run.pc, run.next)
      BY <3>1, <3>5, <3>7, <3>8 DEF Attempted
    <3>10. Attempted(f, run'.pc, f[run'.pc] + run'.attempt - 1)
      BY <2>1, <3>6, <3>9
    <3>11. run'.next = f[run'.pc] + run'.attempt - 1 + 0
      BY <2>1, <3>1, <3>6
    <3>12. ~LooseAt(run'.pc)
      BY <1>3, <2>1, <2>2, <2>3, <3>0, AnsweredTrack, WriterFacts
    <3> QED BY <2>1, <2>2, <3>1, <3>3, <3>10, <3>11, <3>12 DEF OnTrace
  <2> QED BY <1>3, <2>1, <2>3, QuietStayTrack
<1>14. \/ End("cancelled") \/ End("failed")
       \/ pending.reply.status \in {"committed", "unchanged"} /\ Op.kind = "clear" /\ Continue(done)
       \/ pending.reply.status \in {"committed", "unchanged"} /\ Op.kind # "clear" /\ Continue(Advance(done))
       \/ pending.reply.status = "conflict" /\ Raise(known)
       \/ pending.reply.status = "rejected" /\ RetryOrReport(known)
  BY <1>1, <1>2 DEF FinishWrite, FinishWriteEvidence
<1>15. pending.reply.status = "conflict" /\ Raise(known) =>
         \/ End("failed")
         \/ Op.handled /\ Continue(Advance(Dropped(known)))
         \/ ~Op.handled /\ MayRetry /\ Continue(Again(known))
  BY Zenon DEF Raise, RetryOrReport, Dropped
<1>16. RetryOrReport(known) => End("failed") \/ (MayRetry /\ Continue(Again(known)))
  BY Zenon DEF RetryOrReport
<1> QED BY <1>8, <1>9, <1>10, <1>11, <1>12, <1>13, <1>14, <1>15, <1>16, Zenon

\* The answer to a prepared write leads to the next position.
LEMMA FinishIntentTrack == ASSUME ReplayInv, FinishCommit \/ FinishReconcile PROVE TrackInv'
<1>1. PICK known : known = Record(run, pending.req, pending.reply)
  OBVIOUS
<1>2. Answered({"commit", "reconcile"}) /\ UNCHANGED <<program, saved, hostVars>> /\ BaseInv
  BY DEF FinishCommit, FinishReconcile, durableVars, ReplayInv, Answered
<1>3. /\ AwaitedOK /\ DOMAIN run = RunFields /\ status = "running"
      /\ pending.req.kind \in {"commit", "reconcile"}
  BY <1>2, AnsweredFacts
<1>4. Op.kind \in {"commit", "reconcile"}
  BY <1>3 DEF AwaitedOK, BoundaryOf
<1>5. DOMAIN known = RunFields /\ known.pc = run.pc /\ known.operations = run.operations
      /\ known.next = run.next
  BY <1>1, <1>3 DEF Record, RunFields
<1>6. CASE End("cancelled") \/ End("failed")
  <2>1. status' # "running" /\ Idle'
    BY <1>6, IdleNext DEF End
  <2> QED BY <1>2, <2>1, QuietStayTrack
<1>7. ASSUME NEW x \in {run, known, Dropped(run)}, Continue(Advance(x)) PROVE TrackInv'
  <2>1. run' = Advance(x) /\ status' = "running" /\ Idle'
    BY <1>3, <1>7, IdleNext DEF Continue
  <2>2. DOMAIN x = RunFields /\ x.pc = run.pc /\ x.operations = run.operations /\ x.next = run.next
    BY <1>3, <1>5, <1>7, DroppedFields
  <2> QED BY <1>2, <1>4, <2>1, <2>2, AnswerAdvanceTrack
<1>8. \/ End("cancelled") \/ End("failed") \/ Continue(Advance(known)) \/ Continue(Advance(run))
      \/ Continue(Advance(Dropped(run)))
      \/ pending.req.kind = "reconcile" /\ MayRetry /\ Continue(Again(run))
  <2>1. CASE FinishCommit
    BY <1>1, <2>1 DEF FinishCommit
  <2>2. CASE FinishReconcile
    <3>1. pending.req.kind = "reconcile"
      BY <2>2 DEF FinishReconcile, Answered
    <3> QED BY <2>2, <3>1, Zenon DEF FinishReconcile, Raise, RetryOrReport, Dropped
  <2> QED BY <2>1, <2>2
<1>9. CASE pending.req.kind = "reconcile" /\ MayRetry /\ Continue(Again(run))
  <2>1. run' = Again(run) /\ Idle'
    BY <1>9, IdleNext DEF Continue
  <2>2. Op.kind = "reconcile"
    BY <1>3, <1>9 DEF AwaitedOK, BoundaryOf
  <2>3. Loose(Op)
    BY <1>9, <2>2 DEF MayRetry, Loose
  <2> QED BY <1>2, <1>3, <2>1, <2>3, AnswerAgainTrack
<1> QED BY <1>6, <1>7, <1>8, <1>9

-----------------------------------------------------------------------------
\* A step of the host that decides nothing new.
LEMMA HostTrack ==
  ASSUME ReplayInv, UNCHANGED <<program, run, status, saved, receipts, effects>>,
         inflight' \subseteq inflight, pending'.req = pending.req
  PROVE  TrackInv'
<1>1. PICK f \in [Positions -> Int] : Tracked(f)
  BY DEF ReplayInv, TrackInv
<1>2. ReceiptsGrow /\ program \in Programs /\ Positions' = Positions /\ Grows(f, f) /\ Idle' = Idle
  BY GrowsRefl DEF ReceiptsGrow, ReplayInv, BaseInv, RunInv, Positions, Idle
<1>3. \A r, sent : OnTrace(f, r, sent) => OnTrace(f, r, sent)'
  BY DEF OnTrace, HasRoom, NoLooseBefore, LooseAt, KindAt, Attempted, RedoneAt, Positions
<1>4. \A o, m, w : Fits(f, o, m, w) => Fits(f, o, m, w)'
  BY <1>2, FitsKept
<1>5. Matched(f)' /\ Trace(f)'
  BY <1>1, <1>2, MatchedKept, TraceKept DEF Tracked
<1>6. Tracked(f)'
  BY <1>1, <1>2, <1>3, <1>4, <1>5 DEF Tracked
<1> QED BY <1>2, <1>6 DEF TrackInv

\* The store decides an operation key it has not seen.
Decided(q, result) ==
  /\ receipts' = Extend(receipts, q.opkey, [mutation |-> q.mutation, result |-> result])
  /\ IF result.status = "committed"
     THEN /\ store' = [store EXCEPT ![q.mutation.key] = IF q.mutation.del THEN 0 ELSE clock + 1]
          /\ clock' = clock + 1
          /\ effects' = Append(effects, [write |-> q.write, removed |-> store[q.mutation.key]])
          /\ Decide(q.mutation) = "committed"
     ELSE UNCHANGED <<store, clock, effects>>

\* Serving a new write decides it.
LEMMA ServeNewDecides ==
  ASSUME NEW q, ServeNew(q)
  PROVE  /\ q.kind \in {"write", "commit"} /\ q.opkey \notin DOMAIN receipts
         /\ \E result : Decided(q, result)
<1>1. q.kind \in {"write", "commit"} /\ q.opkey \notin DOMAIN receipts
  BY DEF ServeNew, Known
<1>2. PICK heard \in BOOLEAN, decision \in {Decide(q.mutation), "rejected"} :
        LET m == q.mutation
            version == IF m.del THEN 0 ELSE clock + 1
            result == [status |-> decision, version |-> IF decision = "committed" THEN version ELSE 0]
        IN /\ receipts' = Extend(receipts, q.opkey, [mutation |-> m, result |-> result])
           /\ IF decision = "committed"
              THEN /\ store' = [store EXCEPT ![m.key] = version]
                   /\ clock' = clock + 1
                   /\ effects' = Append(effects, [write |-> q.write, removed |-> store[m.key]])
              ELSE UNCHANGED <<store, clock, effects>>
  BY DEF ServeNew
<1>3. PICK result : result = [status |-> decision,
                              version |-> IF decision = "committed"
                                          THEN IF q.mutation.del THEN 0 ELSE clock + 1 ELSE 0]
  OBVIOUS
<1>4. Decided(q, result)
  <2>1. result.status = decision
    BY <1>3
  <2>2. decision = "committed" => Decide(q.mutation) = "committed"
    BY <1>2
  <2> QED BY <1>2, <1>3, <2>1, <2>2 DEF Decided
<1> QED BY <1>1, <1>4

\* A write the store commits is not among those it has applied.
LEMMA FreshWrite ==
  ASSUME ReplayInv, NEW q \in inflight, q.kind \in {"write", "commit"}, q.opkey \notin DOMAIN receipts,
         Decide(q.mutation) = "committed"
  PROVE  \A i \in DOMAIN effects : effects[i].write # q.write
<1>1. PICK f \in [Positions -> Int] : Tracked(f)
  BY DEF ReplayInv, TrackInv
<1> SUFFICES ASSUME NEW i \in DOMAIN effects, effects[i].write = q.write PROVE FALSE
  OBVIOUS
<1>2. PICK o \in DOMAIN receipts : CommittedKey(o) /\ Fits(f, o, receipts[o].mutation, q.write)
  BY <1>1 DEF Tracked, Matched
<1>3. Fits(f, q.opkey, q.mutation, q.write)
  BY <1>1 DEF Tracked
<1>4. RequestOK(q)
  BY DEF ReplayInv, BaseInv, HostInv
<1>5. CASE q.write.prepared
  BY <1>2, <1>3, <1>5 DEF Fits
<1>6. CASE ~q.write.prepared /\ q.write.version = 0
  <2>1. /\ o = Derived(o.number) /\ q.opkey = Derived(q.opkey.number)
        /\ Attempted(f, q.write.at, o.number) /\ Attempted(f, q.write.at, q.opkey.number)
    BY <1>2, <1>3, <1>6 DEF Fits
  <2>2. o.number \in Nat /\ q.opkey.number \in Nat /\ f[q.write.at] \in Int
    BY <1>1, <2>1 DEF Attempted
  <2>3. CASE o.number < q.opkey.number
    <3>1. o.number \in f[q.write.at]..(q.opkey.number - 1)
      BY <2>1, <2>2, <2>3 DEF Attempted
    <3>2. RedoneAt(q.write.at, o.number)
      BY <2>1, <3>1 DEF Attempted
    <3> QED BY <1>2, <2>1, <3>2 DEF RedoneAt, CommittedKey
  <2>4. CASE q.opkey.number < o.number
    <3>1. q.opkey.number \in f[q.write.at]..(o.number - 1)
      BY <2>1, <2>2, <2>4 DEF Attempted
    <3>2. RedoneAt(q.write.at, q.opkey.number)
      BY <2>1, <3>1 DEF Attempted
    <3> QED BY <2>1, <3>2 DEF RedoneAt
  <2>5. CASE o.number = q.opkey.number
    BY <2>1, <2>5
  <2> QED BY <2>2, <2>3, <2>4, <2>5
<1>7. CASE q.write.version # 0
  <2>1. /\ q.mutation.cond = q.write.version /\ q.mutation.key = q.write.key
        /\ q.write.version \in Nat
    BY <1>4, <1>7 DEF RequestOK, WriteNames
  <2>2. store[q.write.key] # q.write.version
    BY <1>7 DEF ReplayInv, DeletedOnce
  <2>3. Holds(q.mutation.cond, store[q.mutation.key])
    BY DEF Decide
  <2> QED BY <1>7, <2>1, <2>2, <2>3 DEF Holds, Any, Exists
<1> QED BY <1>5, <1>6, <1>7

\* A decision keeps the trace, the receipts and the effects in agreement.
LEMMA DecidedTrack ==
  ASSUME ReplayInv, NEW q \in inflight, q.kind \in {"write", "commit"}, q.opkey \notin DOMAIN receipts,
         NEW result, Decided(q, result), inflight' \subseteq inflight, pending'.req = pending.req,
         UNCHANGED <<program, run, status, saved>>
  PROVE  TrackInv' /\ DeletedOnce'
<1>1. PICK f \in [Positions -> Int] : Tracked(f)
  BY DEF ReplayInv, TrackInv
<1>2. /\ DOMAIN receipts' = DOMAIN receipts \cup {q.opkey}
      /\ receipts'[q.opkey] = [mutation |-> q.mutation, result |-> result]
      /\ \A o \in DOMAIN receipts : receipts'[o] = receipts[o]
  BY DEF Decided, Extend
<1>3. ReceiptsGrow /\ program \in Programs /\ Positions' = Positions /\ Grows(f, f) /\ Idle' = Idle
  BY <1>2, GrowsRefl DEF ReceiptsGrow, ReplayInv, BaseInv, RunInv, Positions, Idle
<1>4. \A o, m, w : Fits(f, o, m, w) => Fits(f, o, m, w)'
  BY <1>3, FitsKept
<1>5. Trace(f)'
  BY <1>1, <1>3, TraceKept DEF Tracked
<1>6. \A c \in saved : OnTrace(f, c, 0)'
  <2> SUFFICES ASSUME NEW c \in saved PROVE OnTrace(f, c, 0)'
    OBVIOUS
  <2>1. OnTrace(f, c, 0) /\ c.pc \in Positions
    BY <1>1 DEF Tracked, ReplayInv, BaseInv, SavedInv, WellFormed, Positions
  <2> QED BY <1>3, <2>1, OnTraceKept
<1>7. (status = "running" => OnTrace(f, run, IF Idle THEN 0 ELSE 1))'
  <2>1. PICK r : r = run
    OBVIOUS
  <2>2. PICK sent : sent = IF Idle THEN 0 ELSE 1
    OBVIOUS
  <2>3. r.pc \in Positions
    BY <2>1 DEF ReplayInv, BaseInv, RunInv, WellFormed, Positions
  <2>4. status = "running" => OnTrace(f, r, sent)
    BY <1>1, <2>1, <2>2 DEF Tracked
  <2>5. status = "running" => OnTrace(f, r, sent)'
    BY <1>3, <2>3, <2>4, OnTraceKept
  <2>6. r = run' /\ sent = (IF Idle THEN 0 ELSE 1)'
    BY <1>3, <2>1, <2>2
  <2> QED BY <2>5, <2>6
<1>8. Fits(f, q.opkey, q.mutation, q.write)' /\ RequestOK(q)
  BY <1>1, <1>4 DEF Tracked, ReplayInv, BaseInv, HostInv
<1>9. /\ effects \in Seq(EffectRecords) /\ clock \in Nat /\ store \in [Keys -> 0..clock]
      /\ q.mutation.key \in Keys /\ q.write \in WriteNames
  BY <1>8 DEF ReplayInv, BaseInv, HostInv, RequestOK
<1>10. CASE result.status = "committed"
  <2> DEFINE version == IF q.mutation.del THEN 0 ELSE clock + 1
             e == [write |-> q.write, removed |-> store[q.mutation.key]]
  <2>1. /\ store' = [store EXCEPT ![q.mutation.key] = version] /\ clock' = clock + 1
        /\ effects' = Append(effects, e) /\ Decide(q.mutation) = "committed"
    BY <1>10 DEF Decided
  <2>2. e \in EffectRecords /\ e.write = q.write
    BY <1>9 DEF EffectRecords
  <2> HIDE DEF e
  <2>3. /\ DOMAIN effects' = DOMAIN effects \cup {Len(effects) + 1}
        /\ effects'[Len(effects) + 1] = e
        /\ \A i \in DOMAIN effects : effects'[i] = effects[i]
    BY <1>9, <2>1, <2>2
  <2>4. \A o \in DOMAIN receipts' :
          CommittedKey(o)' => \E i \in DOMAIN effects' :
                                Fits(f, o, receipts[o].mutation, effects[i].write)'
    <3> SUFFICES ASSUME NEW o \in DOMAIN receipts', CommittedKey(o)'
                 PROVE  \E i \in DOMAIN effects' : Fits(f, o, receipts[o].mutation, effects[i].write)'
      OBVIOUS
    <3>1. CASE o = q.opkey
      <4>1. PICK m, w, n : m = q.mutation /\ w = q.write /\ n = Len(effects) + 1
        OBVIOUS
      <4>2. Fits(f, o, m, w)'
        BY <1>8, <3>1, <4>1
      <4>3. m = receipts'[o].mutation /\ w = effects'[n].write /\ n \in DOMAIN effects'
        BY <1>2, <2>2, <2>3, <3>1, <4>1
      <4> QED BY <4>2, <4>3
    <3>2. CASE o # q.opkey
      <4>1. o \in DOMAIN receipts /\ receipts'[o] = receipts[o] /\ CommittedKey(o)
        BY <1>2, <3>2 DEF CommittedKey
      <4>2. PICK i \in DOMAIN effects : Fits(f, o, receipts[o].mutation, effects[i].write)
        BY <1>1, <4>1 DEF Tracked, Matched
      <4>3. PICK m, w : m = receipts[o].mutation /\ w = effects[i].write
        OBVIOUS
      <4>4. Fits(f, o, m, w)'
        BY <1>4, <4>2, <4>3
      <4>5. m = receipts'[o].mutation /\ w = effects'[i].write /\ i \in DOMAIN effects'
        BY <2>3, <4>1, <4>3
      <4> QED BY <4>4, <4>5
    <3> QED BY <3>1, <3>2
  <2>5. \A i \in DOMAIN effects' :
          \E o \in DOMAIN receipts' : CommittedKey(o)' /\ Fits(f, o, receipts[o].mutation, effects[i].write)'
    <3> SUFFICES ASSUME NEW i \in DOMAIN effects'
                 PROVE  \E o \in DOMAIN receipts' :
                          CommittedKey(o)' /\ Fits(f, o, receipts[o].mutation, effects[i].write)'
      OBVIOUS
    <3>1. CASE i \in DOMAIN effects
      <4>1. PICK o \in DOMAIN receipts : CommittedKey(o) /\ Fits(f, o, receipts[o].mutation, effects[i].write)
        BY <1>1, <3>1 DEF Tracked, Matched
      <4>2. PICK m, w : m = receipts[o].mutation /\ w = effects[i].write
        OBVIOUS
      <4>3. Fits(f, o, m, w)'
        BY <1>4, <4>1, <4>2
      <4>4. m = receipts'[o].mutation /\ w = effects'[i].write /\ o \in DOMAIN receipts' /\ CommittedKey(o)'
        BY <1>2, <2>3, <3>1, <4>1, <4>2 DEF CommittedKey
      <4> QED BY <4>3, <4>4
    <3>2. CASE i \notin DOMAIN effects
      <4>1. effects'[i].write = q.write /\ receipts'[q.opkey].mutation = q.mutation
            /\ q.opkey \in DOMAIN receipts' /\ receipts'[q.opkey].result.status = "committed"
        BY <1>2, <1>10, <2>2, <2>3, <3>2
      <4>2. CommittedKey(q.opkey)'
        BY <4>1 DEF CommittedKey
      <4> QED BY <1>8, <4>1, <4>2
    <3> QED BY <3>1, <3>2
  <2>6. Matched(f)'
    BY <2>4, <2>5 DEF Matched
  <2>7. DeletedOnce'
    <3> SUFFICES ASSUME NEW i \in DOMAIN effects', effects'[i].write.version # 0
                 PROVE  /\ store'[effects'[i].write.key] # effects'[i].write.version
                        /\ effects'[i].write.version <= clock'
      BY DEF DeletedOnce
    <3>0. \A w \in WriteNames : w.key \in Keys /\ w.version \in Nat
      BY DEF WriteNames
    <3>1. CASE i \in DOMAIN effects
      <4> DEFINE w == effects[i].write
      <4>0. \A x \in EffectRecords : x.write \in WriteNames
        BY DEF EffectRecords
      <4>1. effects'[i].write = w /\ w \in WriteNames
        <5>1. effects[i] \in EffectRecords
          BY <1>9, <3>1
        <5> QED BY <2>3, <3>1, <4>0, <5>1
      <4>2. w.version # 0 /\ w.version \in Nat /\ w.key \in Keys
        BY <3>0, <4>1
      <4>3. store[w.key] # w.version /\ w.version <= clock
        BY <3>1, <4>2 DEF ReplayInv, DeletedOnce
      <4> HIDE DEF w
      <4>4. store'[w.key] = version \/ store'[w.key] = store[w.key]
        BY <1>9, <2>1, <4>2
      <4> QED BY <1>9, <2>1, <4>1, <4>2, <4>3, <4>4
    <3>2. CASE i \notin DOMAIN effects
      <4>1. effects'[i].write = q.write
        BY <2>2, <2>3, <3>2
      <4>2. q.write.version # 0 /\ q.write.version \in Nat
        BY <1>9, <3>0, <4>1
      <4>3. q.mutation.cond = q.write.version /\ q.mutation.key = q.write.key /\ q.mutation.del
        BY <1>8, <4>2 DEF RequestOK
      <4>4. Holds(q.mutation.cond, store[q.mutation.key])
        BY <2>1 DEF Decide
      <4>5. store[q.write.key] = q.write.version
        BY <4>2, <4>3, <4>4 DEF Holds, Any, Exists
      <4>6. store'[q.write.key] = 0 /\ q.write.version <= clock
        BY <1>9, <2>1, <4>3, <4>5
      <4> QED BY <1>9, <2>1, <4>1, <4>2, <4>6
    <3> QED BY <3>1, <3>2
  <2>8. Tracked(f)'
    BY <1>1, <1>3, <1>4, <1>5, <1>6, <1>7, <2>6 DEF Tracked
  <2> QED BY <1>3, <2>7, <2>8 DEF TrackInv
<1>11. CASE result.status # "committed"
  <2>1. UNCHANGED <<store, clock, effects>>
    BY <1>11 DEF Decided
  <2>2. ~CommittedKey(q.opkey)'
    BY <1>2, <1>11 DEF CommittedKey
  <2>3. \A o \in DOMAIN receipts : CommittedKey(o)' = CommittedKey(o)
    BY <1>2 DEF CommittedKey
  <2>4. Matched(f)'
    <3>1. ASSUME NEW o \in DOMAIN receipts', CommittedKey(o)'
          PROVE  \E i \in DOMAIN effects' : Fits(f, o, receipts[o].mutation, effects[i].write)'
      <4>1. o \in DOMAIN receipts /\ receipts'[o] = receipts[o] /\ CommittedKey(o)
        BY <1>2, <2>2, <2>3, <3>1
      <4>2. PICK i \in DOMAIN effects : Fits(f, o, receipts[o].mutation, effects[i].write)
        BY <1>1, <4>1 DEF Tracked, Matched
      <4>3. PICK m, w : m = receipts[o].mutation /\ w = effects[i].write
        OBVIOUS
      <4>4. Fits(f, o, m, w)'
        BY <1>4, <4>2, <4>3
      <4> QED BY <2>1, <4>1, <4>3, <4>4
    <3>2. ASSUME NEW i \in DOMAIN effects'
          PROVE  \E o \in DOMAIN receipts' :
                   CommittedKey(o)' /\ Fits(f, o, receipts[o].mutation, effects[i].write)'
      <4>1. PICK o \in DOMAIN receipts : CommittedKey(o) /\ Fits(f, o, receipts[o].mutation, effects[i].write)
        BY <1>1, <2>1, <3>2 DEF Tracked, Matched
      <4>2. PICK m, w : m = receipts[o].mutation /\ w = effects[i].write
        OBVIOUS
      <4>3. Fits(f, o, m, w)'
        BY <1>4, <4>1, <4>2
      <4>4. m = receipts'[o].mutation /\ w = effects'[i].write /\ o \in DOMAIN receipts' /\ CommittedKey(o)'
        BY <1>2, <2>1, <2>3, <4>1, <4>2
      <4> QED BY <4>3, <4>4
    <3> QED BY <3>1, <3>2 DEF Matched
  <2>5. DeletedOnce'
    BY <2>1 DEF ReplayInv, DeletedOnce
  <2>6. Tracked(f)'
    BY <1>1, <1>3, <1>4, <1>5, <1>6, <1>7, <2>4 DEF Tracked
  <2> QED BY <1>3, <2>5, <2>6 DEF TrackInv
<1> QED BY <1>10, <1>11

-----------------------------------------------------------------------------
\* x is r with other fields than its identity and its evidence changed.
Alike(x, r) == DOMAIN x = RunFields /\ x.identity = r.identity /\ x.writes = r.writes

\* The steps of a run that keep its identity and its evidence.
LEMMA AlikeFields ==
  ASSUME NEW r, DOMAIN r = RunFields
  PROVE  /\ Alike(r, r) /\ Alike(Advance(r), r)
         /\ \A q, reply : Alike(Complete(r, q, reply), r)
         /\ \A q, reply : DOMAIN Record(r, q, reply) = RunFields /\ Record(r, q, reply).identity = r.identity
         /\ \A x : /\ Alike([r EXCEPT !.last = x], r)
                   /\ Alike([r EXCEPT !.intent = x], r)
                   /\ Alike([r EXCEPT !.scanned = TRUE, !.todo = x], r)
                   /\ Alike([r EXCEPT !.scanned = FALSE, !.todo = x], r)
         /\ Alike([r EXCEPT !.scanned = FALSE], r)
         /\ Alike(Again(r), r) /\ Alike(Dropped(r), r)
         /\ Alike([r EXCEPT !.next = @ + 1], r)
<1>1. Alike(r, r) /\ Alike(Advance(r), r)
  BY DEF Alike, Advance, RunFields
<1>2. ASSUME NEW q, NEW reply PROVE Alike(Complete(r, q, reply), r)
  BY DEF Complete, Alike, RunFields
<1>3. ASSUME NEW q, NEW reply
      PROVE  DOMAIN Record(r, q, reply) = RunFields /\ Record(r, q, reply).identity = r.identity
  BY DEF Record, RunFields
<1>4. ASSUME NEW x
      PROVE  /\ Alike([r EXCEPT !.last = x], r)
             /\ Alike([r EXCEPT !.intent = x], r)
             /\ Alike([r EXCEPT !.scanned = TRUE, !.todo = x], r)
             /\ Alike([r EXCEPT !.scanned = FALSE, !.todo = x], r)
  BY DEF Alike, RunFields
<1>5. /\ Alike([r EXCEPT !.scanned = FALSE], r)
      /\ Alike(Again(r), r) /\ Alike(Dropped(r), r)
      /\ Alike([r EXCEPT !.next = @ + 1], r)
  BY DEF Alike, RunFields, Again, Dropped
<1> QED BY <1>1, <1>2, <1>3, <1>4, <1>5

\* Alike is transitive.
LEMMA AlikeTrans == ASSUME NEW x, NEW y, NEW z, Alike(x, y), Alike(y, z) PROVE Alike(x, z)
  BY DEF Alike

\* A failure keeps what the run has recorded.
LEMMA FailsAlike == ASSUME NEW r, DOMAIN r = RunFields, Fails(r) PROVE Alike(run', r) /\ Idle'
<1>1. PICK d : d = Dropped(r)
  OBVIOUS
<1>2. Alike(r, r) /\ Alike(Again(r), r) /\ Alike(d, r)
  BY <1>1, AlikeFields
<1>3. Alike(Advance(d), r)
  <2>1. DOMAIN d = RunFields
    BY <1>2 DEF Alike
  <2> QED BY <1>2, <2>1, AlikeFields, AlikeTrans
<1> QED BY <1>1, <1>2, <1>3, FailsCases, IdleNext

\* A write sends its request, or takes its number only.
LEMMA SendCases ==
  ASSUME NEW r, Alike(r, run), r.next = run.next, NEW kind, NEW opkey, NEW mutation, NEW write,
         kind = "write" => opkey = DerivedKey(run), Send(r, kind, opkey, mutation, write)
  PROVE  \/ \E b : /\ Dispatch(b, kind, opkey, mutation, write)
                   /\ Alike(b, run) /\ b.next = run.next
         \/ \E x : NotDispatched(x) /\ Alike(x, run)
<1>1. ASSUME NEW phase
      PROVE  LET b == bind_storage_operation(r, opkey, mutation, phase)
             IN  Alike(b, r) /\ b.next = r.next
  BY DEF Alike, bind_storage_operation, RunFields
<1>2. PICK b, c : /\ b = bind_storage_operation(r, opkey, mutation, "begun")
                  /\ c = bind_storage_operation(r, opkey, mutation, "bound")
  OBVIOUS
<1>3. Alike(b, run) /\ b.next = run.next /\ Alike(c, run)
  BY <1>1, <1>2, AlikeTrans
<1>4. Alike([c EXCEPT !.next = @ + 1], run)
  <2>1. DOMAIN c = RunFields
    BY <1>3 DEF Alike
  <2> QED BY <1>3, <2>1, AlikeFields, AlikeTrans
<1> QED BY <1>2, <1>3, <1>4 DEF Send

\* A boundary is sent, a write under a key of its own number, or it never begins.
LEMMA BeginCases ==
  ASSUME BaseInv,
         BeginGet \/ BeginScan \/ BeginWrite \/ BeginClearDelete \/ BeginCommit \/ BeginReconcile
  PROVE  \/ \E r, kind, opkey, mutation, write :
              /\ Dispatch(r, kind, opkey, mutation, write) /\ Alike(r, run)
              /\ kind = "write" => opkey = DerivedKey(run) /\ r.next = run.next
         \/ \E x : NotDispatched(x) /\ Alike(x, run)
<1>1. DOMAIN run = RunFields
  BY DEF BaseInv, RunInv, WellFormed
<1>2. Alike(run, run)
  BY <1>1 DEF Alike
<1>3. \A t : /\ Alike([run EXCEPT !.todo = @ \ {t}], run) /\ [run EXCEPT !.todo = @ \ {t}].next = run.next
             /\ Alike([run EXCEPT !.next = @ + t - 1], run)
  BY <1>1 DEF Alike, RunFields
<1>4. CASE BeginGet \/ BeginScan
  <2>1. PICK r, kind, opkey, mutation, write :
          Dispatch(r, kind, opkey, mutation, write) /\ Alike(r, run) /\ kind # "write"
    BY <1>2, <1>3, <1>4 DEF BeginGet, BeginScan
  <2> QED BY <2>1
<1>5. CASE BeginWrite \/ BeginClearDelete
  <2>1. PICK r, mutation, write :
          Send(r, "write", DerivedKey(run), mutation, write) /\ Alike(r, run) /\ r.next = run.next
    <3>1. CASE BeginWrite
      BY <1>2, <3>1 DEF BeginWrite
    <3>2. CASE BeginClearDelete
      <4>1. PICK key, mutation, write :
              Send([run EXCEPT !.todo = @ \ {key}], "write", DerivedKey(run), mutation, write)
        BY <3>2 DEF BeginClearDelete
      <4>2. PICK r : r = [run EXCEPT !.todo = @ \ {key}]
        OBVIOUS
      <4> QED BY <1>3, <4>1, <4>2
    <3> QED BY <1>5, <3>1, <3>2
  <2> QED BY <2>1, SendCases
<1>6. CASE BeginCommit
  <2>1. PICK opkey, mutation, write : Send(run, "commit", opkey, mutation, write)
    BY <1>6, Zenon DEF BeginCommit
  <2>2. "commit" # "write"
    OBVIOUS
  <2> QED BY <1>2, <2>1, <2>2, SendCases
<1>7. CASE BeginReconcile
  <2>1. PICK opkey, mutation :
          Dispatch(bind_storage_operation(run, opkey, mutation, "begun"), "reconcile", opkey, mutation, 0)
    BY <1>7, Zenon DEF BeginReconcile
  <2>2. PICK b : b = bind_storage_operation(run, opkey, mutation, "begun")
    OBVIOUS
  <2>3. Alike(b, run)
    BY <1>1, <2>2 DEF Alike, bind_storage_operation, RunFields
  <2> QED BY <2>1, <2>2, <2>3
<1> QED BY <1>4, <1>5, <1>6, <1>7

\* A boundary that never begins leaves the store and the checkpoints alone.
LEMMA NotDispatchedFields ==
  ASSUME NEW x, Alike(x, run), NotDispatched(x)
  PROVE  Idle' /\ Alike(run', run) /\ UNCHANGED <<saved, hostVars>>
<1>1. Fails(x)
  BY Zenon DEF NotDispatched, Fails
<1>2. Alike(run', x) /\ Idle'
  BY <1>1, FailsAlike DEF Alike
<1>3. UNCHANGED <<saved, hostVars>>
  BY DEF NotDispatched, durableVars
<1> QED BY <1>2, <1>3, AlikeTrans

\* A request for a derived write carries the key of its own number.
LEMMA SendIdentity ==
  ASSUME ReplayInv, NEW r, NEW kind, NEW opkey, NEW mutation, NEW write,
         Dispatch(r, kind, opkey, mutation, write), DOMAIN r = RunFields, r.identity = 0,
         kind = "write" => opkey = Derived(r.next)
  PROVE  SameIdentity'
<1>1. run' = [r EXCEPT !.next = r.next + 1] /\ saved' = saved
  BY DEF Dispatch, durableVars
<1>2. run'.identity = 0
  BY <1>1 DEF RunFields
<1>3. pending'.req.kind = kind /\ pending'.req.opkey = opkey /\ pending'.req.id = r.next
  BY DEF Dispatch
<1>4. \A c \in saved : c.identity = 0
  BY DEF ReplayInv, SameIdentity
<1> QED BY <1>1, <1>2, <1>3, <1>4 DEF SameIdentity

\* Nothing is awaited, and the identity is that of the first incarnation.
LEMMA QuietIdentity ==
  ASSUME ReplayInv, Idle', run'.identity = 0, \A c \in saved' : c \in saved \/ c.identity = 0
  PROVE  SameIdentity'
  BY DEF ReplayInv, SameIdentity

\* Every request is sent under the identity of the first incarnation.
LEMMA BeginIdentity ==
  ASSUME ReplayInv, BeginGet \/ BeginScan \/ BeginWrite \/ BeginClearDelete \/ BeginCommit \/ BeginReconcile
  PROVE  SameIdentity'
<1>1. BaseInv /\ run.identity = 0
  BY DEF ReplayInv, SameIdentity
<1>2. DerivedKey(run) = Derived(run.next)
  BY <1>1 DEF DerivedKey, Derived
<1>3. ASSUME NEW r, NEW kind, NEW opkey, NEW mutation, NEW write,
             Dispatch(r, kind, opkey, mutation, write), Alike(r, run),
             kind = "write" => opkey = DerivedKey(run) /\ r.next = run.next
      PROVE  SameIdentity'
  <2>1. DOMAIN r = RunFields /\ r.identity = 0
    BY <1>1, <1>3 DEF Alike
  <2> QED BY <1>2, <1>3, <2>1, SendIdentity
<1>4. ASSUME NEW x, NotDispatched(x), Alike(x, run) PROVE SameIdentity'
  <2>1. Idle' /\ saved' = saved /\ run'.identity = 0
    BY <1>1, <1>4, NotDispatchedFields DEF Alike
  <2> QED BY <2>1, QuietIdentity
<1> QED BY <1>1, <1>3, <1>4, BeginCases

\* A step of the run between two requests: its evidence stays as it is, or the
\* answer it has is recorded.
Settles ==
  /\ Answered({"write", "commit"})
  /\ Alike(run', Record(run, pending.req, pending.reply))

Between == ClearDone \/ Prepare \/ RefuseWrite \/ FinishRead \/ FinishWrite \/ FinishCommit
           \/ FinishReconcile \/ Finished \/ Crash

\* A read fails, gives the program a version, or starts a clear.
LEMMA FinishReadCases ==
  ASSUME BaseInv, FinishRead, NEW r, r = Complete(run, pending.req, pending.reply)
  PROVE  \/ Fails(run)
         \/ \E v : Continue(Advance([r EXCEPT !.last = v]))
         \/ \E t : Continue([r EXCEPT !.scanned = TRUE, !.todo = t])
<1>1. Answered({"get", "scan"})
  BY DEF FinishRead
<1>2. AwaitedOK /\ pending.reply # Awaiting /\ stop \in BOOLEAN
  BY <1>1, AnsweredFacts
<1>3. \/ pending.reply = HostError
      \/ pending.reply.status = "value"
      \/ pending.reply.status = "entries"
  BY <1>1, <1>2 DEF AwaitedOK, ReplyOK, Answered
<1>4. CASE stop
  BY <1>4 DEF FinishRead, Fails
<1>5. CASE ~stop /\ pending.reply = HostError
  BY <1>5 DEF FinishRead, HostError, Fails
<1>6. CASE ~stop /\ pending.reply.status = "value"
  <2>1. Continue(Advance([r EXCEPT !.last = pending.reply.version]))
    BY <1>6 DEF FinishRead, HostError
  <2> QED BY <2>1
<1>7. CASE ~stop /\ pending.reply.status = "entries"
  <2>1. PICK t : t = {k \in Keys : pending.reply.entries[k] # 0}
    OBVIOUS
  <2>2. Continue([r EXCEPT !.scanned = TRUE, !.todo = t])
    BY <1>7, <2>1 DEF FinishRead, HostError
  <2> QED BY <2>2
<1> QED BY <1>2, <1>3, <1>4, <1>5, <1>6, <1>7

\* The steps between two requests, and what they do to a run's evidence.
LEMMA BetweenFields ==
  ASSUME BaseInv, Between
  PROVE  /\ Idle' /\ UNCHANGED <<program, saved, hostVars>>
         /\ Alike(run', run) \/ Settles
<1>1. DOMAIN run = RunFields
  BY DEF BaseInv, RunInv, WellFormed
<1>2. CASE ClearDone \/ Prepare
  <2>1. Idle' /\ UNCHANGED <<program, saved, hostVars>>
    BY <1>2, IdleNext DEF ClearDone, Prepare, Continue, durableVars
  <2>2. PICK r : Alike(r, run) /\ run' = Advance(r)
    BY <1>1, <1>2, AlikeFields DEF ClearDone, Prepare, Continue
  <2>3. Alike(Advance(r), r)
    BY <2>2, AlikeFields DEF Alike
  <2> QED BY <2>1, <2>2, <2>3, AlikeTrans
<1>3. CASE RefuseWrite
  <2>1. UNCHANGED <<program, saved, hostVars>>
    BY <1>3 DEF RefuseWrite, durableVars
  <2>2. PICK r : r = [run EXCEPT !.next = @ + 1]
    OBVIOUS
  <2>3. Fails(r)
    BY <1>3, <2>2, Zenon DEF RefuseWrite, Fails
  <2>4. Alike(r, run) /\ DOMAIN r = RunFields
    BY <1>1, <2>2, AlikeFields DEF Alike
  <2>5. Alike(run', r) /\ Idle'
    BY <2>3, <2>4, FailsAlike
  <2> QED BY <2>1, <2>4, <2>5, AlikeTrans
<1>4. CASE FinishRead
  <2>1. PICK r : r = Complete(run, pending.req, pending.reply)
    OBVIOUS
  <2>2. \/ Fails(run)
        \/ \E v : Continue(Advance([r EXCEPT !.last = v]))
        \/ \E t : Continue([r EXCEPT !.scanned = TRUE, !.todo = t])
    BY <1>4, <2>1, FinishReadCases
  <2>3. /\ UNCHANGED <<program, saved, hostVars>>
        /\ \/ Fails(run)
           \/ Idle' /\ \E v : run' = Advance([r EXCEPT !.last = v])
           \/ Idle' /\ \E t : run' = [r EXCEPT !.scanned = TRUE, !.todo = t]
    BY <1>4, <2>2, IdleNext DEF FinishRead, Continue, durableVars
  <2>4. Alike(r, run) /\ DOMAIN r = RunFields
    BY <1>1, <2>1, AlikeFields DEF Alike
  <2>5. \A v : Alike([r EXCEPT !.last = v], r) /\ Alike([r EXCEPT !.scanned = TRUE, !.todo = v], r)
    BY <2>4, AlikeFields
  <2>6. \A v : Alike(Advance([r EXCEPT !.last = v]), [r EXCEPT !.last = v])
    BY <2>5, AlikeFields DEF Alike
  <2>7. CASE Fails(run)
    BY <1>1, <2>3, <2>7, FailsAlike
  <2>8. ASSUME NEW v, run' = Advance([r EXCEPT !.last = v]) PROVE Alike(run', run)
    <3>1. Alike(run', [r EXCEPT !.last = v]) /\ Alike([r EXCEPT !.last = v], r)
      BY <2>5, <2>6, <2>8
    <3> QED BY <2>4, <3>1, AlikeTrans
  <2>9. ASSUME NEW v, run' = [r EXCEPT !.scanned = TRUE, !.todo = v] PROVE Alike(run', run)
    <3>1. Alike(run', r)
      BY <2>5, <2>9
    <3> QED BY <2>4, <3>1, AlikeTrans
  <2> QED BY <2>3, <2>7, <2>8, <2>9
<1>5. CASE FinishWrite
  <2>1. UNCHANGED <<program, saved, hostVars>> /\ Answered({"write", "commit"})
    BY <1>5 DEF FinishWrite, durableVars, Answered
  <2>2. PICK r : r = Record(run, pending.req, pending.reply)
    OBVIOUS
  <2>3. PICK d : d = Complete(r, pending.req, pending.reply)
    OBVIOUS
  <2>4. Fails(r) \/ (Idle' /\ run' = d) \/ (Idle' /\ run' = Advance(d))
    BY <1>5, <2>2, <2>3, IdleNext DEF FinishWrite, FinishWriteEvidence, Continue, Fails
  <2>5. DOMAIN r = RunFields
    BY <1>1, <2>2, AlikeFields
  <2>6. Alike(d, r)
    BY <2>3, <2>5, AlikeFields
  <2>7. Alike(Advance(d), d)
    BY <2>6, AlikeFields DEF Alike
  <2>8. Idle' /\ Alike(run', r)
    BY <2>4, <2>5, <2>6, <2>7, AlikeTrans, FailsAlike
  <2> QED BY <2>1, <2>2, <2>8 DEF Settles
<1>6. CASE FinishCommit
  <2>1. Idle' /\ UNCHANGED <<program, saved, hostVars>> /\ Answered({"write", "commit"})
    BY <1>6, IdleNext DEF FinishCommit, Continue, End, durableVars, Answered
  <2>2. PICK r : r = Record(run, pending.req, pending.reply)
    OBVIOUS
  <2>3. run' = run \/ run' = r \/ run' = Advance(r)
    BY <1>6, <2>2 DEF FinishCommit, Continue
  <2>4. DOMAIN r = RunFields
    BY <1>1, <2>2, AlikeFields
  <2>5. Alike(run, run) /\ Alike(r, r) /\ Alike(Advance(r), r)
    BY <1>1, <2>4, AlikeFields
  <2> QED BY <2>1, <2>2, <2>3, <2>5 DEF Settles
<1>7. CASE FinishReconcile
  <2>1. UNCHANGED <<program, saved, hostVars>>
    BY <1>7 DEF FinishReconcile, durableVars
  <2>2. Fails(run) \/ (Idle' /\ run' = Advance(run))
    BY <1>7, IdleNext DEF FinishReconcile, Continue, Fails
  <2> QED BY <1>1, <2>1, <2>2, AlikeFields, FailsAlike
<1>8. CASE Finished \/ Crash
  <2>1. Idle' /\ UNCHANGED <<program, saved, hostVars>> /\ run' = run
    BY <1>8, IdleNext DEF Finished, Crash, End, durableVars
  <2> QED BY <1>1, <2>1, AlikeFields
<1> QED BY <1>2, <1>3, <1>4, <1>5, <1>6, <1>7, <1>8 DEF Between

\* The steps between two requests keep the trace.
LEMMA BetweenTrack == ASSUME ReplayInv, Between PROVE TrackInv'
  BY ClearDoneTrack, PrepareTrack, RefuseWriteTrack, FinishReadTrack, FinishWriteTrack, FinishIntentTrack,
     LifecycleTrack DEF Between

\* The store and its effects stay as they are.
LEMMA SameDeleted == ASSUME ReplayInv, UNCHANGED <<store, clock, effects>> PROVE DeletedOnce'
  BY DEF ReplayInv, DeletedOnce

\* Another workflow never brings a deleted version back.
LEMMA ForeignDeleted == ASSUME ReplayInv, NEW key \in Keys, Foreign(key) PROVE DeletedOnce'
<1>1. clock' = clock + 1 /\ effects' = effects
  BY DEF Foreign
<1>2. PICK version \in {0, clock + 1} : store' = [store EXCEPT ![key] = version]
  BY DEF Foreign
<1>3. clock \in Nat /\ store \in [Keys -> 0..clock] /\ effects \in Seq(EffectRecords)
  BY DEF ReplayInv, BaseInv, HostInv
<1>4. \A x \in EffectRecords : x.write.key \in Keys /\ x.write.version \in Nat
  BY DEF EffectRecords, WriteNames
<1> SUFFICES ASSUME NEW i \in DOMAIN effects, effects[i].write.version # 0
             PROVE  /\ store'[effects[i].write.key] # effects[i].write.version
                    /\ effects[i].write.version <= clock'
  BY <1>1 DEF DeletedOnce
<1>5. PICK w : w = effects[i].write
  OBVIOUS
<1>6. effects[i] \in EffectRecords
  BY <1>3
<1>7. w.key \in Keys /\ w.version \in Nat /\ w.version # 0
  BY <1>4, <1>5, <1>6
<1>8. store[w.key] # w.version /\ w.version <= clock
  BY <1>5, <1>7 DEF ReplayInv, DeletedOnce
<1>9. store'[w.key] = version \/ store'[w.key] = store[w.key]
  BY <1>2, <1>3, <1>7
<1> QED BY <1>1, <1>2, <1>3, <1>5, <1>7, <1>8, <1>9

\* The run and what it awaits stay as they are.
LEMMA SameIdentityKept ==
  ASSUME ReplayInv, UNCHANGED <<run, saved>>, pending'.req = pending.req PROVE SameIdentity'
  BY DEF ReplayInv, SameIdentity, Idle

\* The steps of a run.
LEMMA StepReplay == ASSUME ReplayInv, Step \/ Crash PROVE SameIdentity' /\ DeletedOnce' /\ TrackInv'
<1>1. BaseInv /\ DOMAIN run = RunFields /\ run.identity = 0
  BY DEF ReplayInv, BaseInv, RunInv, WellFormed, SameIdentity
<1>2. CASE BeginGet \/ BeginScan \/ BeginWrite \/ BeginClearDelete \/ BeginCommit \/ BeginReconcile
  <2>1. SameIdentity'
    BY <1>2, BeginIdentity
  <2>2. UNCHANGED <<store, clock, effects>>
    <3>1. ASSUME NEW x, NotDispatched(x), Alike(x, run) PROVE UNCHANGED <<store, clock, effects>>
      BY <3>1, NotDispatchedFields DEF hostVars
    <3> QED BY <1>1, <1>2, <3>1, BeginCases DEF Dispatch
  <2>3. TrackInv'
    BY <1>2, BeginReadTrack, BeginWriteTrack, BeginClearDeleteTrack, BeginIntentTrack
  <2> QED BY <2>1, <2>2, <2>3, SameDeleted
<1>3. CASE Between
  <2>1. Idle' /\ UNCHANGED <<saved, hostVars>> /\ (Alike(run', run) \/ Settles)
    BY <1>1, <1>3, BetweenFields
  <2>2. run'.identity = 0
    BY <1>1, <2>1, AlikeFields DEF Settles, Alike
  <2>3. SameIdentity' /\ DeletedOnce'
    BY <2>1, <2>2, QuietIdentity, SameDeleted DEF hostVars
  <2> QED BY <1>3, <2>3, BetweenTrack
<1>4. CASE Checkpoint
  <2>1. UNCHANGED hostVars
    BY <1>4 DEF Checkpoint
  <2>2. Advance(run).identity = 0
    BY <1>1, AlikeFields DEF Alike
  <2>3. Idle' /\ run'.identity = 0 /\ \A c \in saved' : c \in saved \/ c.identity = 0
    BY <1>1, <1>4, <2>2, IdleNext DEF Checkpoint, Continue, End
  <2> QED BY <1>4, <2>1, <2>3, QuietIdentity, SameDeleted, CheckpointTrack DEF hostVars
<1> QED BY <1>2, <1>3, <1>4 DEF Step, Between

\* The steps of the host.
LEMMA ServeReplay ==
  ASSUME ReplayInv, NEW q \in inflight, Serve(q) PROVE SameIdentity' /\ DeletedOnce' /\ TrackInv'
<1>1. /\ inflight' \subseteq inflight
      /\ UNCHANGED <<program, run, status, saved>>
      /\ ServeRead(q) \/ ServeKnown(q) \/ ServeNew(q)
  BY DEF Serve, durableVars
<1>2. q.id # -1 /\ PendingInv
  BY DEF ReplayInv, BaseInv, HostInv, RequestOK
<1>3. \E result : Reply(q, result)
  BY <1>1 DEF ServeRead, ServeKnown, ServeNew
<1>4. pending'.req = pending.req
  BY <1>2, <1>3, ReplyFacts
<1>5. SameIdentity'
  BY <1>1, <1>4, SameIdentityKept
<1>6. CASE ServeRead(q) \/ ServeKnown(q)
  <2>1. UNCHANGED <<store, clock, receipts, effects>>
    BY <1>6 DEF ServeRead, ServeKnown
  <2> QED BY <1>1, <1>4, <1>5, <2>1, HostTrack, SameDeleted
<1>7. CASE ServeNew(q)
  <2>1. PICK result : Decided(q, result)
    BY <1>7, ServeNewDecides
  <2>2. q.kind \in {"write", "commit"} /\ q.opkey \notin DOMAIN receipts
    BY <1>7, ServeNewDecides
  <2> QED BY <1>1, <1>4, <1>5, <2>1, <2>2, DecidedTrack
<1> QED BY <1>1, <1>6, <1>7

\* Every step keeps the invariant of the refinement.
LEMMA NextReplay == ReplayInv /\ [Next]_vars => ReplayInv'
<1> SUFFICES ASSUME ReplayInv, [Next]_vars PROVE ReplayInv'
  OBVIOUS
<1>1. BaseInv'
  BY NextBase DEF ReplayInv
<1>2. SameIdentity' /\ DeletedOnce' /\ TrackInv'
  <2>1. CASE Step \/ Crash
    BY <2>1, StepReplay
  <2>2. CASE \E q \in inflight : Serve(q)
    BY <2>2, ServeReplay
  <2>3. CASE HostFails \/ Stop \/ UNCHANGED vars
    <3>1. /\ UNCHANGED <<program, run, status, saved, store, clock, receipts, effects>>
          /\ inflight' \subseteq inflight
      BY <2>3 DEF HostFails, Stop, vars, runVars, durableVars, hostVars
    <3>2. pending'.req = pending.req
      BY <2>3 DEF HostFails, Stop, vars, runVars, ReplayInv, BaseInv, PendingInv
    <3> QED BY <2>3, <3>1, <3>2, HostTrack, SameDeleted, SameIdentityKept
  <2>4. CASE \E key \in Keys : Foreign(key)
    <3>1. PICK key \in Keys : Foreign(key)
      BY <2>4
    <3>2. UNCHANGED <<program, run, status, saved, receipts, effects, inflight, pending>>
      BY <3>1 DEF Foreign, runVars, durableVars
    <3> QED BY <3>1, <3>2, HostTrack, ForeignDeleted, SameIdentityKept
  <2>5. CASE \E c \in saved : Resume(c)
    <3>1. PICK c \in saved : Resume(c)
      BY <2>5
    <3>2. DOMAIN c = RunFields /\ c.identity = 0
      BY DEF ReplayInv, BaseInv, SavedInv, WellFormed, SameIdentity
    <3>3. run' = [c EXCEPT !.next = RestoredCounter(c), !.identity = RestoredIdentity(c)]
          /\ Idle' /\ UNCHANGED <<saved, hostVars>>
      BY <3>1, IdleNext DEF Resume
    <3>4. run'.identity = 0
      BY <3>2, <3>3 DEF RestoredIdentity, RunFields
    <3> QED BY <3>1, <3>3, <3>4, ResumeTrack, QuietIdentity, SameDeleted DEF hostVars
  <2> QED BY <2>1, <2>2, <2>3, <2>4, <2>5 DEF Next
<1> QED BY <1>1, <1>2 DEF ReplayInv

-----------------------------------------------------------------------------
\* The variables of AtMostOnce, and its steps in their terms.
Applied == [i \in DOMAIN effects |-> effects[i].write]
Answers == Known_answer(run)
Kept == {Known_answer(c) : c \in saved}

\* The store applies a write it has not applied.
LEMMA AbsApply ==
  ASSUME NEW w, w \notin Range(Applied), w \in Range(Applied'), Applied' = Append(Applied, w),
         UNCHANGED <<Answers, Kept>>
  PROVE  Promise!AbsNext
BY DEF Promise!AbsNext, Promise!Apply, Promise!Applied, Promise!Range, Range, Applied, Answers, Kept

\* The run records an outcome.
LEMMA AbsAnswer ==
  ASSUME NEW w, NEW a, a = "committed" => w \in Range(Applied),
         w \in DOMAIN Answers => Answers[w] # "committed",
         Answers' = [x \in DOMAIN Answers \cup {w} |-> IF x = w THEN a ELSE Answers[x]],
         UNCHANGED <<Applied, Kept>>
  PROVE  Promise!AbsNext
<1>1. w \in DOMAIN Answers' /\ Answers'[w] = a
  OBVIOUS
<1>2. Promise!Answer(w, a)
  BY DEF Promise!Answer, Promise!Applied, Promise!Range, Range, Applied, Answers, Kept
<1> QED BY <1>1, <1>2 DEF Promise!AbsNext, Answers

\* A checkpoint keeps the answers.
LEMMA AbsKeep ==
  ASSUME Kept' = Kept \cup {Answers}, UNCHANGED <<Applied, Answers>>
  PROVE  Promise!AbsNext
  BY DEF Promise!AbsNext, Promise!Keep, Applied, Answers, Kept

\* A resumption goes back to answers a checkpoint has kept.
LEMMA AbsRecall ==
  ASSUME Answers' \in Kept, UNCHANGED <<Applied, Kept>>
  PROVE  Promise!AbsNext
  BY DEF Promise!AbsNext, Promise!Recall, Applied, Answers, Kept

\* A step the promise does not speak of.
LEMMA AbsStutter ==
  ASSUME UNCHANGED <<Applied, Answers, Kept>> PROVE UNCHANGED Promise!absVars
  BY DEF Promise!absVars, Applied, Answers, Kept

\* A function on an initial segment of the positive numbers is a sequence.
LEMMA SeqOf ==
  ASSUME NEW T, NEW n \in Nat, NEW s \in [1..n -> T] PROVE s \in Seq(T) /\ Len(s) = n
  BY SeqDef

\* Applying one more write appends it.
LEMMA AppliedAppend ==
  ASSUME effects \in Seq(EffectRecords), NEW e \in EffectRecords, effects' = Append(effects, e)
  PROVE  Applied' = Append(Applied, e.write) /\ e.write \in Range(Applied')
<1>1. DOMAIN effects = 1..Len(effects) /\ Len(effects) \in Nat /\ e.write \in WriteNames
  BY DEF EffectRecords
<1>2. \A x \in EffectRecords : x.write \in WriteNames
  BY DEF EffectRecords
<1>3. Applied \in [1..Len(effects) -> WriteNames]
  <2>1. \A i \in 1..Len(effects) : effects[i] \in EffectRecords
    BY <1>1
  <2> QED BY <1>1, <1>2, <2>1 DEF Applied
<1>4. Applied \in Seq(WriteNames) /\ Len(Applied) = Len(effects)
  BY <1>1, <1>3, SeqOf
<1>5. effects' \in Seq(EffectRecords) /\ DOMAIN effects' = 1..(Len(effects) + 1) /\ Len(effects) + 1 \in Nat
  BY <1>1
<1>6. Applied' \in [1..(Len(effects) + 1) -> WriteNames]
  <2>1. \A i \in 1..(Len(effects) + 1) : effects'[i] \in EffectRecords
    BY <1>5
  <2> QED BY <1>2, <1>5, <2>1 DEF Applied
<1>7. Applied' \in Seq(WriteNames) /\ Len(Applied') = Len(effects) + 1
  BY <1>5, <1>6, SeqOf
<1>8. Append(Applied, e.write) \in Seq(WriteNames) /\ Len(Append(Applied, e.write)) = Len(effects) + 1
  BY <1>1, <1>4
<1>9. ASSUME NEW i \in 1..(Len(effects) + 1) PROVE Applied'[i] = Append(Applied, e.write)[i]
  <2>1. Applied'[i] = Append(effects, e)[i].write
    BY <1>5 DEF Applied
  <2>2. i <= Len(effects) \/ i = Len(effects) + 1
    BY <1>1
  <2>3. CASE i <= Len(effects)
    BY <1>1, <1>4, <2>1, <2>3 DEF Applied
  <2>4. CASE i = Len(effects) + 1
    BY <1>1, <1>4, <2>1, <2>4
  <2> QED BY <2>2, <2>3, <2>4
<1>10. Applied' = Append(Applied, e.write)
  BY <1>4, <1>7, <1>8, <1>9
<1>11. Len(effects) + 1 \in DOMAIN Applied' /\ Applied'[Len(effects) + 1] = e.write
  BY <1>1, <1>4, <1>6, <1>10
<1> QED BY <1>10, <1>11 DEF Range

\* Equal evidence gives equal answers.
LEMMA AlikeAnswers == ASSUME NEW x, NEW r, Alike(x, r) PROVE Known_answer(x) = Known_answer(r)
  BY DEF Alike, Known_answer

\* The number recorded last is the largest.
LEMMA MaxLast ==
  ASSUME NEW S, NEW n \in Nat, S \subseteq 0..(n - 1) PROVE Max(S \cup {n}) = n
<1>1. n \in S \cup {n} /\ \A y \in S \cup {n} : n >= y
  OBVIOUS
<1>2. \A x \in S \cup {n} : (\A y \in S \cup {n} : x >= y) => x = n
  OBVIOUS
<1> QED BY <1>1, <1>2 DEF Max

\* The least-number principle, and the largest number of a bounded set.
LEMMA MinNat == ASSUME NEW T \in SUBSET Nat, T # {} PROVE \E x \in T : \A y \in T : x <= y
<1>1. IsWellFoundedOn(OpToRel(<, Nat), Nat)
  BY NatLessThanWellFounded
<1>2. PICK x \in T : \A y \in T : ~(<<y, x>> \in OpToRel(<, Nat))
  BY <1>1, WFMin
<1>3. \A y \in T : y < x => <<y, x>> \in OpToRel(<, Nat)
  BY DEF OpToRel
<1>4. \A y \in T : ~(y < x)
  BY <1>2, <1>3
<1> QED BY <1>4

\* A non-empty bounded set of numbers has a largest element.
LEMMA MaxIn ==
  ASSUME NEW n \in Nat, NEW S, S \subseteq 0..(n - 1), S # {} PROVE Max(S) \in S
<1> DEFINE T == {n - i : i \in S}
<1>1. T \in SUBSET Nat /\ T # {}
  <2>1. \A i \in S : n - i \in Nat
    OBVIOUS
  <2> QED BY <2>1
<1>2. PICK x \in T : \A y \in T : x <= y
  BY <1>1, MinNat
<1>3. PICK i \in S : x = n - i
  OBVIOUS
<1>4. \A j \in S : i >= j
  <2> SUFFICES ASSUME NEW j \in S PROVE i >= j
    OBVIOUS
  <2>1. n - i <= n - j
    BY <1>2, <1>3
  <2> QED BY <2>1
<1> QED BY <1>3, <1>4 DEF Max

\* What recording an outcome does to the answers: the write gets it, unless it is
\* known to be committed already.
LEMMA RecordAnswers ==
  ASSUME NEW r, DOMAIN r = RunFields, NEW q, NEW reply, q.id \in Nat, DOMAIN r.writes \subseteq 0..(q.id - 1),
         NEW x, x = Record(r, q, reply), NEW w, w = q.write, NEW known, known = Known_answer(r)
  PROVE  \/ w \in DOMAIN known /\ known[w] = "committed" /\ Known_answer(x) = known
         \/ /\ w \in DOMAIN known => known[w] # "committed"
            /\ Known_answer(x) = [v \in DOMAIN known \cup {w} |->
                                    IF v = w THEN Evidence(reply) ELSE known[v]]
<1> DEFINE about(v) == {i \in DOMAIN r.writes : r.writes[i].write = v}
           newer(v) == {i \in DOMAIN x.writes : x.writes[i].write = v}
           names == {r.writes[i].write : i \in DOMAIN r.writes}
           best(v) == IF \E i \in about(v) : r.writes[i].status = "committed" THEN "committed"
                      ELSE r.writes[Max(about(v))].status
           better(v) == IF \E i \in newer(v) : x.writes[i].status = "committed" THEN "committed"
                        ELSE x.writes[Max(newer(v))].status
<1>1. /\ DOMAIN x.writes = DOMAIN r.writes \cup {q.id} /\ q.id \notin DOMAIN r.writes
      /\ x.writes[q.id].write = w /\ x.writes[q.id].status = Evidence(reply)
      /\ \A i \in DOMAIN r.writes : x.writes[i] = r.writes[i]
  BY DEF Record, RunFields, Extend
<1>2. known = [v \in names |-> best(v)]
  BY DEF Known_answer
<1>3. {x.writes[i].write : i \in DOMAIN x.writes} = names \cup {w}
  BY <1>1
<1>4. Known_answer(x) = [v \in names \cup {w} |-> better(v)]
  BY <1>3 DEF Known_answer
<1>5. ASSUME NEW v \in names, v # w PROVE better(v) = best(v)
  <2>1. newer(v) = about(v)
    BY <1>1, <1>5
  <2>2. \A i \in about(v) : x.writes[i] = r.writes[i]
    BY <1>1
  <2>3. about(v) # {} /\ about(v) \subseteq 0..(q.id - 1)
    OBVIOUS
  <2>4. Max(about(v)) \in about(v)
    BY <2>3, MaxIn
  <2> HIDE DEF about, newer
  <2> QED BY <2>1, <2>2, <2>4
<1>6. newer(w) = about(w) \cup {q.id}
  BY <1>1
<1>7. about(w) \subseteq 0..(q.id - 1)
  OBVIOUS
<1>8. Max(newer(w)) = q.id
  BY <1>6, <1>7, MaxLast
<1>9. w \in names <=> about(w) # {}
  OBVIOUS
<1>10. \A i \in about(w) : x.writes[i] = r.writes[i]
  BY <1>1
<1>11. CASE \E i \in about(w) : r.writes[i].status = "committed"
  <2>1. w \in names /\ best(w) = "committed" /\ better(w) = "committed"
    <3> HIDE DEF about, newer, names
    <3> QED BY <1>6, <1>9, <1>10, <1>11
  <2>2. \A v \in names \cup {w} : better(v) = best(v)
    <3> HIDE DEF names, best, better
    <3> QED BY <1>5, <2>1
  <2>3. names \cup {w} = names
    BY <2>1
  <2> HIDE DEF names, best, better
  <2>4. Known_answer(x) = known
    BY <1>2, <1>4, <2>2, <2>3
  <2> QED BY <1>2, <2>1, <2>4
<1>12. CASE ~\E i \in about(w) : r.writes[i].status = "committed"
  <2>1. w \in names => best(w) # "committed"
    <3>1. w \in names => Max(about(w)) \in about(w)
      BY <1>7, <1>9, MaxIn
    <3> HIDE DEF about, names
    <3> QED BY <1>12, <3>1
  <2>2. better(w) = Evidence(reply)
    <3> HIDE DEF about, newer
    <3> QED BY <1>1, <1>6, <1>8, <1>10, <1>12
  <2> HIDE DEF names, best, better
  <2>3. DOMAIN known = names /\ \A v \in names : known[v] = best(v)
    BY <1>2
  <2>4. Known_answer(x) = [v \in names \cup {w} |-> IF v = w THEN Evidence(reply) ELSE known[v]]
    BY <1>4, <1>5, <2>2, <2>3
  <2> QED BY <2>1, <2>3, <2>4
<1> QED BY <1>11, <1>12

\* A committed answer is about a write the store has applied.
LEMMA AnswerTrue ==
  ASSUME ReplayInv, Answered({"write", "commit"}), Evidence(pending.reply) = "committed"
  PROVE  pending.req.write \in Range(Applied)
<1>1. PICK f \in [Positions -> Int] : Tracked(f)
  BY DEF ReplayInv, TrackInv
<1>2. AwaitedOK /\ pending.req.kind \in {"write", "commit"} /\ pending.reply # Awaiting /\ ~Idle
      /\ program \in Programs
  BY AnsweredFacts DEF ReplayInv
<1> DEFINE q == pending.req
<1>3. pending.reply.status = "committed"
  BY DEF Evidence
<1>4. /\ q.opkey \in DOMAIN receipts /\ pending.reply = receipts[q.opkey].result
      /\ receipts[q.opkey].mutation = q.mutation
  BY <1>2, <1>3 DEF AwaitedOK, ReplyOK, HostError
<1>5. CommittedKey(q.opkey) /\ q.write \in WriteNames
  BY <1>2, <1>3, <1>4 DEF CommittedKey, AwaitedOK, RequestOK
<1>6. PICK i \in DOMAIN effects : Fits(f, q.opkey, q.mutation, effects[i].write)
  BY <1>1, <1>4, <1>5 DEF Tracked, Matched
<1>7. Fits(f, q.opkey, q.mutation, q.write) /\ Trace(f)
  BY <1>1, <1>2 DEF Tracked
<1>8. effects[i].write \in WriteNames
  <2>1. effects[i] \in EffectRecords
    BY DEF ReplayInv, BaseInv, HostInv
  <2>2. \A e \in EffectRecords : e.write \in WriteNames
    BY DEF EffectRecords
  <2> QED BY <2>1, <2>2
<1>9. effects[i].write = q.write
  BY <1>2, <1>5, <1>6, <1>7, <1>8, FitsUnique
<1> QED BY <1>9 DEF Range, Applied

\* Recording the awaited answer: the write gets it, or was known to be committed.
LEMMA SettlesRefines ==
  ASSUME ReplayInv, Settles, UNCHANGED <<saved, effects>>
  PROVE  Promise!AbsNext \/ UNCHANGED Promise!absVars
<1>1. PICK q, reply, x, w, known :
        /\ q = pending.req /\ reply = pending.reply /\ x = Record(run, q, reply)
        /\ w = q.write /\ known = Answers
  OBVIOUS
<1>2. /\ Answered({"write", "commit"}) /\ Alike(run', x) /\ DOMAIN run = RunFields
      /\ AwaitedOK /\ q.kind \in {"write", "commit"} /\ q.id = run.next - 1 /\ q.id \in Nat /\ run.next \in Nat
  BY <1>1, AnsweredFacts DEF Settles, ReplayInv
<1>3. DOMAIN run.writes \subseteq 0..(q.id - 1)
  <2>1. DOMAIN run.writes \subseteq 0..(run.next - 1) /\ q.id \notin DOMAIN run.writes
    BY <1>1, <1>2 DEF AwaitedOK, ReplayInv, BaseInv, RunInv, WellFormed
  <2> QED BY <1>2, <2>1
<1>4. Answers' = Known_answer(x)
  BY <1>2, AlikeAnswers DEF Answers
<1>5. UNCHANGED <<Applied, Kept>>
  BY DEF Applied, Kept
<1>6. \/ w \in DOMAIN known /\ known[w] = "committed" /\ Known_answer(x) = known
      \/ /\ w \in DOMAIN known => known[w] # "committed"
         /\ Known_answer(x) = [v \in DOMAIN known \cup {w} |-> IF v = w THEN Evidence(reply) ELSE known[v]]
  BY <1>1, <1>2, <1>3, RecordAnswers DEF Answers
<1>7. CASE Known_answer(x) = known
  BY <1>1, <1>4, <1>5, <1>7, AbsStutter
<1>8. CASE /\ w \in DOMAIN known => known[w] # "committed"
           /\ Known_answer(x) = [v \in DOMAIN known \cup {w} |-> IF v = w THEN Evidence(reply) ELSE known[v]]
  <2>1. PICK a : a = Evidence(reply)
    OBVIOUS
  <2>2. a = "committed" => w \in Range(Applied)
    BY <1>1, <1>2, <2>1, AnswerTrue
  <2>3. Answers' = [v \in DOMAIN Answers \cup {w} |-> IF v = w THEN a ELSE Answers[v]]
    BY <1>1, <1>4, <1>8, <2>1
  <2> QED BY <1>1, <1>5, <1>8, <2>2, <2>3, AbsAnswer
<1> QED BY <1>6, <1>7, <1>8

\* Serving a request applies a new write, or nothing.
LEMMA ServeRefines ==
  ASSUME ReplayInv, NEW q \in inflight, Serve(q)
  PROVE  Promise!AbsNext \/ UNCHANGED Promise!absVars
<1>1. UNCHANGED <<run, saved>>
  BY DEF Serve, durableVars
<1>2. UNCHANGED <<Answers, Kept>>
  BY <1>1 DEF Answers, Kept
<1>3. CASE effects' = effects
  <2>1. UNCHANGED Applied
    BY <1>3 DEF Applied
  <2> QED BY <1>2, <2>1, AbsStutter
<1>4. CASE effects' # effects
  <2>1. ServeNew(q)
    BY <1>4 DEF Serve, ServeRead, ServeKnown
  <2>2. q.kind \in {"write", "commit"} /\ q.opkey \notin DOMAIN receipts
    BY <2>1, ServeNewDecides
  <2>3. PICK result : Decided(q, result)
    BY <2>1, ServeNewDecides
  <2>4. PICK e : e = [write |-> q.write, removed |-> store[q.mutation.key]]
    OBVIOUS
  <2>5. effects' = Append(effects, e) /\ Decide(q.mutation) = "committed"
    BY <1>4, <2>3, <2>4 DEF Decided
  <2>6. effects \in Seq(EffectRecords) /\ e \in EffectRecords /\ e.write = q.write
    <3>1. /\ effects \in Seq(EffectRecords) /\ store \in [Keys -> 0..clock] /\ clock \in Nat
          /\ RequestOK(q)
      BY DEF ReplayInv, BaseInv, HostInv
    <3>2. q.write \in WriteNames /\ store[q.mutation.key] \in Nat
      BY <2>2, <3>1 DEF RequestOK
    <3> QED BY <2>4, <3>1, <3>2 DEF EffectRecords
  <2>7. Applied' = Append(Applied, e.write) /\ e.write \in Range(Applied')
    BY <2>5, <2>6, AppliedAppend
  <2>8. e.write \notin Range(Applied)
    BY <2>2, <2>5, <2>6, FreshWrite DEF Range, Applied
  <2> QED BY <1>2, <2>7, <2>8, AbsApply
<1> QED BY <1>3, <1>4

\* Every step is a step of AtMostOnce or leaves its variables alone.
LEMMA StepRefines ==
  ASSUME ReplayInv, [Next]_vars PROVE Promise!AbsNext \/ UNCHANGED Promise!absVars
<1>0. DOMAIN run = RunFields
  BY DEF ReplayInv, BaseInv, RunInv, WellFormed
<1>1. CASE BeginGet \/ BeginScan \/ BeginWrite \/ BeginClearDelete \/ BeginCommit \/ BeginReconcile
  <2>1. Alike(run', run) /\ UNCHANGED <<saved, effects>>
    <3>1. ASSUME NEW r, NEW kind, NEW opkey, NEW mutation, NEW write,
                 Dispatch(r, kind, opkey, mutation, write), Alike(r, run)
          PROVE  Alike(run', run) /\ UNCHANGED <<saved, effects>>
      <4>1. run' = [r EXCEPT !.next = r.next + 1] /\ UNCHANGED <<saved, effects>>
        BY <3>1 DEF Dispatch, durableVars
      <4>2. Alike(run', r)
        BY <3>1, <4>1 DEF Alike, RunFields
      <4> QED BY <3>1, <4>1, <4>2, AlikeTrans
    <3>2. ASSUME NEW x, NotDispatched(x), Alike(x, run)
          PROVE  Alike(run', run) /\ UNCHANGED <<saved, effects>>
      BY <3>2, NotDispatchedFields DEF hostVars
    <3> QED BY <1>1, <3>1, <3>2, BeginCases DEF ReplayInv
  <2>2. UNCHANGED <<Applied, Answers, Kept>>
    BY <2>1, AlikeAnswers DEF Applied, Answers, Kept
  <2> QED BY <2>2, AbsStutter
<1>2. CASE Between
  <2>1. UNCHANGED <<saved, effects>> /\ (Alike(run', run) \/ Settles)
    BY <1>2, BetweenFields DEF ReplayInv, hostVars
  <2>2. CASE Alike(run', run)
    <3>1. UNCHANGED <<Applied, Answers, Kept>>
      BY <2>1, <2>2, AlikeAnswers DEF Applied, Answers, Kept
    <3> QED BY <3>1, AbsStutter
  <2> QED BY <2>1, <2>2, SettlesRefines
<1>3. CASE Checkpoint
  <2>1. effects' = effects
    BY <1>3 DEF Checkpoint, hostVars
  <2>2. Known_answer(Advance(run)) = Known_answer(run)
    BY <1>0, AlikeFields, AlikeAnswers
  <2>3. CASE saved' = saved \cup {Advance(run)} /\ run' = Advance(run)
    <3>1. Kept' = Kept \cup {Answers} /\ UNCHANGED <<Applied, Answers>>
      BY <2>1, <2>2, <2>3 DEF Applied, Answers, Kept
    <3> QED BY <3>1, AbsKeep
  <2>4. CASE UNCHANGED <<saved, run>>
    <3>1. UNCHANGED <<Applied, Answers, Kept>>
      BY <2>1, <2>4 DEF Applied, Answers, Kept
    <3> QED BY <3>1, AbsStutter
  <2> QED BY <1>3, <2>3, <2>4 DEF Checkpoint, Continue
<1>4. CASE \E q \in inflight : Serve(q)
  BY <1>4, ServeRefines
<1>5. CASE HostFails \/ Stop \/ UNCHANGED vars \/ \E key \in Keys : Foreign(key)
  <2>1. UNCHANGED <<run, saved, effects>>
    BY <1>5 DEF HostFails, Stop, Foreign, vars, runVars, durableVars, hostVars
  <2>2. UNCHANGED <<Applied, Answers, Kept>>
    BY <2>1 DEF Applied, Answers, Kept
  <2> QED BY <2>2, AbsStutter
<1>6. CASE \E c \in saved : Resume(c)
  <2>1. PICK c \in saved : Resume(c)
    BY <1>6
  <2>2. run' = [c EXCEPT !.next = RestoredCounter(c), !.identity = RestoredIdentity(c)]
        /\ UNCHANGED <<saved, effects>>
    BY <2>1 DEF Resume, hostVars
  <2>3. DOMAIN c = RunFields /\ RestoredIdentity(c) = c.identity
    BY DEF ReplayInv, BaseInv, SavedInv, WellFormed, RestoredIdentity
  <2>4. Alike(run', c)
    BY <2>2, <2>3 DEF Alike, RunFields
  <2>5. Answers' \in Kept /\ UNCHANGED <<Applied, Kept>>
    BY <2>2, <2>4, AlikeAnswers DEF Applied, Answers, Kept
  <2> QED BY <2>5, AbsRecall
<1> QED BY <1>1, <1>2, <1>3, <1>4, <1>5, <1>6 DEF Next, Step, Between

\* Across crashes, late requests, attempts at a write the store has turned down and
\* resumptions every write of the program reaches the store at most once, and what
\* the run has recorded as committed has reached it: the storage boundary implements
\* AtMostOnce, if a resumption compiles nothing and nothing whose number of requests
\* can vary (a clear, a retried read or reconciliation, and with a registry that
\* refuses boundaries any retried one) precedes a write.
THEOREM Refinement == Sources = 0 /\ Replayable /\ Spec => ImplementsAtMostOnce
<1>1. Sources = 0 /\ Replayable /\ Init => ReplayInv /\ Promise!AbsInit
  <2>1. Init => Promise!AbsInit
    BY DEF Init, NewRun, Promise!AbsInit, Promise!Nothing, Known_answer
  <2> QED BY <2>1, ReplayInit
<1>2. ReplayInv /\ [Next]_vars => [Promise!AbsNext]_(Promise!absVars)
  BY StepRefines
<1> QED BY <1>1, <1>2, NextReplay, PTL DEF Spec, ImplementsAtMostOnce, Promise!AbsSpec


\* Only the store applies writes.
LEMMA QuietEffects == ASSUME BaseInv, Step \/ Crash PROVE effects' = effects
<1>1. CASE BeginGet \/ BeginScan \/ BeginWrite \/ BeginClearDelete \/ BeginCommit \/ BeginReconcile
  <2>1. ASSUME NEW x, NotDispatched(x), Alike(x, run) PROVE effects' = effects
    BY <2>1, NotDispatchedFields DEF hostVars
  <2> QED BY <1>1, <2>1, BeginCases DEF Dispatch
<1>2. CASE Between
  BY <1>2, BetweenFields DEF hostVars
<1>3. CASE Checkpoint
  BY <1>3 DEF Checkpoint, hostVars
<1> QED BY <1>1, <1>2, <1>3 DEF Step, Between

\* No write of the program is applied twice, under the same hypotheses.
THEOREM NoDuplicates == Sources = 0 /\ Replayable /\ Spec => []NoDuplicateWrites
<1>1. Init => NoDuplicateWrites
  BY DEF Init, NoDuplicateWrites
<1>2. ReplayInv /\ NoDuplicateWrites /\ [Next]_vars => NoDuplicateWrites'
  <2> SUFFICES ASSUME ReplayInv, NoDuplicateWrites, [Next]_vars PROVE NoDuplicateWrites'
    OBVIOUS
  <2>1. CASE effects' = effects
    BY <2>1 DEF NoDuplicateWrites
  <2>2. CASE effects' # effects
    <3>1. PICK q \in inflight : ServeNew(q)
      <4>1. CASE Step \/ Crash
        BY <2>2, <4>1, QuietEffects DEF ReplayInv
      <4>2. CASE HostFails \/ Stop \/ UNCHANGED vars \/ (\E key \in Keys : Foreign(key)) \/ (\E c \in saved : Resume(c))
        BY <2>2, <4>2 DEF HostFails, Stop, Foreign, Resume, vars, runVars, durableVars, hostVars
      <4>3. CASE \E q \in inflight : Serve(q)
        BY <2>2, <4>3 DEF Serve, ServeRead, ServeKnown
      <4> QED BY <4>1, <4>2, <4>3 DEF Next
    <3>2. PICK result : Decided(q, result)
      BY <3>1, ServeNewDecides
    <3>3. q.kind \in {"write", "commit"} /\ q.opkey \notin DOMAIN receipts
      BY <3>1, ServeNewDecides
    <3>4. PICK e : e = [write |-> q.write, removed |-> store[q.mutation.key]]
      OBVIOUS
    <3>5. effects' = Append(effects, e) /\ Decide(q.mutation) = "committed" /\ e.write = q.write
      BY <2>2, <3>2, <3>4 DEF Decided
    <3>6. \A i \in DOMAIN effects : effects[i].write # q.write
      BY <3>3, <3>5, FreshWrite
    <3>7. effects \in Seq(EffectRecords)
      BY DEF ReplayInv, BaseInv, HostInv
    <3>8. /\ DOMAIN effects' = DOMAIN effects \cup {Len(effects) + 1}
          /\ effects'[Len(effects) + 1].write = q.write
          /\ \A i \in DOMAIN effects : effects'[i] = effects[i]
      <4>1. e \in EffectRecords
        <5>1. /\ store \in [Keys -> 0..clock] /\ clock \in Nat /\ RequestOK(q)
          BY DEF ReplayInv, BaseInv, HostInv
        <5>2. q.write \in WriteNames /\ store[q.mutation.key] \in Nat
          BY <3>3, <5>1 DEF RequestOK
        <5> QED BY <3>4, <5>2 DEF EffectRecords
      <4> QED BY <3>5, <3>7, <4>1
    <3> QED BY <3>6, <3>8 DEF NoDuplicateWrites
  <2> QED BY <2>1, <2>2
<1> QED BY <1>1, <1>2, ReplayInit, NextReplay, PTL DEF Spec
=============================================================================
