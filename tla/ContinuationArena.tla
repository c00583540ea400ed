-------------------------- MODULE ContinuationArena --------------------------
(***************************************************************************)
(* The arena of one-shot continuations (driver/scheduler/continuation.rs). *)
(* An arm of a handler that binds its continuation gets a token; the frames*)
(* the token stands for stay in the arena until the arm resumes them, hands*)
(* them to a scheduler (requeue, park) or gives them up.  The arena is a   *)
(* value: the next id and one entry per token ever allocated.              *)
(***************************************************************************)
EXTENDS Naturals

Transfers == {"Resume", "Requeue", "Park"}
ContinuationStates == {"ArmOwned", "ReadyOwned", "WaitingOn", "Resumed", "Disposed"}

NoFrames == <<[k |-> "Taken"]>>    \* Option::None of an entry's continuation

NewArena == [next |-> 0, entries |-> [i \in {} |-> 0]]

\* The entry of a fresh token, in front of which no other token has this id.
Allocate(arena, owner, origin, frames) ==
  [next |-> arena.next + 1,
   entries |-> [i \in 0..arena.next |->
                  IF i = arena.next
                  THEN [owner |-> owner, origin |-> origin, frames |-> frames,
                        state |-> "ArmOwned"]
                  ELSE arena.entries[i]]]

\* Who may use a token, and when: its owner scope, the task that captured it,
\* and only while the arm still owns it.
Refusal(arena, token, owner, origin) ==
  IF token \notin DOMAIN arena.entries THEN "UnknownContinuation"
  ELSE IF arena.entries[token].owner # owner THEN "WrongOwner"
  ELSE IF arena.entries[token].origin # origin THEN "WrongTask"
  ELSE IF arena.entries[token].state # "ArmOwned" THEN "ContinuationConsumed"
  ELSE "Accepted"

TransferredState(transfer) ==
  CASE transfer = "Resume"  -> "Resumed"
    [] transfer = "Requeue" -> "ReadyOwned"
    [] transfer = "Park"    -> "WaitingOn"

\* Mutant: the entry stays owned by the arm.
Consume_StaysOwned(arena, token, transfer) == arena

\* consume, of a token that is not refused: the frames leave the arena.
Consume(arena, token, transfer) ==
  [arena EXCEPT !.entries[token].state = TransferredState(transfer),
                !.entries[token].frames = NoFrames]

\* dispose, of a token that is not refused.
Dispose(arena, token) ==
  [arena EXCEPT !.entries[token].state = "Disposed", !.entries[token].frames = NoFrames]

\* dispose_origin: a task that ends gives up what its arms still own.
DisposeOrigin(arena, origin) ==
  [arena EXCEPT !.entries =
     [i \in DOMAIN arena.entries |->
        IF arena.entries[i].origin = origin /\ arena.entries[i].state = "ArmOwned"
        THEN [arena.entries[i] EXCEPT !.state = "Disposed", !.frames = NoFrames]
        ELSE arena.entries[i]]]

\* ContinuationArenaSnapshot::validate, which restore calls first.
ValidArena(arena) ==
  \A i \in DOMAIN arena.entries :
    /\ i < arena.next
    /\ (arena.entries[i].state = "ArmOwned") <=> (arena.entries[i].frames # NoFrames)

=============================================================================
