----------------------------- MODULE EvalMachine -----------------------------
(***************************************************************************)
(* The evaluator's stack machine (eval/machine): one control signal, the   *)
(* frames it unwinds, the dynamic handler scopes and retry attempts of the *)
(* task, the arena its deferred continuations live in, and the checkpoint  *)
(* a crashed run restarts from.                                            *)
(*                                                                         *)
(* A continuation is the sequence of its leaves, innermost first: Chain is *)
(* concatenation and BlockValue is <<>>.  The stack is such a sequence too *)
(* (its head is the top), so pushing a continuation is concatenation, and  *)
(* applying one to an input is pushing it and delivering the input.  Block *)
(* and Expr frames, which hold BlockValue, pass every signal on and are    *)
(* left out.                                                               *)
(*                                                                         *)
(* The program is the environment: wherever the code evaluates checked     *)
(* source, any form that is legal in the lexical context may follow, until *)
(* the fuel is spent.  It is one program revision: calls into another one  *)
(* (ProgramReturn frames, enter_program, suspend_program_action) are left  *)
(* out, and with them the fault that ends a search for an attempt there.   *)
(***************************************************************************)
EXTENDS Integers, Sequences, FiniteSets, SequencesExt, FiniteSetsExt, ContinuationArena

CONSTANTS
  MaxForms,      \* bound: source forms a program evaluates before a crash
  MaxCrashes,    \* bound: crashes of the process
  MaxCallDepth,  \* max_call_depth
  Attempts,      \* the limit Attempts(n) of a retry
  Iterations,    \* the limit Iterations(n) of a loop
  Forms,         \* forms the programs use
  Actions,       \* actions that are not Error.raise
  Binders,       \* whether an arm binds its continuation
  Crossings      \* non-local exits the programs contain (see Crosses)

ASSUME MachineConstants ==
  /\ {MaxForms, MaxCrashes, MaxCallDepth} \subseteq Nat
  /\ {Attempts, Iterations} \subseteq Nat \ {0}
  /\ Binders \subseteq BOOLEAN
  /\ Crossings \subseteq {"loop", "retry", "transfer", "await"}

Error == "raise"             \* the one typed error
NoToken == -1                \* the arm binds no continuation

VARIABLES
  signal,              \* the control signal of the next iteration
  stack,               \* frames, top first
  handler_stack,       \* task.handler_stack: [id, on], innermost first
  retry_stack,         \* task.retry_stack: attempt ids, innermost first
  arena,
  next_handler_scope, next_retry,
  saved,               \* the last recorded checkpoint, or NoCheckpoint
  ran,                 \* history: block continuations that have run
  crossed,             \* history: such an exit was made
  fuel, crashes

vars == <<signal, stack, handler_stack, retry_stack, arena, next_handler_scope, next_retry, saved,
          ran, crossed, fuel, crashes>>

NoCheckpoint == [fuel |-> -1]

----------------------------------------------------------------------------
(* Frames: the leaves of a continuation that behave differently.           *)

Next_(id, lex)             == [k |-> "Next", id |-> id, lex |-> lex]
CallBoundary               == [k |-> "Call"]
RetryAttempt(id, next, lex) == [k |-> "Retry", id |-> id, next |-> next, lex |-> lex]
Loop(left, afterBody, lex) == [k |-> "Loop", left |-> left, afterBody |-> afterBody, lex |-> lex]
TryExpr                    == [k |-> "Try"]

\* The three frames that hold a continuation hold it as a link: the frames, with
\* what a walk over them and everything below them finds (see Link).
HandleBoundary(scope, inner, on, binder, lex) ==
  [k |-> "Handle", scope |-> scope, inner |-> inner, on |-> on, binder |-> binder, lex |-> lex]
\* A suspended boundary.
ReenterHandler(scope, inner, on, binder, lex) ==
  [k |-> "Reenter", scope |-> scope, inner |-> inner, on |-> on, binder |-> binder, lex |-> lex]
HandlerDispatch(outer, deferred) == [k |-> "Dispatch", outer |-> outer, deferred |-> deferred]

Code(lex)          == [k |-> "Code", lex |-> lex]
Sig(k)             == [k |-> k]
Perform(on, cont)  == [k |-> "Perform", on |-> on, cont |-> cont]
Fault(why)         == [k |-> "Fault", why |-> why]

Calls(frames) == Cardinality({i \in DOMAIN frames : frames[i].k = "Call"})

\* What a frame names itself: the rest of a block, a handler scope, a retry
\* attempt, a deferred continuation.
Own(f) ==
  IF f.k = "Next" THEN {<<"block", f.id>>}
  ELSE IF f.k = "Retry" THEN {<<"retry", f.id>>}
  ELSE IF f.k \in {"Handle", "Reenter"} THEN {<<"scope", f.scope>>}
  ELSE IF f.k = "Dispatch" /\ f.deferred # NoToken THEN {<<"token", f.deferred>>}
  ELSE {}

NoLink == [frames |-> <<>>, holds |-> {}, twice |-> {}, scopes |-> <<>>, retries |-> <<>>]
Nested(f) ==
  IF f.k \in {"Handle", "Reenter"} THEN f.inner ELSE IF f.k = "Dispatch" THEN f.outer ELSE NoLink

\* Everything named in a continuation, at any depth, and what is named more than
\* once: handler_scope_ids and handler_scope_occurrences read their answers off.
FrameHolds(f) == Own(f) \cup Nested(f).holds
FrameTwice(f) == Nested(f).twice \cup (Own(f) \cap Nested(f).holds)
Holds(frames) == UNION {FrameHolds(frames[i]) : i \in DOMAIN frames}
Twice(frames) ==
  {x \in Holds(frames) :
     \/ \E i \in DOMAIN frames : x \in FrameTwice(frames[i])
     \/ \E i, j \in DOMAIN frames : /\ i # j
                                    /\ x \in FrameHolds(frames[i]) /\ x \in FrameHolds(frames[j])}

\* continuation_unwind_order: the boundaries that closing the stack visits, a
\* suspended boundary left out; and the attempts.
FrameScopes(f) ==
  IF f.k = "Handle" THEN Append(f.inner.scopes, f.scope)
  ELSE IF f.k = "Dispatch" THEN f.outer.scopes ELSE <<>>
ScopeOrder(frames) == FlattenSeq([i \in DOMAIN frames |-> FrameScopes(frames[i])])
FrameRetries(f) == IF f.k = "Retry" THEN <<f.id>> ELSE Nested(f).retries
RetryOrder(frames) == FlattenSeq([i \in DOMAIN frames |-> FrameRetries(frames[i])])

Link(frames) ==
  [frames |-> frames, holds |-> Holds(frames), twice |-> Twice(frames),
   scopes |-> ScopeOrder(frames), retries |-> RetryOrder(frames)]

\* Every handler scope id in a continuation: MachineSnapshot::handler_scope_ids.
ScopeIds(frames) == {x[2] : x \in {y \in Holds(frames) : y[1] = "scope"}}

\* handler_scope_occurrences, whose callers tell apart none, one and several.
Occurrences(frames, scope) ==
  IF <<"scope", scope>> \in Twice(frames) THEN 2
  ELSE IF <<"scope", scope>> \in Holds(frames) THEN 1 ELSE 0

\* A boundary with other frames above its own part.
Owning(b, frames)    == HandleBoundary(b.scope, Link(frames), b.on, b.binder, b.lex)
Suspended(b, frames) == ReenterHandler(b.scope, Link(frames), b.on, b.binder, b.lex)

SignalFrames == IF signal.k \in {"Perform", "Parked"} THEN signal.cont ELSE <<>>
----------------------------------------------------------------------------
(* What the source at this point may be.                                   *)

\* An arm of Error.raise, whose result is never, neither resumes nor binds.
Arms == {"arm", "errorarm"}

Enclosing(lex, kinds) == \E i \in DOMAIN lex : lex[i].c \in kinds

\* What a non-local exit to the nearest construct of the kinds `to` leaves.
Left(lex, to) == {lex[i].c : i \in {j \in DOMAIN lex :
                    \A m \in 1..j : lex[m].c \notin to}}

\* The exits that leave a handler scope or a retry attempt in a way the machine
\* does not clean up: the instance says which it has, and they are recorded.
Crosses(exit, leaves) ==
  /\ leaves => exit \in Crossings
  /\ crossed' = (crossed \/ leaves)

Enter(c, lex)      == <<[c |-> c, tok |-> NoToken]>> \o lex
EnterArm(tok, on, lex) == <<[c |-> IF on = Error THEN "errorarm" ELSE "arm", tok |-> tok]>> \o lex

\* The token the nearest enclosing arm binds.
ArmToken(lex) ==
  LET arms == {i \in DOMAIN lex : lex[i].c \in Arms}
  IN IF arms = {} THEN NoToken ELSE lex[Min(arms)].tok

Evaluates(form) ==
  /\ signal.k = "Code" /\ form \in Forms /\ fuel > 0
  /\ fuel' = fuel - 1

\* A request is answered outside a retry attempt that it is made in.
LeavesRetry(on) ==
  /\ on = Error \/ \E i \in DOMAIN handler_stack : handler_stack[i].on = on
  /\ \E i \in DOMAIN stack : /\ stack[i].k = "Retry"
                            /\ \A j \in 1..(i - 1) :
                                 /\ stack[j].k = "Handle" => stack[j].on # on
                                 /\ on = Error => stack[j].k # "Try"

\* The last statement of an arm of Error.raise: it produces no value.
ErrorArmEnds ==
  /\ signal.lex # <<>> /\ signal.lex[1].c = "errorarm"
  /\ \/ stack = <<>>
     \/ stack[1].k = "Dispatch" \/ (stack[1].k = "Handle" /\ stack[1].inner.frames # <<>>)

\* A form that has a value.
Yields(form) == Evaluates(form) /\ ~ ErrorArmEnds

history == <<saved, crashes>>
quiet == <<history, crossed>>
----------------------------------------------------------------------------
(* Evaluation of one form.                                                 *)

EvalValue ==
  /\ signal.k = "Code" /\ ~ ErrorArmEnds
  /\ signal' = Sig("Value")
  /\ UNCHANGED <<stack, handler_stack, retry_stack, arena, next_handler_scope, next_retry, ran,
                 fuel, quiet>>

\* execute_block_frame: a statement with the rest of its block behind it.
ExecuteBlock ==
  /\ Evaluates("block")
  /\ stack' = <<Next_(fuel, signal.lex)>> \o stack
  /\ signal' = signal
  /\ UNCHANGED <<handler_stack, retry_stack, arena, next_handler_scope, next_retry, ran, quiet>>

\* eval_handle_with_records.
EvalHandle(on, binder) ==
  /\ Yields("handle")
  /\ on = Error => ~ binder
  /\ handler_stack' = <<[id |-> next_handler_scope, on |-> on]>> \o handler_stack
  /\ next_handler_scope' = next_handler_scope + 1
  /\ stack' = <<HandleBoundary(next_handler_scope, Link(<<>>), on, binder, signal.lex)>> \o stack
  /\ signal' = Code(Enter("handle", signal.lex))
  /\ UNCHANGED <<retry_stack, arena, next_retry, ran, quiet>>

EvalPerform(on) ==
  /\ Evaluates("perform") /\ (ErrorArmEnds => on = Error)
  /\ Crosses("retry", LeavesRetry(on))
  /\ signal' = Perform(on, <<>>)
  /\ UNCHANGED <<stack, handler_stack, retry_stack, arena, next_handler_scope, next_retry, ran,
                 history>>

EvalTry ==
  /\ Yields("try")
  /\ stack' = <<TryExpr>> \o stack
  /\ signal' = signal
  /\ UNCHANGED <<handler_stack, retry_stack, arena, next_handler_scope, next_retry, ran, quiet>>

\* The Call arm of run_until_yield, with check_call_budget.  The counter it reads
\* is that of the calls of one program; the entries into another revision and
\* what a suspended one keeps charged (CallDepthLease) are not modelled.
EvalCall ==
  /\ Yields("call")
  /\ IF Calls(stack) >= MaxCallDepth
     THEN signal' = Fault("call depth") /\ UNCHANGED stack
     ELSE stack' = <<CallBoundary>> \o stack /\ signal' = Code(<<>>)
  /\ UNCHANGED <<handler_stack, retry_stack, arena, next_handler_scope, next_retry, ran, quiet>>

\* return, and resume and finish in an arm.
EvalReturn ==
  /\ signal.k = "Code" /\ "return" \in Forms /\ UNCHANGED fuel
  /\ signal' = Sig("Return")
  /\ UNCHANGED <<stack, handler_stack, retry_stack, arena, next_handler_scope, next_retry, ran,
                 quiet>>

EvalArmExit(exit) ==
  /\ signal.k = "Code" /\ exit \in Forms /\ UNCHANGED fuel
  /\ Enclosing(signal.lex, Arms)
  /\ exit = "resume" => ~ ("errorarm" \in Left(signal.lex, {"arm"}))
  /\ Crosses("retry", "retry" \in Left(signal.lex, Arms))
  /\ signal' = Sig(IF exit = "resume" THEN "Resume" ELSE "Finish")
  /\ UNCHANGED <<stack, handler_stack, retry_stack, arena, next_handler_scope, next_retry, ran,
                 history>>

\* execute_while_loop: the condition is evaluated under the loop's continuation.
EvalLoop ==
  /\ Yields("loop")
  /\ stack' = <<Loop(Iterations, FALSE, signal.lex)>> \o stack
  /\ signal' = Sig("Value")
  /\ UNCHANGED <<handler_stack, retry_stack, arena, next_handler_scope, next_retry, ran, quiet>>

EvalLoopControl(k) ==
  /\ Evaluates("loop")
  /\ Enclosing(signal.lex, {"loop"})
  /\ Crosses("loop", Left(signal.lex, {"loop"}) \cap ({"handle", "retry"} \cup Arms) # {})
  /\ signal' = Sig(k)
  /\ UNCHANGED <<stack, handler_stack, retry_stack, arena, next_handler_scope, next_retry, ran,
                 history>>

\* execute_retry_attempt, number `attempt` of the retry, over the frames `below`.
StartAttempt(attempt, lex, below, outer) ==
  /\ retry_stack' = <<next_retry>> \o outer
  /\ next_retry' = next_retry + 1
  /\ stack' = <<RetryAttempt(next_retry, attempt + 1, lex)>> \o below
  /\ signal' = Code(Enter("retry", lex))

EvalRetry ==
  /\ Evaluates("retry")
  /\ StartAttempt(0, signal.lex, stack, retry_stack)
  /\ UNCHANGED <<handler_stack, arena, next_handler_scope, ran, quiet>>

\* Memory, Session, Console, Command, Model and Host signals yield.
EvalHost ==
  /\ Yields("host")
  /\ signal' = Sig("Host")
  /\ UNCHANGED <<stack, handler_stack, retry_stack, arena, next_handler_scope, next_retry, ran,
                 quiet>>

EvalCheckpoint ==
  /\ Yields("checkpoint")
  /\ signal' = Sig("Checkpoint")
  /\ UNCHANGED <<stack, handler_stack, retry_stack, arena, next_handler_scope, next_retry, ran,
                 quiet>>
----------------------------------------------------------------------------
(* Delivery of a signal to the top frame.                                  *)

Top == stack[1]
Below == Tail(stack)
Delivers(k, kinds) == signal.k = k /\ stack # <<>> /\ Top.k \in kinds

Complete ==
  /\ signal.k \in {"Value", "Return", "Resume", "Finish"} /\ stack = <<>>
  /\ signal' = Sig("Done")
  /\ UNCHANGED <<stack, handler_stack, retry_stack, arena, next_handler_scope, next_retry, ran,
                 fuel, quiet>>

\* A frame that hands the signal on unchanged.
PassOn(kinds) ==
  /\ stack # <<>> /\ Top.k \in kinds
  /\ stack' = Below
  /\ signal' = signal
  /\ UNCHANGED <<handler_stack, retry_stack, arena, next_handler_scope, next_retry, ran, fuel,
                 quiet>>

\* A call returns: a value, a return, and a resume or finish that reaches it.
LeaveCall ==
  /\ signal.k \in {"Value", "Return", "Resume", "Finish"} /\ stack # <<>> /\ Top.k = "Call"
  /\ stack' = Below
  /\ signal' = Sig("Value")
  /\ UNCHANGED <<handler_stack, retry_stack, arena, next_handler_scope, next_retry, ran, fuel,
                 quiet>>

\* ContinueBlock, Bind, Assign and the other continuations that evaluate more code.
ContinueBlock ==
  /\ Delivers("Value", {"Next"})
  /\ stack' = Below
  /\ signal' = Code(Top.lex)
  /\ ran' = ran \cup {Top.id}
  /\ UNCHANGED <<handler_stack, retry_stack, arena, next_handler_scope, next_retry, fuel, quiet>>

\* close_handler_scope, after which the signal is `after`.
CloseHandlerScope(scope, after) ==
  IF handler_stack = <<>> \/ handler_stack[1].id # scope
  THEN signal' = Fault("handler scope stack mismatch") /\ UNCHANGED handler_stack
  ELSE signal' = after /\ handler_stack' = Tail(handler_stack)

\* A boundary that owns a dispatched arm: the arm's dispatch comes first.
OpenBoundary ==
  /\ signal.k \in {"Value", "Resume"} /\ stack # <<>> /\ Top.k = "Handle" /\ Top.inner.frames # <<>>
  /\ stack' = Top.inner.frames \o <<Owning(Top, <<>>)>> \o Below
  /\ signal' = signal
  /\ UNCHANGED <<handler_stack, retry_stack, arena, next_handler_scope, next_retry,
                 ran, fuel, quiet>>

\* Mutant: a return leaves the dynamic scope of the handler active.
LeaveHandler_Return ==
  /\ stack # <<>> /\ Top.k = "Handle"
  /\ signal.k = "Return" \/ signal.k = "Finish" \/ (signal.k \in {"Value", "Resume"} /\ Top.inner.frames = <<>>)
  /\ stack' = Below
  /\ IF signal.k = "Return" THEN signal' = signal /\ UNCHANGED handler_stack
     ELSE CloseHandlerScope(Top.scope, IF signal.k = "Finish" THEN Sig("Value") ELSE signal)
  /\ UNCHANGED <<retry_stack, arena, next_handler_scope, next_retry, ran, fuel, quiet>>

\* HandleBoundary in continue_handle_signal, propagate_return_frame and
\* propagate_finish_frame.  A return or a finish drops the arm's dispatch.
LeaveHandler ==
  /\ stack # <<>> /\ Top.k = "Handle"
  /\ signal.k = "Return" \/ signal.k = "Finish" \/ (signal.k \in {"Value", "Resume"} /\ Top.inner.frames = <<>>)
  /\ stack' = Below
  /\ CloseHandlerScope(Top.scope, IF signal.k = "Finish" THEN Sig("Value") ELSE signal)
  /\ UNCHANGED <<retry_stack, arena, next_handler_scope, next_retry, ran, fuel, quiet>>

\* reenter_handler.
Reenter ==
  /\ Delivers("Value", {"Reenter"})
  /\ IF handler_stack # <<>> /\ handler_stack[1].id >= Top.scope
     THEN /\ signal' = Fault("handler reentry scope order is invalid")
          /\ UNCHANGED <<stack, handler_stack>>
     ELSE /\ handler_stack' = <<[id |-> Top.scope, on |-> Top.on]>> \o handler_stack
          /\ stack' = <<Owning(Top, Top.inner.frames)>> \o Below
          /\ signal' = signal
  /\ UNCHANGED <<retry_stack, arena, next_handler_scope, next_retry, ran, fuel, quiet>>

\* A value reaches the dispatch of an arm.
ValueAtDispatch ==
  /\ Delivers("Value", {"Dispatch"})
  /\ LET t == Top.deferred IN
     IF t = NoToken
     THEN /\ stack' = Top.outer.frames \o Below
          /\ signal' = signal /\ UNCHANGED arena
     ELSE /\ arena' = IF Refusal(arena, t, 0, "Root") = "Accepted" THEN Dispose(arena, t) ELSE arena
          /\ signal' = Fault(IF Refusal(arena, t, 0, "Root") = "Accepted"
                             THEN "arm completed" ELSE "arm completed after transfer")
          /\ stack' = Below
  /\ UNCHANGED <<handler_stack, retry_stack, next_handler_scope, next_retry, ran, fuel, quiet>>

\* resume_handler_continuation.
ResumeAtDispatch ==
  /\ Delivers("Resume", {"Dispatch"})
  /\ LET t == Top.deferred IN
     IF t = NoToken
     THEN /\ stack' = Top.outer.frames \o Below
          /\ signal' = Sig("Value") /\ UNCHANGED arena
     ELSE IF Refusal(arena, t, 0, "Root") # "Accepted"
     THEN /\ signal' = Fault(Refusal(arena, t, 0, "Root"))
          /\ stack' = Below /\ UNCHANGED arena
     ELSE /\ stack' = arena.entries[t].frames \o Below
          /\ arena' = Consume(arena, t, "Resume")
          /\ signal' = Sig("Value")
  /\ UNCHANGED <<handler_stack, retry_stack, next_handler_scope, next_retry, ran, fuel, quiet>>

FinishAtDispatch ==
  /\ Delivers("Finish", {"Dispatch"})
  /\ stack' = Below
  /\ LET t == Top.deferred IN
     IF t = NoToken THEN UNCHANGED <<arena, signal>>
     ELSE IF Refusal(arena, t, 0, "Root") # "Accepted"
     THEN signal' = Fault(Refusal(arena, t, 0, "Root")) /\ UNCHANGED arena
     ELSE arena' = Dispose(arena, t) /\ UNCHANGED signal
  /\ UNCHANGED <<handler_stack, retry_stack, next_handler_scope, next_retry, ran, fuel, quiet>>

\* finish_retry_attempt_success; a value goes on with the block after the retry.
PopRetry(id) ==
  IF retry_stack # <<>> /\ retry_stack[1] = id THEN Tail(retry_stack) ELSE retry_stack

FinishRetryAttempt ==
  /\ signal.k \in {"Value", "Return", "Finish"} /\ stack # <<>> /\ Top.k = "Retry"
  /\ retry_stack' = PopRetry(Top.id)
  /\ stack' = Below
  /\ signal' = IF signal.k = "Value" THEN Code(Top.lex) ELSE signal
  /\ UNCHANGED <<handler_stack, arena, next_handler_scope, next_retry, ran, fuel, quiet>>

\* continue_while_loop and resume_while_loop: a condition's value enters the
\* body or ends the loop, a body's value goes to the next condition.
ContinueLoop ==
  /\ Delivers("Value", {"Loop"}) \/ Delivers("Continue", {"Loop"})
  /\ \/ /\ Top.afterBody /\ Top.left > 0
        /\ stack' = <<[Top EXCEPT !.afterBody = FALSE]>> \o Below
        /\ signal' = Sig("Value")
     \/ /\ ~Top.afterBody
        /\ stack' = <<[Top EXCEPT !.afterBody = TRUE, !.left = @ - 1]>> \o Below
        /\ signal' = Code(Enter("loop", Top.lex))
     \/ /\ ~Top.afterBody \/ Top.left = 0
        /\ stack' = Below
        /\ signal' = Sig("Value")
  /\ UNCHANGED <<handler_stack, retry_stack, arena, next_handler_scope, next_retry, ran, fuel,
                 quiet>>

BreakLoop ==
  /\ Delivers("Break", {"Loop"})
  /\ stack' = Below
  /\ signal' = Sig("Value")
  /\ UNCHANGED <<handler_stack, retry_stack, arena, next_handler_scope, next_retry, ran, fuel,
                 quiet>>

\* A break or continue whose loop is gone.
LoopControlEscapes ==
  /\ signal.k \in {"Break", "Continue"} /\ (stack # <<>> => Top.k = "Call")
  /\ signal' = Fault("loop control escaped its execution frame")
  /\ stack' = IF stack = <<>> THEN stack ELSE Below
  /\ UNCHANGED <<handler_stack, retry_stack, arena, next_handler_scope, next_retry, ran, fuel,
                 quiet>>

\* What each signal passes over.  propagate_resume_frame has no case for a
\* retry attempt, propagate_loop_control_frame none for a boundary either.
Propagate ==
  \/ signal.k = "Value" /\ PassOn({"Try"})
  \/ signal.k = "Return" /\ PassOn({"Next", "Dispatch", "Reenter", "Loop", "Try"})
  \/ signal.k = "Resume" /\ PassOn({"Next", "Reenter", "Retry", "Loop", "Try"})
  \/ signal.k = "Finish" /\ PassOn({"Next", "Reenter", "Loop", "Try"})
  \/ signal.k \in {"Break", "Continue"}
       /\ PassOn({"Next", "Handle", "Dispatch", "Reenter", "Retry", "Try"})
----------------------------------------------------------------------------
(* Perform.                                                                *)

Handling(on) == {i \in DOMAIN handler_stack : handler_stack[i].on = on}

\* has_action_handler_in looks for the nearest scope that handles the action,
\* and for the boundary that owns it.
ActionHandler ==
  LET found == Handling(signal.on)
      near  == Min(found)
      owned == ScopeIds(stack) \cup ScopeIds(signal.cont)
  IN IF handler_stack = <<>> \/ found = {} THEN "none"
     ELSE IF handler_stack[near].id \in owned THEN "found" ELSE "unowned"

\* Nobody handles it: the machine suspends with its stack untouched.
YieldPerform ==
  /\ signal.k = "Perform" /\ signal.on # Error /\ ActionHandler # "found"
  /\ signal' = IF ActionHandler = "none" THEN Sig("Host")
               ELSE Fault("active handler scope has no owning lexical frame")
  /\ stack' = signal.cont \o stack
  /\ UNCHANGED <<handler_stack, retry_stack, arena, next_handler_scope, next_retry,
                 ran, fuel, quiet>>

Attempted == {i \in DOMAIN signal.cont : signal.cont[i].k = "Retry"}

\* A typed error nobody captures ends the run, unless an attempt is among the
\* frames it has passed: approval::begin then has retry_boundary_failure start the
\* next one, on its own, since what was outside the attempt went with the error.
UnhandledError ==
  /\ signal.k = "Perform" /\ signal.on = Error /\ stack = <<>>
  /\ IF Attempted = {}
     THEN signal' = Sig("Unhandled") /\ UNCHANGED <<stack, retry_stack, next_retry, crossed>>
     ELSE LET attempt == signal.cont[Min(Attempted)]
          IN /\ IF attempt.next >= Attempts
                THEN /\ signal' = Fault("retry exhausted")
                     /\ retry_stack' = PopRetry(attempt.id) /\ UNCHANGED <<stack, next_retry>>
                ELSE StartAttempt(attempt.next, attempt.lex, <<>>, PopRetry(attempt.id))
             /\ crossed' = TRUE
  /\ UNCHANGED <<handler_stack, arena, next_handler_scope, ran, fuel, history>>

Propagates ==
  /\ signal.k = "Perform" /\ stack # <<>>
  /\ signal.on = Error \/ ActionHandler = "found"

\* The first `?` of the request's own continuation, visited again with each frame.
Captures == {i \in DOMAIN signal.cont : signal.on = Error /\ signal.cont[i].k = "Try"}

\* apply_perform_to_continuation on a frame that is no handler boundary, and
\* the capture of a typed error by `?`.
PerformAtFrame ==
  /\ Propagates /\ (Captures # {} \/ Top.k # "Handle")
  /\ IF Captures # {}
     THEN /\ stack' = SubSeq(signal.cont, Min(Captures) + 1, Len(signal.cont)) \o stack
          /\ signal' = Sig("Value")
     ELSE /\ stack' = Below
          /\ signal' = IF Top.k = "Try" /\ signal.on = Error THEN Sig("Value")
                       ELSE [signal EXCEPT !.cont = @ \o <<Top>>]
  /\ UNCHANGED <<handler_stack, retry_stack, arena, next_handler_scope, next_retry, ran, fuel,
                 quiet>>

\* wrap_handler_boundary_signal around the arm's dispatch.
WrapBoundary(boundary, dispatch) ==
  CASE Occurrences(<<dispatch>>, boundary.scope) = 0 ->
         [ok |-> TRUE, frames |-> <<Owning(boundary, <<dispatch>>)>>]
    [] Occurrences(<<dispatch>>, boundary.scope) = 1 -> [ok |-> TRUE, frames |-> <<dispatch>>]
    [] OTHER -> [ok |-> FALSE, frames |-> <<>>]

\* Mutant: the arm that binds its continuation also runs on it.
DispatchHandler_Shares ==
  /\ Propagates /\ Captures = {} /\ Top.k = "Handle" /\ Top.on = signal.on
  /\ LET outer == signal.cont \o Top.inner.frames
         token == IF Top.binder THEN arena.next ELSE NoToken
         wrapped == WrapBoundary(Top, HandlerDispatch(Link(outer), token))
     IN /\ arena' = IF Top.binder THEN Allocate(arena, 0, "Root", outer) ELSE arena
        /\ stack' = wrapped.frames \o Below
        /\ signal' = Code(EnterArm(token, Top.on, Top.lex))
  /\ UNCHANGED <<handler_stack, retry_stack, next_handler_scope, next_retry, ran, fuel, quiet>>

\* dispatch_handler: the arm runs under the boundary, over the frames between
\* the boundary and the request.  An arm with a binder owns them as a token.
DispatchHandler ==
  /\ Propagates /\ Captures = {} /\ Top.k = "Handle" /\ Top.on = signal.on
  /\ LET outer == signal.cont \o Top.inner.frames
         token == IF Top.binder THEN arena.next ELSE NoToken
         wrapped == WrapBoundary(Top, HandlerDispatch(Link(IF Top.binder THEN <<>> ELSE outer), token))
     IN /\ arena' = IF Top.binder THEN Allocate(arena, 0, "Root", outer) ELSE arena
        /\ IF wrapped.ok
           THEN /\ stack' = wrapped.frames \o Below
                /\ signal' = Code(EnterArm(token, Top.on, Top.lex))
           ELSE /\ signal' = Fault("handler scope has several boundary owners")
                /\ stack' = Below
  /\ UNCHANGED <<handler_stack, retry_stack, next_handler_scope, next_retry, ran, fuel, quiet>>

\* Mutant: the forwarding boundary stays active while the request is outside it.
SuspendHandler_StaysActive ==
  /\ Propagates /\ Captures = {} /\ Top.k = "Handle" /\ Top.on # signal.on
  /\ LET cont == signal.cont \o Top.inner.frames IN
     /\ stack' = Below
     /\ UNCHANGED handler_stack
     /\ signal' = [signal EXCEPT !.cont = <<Suspended(Top, cont)>>]
  /\ UNCHANGED <<retry_stack, arena, next_handler_scope, next_retry, ran, fuel, quiet>>

\* suspend_handler_for_perform: no arm matches, the boundary leaves the dynamic
\* scope and is entered again when the request is answered.
SuspendHandler ==
  /\ Propagates /\ Captures = {} /\ Top.k = "Handle" /\ Top.on # signal.on
  /\ LET cont == signal.cont \o Top.inner.frames IN
     /\ stack' = Below
     /\ IF Occurrences(cont, Top.scope) # 0
        THEN /\ signal' = Fault("forwarded handler scope already has a boundary owner")
             /\ UNCHANGED handler_stack
        ELSE CloseHandlerScope(Top.scope,
               [signal EXCEPT !.cont = <<Suspended(Top, cont)>>])
  /\ UNCHANGED <<retry_stack, arena, next_handler_scope, next_retry, ran, fuel, quiet>>
----------------------------------------------------------------------------
(* Scheduler transfers of a deferred continuation (driver/task.rs).        *)

\* The frame transfer_from looks for: the arm's dispatch, or the boundary that
\* owns it; truncate_to drops everything above it.
DispatchAt(t) == {i \in DOMAIN stack :
  \/ stack[i].k = "Dispatch" /\ stack[i].deferred = t
  \/ stack[i].k = "Handle" /\ Len(stack[i].inner.frames) = 1
       /\ stack[i].inner.frames[1].k = "Dispatch" /\ stack[i].inner.frames[1].deferred = t}

\* transfer_from.
TransferFrom(t, frames) ==
  IF DispatchAt(t) = {}
  THEN signal' = Fault("transfer without a boundary") /\ UNCHANGED stack
  ELSE LET at == Min(DispatchAt(t))
           kept == IF stack[at].k = "Handle" THEN <<Owning(stack[at], <<>>)>> ELSE <<>>
       IN /\ stack' = frames \o kept \o SubSeq(stack, at + 1, Len(stack))
          /\ signal' = Sig("Value")

\* The frames of the arm that owns token t.
ArmFrames(t) ==
  IF DispatchAt(t) = {} THEN stack
  ELSE SubSeq(stack, 1, Min(DispatchAt(t)))

\* requeue and park raise nothing, so no `?` of the arm is around them.
MayTransfer ==
  /\ ArmToken(signal.lex) # NoToken
  /\ Crosses("transfer", Left(signal.lex, Arms) \cap {"handle", "retry"} # {})
  /\ \A f \in Range(ArmFrames(ArmToken(signal.lex))) : f.k # "Try"

\* std.task.scheduler.requeue and park in an arm; the checked program uses the
\* token its own arm binds.
EvalRequeue ==
  /\ Evaluates("requeue") /\ MayTransfer
  /\ LET t == ArmToken(signal.lex) IN
     IF Refusal(arena, t, 0, "Root") # "Accepted"
     THEN /\ signal' = Fault(Refusal(arena, t, 0, "Root"))
          /\ UNCHANGED <<stack, arena>>
     ELSE /\ arena' = Consume(arena, t, "Requeue")
          /\ TransferFrom(t, arena.entries[t].frames)
  /\ UNCHANGED <<handler_stack, retry_stack, next_handler_scope, next_retry, ran, history>>

EvalPark ==
  /\ Evaluates("park") /\ MayTransfer
  /\ LET t == ArmToken(signal.lex) IN
     IF Refusal(arena, t, 0, "Root") # "Accepted"
     THEN /\ signal' = Fault(Refusal(arena, t, 0, "Root"))
          /\ UNCHANGED arena
     ELSE /\ arena' = Consume(arena, t, "Park")
          /\ signal' = [k |-> "Parked", tok |-> t, cont |-> arena.entries[t].frames]
  /\ UNCHANGED <<stack, handler_stack, retry_stack, next_handler_scope, next_retry, ran, history>>

\* resume_root_wait: the awaited task completed, or raised.
UnparkCompleted ==
  /\ signal.k = "Parked"
  /\ TransferFrom(signal.tok, signal.cont)
  /\ UNCHANGED <<handler_stack, retry_stack, arena, next_handler_scope, next_retry, ran, fuel,
                 quiet>>

\* An error is raised at the await; the arm's frames stay on the stack.
UnparkRaised ==
  /\ signal.k = "Parked"
  /\ LET tried == \E f \in Range(signal.cont) : f.k = "Try"
     IN  /\ tried => "await" \in Crossings
         /\ LeavesRetry(Error) => "retry" \in Crossings
         /\ crossed' = (crossed \/ tried \/ LeavesRetry(Error))
  /\ signal' = Perform(Error, signal.cont)
  /\ UNCHANGED <<stack, handler_stack, retry_stack, arena, next_handler_scope, next_retry, ran,
                 fuel, history>>
----------------------------------------------------------------------------
(* The Host answers.                                                       *)

HostCompletes ==
  /\ signal.k = "Host"
  /\ signal' = Sig("Value")
  /\ UNCHANGED <<stack, handler_stack, retry_stack, arena, next_handler_scope, next_retry, ran,
                 fuel, quiet>>

HostRaises ==
  /\ signal.k = "Host" /\ "perform" \in Forms
  /\ Crosses("retry", LeavesRetry(Error))
  /\ signal' = Perform(Error, <<>>)
  /\ UNCHANGED <<stack, handler_stack, retry_stack, arena, next_handler_scope, next_retry, ran,
                 fuel, history>>

RetryFrames == {i \in DOMAIN stack : stack[i].k = "Retry"}

\* A failing attempt is left from inside a handler.
FailureLeavesHandler ==
  RetryFrames # {} /\ \E i \in 1..Min(RetryFrames) : stack[i].k \in {"Handle", "Dispatch"}

\* retry_boundary_failure: the nearest attempt on the stack fails, the frames
\* above it are dropped, and the next attempt starts if there is one.
HostFails ==
  /\ signal.k = "Host"
  /\ Crosses("retry", FailureLeavesHandler)
  /\ IF RetryFrames = {}
     THEN signal' = Fault("host") /\ UNCHANGED <<stack, retry_stack, next_retry>>
     ELSE LET at == Min(RetryFrames)
              below == SubSeq(stack, at + 1, Len(stack))
          IN IF stack[at].next >= Attempts
             THEN /\ signal' = Fault("retry exhausted") /\ stack' = below
                  /\ retry_stack' = PopRetry(stack[at].id) /\ UNCHANGED next_retry
             ELSE StartAttempt(stack[at].next, stack[at].lex, below, PopRetry(stack[at].id))
  /\ UNCHANGED <<handler_stack, arena, next_handler_scope, ran, fuel, history>>
----------------------------------------------------------------------------
(* Checkpoints, crashes and restarts.                                      *)

\* validate_checkpoint: the dynamic stacks match the boundaries of the frames.
ValidTopology ==
  /\ [i \in DOMAIN handler_stack |-> handler_stack[i].id] = ScopeOrder(stack)
  /\ retry_stack = RetryOrder(stack)

\* record_checkpoint; the machine goes on with the value of checkpoint(...).
RecordCheckpoint ==
  /\ signal.k = "Checkpoint"
  /\ IF ValidTopology /\ ValidArena(arena)
     THEN /\ saved' = [stack |-> stack, handler_stack |-> handler_stack,
                       retry_stack |-> retry_stack, arena |-> arena,
                       next_handler_scope |-> next_handler_scope, next_retry |-> next_retry,
                       ran |-> ran, crossed |-> crossed, fuel |-> fuel]
          /\ signal' = Sig("Value")
     ELSE signal' = Fault("checkpoint cannot preserve") /\ UNCHANGED saved
  /\ UNCHANGED <<stack, handler_stack, retry_stack, arena, next_handler_scope, next_retry, ran,
                 crossed, fuel, crashes>>

SupOf(S) == IF S = {} THEN 0 ELSE Max(S) + 1
\* execute_from_checkpoint_signal counts what the machine's frames hold, and
\* restore_task_checkpoint takes the saved counter where it is larger.
RestoredScopeCounter(s) ==
  LET seen == SupOf({s.handler_stack[i].id : i \in DOMAIN s.handler_stack} \cup ScopeIds(s.stack))
  IN IF seen >= s.next_handler_scope THEN seen ELSE s.next_handler_scope

RestoredRetryCounter(s) ==
  LET seen == SupOf({s.retry_stack[i] : i \in DOMAIN s.retry_stack})
  IN IF seen >= s.next_retry THEN seen ELSE s.next_retry

\* The process dies, and the run is resumed from its last checkpoint.
CrashAndResume ==
  /\ saved # NoCheckpoint /\ crashes < MaxCrashes
  /\ crashes' = crashes + 1
  /\ signal' = Sig("Value")
  /\ stack' = saved.stack
  /\ handler_stack' = saved.handler_stack
  /\ retry_stack' = saved.retry_stack
  /\ arena' = saved.arena
  /\ next_handler_scope' = RestoredScopeCounter(saved)
  /\ next_retry' = RestoredRetryCounter(saved)
  /\ ran' = saved.ran /\ crossed' = saved.crossed /\ fuel' = saved.fuel
  /\ UNCHANGED saved

\* The run has its result; nothing polls the machine again.
Ended == signal.k \in {"Done", "Fault", "Unhandled"} /\ UNCHANGED vars

Init ==
  /\ signal = Code(<<>>)
  /\ stack = <<>> /\ handler_stack = <<>> /\ retry_stack = <<>>
  /\ arena = NewArena
  /\ next_handler_scope = 0 /\ next_retry = 0
  /\ saved = NoCheckpoint /\ ran = {} /\ crossed = FALSE /\ fuel = MaxForms /\ crashes = 0

Next ==
  \/ EvalValue \/ ExecuteBlock \/ EvalTry \/ EvalCall \/ EvalReturn \/ EvalLoop \/ EvalRetry
  \/ EvalHost \/ EvalCheckpoint \/ EvalRequeue \/ EvalPark
  \/ \E on \in Actions \cup {Error}, b \in Binders : EvalHandle(on, b)
  \/ \E on \in Actions \cup {Error} : EvalPerform(on)
  \/ \E exit \in {"resume", "finish"} : EvalArmExit(exit)
  \/ \E k \in {"Break", "Continue"} : EvalLoopControl(k)
  \/ Complete \/ LeaveCall \/ ContinueBlock \/ OpenBoundary \/ LeaveHandler \/ Reenter
  \/ ValueAtDispatch \/ ResumeAtDispatch \/ FinishAtDispatch \/ FinishRetryAttempt
  \/ ContinueLoop \/ BreakLoop \/ LoopControlEscapes \/ Propagate
  \/ YieldPerform \/ UnhandledError \/ PerformAtFrame
  \/ DispatchHandler \/ SuspendHandler
  \/ UnparkCompleted \/ UnparkRaised \/ HostCompletes \/ HostRaises \/ HostFails
  \/ RecordCheckpoint \/ CrashAndResume \/ Ended

Spec == Init /\ [][Next]_vars
----------------------------------------------------------------------------
(* Properties.                                                             *)

\* Type invariant of the machine.
EvalTypeOK ==
  /\ signal.k \in {"Code", "Value", "Return", "Resume", "Finish", "Break", "Continue", "Perform",
                    "Host", "Checkpoint", "Parked", "Done", "Unhandled", "Fault"}
  /\ \A i \in DOMAIN stack : stack[i].k \in {"Next", "Call", "Handle", "Reenter", "Dispatch",
                                             "Retry", "Loop", "Try"}
  /\ \A i \in DOMAIN handler_stack :
        handler_stack[i] \in [id : Nat, on : Actions \cup {Error}]
  /\ retry_stack \in Seq(Nat)
  /\ arena.next \in Nat /\ DOMAIN arena.entries = 0..(arena.next - 1)
  /\ \A t \in DOMAIN arena.entries : arena.entries[t].state \in ContinuationStates
  /\ {next_handler_scope, next_retry, fuel, crashes} \subseteq Nat
  /\ ran \subseteq Nat /\ crossed \in BOOLEAN

\* The dynamic handler scopes are exactly the boundaries the stack still has to
\* unwind, innermost first, and the retry stack is exactly its attempts: no
\* exit (return, finish, resume, a captured error, a failed attempt, a transfer
\* to a scheduler, a restart) leaves a scope or an attempt behind, but for the
\* ones named in Crosses.
TopologyPreserved ==
  signal.k # "Fault" /\ ~crossed =>
    /\ [i \in DOMAIN handler_stack |-> handler_stack[i].id] = ScopeOrder(stack)
    /\ retry_stack = RetryOrder(SignalFrames \o stack)

\* Continuations are linear: the rest of a block is in one place only (the
\* stack, the request being propagated or the frames of an unused token), and
\* once it has run nothing can run it again.
LinearContinuations ==
  LET machine == SignalFrames \o stack
      kept(t) == arena.entries[t].frames
  IN /\ Twice(machine) = {}
     /\ \A t \in DOMAIN arena.entries :
          Twice(kept(t)) = {} /\ Holds(kept(t)) \cap Holds(machine) = {}
     /\ \A t, u \in DOMAIN arena.entries : t # u => Holds(kept(t)) \cap Holds(kept(u)) = {}
     /\ \A b \in ran : /\ <<"block", b>> \notin Holds(machine)
                       /\ \A t \in DOMAIN arena.entries : <<"block", b>> \notin Holds(kept(t))

\* The machine never fails for a reason of its own making: a run ends in a
\* fault only because of a limit, the Host, or an arm that ends without using
\* its continuation; not because a scope is closed or entered out of order, has
\* two owners or none, a token is used twice, a transferred arm comes back, or
\* a checkpoint is refused.  After an exit named in Crosses it may.
NoInternalFault ==
  signal.k = "Fault" /\ ~crossed => signal.why \in {"call depth", "host", "retry exhausted", "arm completed"}

\* A program that asks for a checkpoint gets one: record_checkpoint never finds
\* its own handler and retry stacks inconsistent with the frames.
CheckpointAccepted ==
  signal.k = "Fault" => signal.why # "checkpoint cannot preserve"

\* An arm whose continuation was transferred does not run to its end.
TransferEndsArm ==
  signal.k = "Fault" => signal.why # "arm completed after transfer"
=============================================================================
