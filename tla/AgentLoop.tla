----------------------------- MODULE AgentLoop -----------------------------
(***************************************************************************)
(* Agents that run concurrently: each alternates between model requests    *)
(* and the tool calls the model asks for (eval/machine/model.rs), and all  *)
(* share the token budget, the request identities and the ledger of        *)
(* completed boundaries of their run.  Some of them race.  The run may be  *)
(* stopped at a checkpoint and resumed.                                    *)
(*                                                                         *)
(* A reply of the model is a sequence of tool calls, or "final" (content   *)
(* that decodes), "junk" (content that does not), "failed" (the generation *)
(* failed) or "error" (the Host failed, or did not report the usage).      *)
(* The cost budget follows the token budget and is left out.               *)
(***************************************************************************)
EXTENDS Integers, Sequences, FiniteSets

CONSTANTS
  Agents,       \* the tasks that run an agent
  Racers,       \* those of them that are jobs of one race
  Replies,      \* agent -> the sequences of tool calls its model may ask for
  ToolChoices,  \* "auto", "any" or the tool that is required
  Decodes,      \* "typed", or "raw" for an agent that returns the response
  MaxRounds,    \* agent -> max_tool_rounds of its model policy
  MaxAttempts,  \* agent -> attempts of the retry scope around its inference
  Tokens,       \* the token limit of the run
  Limits,       \* agent -> its own token limit, for the agents that declare one
  MaxCaptures,  \* bound: how often a source tool is suspended in a handler
  MaxRestarts   \* bound: how often the run is resumed from its checkpoint

\* A tool call of a reply: the tool, the identity the model gives the call, and
\* what its arguments are.
Calls == [tool : STRING, id : Nat, args : STRING]

ASSUME AgentConstants ==
  /\ Racers \subseteq Agents
  /\ Replies \in [Agents -> SUBSET Seq(Calls)]
  /\ MaxRounds \in [Agents -> Nat] /\ MaxAttempts \in [Agents -> Nat \ {0}]
  /\ Tokens \in Nat /\ DOMAIN Limits \subseteq Agents /\ \A a \in DOMAIN Limits : Limits[a] \in Nat
  /\ MaxCaptures \in Nat /\ MaxRestarts \in Nat

VARIABLES
  policy,       \* how the agents are declared: choice of tools and decoder
  phase,        \* where each agent stands
  loop,         \* its ModelLoopFrame
  attempt,      \* the attempt of the retry scope it is in
  stop,         \* it was cancelled while it waited for the Host
  input,        \* the MachineInput that was committed to its machine
  outcome,      \* how its task ended
  reservation,  \* tokens reserved for its model call
  consumed, reserved,  \* the ledger of the budget
  nextId,       \* next_host_request
  ledger,       \* completed_host_boundaries: occurrence -> request identity
  captures,     \* how often a source tool was suspended
  restarts,     \* how often the run was resumed
  barrier       \* the checkpoint barrier is closed

agents == <<phase, loop, attempt, stop, input, outcome>>
budget == <<reservation, consumed, reserved>>
shared == <<nextId, ledger>>
run == <<captures, restarts, barrier>>
vars == <<policy, agents, budget, shared, run>>

NoCall == [tool |-> "none", id |-> 0, args |-> "none"]
NoInput == [kind |-> "none"]
Sources == {"source"}          \* tools with a body in the program
Available == {"source", "host"}

\* start_agent_model_request and the frame begin_model builds.
NewLoop(id) ==
  [first |-> id, req |-> id, round |-> 0, choice |-> policy.choice, tools |-> TRUE,
   queue |-> <<>>, current |-> NoCall, toolReq |-> 0, completed |-> FALSE,
   asked |-> <<>>, answered |-> <<>>, sent |-> 0, done |-> {}]

NoLoop == [NewLoop(0) EXCEPT !.choice = "auto"]

Init ==
  /\ policy \in [choice : ToolChoices, decode : Decodes]
  /\ phase = [a \in Agents |-> "idle"]
  /\ loop = [a \in Agents |-> NoLoop]
  /\ attempt = [a \in Agents |-> 1]
  /\ stop = [a \in Agents |-> FALSE]
  /\ input = [a \in Agents |-> NoInput]
  /\ outcome = [a \in Agents |-> "none"]
  /\ reservation = [a \in Agents |-> 0]
  /\ consumed = 0 /\ reserved = 0
  /\ nextId = 0
  /\ ledger = <<>>
  /\ captures = 0 /\ restarts = 0 /\ barrier = FALSE

-----------------------------------------------------------------------------
\* The turn of an agent lasts until it waits or ends: the coordinator drives
\* no other task between a boundary and its dispatch, or between an answer and
\* the poll that takes it.  No turn starts behind the checkpoint barrier.
Driving == {a \in Agents : phase[a] \in {"input", "model", "calls", "tool"}}
MyTurn(a) == Driving \subseteq {a} /\ ~barrier

Put(f, a, v) == [f EXCEPT ![a] = v]

\* The machine of a task that ends is dropped with its frames.
Dropped(a) == [NoLoop EXCEPT !.done = loop[a].done]

\* apply_group_policy: a success or a failure cancels the rest of the race; an
\* error that was raised, or a cancellation, does not.
Cancels == {"value", "finished", "failed", "denied"}
Losers(a, how) ==
  IF a \in Racers /\ how \in Cancels THEN {b \in Racers \ {a} : phase[b] # "ended"} ELSE {}

\* The task ends.  A loser that waits for the Host is only told to stop, any
\* other is settled at once.
End(a, how) ==
  LET gone == {a} \union {b \in Losers(a, how) : phase[b] # "waiting"}
  IN  /\ phase' = [b \in Agents |-> IF b \in gone THEN "ended" ELSE phase[b]]
      /\ outcome' = [b \in Agents |-> CASE b = a -> how
                                        [] b \in gone \ {a} -> "cancelled"
                                        [] OTHER -> outcome[b]]
      /\ loop' = [b \in Agents |-> IF b \in gone THEN Dropped(b) ELSE loop[b]]
      /\ stop' = [b \in Agents |-> stop[b] \/ b \in Losers(a, how) \ gone]
      /\ input' = [b \in Agents |-> IF b \in gone THEN NoInput ELSE input[b]]
      /\ UNCHANGED attempt

Move(a, to) ==
  /\ phase' = Put(phase, a, to)
  /\ input' = Put(input, a, NoInput)
  /\ UNCHANGED <<attempt, stop, outcome>>

\* model_boundary_failure: the retry scope starts its body again, or the
\* failure is a fault.
BoundaryFailure(a) ==
  IF attempt[a] < MaxAttempts[a]
  THEN /\ phase' = Put(phase, a, "idle")
       /\ attempt' = Put(attempt, a, attempt[a] + 1)
       /\ loop' = Put(loop, a, NoLoop)
       /\ input' = Put(input, a, NoInput)
       /\ UNCHANGED <<stop, outcome>>
  ELSE End(a, "failed")

Request(id) == <<"request", id>>
SourceCall(id, call) == <<"source", id, call>>
Record(occurrence, key) ==
  [o \in DOMAIN ledger \union {occurrence} |-> IF o = occurrence THEN key ELSE ledger[o]]

-----------------------------------------------------------------------------
\* begin_model.  A completed model boundary with this occurrence is replayed.
Begin(a) ==
  /\ phase[a] = "idle" /\ MyTurn(a)
  /\ nextId' = nextId + 1
  /\ IF Request(nextId) \in DOMAIN ledger
     THEN IF ledger[Request(nextId)] = "model" THEN End(a, "value") ELSE End(a, "failed")
     ELSE /\ Move(a, "model")
          /\ loop' = Put(loop, a, NewLoop(nextId))
  /\ UNCHANGED <<policy, budget, ledger, run>>

\* The Host finds the limits of the agent incompatible with the run's budget,
\* before the request has an identity.
IncompatibleLimits(a) ==
  /\ phase[a] = "idle" /\ MyTurn(a) /\ a \in DOMAIN Limits
  /\ End(a, "failed")
  /\ UNCHANGED <<policy, budget, shared, run>>

\* authorize_before_boundary asks the policy service under an identity of its
\* own; Complete(false) ends the task, whatever scope it is in.
Denied(a) ==
  /\ phase[a] \in {"model", "tool"}
  /\ nextId' = nextId + 1
  /\ End(a, "denied")
  /\ UNCHANGED <<policy, budget, ledger, run>>

\* remaining_tokens of the request's budget: what the ledger of the run has left
\* or, through the view that with_limits opens, what the agent's own limit leaves
\* of it.  How a view counts is the Host's, so any such remainder may occur.
Remaining(a) ==
  LET left == Tokens - consumed - reserved
  IN  IF a \in DOMAIN Limits THEN {n \in 0..Limits[a] : n <= left} ELSE {left}

\* dispatch::model::begin once the policy allows the call: it reserves all that
\* the request's budget has left.  It fails when that is nothing, past the
\* deadline and when the Host refuses it, which returns what was reserved.
DispatchModel(a) ==
  /\ phase[a] = "model"
  /\ nextId' = nextId + 1
  /\ \/ BoundaryFailure(a) /\ UNCHANGED budget
     \/ /\ Move(a, "waiting")
        /\ loop' = [loop EXCEPT ![a].sent = @ + 1]
        /\ \E tokens \in Remaining(a) \ {0} :
             /\ reservation' = Put(reservation, a, tokens)
             /\ reserved' = reserved + tokens
        /\ UNCHANGED consumed
  /\ UNCHANGED <<policy, ledger, run>>

\* The reactor gets the answer of the Host and the task is Ready.
HostAnswers(a) ==
  /\ phase[a] = "waiting" /\ Driving = {}
  /\ phase' = Put(phase, a, "ready")
  /\ UNCHANGED <<policy, loop, attempt, stop, input, outcome, budget, shared, run>>

\* Mutant: the call forgets its reservation and the budget keeps it.
Release_ByCall(a) ==
  /\ reservation' = Put(reservation, a, 0)
  /\ UNCHANGED reserved

Release(a) ==
  /\ reserved' = reserved - reservation[a]
  /\ reservation' = Put(reservation, a, 0)

\* An answer that is committed behind the barrier waits for a turn.
Committed == IF barrier THEN "saved" ELSE "input"

Answers(a) ==
  [kind : {"final", "junk", "failed"}] \union [kind : {"calls"}, calls : Replies[a]]

\* dispatch::model::finish: usage is settled or, when the answer is an error or
\* lacks usage, the reservation is released.
CommitModel(a) ==
  /\ phase[a] = "ready" /\ loop[a].current = NoCall /\ Driving = {}
  /\ Release(a)
  /\ \/ /\ input' = Put(input, a, [kind |-> "error"])
        /\ UNCHANGED consumed
     \/ /\ \E answer \in Answers(a) : input' = Put(input, a, answer)
        /\ \E used \in 0..reservation[a] : consumed' = consumed + used
  /\ phase' = Put(phase, a, Committed)
  /\ UNCHANGED <<policy, loop, attempt, stop, outcome, shared, run>>

\* dispatch::tool::finish.
CommitTool(a) ==
  /\ phase[a] = "ready" /\ loop[a].current # NoCall /\ Driving = {}
  /\ \E kind \in {"error", "result"} : input' = Put(input, a, [kind |-> kind])
  /\ phase' = Put(phase, a, Committed)
  /\ UNCHANGED <<policy, loop, attempt, stop, outcome, budget, shared, run>>

\* A machine that is polled after a cancellation takes no input.
Cancelled(a) ==
  /\ phase[a] \in {"input", "saved"} /\ stop[a] /\ MyTurn(a)
  /\ End(a, "cancelled")
  /\ UNCHANGED <<policy, budget, shared, run>>

Polled(a) == phase[a] \in {"input", "saved"} /\ ~stop[a] /\ MyTurn(a)

-----------------------------------------------------------------------------
\* resume_model_host_result and handle_model_response.

\* ModelRepairPolicy: a repair is a round, and there is a last one.
Repair(a) ==
  IF loop[a].round < MaxRounds[a]
  THEN /\ Move(a, "model")
       /\ loop' = [loop EXCEPT ![a].round = @ + 1, ![a].req = nextId,
                               ![a].asked = <<>>, ![a].answered = <<>>]
       /\ nextId' = nextId + 1
       /\ UNCHANGED ledger
  ELSE End(a, "failed") /\ UNCHANGED shared

Accept(a) ==
  /\ End(a, "value")
  /\ ledger' = Record(Request(loop[a].first), "model")
  /\ UNCHANGED nextId

ModelFails(a) ==
  /\ Polled(a) /\ loop[a].current = NoCall /\ input[a].kind \in {"error", "failed"}
  /\ IF input[a].kind = "error" THEN BoundaryFailure(a) ELSE End(a, "failed")
  /\ UNCHANGED <<policy, budget, shared, run>>

\* Content without tool calls: the answer, unless a tool is still required or
\* the content does not decode.
ModelAnswers(a) ==
  /\ Polled(a) /\ input[a].kind \in {"final", "junk"}
  /\ IF policy.decode = "raw" THEN Accept(a)
     ELSE IF loop[a].choice # "auto" \/ input[a].kind = "junk" THEN Repair(a)
     ELSE Accept(a)
  /\ UNCHANGED <<policy, budget, run>>

ModelCalls(a) ==
  /\ Polled(a) /\ input[a].kind = "calls"
  /\ IF policy.decode = "raw" THEN Accept(a)
     ELSE IF loop[a].round >= MaxRounds[a] THEN End(a, "failed") /\ UNCHANGED shared
     ELSE /\ Move(a, "calls")
          /\ loop' = [loop EXCEPT ![a].round = @ + 1, ![a].queue = input[a].calls,
                                  ![a].completed = FALSE,
                                  ![a].asked = input[a].calls, ![a].answered = <<>>]
          /\ UNCHANGED shared
  /\ UNCHANGED <<policy, budget, run>>

-----------------------------------------------------------------------------
\* advance_tool_calls, one call at a time.

Call(a) == Head(loop[a].queue)

\* append_tool_result: the message for a call, with the call that produced it.
append_tool_result(frame, call, by) ==
  [frame EXCEPT !.answered = Append(@, [id |-> call.id, by |-> by]),
                !.completed = TRUE, !.current = NoCall, !.done = @ \union {call.tool}]

Rejected(a) ==
  \/ loop[a].choice \notin {"auto", "any"} /\ Call(a).tool # loop[a].choice
  \/ ~loop[a].tools \/ Call(a).tool \notin Available

\* The call names a tool that is not offered, or not the required one.
RejectCall(a) ==
  /\ phase[a] = "calls" /\ loop[a].queue # <<>> /\ Rejected(a)
  /\ End(a, "failed")
  /\ UNCHANGED <<policy, budget, shared, run>>

\* Mutant: invalid arguments are only noted in last_tool_error.
InvalidCall_Silent(a) ==
  /\ phase[a] = "calls" /\ loop[a].queue # <<>> /\ ~Rejected(a)
  /\ Call(a).args = "bad"
  /\ loop' = [loop EXCEPT ![a].queue = Tail(@)]
  /\ UNCHANGED <<policy, phase, attempt, stop, input, outcome, budget, shared, run>>

\* Arguments that do not match the schema are answered with an error message.
InvalidCall(a) ==
  /\ phase[a] = "calls" /\ loop[a].queue # <<>> /\ ~Rejected(a)
  /\ Call(a).args = "bad"
  /\ loop' = [loop EXCEPT ![a].queue = Tail(@),
                          ![a].answered = Append(@, [id |-> Call(a).id, by |-> NoCall])]
  /\ UNCHANGED <<policy, phase, attempt, stop, input, outcome, budget, shared, run>>

\* A source tool: a call the ledger has completed is answered from it, any
\* other goes to the policy under a SourceToolReturn frame.
SourceToolCall(a) ==
  /\ phase[a] = "calls" /\ loop[a].queue # <<>> /\ ~Rejected(a)
  /\ Call(a).args # "bad" /\ Call(a).tool \in Sources
  /\ LET occurrence == SourceCall(loop[a].req, Call(a).id)
     IN  IF occurrence \notin DOMAIN ledger
         THEN /\ Move(a, "tool")
              /\ loop' = [loop EXCEPT ![a].queue = Tail(@), ![a].current = Call(a)]
         ELSE IF ledger[occurrence] # Call(a)
         THEN End(a, "failed")
         ELSE /\ loop' = Put(loop, a, [append_tool_result(loop[a], Call(a), ledger[occurrence])
                                         EXCEPT !.queue = Tail(@)])
              /\ UNCHANGED <<phase, attempt, stop, input, outcome>>
  /\ UNCHANGED <<policy, budget, shared, run>>

\* A Host tool: the same under a request identity of its own.
HostToolCall(a) ==
  /\ phase[a] = "calls" /\ loop[a].queue # <<>> /\ ~Rejected(a)
  /\ Call(a).args # "bad" /\ Call(a).tool \notin Sources
  /\ nextId' = nextId + 1
  /\ IF Request(nextId) \notin DOMAIN ledger
     THEN /\ Move(a, "tool")
          /\ loop' = [loop EXCEPT ![a].queue = Tail(@), ![a].current = Call(a),
                                  ![a].toolReq = nextId]
     ELSE IF ledger[Request(nextId)] # Call(a)
     THEN End(a, "failed")
     ELSE /\ loop' = Put(loop, a, [append_tool_result(loop[a], Call(a), ledger[Request(nextId)])
                                     EXCEPT !.queue = Tail(@)])
          /\ UNCHANGED <<phase, attempt, stop, input, outcome>>
  /\ UNCHANGED <<policy, budget, ledger, run>>

\* Mutant: the choice is relaxed after a round, whether or not a tool has run.
NextRound_Relaxes(a) ==
  /\ phase[a] = "calls" /\ loop[a].queue = <<>>
  /\ Move(a, "model")
  /\ loop' = [loop EXCEPT ![a].choice = "auto", ![a].req = nextId]
  /\ nextId' = nextId + 1
  /\ UNCHANGED <<policy, budget, ledger, run>>

\* Every call is answered: the next request.  A tool that was required and
\* has run is not offered again.
NextRound(a) ==
  /\ phase[a] = "calls" /\ loop[a].queue = <<>>
  /\ Move(a, "model")
  /\ loop' = [loop EXCEPT
       ![a].tools = @ /\ ~(loop[a].completed /\ loop[a].choice # "auto"),
       ![a].choice = IF loop[a].completed THEN "auto" ELSE @,
       ![a].req = nextId]
  /\ nextId' = nextId + 1
  /\ UNCHANGED <<policy, budget, ledger, run>>

\* dispatch::tool::begin once the policy allows the call: the body of a source
\* tool runs on the agent's machine, a Host tool is awaited or, past the
\* deadline, fails.
DispatchTool(a) ==
  /\ phase[a] = "tool"
  /\ nextId' = nextId + 1
  /\ \/ /\ loop[a].current.tool \in Sources
        /\ Move(a, "running") /\ UNCHANGED loop
     \/ /\ loop[a].current.tool \notin Sources
        /\ Move(a, "waiting") /\ UNCHANGED loop
     \/ /\ loop[a].current.tool \notin Sources
        /\ BoundaryFailure(a)
  /\ UNCHANGED <<policy, budget, ledger, run>>

\* resume_tool_host_result.
ToolResult(a) ==
  /\ Polled(a) /\ loop[a].current # NoCall
  /\ IF input[a].kind = "error"
     THEN BoundaryFailure(a) /\ UNCHANGED shared
     ELSE /\ Move(a, "calls")
          /\ ledger' = Record(Request(loop[a].toolReq), loop[a].current)
          /\ loop' = Put(loop, a, append_tool_result(loop[a], loop[a].current, loop[a].current))
          /\ UNCHANGED nextId
  /\ UNCHANGED <<policy, budget, run>>

\* resume_source_tool_value, reached by the value or the return of the body.
ToolReturns(a) ==
  /\ phase[a] = "running" /\ MyTurn(a)
  /\ Move(a, "calls")
  /\ ledger' = Record(SourceCall(loop[a].req, loop[a].current.id), loop[a].current)
  /\ loop' = Put(loop, a, append_tool_result(loop[a], loop[a].current, loop[a].current))
  /\ UNCHANGED <<policy, budget, nextId, run>>

\* The value cannot be encoded or does not match the output schema.
ToolMisbehaves(a) ==
  /\ phase[a] = "running" /\ MyTurn(a)
  /\ End(a, "failed")
  /\ UNCHANGED <<policy, budget, shared, run>>

\* The body raises a typed error: it leaves the model loop, and no retry scope
\* stops it.
ToolRaises(a) ==
  /\ phase[a] = "running" /\ MyTurn(a)
  /\ End(a, "raised")
  /\ UNCHANGED <<policy, budget, shared, run>>

\* The body performs an action that a handler outside the agent takes: the
\* SourceToolReturn frame moves into the continuation.
HandlerTakes(a) ==
  /\ phase[a] = "running" /\ MyTurn(a) /\ captures < MaxCaptures
  /\ Move(a, "captured")
  /\ captures' = captures + 1
  /\ UNCHANGED <<policy, loop, budget, shared, restarts, barrier>>

HandlerResumes(a) ==
  /\ phase[a] = "captured" /\ MyTurn(a)
  /\ Move(a, "running")
  /\ UNCHANGED <<policy, loop, budget, shared, run>>

\* The arm ends with a value of its own, which becomes the value of the task,
\* and the continuation is dropped.
HandlerFinishes(a) ==
  /\ phase[a] = "captured" /\ MyTurn(a)
  /\ End(a, "finished")
  /\ UNCHANGED <<policy, budget, shared, run>>

-----------------------------------------------------------------------------
\* A checkpoint closes the barrier between two turns.  (That an answer left by a
\* task that has ended breaks the barrier is the subject of TaskDriver.)
EnterBarrier ==
  /\ Driving = {} /\ ~barrier /\ restarts < MaxRestarts
  /\ \E a \in Agents : phase[a] # "ended"
  /\ \A a \in Agents : phase[a] = "ended" => reservation[a] = 0
  /\ barrier' = TRUE
  /\ UNCHANGED <<policy, agents, budget, shared, captures, restarts>>

\* Mutant: the snapshot leaves out the round, and restoring starts from zero.
Capture_WithoutRound(f) == [f EXCEPT !.round = 0]

\* ModelLoopFrameSnapshot::capture: the progress of the loop, and the request
\* with its messages, tools and choice.
Capture(f) == f

\* Every answer is committed.  The run is stopped and resumed from the
\* checkpoint; what it did between the two leaves no trace in this state, so one
\* step stands for both.
Resume ==
  /\ barrier /\ \A a \in Agents : phase[a] \notin {"waiting", "ready"}
  /\ barrier' = FALSE
  /\ restarts' = restarts + 1
  /\ loop' = [a \in Agents |-> Capture(loop[a])]
  /\ UNCHANGED <<policy, phase, attempt, stop, input, outcome, budget, shared, captures>>

\* Every task has ended and the race has returned.
Ended ==
  /\ \A a \in Agents : phase[a] = "ended"
  /\ UNCHANGED vars

Next ==
  \/ \E a \in Agents :
       \/ Begin(a) \/ IncompatibleLimits(a) \/ Denied(a) \/ DispatchModel(a) \/ HostAnswers(a)
       \/ CommitModel(a) \/ CommitTool(a) \/ Cancelled(a)
       \/ ModelFails(a) \/ ModelAnswers(a) \/ ModelCalls(a)
       \/ RejectCall(a) \/ InvalidCall(a) \/ SourceToolCall(a) \/ HostToolCall(a)
       \/ NextRound(a) \/ DispatchTool(a) \/ ToolResult(a)
       \/ ToolReturns(a) \/ ToolMisbehaves(a) \/ ToolRaises(a)
       \/ HandlerTakes(a) \/ HandlerResumes(a) \/ HandlerFinishes(a)
  \/ EnterBarrier \/ Resume \/ Ended

Spec == Init /\ [][Next]_vars

-----------------------------------------------------------------------------
\* The model is never asked to go on with a tool call unanswered: when its next
\* request is sent, every call of its last reply has one message, in order,
\* that comes from this call (eval/machine/model.rs append_tool_result) or, for
\* arguments that do not match the schema, from the validation.
ToolCallsAnswered ==
  \A a \in Agents :
    LET f == loop[a]
    IN  phase[a] \in {"model", "waiting", "ready"} /\ f.current = NoCall =>
          /\ Len(f.answered) = Len(f.asked)
          /\ \A i \in DOMAIN f.asked :
               /\ f.answered[i].id = f.asked[i].id
               /\ f.answered[i].by = IF f.asked[i].args = "bad" THEN NoCall ELSE f.asked[i]

\* An agent that requires a tool returns no decoded answer before such a tool
\* has run (ModelRepairPolicy::required_tool_choice, advance_tool_calls): not
\* after a call with invalid arguments, a repair, a retry or a resumed run.
RequiredToolHonoured ==
  \A a \in Agents :
    outcome[a] = "value" /\ policy.decode = "typed" =>
      CASE policy.choice = "auto" -> TRUE
        [] policy.choice = "any"  -> loop[a].done # {}
        [] OTHER                  -> policy.choice \in loop[a].done

\* max_tool_rounds bounds the requests of one inference, whichever mix of tool
\* rounds, repairs, suspensions and resumed runs they come from.
RoundsBounded == \A a \in Agents : loop[a].sent <= MaxRounds[a] + 1

\* The tokens that model calls have reserved, each with its agent.
Held == UNION {{a} \X (1..reservation[a]) : a \in Agents}

\* The shared budget holds exactly what the calls in flight or unanswered have
\* reserved, however many hold a part of it at once, concurrent agents never
\* overdraw it, whatever limits they have of their own, and an agent leaves the
\* Host without a reservation (driver/dispatch/model.rs begin and finish).
BudgetExact ==
  /\ reserved = Cardinality(Held)
  /\ consumed + reserved <= Tokens
  /\ \A a \in Agents : phase[a] \notin {"waiting", "ready", "ended"} => reservation[a] = 0

\* What the design asks of a cancellation: a confirmed external result is
\* recorded before its continuation is abandoned.  A task that lost the race
\* while its answer lay in the reactor is settled without
\* dispatch::model::finish, and its reservation stays.
ConfirmedResultsRecorded == \A a \in Agents : phase[a] = "ended" => reservation[a] = 0

=============================================================================
