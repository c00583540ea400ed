-------------------------- MODULE AgentLoopProofs --------------------------
(***************************************************************************)
(* What the model loop of an agent keeps true, for every set of agents,    *)
(* every reply, every limit of rounds, attempts and tokens, and however    *)
(* often the run is resumed.                                               *)
(*                                                                         *)
(* None of the four properties is inductive.  AgentInv adds what carries   *)
(* them from one request to the next: Progress says how the calls of a     *)
(* reply are split between those answered, the current one and the queue;  *)
(* PhaseOK ties the requests sent to the rounds and says when a frame may  *)
(* hold a call; ChoiceOK says that the choice of tools is relaxed only     *)
(* after a tool that satisfies it; IssuedOK and LedgerOK that what the     *)
(* ledger records has been issued, so that a fresh request replays         *)
(* nothing; BudgetInv that only a call at the Host, or one that was        *)
(* abandoned there, holds tokens, and that they are counted once.          *)
(***************************************************************************)
EXTENDS AgentLoop, FiniteSetTheorems, TLAPS

LoopFields == {"first", "req", "round", "choice", "tools", "queue", "current", "toolReq",
               "completed", "asked", "answered", "sent", "done"}
Messages == [id : Nat, by : Calls \cup {NoCall}]
Phases == {"idle", "model", "waiting", "ready", "input", "saved", "calls", "tool", "running",
           "captured", "ended"}

\* The message that answers a call.
Answer(call) == [id |-> call.id, by |-> IF call.args = "bad" THEN NoCall ELSE call]

\* The calls of a reply are answered in order: those before the current one are,
\* those behind it are queued.
Progress(f) ==
  LET n == Len(f.answered)
      held == IF f.current = NoCall THEN 0 ELSE 1
  IN  /\ Len(f.asked) = n + held + Len(f.queue)
      /\ \A i \in 1..n : f.answered[i] = Answer(f.asked[i])
      /\ f.current # NoCall => f.current = f.asked[n + 1] /\ f.current.args # "bad"
      /\ \A i \in 1..Len(f.queue) : f.queue[i] = f.asked[n + held + i]

FrameOK(a, f) ==
  /\ DOMAIN f = LoopFields
  /\ f.round \in 0..MaxRounds[a] /\ f.sent \in Nat /\ f.first \in Nat /\ f.toolReq \in Nat
  /\ f.queue \in Seq(Calls) /\ f.asked \in Seq(Calls) /\ f.answered \in Seq(Messages)
  /\ f.current \in Calls \cup {NoCall}
  /\ Progress(f)

\* A tool that satisfies the agent's declaration has run.
Ran(done) ==
  /\ policy.choice = "any" => done # {}
  /\ policy.choice \notin {"auto", "any"} => policy.choice \in done

\* The choice is relaxed only after such a tool, and the current call is of one.
ChoiceOK(f) ==
  /\ f.choice # policy.choice => f.choice = "auto" /\ Ran(f.done)
  /\ f.completed => Ran(f.done)
  /\ f.current # NoCall /\ f.choice \notin {"auto", "any"} => f.current.tool = f.choice

\* The model has the next word: no call is being answered.
AtModel(p, f) == p \in {"model", "waiting", "ready", "input", "saved"} /\ f.current = NoCall

PhaseOK(a, p, f) ==
  /\ p \in Phases
  /\ p \in {"model", "calls"} => f.current = NoCall
  /\ p \in {"tool", "running", "captured"} => f.current # NoCall
  /\ AtModel(p, f) => f.queue = <<>>
  /\ f.sent <= f.round + (IF AtModel(p, f) /\ p # "model" THEN 1 ELSE 0)
  /\ p \notin {"idle", "ended"} => ChoiceOK(f)

InputOK(f, i) ==
  /\ i.kind \in {"final", "junk", "calls"} => f.current = NoCall
  /\ i.kind = "calls" => i.calls \in Seq(Calls)

\* Requests that are recorded, or will be, have an identity that was issued.
IssuedOK(p, f) == p \notin {"idle", "ended"} => f.first < nextId /\ f.toolReq < nextId

OutcomeOK(p, f, o) ==
  /\ o # "none" => p = "ended"
  /\ o = "value" /\ policy.decode = "typed" => Ran(f.done)

AgentOK(a) ==
  /\ FrameOK(a, loop[a]) /\ PhaseOK(a, phase[a], loop[a])
  /\ InputOK(loop[a], input[a]) /\ IssuedOK(phase[a], loop[a])
  /\ OutcomeOK(phase[a], loop[a], outcome[a])

TypeInv ==
  /\ DOMAIN phase = Agents /\ DOMAIN loop = Agents /\ DOMAIN input = Agents
  /\ DOMAIN outcome = Agents /\ nextId \in Nat

LedgerOK == \A n \in Nat : Request(n) \in DOMAIN ledger => n < nextId

\* A call reserves part of what remains, and returns it with its answer.
BudgetInv ==
  /\ reservation \in [Agents -> Nat] /\ consumed \in Nat /\ reserved \in Nat
  /\ IsFiniteSet(Held) /\ reserved = Cardinality(Held)
  /\ consumed + reserved <= Tokens
  /\ \A a \in Agents : reservation[a] # 0 =>
       /\ phase[a] \in {"waiting", "ready", "ended"}
       /\ phase[a] # "ended" => loop[a].current = NoCall

AgentInv == TypeInv /\ LedgerOK /\ (\A a \in Agents : AgentOK(a)) /\ BudgetInv


-----------------------------------------------------------------------------
\* A frame that holds no calls and has sent nothing.
Bare(f, id, choice) ==
  /\ DOMAIN f = LoopFields
  /\ f.first = id /\ f.round = 0 /\ f.choice = choice /\ f.queue = <<>> /\ f.current = NoCall
  /\ f.toolReq = 0 /\ f.completed = FALSE /\ f.asked = <<>> /\ f.answered = <<>> /\ f.sent = 0

\* What the frames of a new, a restarted and an ended agent hold.
LEMMA NewFrame == \A id : Bare(NewLoop(id), id, policy.choice) /\ NewLoop(id).done = {}
  BY DEF NewLoop, Bare, LoopFields

\* An agent that has not begun, or starts again, has the bare frame.
LEMMA NoFrame == Bare(NoLoop, 0, "auto") /\ NoLoop.done = {}
<1>1. PICK f : f = NewLoop(0)
  OBVIOUS
<1>2. Bare(f, 0, policy.choice) /\ f.done = {}
  BY <1>1, NewFrame
<1>3. NoLoop = [f EXCEPT !.choice = "auto"]
  BY <1>1 DEF NoLoop
<1> QED BY <1>2, <1>3 DEF Bare, LoopFields

\* An agent that ends has it too, and keeps what its tools have done.
LEMMA DroppedFrame == ASSUME NEW a PROVE Bare(Dropped(a), 0, "auto") /\ Dropped(a).done = loop[a].done
<1>1. PICK f : f = NoLoop
  OBVIOUS
<1>2. Bare(f, 0, "auto")
  BY <1>1, NoFrame
<1>3. Dropped(a) = [f EXCEPT !.done = loop[a].done]
  BY <1>1 DEF Dropped
<1> QED BY <1>2, <1>3 DEF Bare, LoopFields

\* A frame without calls is in order.
LEMMA BareFrame ==
  ASSUME NEW a \in Agents, NEW f, DOMAIN f = LoopFields, f.round \in 0..MaxRounds[a], f.sent \in Nat,
         f.first \in Nat, f.toolReq \in Nat, f.queue = <<>>, f.asked = <<>>, f.answered = <<>>,
         f.current = NoCall
  PROVE  FrameOK(a, f)
<1>1. Progress(f)
  BY DEF Progress
<1> QED BY <1>1 DEF FrameOK

-----------------------------------------------------------------------------
\* An agent that nobody touches.
LEMMA KeptAgent ==
  ASSUME NEW b, AgentOK(b), phase'[b] = phase[b], loop'[b] = loop[b], input'[b] = input[b],
         outcome'[b] = outcome[b], policy' = policy, nextId \in Nat, nextId' \in Nat, nextId <= nextId'
  PROVE  AgentOK(b)'
<1>1. FrameOK(b, loop[b])' /\ PhaseOK(b, phase[b], loop[b])' /\ InputOK(loop[b], input[b])'
  BY DEF AgentOK, FrameOK, Progress, Answer, PhaseOK, AtModel, ChoiceOK, Ran, InputOK
<1>2. IssuedOK(phase[b], loop[b])'
  BY DEF AgentOK, IssuedOK, FrameOK
<1>3. OutcomeOK(phase[b], loop[b], outcome[b])'
  BY DEF AgentOK, OutcomeOK, Ran
<1> QED BY <1>1, <1>2, <1>3 DEF AgentOK

\* The tokens of an agent, and those of the others.
Share(a, n) == {a} \X (1..n)
Others(a) == UNION {{b} \X (1..reservation[b]) : b \in Agents \ {a}}

\* The share of an agent is a part of its own.
LEMMA ShareSize ==
  ASSUME NEW a, NEW n \in Nat PROVE IsFiniteSet(Share(a, n)) /\ Cardinality(Share(a, n)) = n
<1>1. IsFiniteSet({a}) /\ Cardinality({a}) = 1
  BY FS_Singleton
<1>2. IsFiniteSet(1..n) /\ Cardinality(1..n) = n
  BY FS_Interval
<1>3. IsFiniteSet({a} \X (1..n)) /\ Cardinality({a} \X (1..n)) = Cardinality({a}) * Cardinality(1..n)
  BY <1>1, <1>2, FS_Product
<1> QED BY <1>1, <1>2, <1>3 DEF Share

\* What is held is the share of an agent and, apart from it, those of the others.
LEMMA HeldSplits ==
  ASSUME NEW a \in Agents
  PROVE  Held = Others(a) \cup Share(a, reservation[a]) /\ \A n : Others(a) \cap Share(a, n) = {}
  BY DEF Held, Others, Share

\* A reservation adds what it takes.
LEMMA HeldGrows ==
  ASSUME NEW a \in Agents, NEW n \in Nat, reservation \in [Agents -> Nat], reservation[a] = 0,
         reservation' = Put(reservation, a, n), IsFiniteSet(Held)
  PROVE  IsFiniteSet(Held') /\ Cardinality(Held') = Cardinality(Held) + n
<1>1. reservation'[a] = n /\ \A b \in Agents \ {a} : reservation'[b] = reservation[b]
  BY DEF Put
<1>2. Others(a)' = Others(a)
  BY <1>1 DEF Others
<1>3. Held = Others(a) /\ Others(a) \cap Share(a, n) = {}
  BY HeldSplits DEF Share
<1>4. Held' = Held \cup Share(a, n)
  BY <1>1, <1>2, <1>3 DEF Held, Others, Share
<1>5. IsFiniteSet(Share(a, n)) /\ Cardinality(Share(a, n)) = n /\ Cardinality(Held) \in Nat
  BY ShareSize, FS_CardinalityType
<1>6. Cardinality(Held \cup Share(a, n)) = Cardinality(Held) + n - Cardinality({}) /\ IsFiniteSet(Held \cup Share(a, n))
  BY <1>3, <1>5, FS_Union
<1> QED BY <1>4, <1>5, <1>6, FS_EmptySet

\* A reservation that is given back takes away what it had added.
LEMMA HeldShrinks ==
  ASSUME NEW a \in Agents, reservation \in [Agents -> Nat], reservation' = Put(reservation, a, 0), IsFiniteSet(Held)
  PROVE  /\ IsFiniteSet(Held') /\ Cardinality(Held') \in Nat
         /\ Cardinality(Held') = Cardinality(Held) - reservation[a]
<1>1. reservation'[a] = 0 /\ (\A b \in Agents \ {a} : reservation'[b] = reservation[b]) /\ reservation[a] \in Nat
  BY DEF Put
<1>2. Others(a)' = Others(a)
  BY <1>1 DEF Others
<1>3. Held = Others(a) \cup Share(a, reservation[a]) /\ Others(a) \cap Share(a, reservation[a]) = {}
  BY HeldSplits
<1>4. Held' = Others(a)
  BY <1>1, <1>2 DEF Held, Others
<1>5. IsFiniteSet(Others(a)) /\ Cardinality(Others(a)) \in Nat /\ Cardinality(Held) \in Nat
  BY <1>3, FS_Subset, FS_CardinalityType
<1>6. IsFiniteSet(Share(a, reservation[a])) /\ Cardinality(Share(a, reservation[a])) = reservation[a]
  BY <1>1, ShareSize
<1>7. Cardinality(Held) = Cardinality(Others(a)) + reservation[a] - Cardinality({})
  BY <1>3, <1>5, <1>6, FS_Union
<1> QED BY <1>1, <1>4, <1>5, <1>7, FS_EmptySet

\* The budget is kept by a step that settles no call, and that no agent with a
\* reservation leaves the Host by, but to end.
LEMMA BudgetKept ==
  ASSUME BudgetInv, UNCHANGED budget,
         \A b \in Agents : reservation[b] # 0 =>
           \/ phase'[b] = "ended"
           \/ phase'[b] \in {"waiting", "ready"} /\ loop'[b].current = NoCall
  PROVE  BudgetInv'
<1>1. UNCHANGED <<reservation, consumed, reserved>>
  BY DEF budget
<1>2. Held' = Held
  BY <1>1 DEF Held
<1> QED BY <1>1, <1>2 DEF BudgetInv

\* A step of one agent.
LEMMA OneAgent ==
  ASSUME AgentInv, NEW a \in Agents, policy' = policy, nextId' \in Nat, nextId <= nextId', LedgerOK',
         DOMAIN phase' = Agents, DOMAIN loop' = Agents, DOMAIN input' = Agents, outcome' = outcome,
         \A b \in Agents \ {a} : phase'[b] = phase[b] /\ loop'[b] = loop[b] /\ input'[b] = input[b],
         AgentOK(a)', BudgetInv'
  PROVE  AgentInv'
<1>1. ASSUME NEW b \in Agents \ {a} PROVE AgentOK(b)'
  BY <1>1, KeptAgent DEF AgentInv, TypeInv
<1>2. \A b \in Agents : AgentOK(b)'
  BY <1>1
<1>3. TypeInv'
  BY DEF AgentInv, TypeInv
<1> QED BY <1>2, <1>3 DEF AgentInv

\* A task ends, and those that lose the race with it.
LEMMA EndAgents ==
  ASSUME AgentInv, NEW a \in Agents, NEW how, End(a, how), how # "none",
         policy' = policy, nextId' \in Nat, nextId <= nextId', LedgerOK', UNCHANGED budget,
         how = "value" /\ policy.decode = "typed" => Ran(loop[a].done)
  PROVE  AgentInv'
<1> DEFINE gone == {a} \union {b \in Losers(a, how) : phase[b] # "waiting"}
<1>1. TypeInv'
  BY DEF AgentInv, TypeInv, End
<1>2. ASSUME NEW b \in Agents, b \notin gone PROVE AgentOK(b)' /\ phase'[b] = phase[b] /\ loop'[b] = loop[b]
  <2>1. phase'[b] = phase[b] /\ loop'[b] = loop[b] /\ input'[b] = input[b] /\ outcome'[b] = outcome[b]
    BY <1>2 DEF End
  <2> QED BY <2>1, KeptAgent DEF AgentInv, TypeInv
<1>3. ASSUME NEW b \in Agents, b \in gone PROVE AgentOK(b)' /\ phase'[b] = "ended"
  <2>1. PICK f : f = Dropped(b)
    OBVIOUS
  <2>2. /\ phase'[b] = "ended" /\ loop'[b] = f /\ input'[b] = NoInput
        /\ outcome'[b] = IF b = a THEN how ELSE "cancelled"
    BY <1>3, <2>1 DEF End
  <2>3. /\ DOMAIN f = LoopFields
        /\ f.first = 0 /\ f.round = 0 /\ f.choice = "auto" /\ f.queue = <<>> /\ f.current = NoCall
        /\ f.toolReq = 0 /\ f.completed = FALSE /\ f.asked = <<>> /\ f.answered = <<>> /\ f.sent = 0
        /\ f.done = loop[b].done
    BY <2>1, DroppedFrame DEF Bare
  <2>4. 0 \in 0..MaxRounds[b]
    BY AgentConstants
  <2>5. FrameOK(b, f)
    BY <2>3, <2>4, BareFrame
  <2>6. FrameOK(b, loop[b])'
    BY <2>2, <2>5 DEF FrameOK, Progress, Answer
  <2>7. PhaseOK(b, phase[b], loop[b])'
    BY <2>2, <2>3 DEF PhaseOK, Phases, AtModel
  <2>8. InputOK(loop[b], input[b])' /\ IssuedOK(phase[b], loop[b])'
    BY <2>2 DEF InputOK, NoInput, IssuedOK
  <2>9. OutcomeOK(phase[b], loop[b], outcome[b])'
    BY <2>2, <2>3 DEF OutcomeOK, Ran
  <2> QED BY <2>2, <2>6, <2>7, <2>8, <2>9 DEF AgentOK
<1>4. BudgetInv'
  <2>1. ASSUME NEW b \in Agents, reservation[b] # 0, phase'[b] # "ended"
        PROVE  phase'[b] \in {"waiting", "ready"} /\ loop'[b].current = NoCall
    BY <1>2, <1>3, <2>1 DEF AgentInv, BudgetInv
  <2> QED BY <2>1, BudgetKept DEF AgentInv
<1>5. \A b \in Agents : AgentOK(b)'
  BY <1>2, <1>3
<1> QED BY <1>1, <1>4, <1>5 DEF AgentInv

-----------------------------------------------------------------------------
\* Initially no agent has begun.
LEMMA InitAgents == Init => AgentInv
<1> SUFFICES ASSUME Init PROVE AgentInv
  OBVIOUS
<1>1. TypeInv /\ LedgerOK
  BY DEF Init, TypeInv, LedgerOK
<1>2. BudgetInv
  <2>1. reservation = [a \in Agents |-> 0] /\ consumed = 0 /\ reserved = 0 /\ Tokens \in Nat
    BY AgentConstants DEF Init
  <2>2. Held = {}
    BY <2>1 DEF Held
  <2> QED BY <2>1, <2>2, FS_EmptySet DEF BudgetInv
<1>3. ASSUME NEW a \in Agents PROVE AgentOK(a)
  <2>1. /\ phase[a] = "idle" /\ loop[a] = NoLoop /\ input[a] = NoInput /\ outcome[a] = "none"
        /\ 0 \in 0..MaxRounds[a]
    BY AgentConstants DEF Init
  <2>2. Bare(NoLoop, 0, "auto")
    BY NoFrame
  <2>3. FrameOK(a, NoLoop)
    BY <2>1, <2>2, BareFrame DEF Bare
  <2>4. PhaseOK(a, "idle", NoLoop)
    BY <2>2 DEF PhaseOK, Phases, AtModel, Bare
  <2> QED BY <2>1, <2>3, <2>4 DEF AgentOK, InputOK, NoInput, IssuedOK, OutcomeOK
<1> QED BY <1>1, <1>2, <1>3 DEF AgentInv

-----------------------------------------------------------------------------
\* How the calls of a frame move on.

Untouched(f, g) ==
  /\ DOMAIN g = LoopFields
  /\ g.round = f.round /\ g.sent = f.sent /\ g.first = f.first /\ g.asked = f.asked

\* The next call becomes the current one.
LEMMA TakeCall ==
  ASSUME NEW a, NEW f, NEW g, FrameOK(a, f), Untouched(f, g), f.current = NoCall, f.queue # <<>>,
         Head(f.queue).args # "bad", Head(f.queue) # NoCall, g.toolReq \in Nat,
         g.queue = Tail(f.queue), g.current = Head(f.queue), g.answered = f.answered
  PROVE  FrameOK(a, g)
<1>1. f.queue \in Seq(Calls) /\ f.answered \in Seq(Messages) /\ f.asked \in Seq(Calls)
  BY DEF FrameOK
<1>2. PICK n \in Nat, k \in Nat, m \in Nat : n = Len(f.answered) /\ k = Len(f.queue) /\ m = Len(f.asked)
  BY <1>1
<1>3. k > 0 /\ g.queue \in Seq(Calls) /\ Len(g.queue) = k - 1 /\ g.current \in Calls
      /\ g.current = f.queue[1] /\ \A i \in 1..(k - 1) : g.queue[i] = f.queue[i + 1]
  BY <1>1, <1>2
<1>4. /\ m = n + k
      /\ \A i \in 1..k : f.queue[i] = f.asked[n + i]
      /\ \A i \in 1..n : f.answered[i] = Answer(f.asked[i])
  <2>1. Progress(f)
    BY DEF FrameOK
  <2>2. /\ m = n + 0 + k
        /\ \A i \in 1..k : f.queue[i] = f.asked[n + 0 + i]
        /\ \A i \in 1..n : f.answered[i] = Answer(f.asked[i])
    BY <1>2, <2>1 DEF Progress
  <2> QED BY <2>2
<1>5. Len(g.answered) = n /\ Len(g.asked) = m /\ g.asked = f.asked
  BY <1>2 DEF Untouched
<1>6. Progress(g)
  <2>1. Len(g.asked) = Len(g.answered) + 1 + Len(g.queue)
    <3>1. m = n + 1 + (k - 1)
      BY <1>4
    <3> QED BY <1>3, <1>5, <3>1
  <2>2. \A i \in 1..Len(g.answered) : g.answered[i] = Answer(g.asked[i])
    BY <1>4, <1>5
  <2>3. g.current = g.asked[Len(g.answered) + 1] /\ g.current.args # "bad" /\ g.current # NoCall
    BY <1>3, <1>4, <1>5
  <2>4. \A i \in 1..Len(g.queue) : g.queue[i] = g.asked[Len(g.answered) + 1 + i]
    <3> SUFFICES ASSUME NEW i \in 1..(k - 1) PROVE g.queue[i] = f.asked[n + 1 + i]
      BY <1>3, <1>5
    <3>1. i + 1 \in 1..k /\ g.queue[i] = f.queue[i + 1] /\ n + 1 + i = n + (i + 1)
      BY <1>3
    <3> QED BY <1>4, <3>1
  <2> QED BY <2>1, <2>2, <2>3, <2>4 DEF Progress
<1> QED BY <1>3, <1>6 DEF FrameOK, Untouched

\* The next call is answered at once.
LEMMA AnswerCall ==
  ASSUME NEW a, NEW f, NEW g, FrameOK(a, f), Untouched(f, g), f.current = NoCall, f.queue # <<>>,
         g.toolReq \in Nat, g.current = NoCall,
         g.queue = Tail(f.queue), g.answered = Append(f.answered, Answer(Head(f.queue)))
  PROVE  FrameOK(a, g)
<1>1. f.queue \in Seq(Calls) /\ f.answered \in Seq(Messages) /\ f.asked \in Seq(Calls)
  BY DEF FrameOK
<1>2. PICK n \in Nat, k \in Nat, m \in Nat : n = Len(f.answered) /\ k = Len(f.queue) /\ m = Len(f.asked)
  BY <1>1
<1>3. /\ k > 0 /\ g.queue \in Seq(Calls) /\ Len(g.queue) = k - 1
      /\ Head(f.queue) = f.queue[1] /\ Head(f.queue) \in Calls
      /\ \A i \in 1..(k - 1) : g.queue[i] = f.queue[i + 1]
  BY <1>1, <1>2
<1>4. /\ m = n + k
      /\ \A i \in 1..k : f.queue[i] = f.asked[n + i]
      /\ \A i \in 1..n : f.answered[i] = Answer(f.asked[i])
  <2>1. Progress(f)
    BY DEF FrameOK
  <2>2. /\ m = n + 0 + k
        /\ \A i \in 1..k : f.queue[i] = f.asked[n + 0 + i]
        /\ \A i \in 1..n : f.answered[i] = Answer(f.asked[i])
    BY <1>2, <2>1 DEF Progress
  <2> QED BY <2>2
<1>5. Answer(Head(f.queue)) \in Messages
  BY <1>3 DEF Answer, Messages, Calls
<1>6. /\ g.answered \in Seq(Messages) /\ Len(g.answered) = n + 1
      /\ g.answered[n + 1] = Answer(Head(f.queue))
      /\ \A i \in 1..n : g.answered[i] = f.answered[i]
  BY <1>1, <1>2, <1>5
<1>7. Len(g.asked) = m /\ g.asked = f.asked
  BY <1>2 DEF Untouched
<1>8. Progress(g)
  <2>1. Len(g.asked) = Len(g.answered) + 0 + Len(g.queue)
    <3>1. m = (n + 1) + 0 + (k - 1)
      BY <1>4
    <3> QED BY <1>3, <1>6, <1>7, <3>1
  <2>2. \A i \in 1..Len(g.answered) : g.answered[i] = Answer(g.asked[i])
    <3> SUFFICES ASSUME NEW i \in 1..(n + 1) PROVE g.answered[i] = Answer(f.asked[i])
      BY <1>6, <1>7
    <3>1. CASE i \in 1..n
      BY <1>4, <1>6, <3>1
    <3>2. CASE i = n + 1
      <4>1. f.queue[1] = f.asked[n + 1]
        BY <1>3, <1>4
      <4> QED BY <1>3, <1>6, <3>2, <4>1
    <3>3. i \in 1..n \/ i = n + 1
      OBVIOUS
    <3> QED BY <3>1, <3>2, <3>3
  <2>3. \A i \in 1..Len(g.queue) : g.queue[i] = g.asked[Len(g.answered) + 0 + i]
    <3> SUFFICES ASSUME NEW i \in 1..(k - 1) PROVE g.queue[i] = f.asked[n + 1 + 0 + i]
      BY <1>3, <1>6, <1>7
    <3>1. i + 1 \in 1..k /\ g.queue[i] = f.queue[i + 1] /\ n + 1 + 0 + i = n + (i + 1)
      BY <1>3
    <3> QED BY <1>4, <3>1
  <2> QED BY <2>1, <2>2, <2>3 DEF Progress
<1> QED BY <1>3, <1>6, <1>8 DEF FrameOK, Untouched

\* The current call is answered by what it has returned.
LEMMA ReturnCall ==
  ASSUME NEW a, NEW f, NEW g, FrameOK(a, f), Untouched(f, g), f.current # NoCall,
         g.toolReq \in Nat, g.current = NoCall, g.queue = f.queue,
         g.answered = Append(f.answered, [id |-> f.current.id, by |-> f.current])
  PROVE  FrameOK(a, g)
<1>1. /\ f.queue \in Seq(Calls) /\ Len(f.queue) \in Nat /\ f.current \in Calls
      /\ f.answered \in Seq(Messages) /\ Len(f.answered) \in Nat /\ Len(f.asked) \in Nat
  BY DEF FrameOK
<1>2. /\ Len(f.asked) = Len(f.answered) + 1 + Len(f.queue)
      /\ f.current = f.asked[Len(f.answered) + 1] /\ f.current.args # "bad"
      /\ \A i \in 1..Len(f.queue) : f.queue[i] = f.asked[Len(f.answered) + 1 + i]
      /\ \A i \in 1..Len(f.answered) : f.answered[i] = Answer(f.asked[i])
  BY <1>1 DEF FrameOK, Progress
<1>3. [id |-> f.current.id, by |-> f.current] = Answer(f.current) /\ Answer(f.current) \in Messages
  BY <1>1, <1>2 DEF Answer, Messages, Calls
<1>4. /\ g.answered \in Seq(Messages) /\ Len(g.answered) = Len(f.answered) + 1
      /\ g.answered[Len(f.answered) + 1] = Answer(f.current)
      /\ \A i \in 1..Len(f.answered) : g.answered[i] = f.answered[i]
  BY <1>1, <1>3
<1>5. Progress(g)
  <2>1. Len(g.asked) = Len(g.answered) + 0 + Len(g.queue)
    BY <1>1, <1>2, <1>4 DEF Untouched
  <2>2. \A i \in 1..Len(g.answered) : g.answered[i] = Answer(g.asked[i])
    <3> SUFFICES ASSUME NEW i \in 1..Len(g.answered) PROVE g.answered[i] = Answer(g.asked[i])
      OBVIOUS
    <3>1. CASE i \in 1..Len(f.answered)
      BY <1>2, <1>4, <3>1 DEF Untouched
    <3>2. CASE i = Len(f.answered) + 1
      BY <1>1, <1>2, <1>4, <3>2 DEF Untouched
    <3> QED BY <1>1, <1>4, <3>1, <3>2
  <2>3. \A i \in 1..Len(g.queue) : g.queue[i] = g.asked[Len(g.answered) + 0 + i]
    BY <1>1, <1>2, <1>4 DEF Untouched
  <2> QED BY <2>1, <2>2, <2>3 DEF Progress
<1> QED BY <1>1, <1>4, <1>5 DEF FrameOK, Untouched

\* The calls of a new reply are queued.
LEMMA AskCalls ==
  ASSUME NEW a, NEW f, NEW g, FrameOK(a, f), DOMAIN g = LoopFields, NEW calls \in Seq(Calls),
         g.round \in 0..MaxRounds[a], g.sent = f.sent, g.first = f.first, g.toolReq = f.toolReq,
         g.current = NoCall, g.queue = calls, g.asked = calls, g.answered = <<>>
  PROVE  FrameOK(a, g)
<1>1. Len(g.queue) \in Nat /\ Len(g.answered) = 0 /\ g.answered \in Seq(Messages)
  OBVIOUS
<1>2. \A i \in 1..Len(g.queue) : g.queue[i] = g.asked[Len(g.answered) + 0 + i]
  BY <1>1
<1>3. Progress(g)
  BY <1>1, <1>2 DEF Progress
<1> QED BY <1>1, <1>3 DEF FrameOK

\* Its calls stay as they are.
LEMMA SameCalls ==
  ASSUME NEW a, NEW f, NEW g, FrameOK(a, f), DOMAIN g = LoopFields, g.round = f.round, g.sent \in Nat,
         g.first = f.first, g.toolReq = f.toolReq, g.current = f.current, g.queue = f.queue,
         g.asked = f.asked, g.answered = f.answered
  PROVE  FrameOK(a, g)
  BY DEF FrameOK, Progress

-----------------------------------------------------------------------------
\* What is known of one agent.
LEMMA AgentFacts ==
  ASSUME AgentInv, NEW a \in Agents
  PROVE  /\ FrameOK(a, loop[a]) /\ PhaseOK(a, phase[a], loop[a]) /\ InputOK(loop[a], input[a])
         /\ IssuedOK(phase[a], loop[a]) /\ OutcomeOK(phase[a], loop[a], outcome[a])
         /\ DOMAIN phase = Agents /\ DOMAIN loop = Agents /\ DOMAIN input = Agents
         /\ DOMAIN outcome = Agents /\ nextId \in Nat /\ LedgerOK /\ BudgetInv
         /\ DOMAIN loop[a] = LoopFields
  BY DEF AgentInv, AgentOK, TypeInv, FrameOK

\* An agent goes to phase p with frame g and input i.
LEMMA MoveAgent ==
  ASSUME AgentInv, NEW a \in Agents, NEW p, NEW g, NEW i, phase' = Put(phase, a, p),
         DOMAIN loop' = Agents, loop'[a] = g, \A b \in Agents \ {a} : loop'[b] = loop[b],
         input' = Put(input, a, i), outcome' = outcome, policy' = policy,
         nextId' \in Nat, nextId <= nextId', LedgerOK', BudgetInv',
         FrameOK(a, g), PhaseOK(a, p, g), InputOK(g, i), phase[a] # "ended",
         p \notin {"idle", "ended"} => g.first < nextId' /\ g.toolReq < nextId'
  PROVE  AgentInv'
<1>1. /\ DOMAIN phase' = Agents /\ phase'[a] = p /\ \A b \in Agents \ {a} : phase'[b] = phase[b]
      /\ DOMAIN input' = Agents /\ input'[a] = i /\ \A b \in Agents \ {a} : input'[b] = input[b]
  BY AgentFacts DEF Put
<1>2. outcome[a] = "none"
  BY AgentFacts DEF OutcomeOK
<1>3. FrameOK(a, loop[a])' /\ InputOK(loop[a], input[a])'
  BY <1>1 DEF FrameOK, Progress, Answer, InputOK
<1>4. PhaseOK(a, p, g)'
  BY DEF PhaseOK, AtModel, ChoiceOK, Ran
<1>5. PhaseOK(a, phase[a], loop[a])'
  BY <1>1, <1>4
<1>6. IssuedOK(phase[a], loop[a])'
  BY <1>1 DEF IssuedOK
<1>7. OutcomeOK(phase[a], loop[a], outcome[a])'
  BY <1>2 DEF OutcomeOK
<1>8. AgentOK(a)'
  BY <1>3, <1>5, <1>6, <1>7 DEF AgentOK
<1> QED BY <1>1, <1>8, OneAgent

\* A step by an agent that holds no reservation keeps the budget.
LEMMA OwnBudget ==
  ASSUME AgentInv, NEW a \in Agents, UNCHANGED budget, reservation[a] = 0,
         \A b \in Agents \ {a} : phase'[b] = phase[b] /\ loop'[b] = loop[b]
  PROVE  BudgetInv'
<1>1. BudgetInv
  BY AgentFacts
<1>2. ASSUME NEW b \in Agents, reservation[b] # 0
      PROVE  \/ phase'[b] = "ended"
             \/ phase'[b] \in {"waiting", "ready"} /\ loop'[b].current = NoCall
  BY <1>1, <1>2 DEF BudgetInv
<1> QED BY <1>1, <1>2, BudgetKept

\* Only a call at the Host, or one that was abandoned, holds tokens.
LEMMA NoReservation ==
  ASSUME AgentInv, NEW a \in Agents, phase[a] \notin {"waiting", "ready", "ended"} PROVE reservation[a] = 0
  BY AgentFacts DEF BudgetInv

\* Identities only grow, and nothing is recorded.
LEMMA LedgerKept ==
  ASSUME AgentInv, ledger' = ledger, nextId' \in Nat, nextId <= nextId' PROVE LedgerOK'
<1>1. LedgerOK /\ nextId \in Nat
  BY DEF AgentInv, TypeInv
<1> QED BY <1>1 DEF LedgerOK, Request

\* The retry scope starts again, or the task fails.
LEMMA BoundaryFails ==
  ASSUME AgentInv, NEW a \in Agents, BoundaryFailure(a), policy' = policy, nextId' \in Nat,
         nextId <= nextId', LedgerOK', UNCHANGED budget, phase[a] \notin {"waiting", "ready", "ended"}
  PROVE  AgentInv'
<1>1. CASE End(a, "failed")
  BY <1>1, EndAgents
<1>2. CASE /\ phase' = Put(phase, a, "idle") /\ loop' = Put(loop, a, NoLoop)
           /\ input' = Put(input, a, NoInput) /\ UNCHANGED <<stop, outcome>>
  <2>1. PICK g : g = NoLoop
    OBVIOUS
  <2>2. Bare(g, 0, "auto")
    BY <2>1, NoFrame
  <2>3. 0 \in 0..MaxRounds[a]
    BY AgentConstants
  <2>4. FrameOK(a, g)
    BY <2>2, <2>3, BareFrame DEF Bare
  <2>5. PhaseOK(a, "idle", g) /\ InputOK(g, NoInput)
    BY <2>2 DEF PhaseOK, Phases, AtModel, Bare, InputOK, NoInput
  <2>6. DOMAIN loop' = Agents /\ loop'[a] = g /\ \A b \in Agents \ {a} : loop'[b] = loop[b]
    BY <1>2, <2>1, AgentFacts DEF Put
  <2>7. \A b \in Agents \ {a} : phase'[b] = phase[b]
    BY <1>2, AgentFacts DEF Put
  <2>8. BudgetInv'
    BY <2>6, <2>7, NoReservation, OwnBudget
  <2> QED BY <1>2, <2>4, <2>5, <2>6, <2>8, MoveAgent
<1> QED BY <1>1, <1>2 DEF BoundaryFailure

-----------------------------------------------------------------------------
\* The model's turn.

\* begin_model: the request identity is fresh, so nothing is replayed for it.
LEMMA BeginStep == ASSUME AgentInv, NEW a \in Agents, Begin(a) PROVE AgentInv'
<1>1. /\ phase[a] = "idle" /\ nextId' = nextId + 1 /\ policy' = policy /\ ledger' = ledger
      /\ UNCHANGED budget
  BY DEF Begin
<1>2. nextId \in Nat /\ nextId' \in Nat /\ nextId <= nextId' /\ nextId < nextId'
  BY <1>1, AgentFacts
<1>3. LedgerOK'
  BY <1>1, <1>2, LedgerKept
<1>4. Request(nextId) \notin DOMAIN ledger
  BY <1>2, AgentFacts DEF LedgerOK
<1>5. Move(a, "model") /\ loop' = Put(loop, a, NewLoop(nextId))
  BY <1>4 DEF Begin
<1>6. PICK g : g = NewLoop(nextId)
  OBVIOUS
<1>7. Bare(g, nextId, policy.choice) /\ g.done = {}
  BY <1>6, NewFrame
<1>8. 0 \in 0..MaxRounds[a]
  BY AgentConstants
<1>9. FrameOK(a, g)
  BY <1>2, <1>7, <1>8, BareFrame DEF Bare
<1>10. PhaseOK(a, "model", g) /\ InputOK(g, NoInput) /\ g.first < nextId' /\ g.toolReq < nextId'
  BY <1>2, <1>7 DEF PhaseOK, Phases, AtModel, Bare, ChoiceOK, InputOK, NoInput
<1>11. DOMAIN loop' = Agents /\ loop'[a] = g /\ \A b \in Agents \ {a} : loop'[b] = loop[b]
  BY <1>5, <1>6, AgentFacts DEF Put
<1>12. phase' = Put(phase, a, "model") /\ input' = Put(input, a, NoInput) /\ outcome' = outcome
  BY <1>5 DEF Move
<1>13. \A b \in Agents \ {a} : phase'[b] = phase[b]
  BY <1>12, AgentFacts DEF Put
<1>14. BudgetInv'
  BY <1>1, <1>11, <1>13, NoReservation, OwnBudget
<1> QED BY <1>1, <1>2, <1>3, <1>9, <1>10, <1>11, <1>12, <1>14, MoveAgent

\* The limits of the agent are refused: the task ends.
LEMMA LimitsStep == ASSUME AgentInv, NEW a \in Agents, IncompatibleLimits(a) PROVE AgentInv'
<1>1. /\ nextId' = nextId /\ policy' = policy /\ ledger' = ledger /\ UNCHANGED budget /\ End(a, "failed")
  BY DEF IncompatibleLimits, shared
<1>2. nextId' \in Nat /\ nextId <= nextId'
  BY <1>1, AgentFacts
<1> QED BY <1>1, <1>2, LedgerKept, EndAgents

\* authorize_before_boundary refuses: the task ends.
LEMMA DeniedStep == ASSUME AgentInv, NEW a \in Agents, Denied(a) PROVE AgentInv'
<1>1. /\ nextId' = nextId + 1 /\ policy' = policy /\ ledger' = ledger /\ UNCHANGED budget
      /\ End(a, "denied")
  BY DEF Denied
<1>2. nextId' \in Nat /\ nextId <= nextId'
  BY <1>1, AgentFacts
<1> QED BY <1>1, <1>2, LedgerKept, EndAgents

\* dispatch::model::begin reserves no more than remains.
LEMMA DispatchModelStep == ASSUME AgentInv, NEW a \in Agents, DispatchModel(a) PROVE AgentInv'
<1>1. /\ phase[a] = "model" /\ nextId' = nextId + 1 /\ policy' = policy /\ ledger' = ledger
  BY DEF DispatchModel
<1>2. nextId \in Nat /\ nextId' \in Nat /\ nextId <= nextId'
  BY <1>1, AgentFacts
<1>3. LedgerOK'
  BY <1>1, <1>2, LedgerKept
<1>4. CASE BoundaryFailure(a) /\ UNCHANGED budget
  BY <1>1, <1>2, <1>3, <1>4, BoundaryFails
<1>5. ASSUME NEW n \in Remaining(a) \ {0}, Move(a, "waiting"), loop' = [loop EXCEPT ![a].sent = @ + 1],
             reservation' = Put(reservation, a, n), reserved' = reserved + n, UNCHANGED consumed
      PROVE  AgentInv'
  <2>1. PICK f, g : f = loop[a] /\ g = loop'[a]
    OBVIOUS
  <2>2. FrameOK(a, f) /\ PhaseOK(a, "model", f) /\ IssuedOK("model", f) /\ DOMAIN f = LoopFields
    BY <1>1, <2>1, AgentFacts
  <2>3. DOMAIN loop' = Agents /\ loop'[a] = g /\ \A b \in Agents \ {a} : loop'[b] = loop[b]
    BY <1>5, <2>1, AgentFacts
  <2>4. /\ DOMAIN g = LoopFields /\ g.sent = f.sent + 1 /\ g.first = f.first /\ g.round = f.round
        /\ g.choice = f.choice /\ g.queue = f.queue /\ g.current = f.current /\ g.toolReq = f.toolReq
        /\ g.completed = f.completed /\ g.asked = f.asked /\ g.answered = f.answered /\ g.done = f.done
    BY <1>5, <2>1, <2>2, AgentFacts DEF LoopFields
  <2>5. f.sent \in Nat /\ f.round \in Nat
    BY <2>2 DEF FrameOK
  <2>6. FrameOK(a, g)
    BY <2>2, <2>4, <2>5, SameCalls
  <2>7. PhaseOK(a, "waiting", g) /\ g.current = NoCall
    BY <2>2, <2>4, <2>5 DEF PhaseOK, Phases, AtModel, ChoiceOK
  <2>8. InputOK(g, NoInput)
    BY DEF InputOK, NoInput
  <2>9. g.first < nextId' /\ g.toolReq < nextId'
    BY <1>1, <1>2, <2>2, <2>4 DEF IssuedOK, FrameOK
  <2>10. phase' = Put(phase, a, "waiting") /\ input' = Put(input, a, NoInput) /\ outcome' = outcome
    BY <1>5 DEF Move
  <2>11. phase'[a] = "waiting" /\ \A b \in Agents \ {a} : phase'[b] = phase[b]
    BY <2>10, AgentFacts DEF Put
  <2>12. BudgetInv'
    <3>1. BudgetInv /\ reservation[a] = 0
      BY <1>1, AgentFacts, NoReservation
    <3>2. Tokens \in Nat /\ consumed \in Nat /\ reserved \in Nat /\ reservation \in [Agents -> Nat]
          /\ consumed + reserved <= Tokens
      BY <3>1, AgentConstants DEF BudgetInv
    <3>3. n \in Nat /\ consumed + (reserved + n) <= Tokens
      BY <3>2, AgentConstants DEF Remaining
    <3>4. IsFiniteSet(Held') /\ Cardinality(Held') = Cardinality(Held) + n /\ reserved = Cardinality(Held)
      BY <1>5, <3>1, <3>3, HeldGrows DEF BudgetInv
    <3>5. /\ reservation' \in [Agents -> Nat] /\ \A b \in Agents \ {a} : reservation'[b] = reservation[b]
      BY <1>5, <3>2, <3>3 DEF Put
    <3>6. reserved' = Cardinality(Held') /\ consumed' + reserved' <= Tokens /\ reserved' \in Nat /\ consumed' \in Nat
      BY <1>5, <3>2, <3>3, <3>4
    <3>7. \A b \in Agents : reservation'[b] # 0 =>
            /\ phase'[b] \in {"waiting", "ready", "ended"}
            /\ phase'[b] # "ended" => loop'[b].current = NoCall
      BY <2>3, <2>7, <2>11, <3>1, <3>5 DEF BudgetInv
    <3> QED BY <3>4, <3>5, <3>6, <3>7 DEF BudgetInv
  <2> QED BY <1>1, <1>2, <1>3, <2>3, <2>6, <2>7, <2>8, <2>9, <2>10, <2>12, MoveAgent
<1> QED BY <1>4, <1>5 DEF DispatchModel

-----------------------------------------------------------------------------
\* The answers of the Host.

\* A step that moves an agent that holds no reservation.
LEMMA QuietMove ==
  ASSUME AgentInv, NEW a \in Agents, NEW p, NEW g, Move(a, p), policy' = policy, UNCHANGED budget,
         DOMAIN loop' = Agents, loop'[a] = g, \A b \in Agents \ {a} : loop'[b] = loop[b],
         nextId' \in Nat, nextId <= nextId', LedgerOK', phase[a] \notin {"waiting", "ready", "ended"},
         FrameOK(a, g), PhaseOK(a, p, g),
         p \notin {"idle", "ended"} => g.first < nextId' /\ g.toolReq < nextId'
  PROVE  AgentInv'
<1>1. phase' = Put(phase, a, p) /\ input' = Put(input, a, NoInput) /\ outcome' = outcome
  BY DEF Move
<1>2. \A b \in Agents \ {a} : phase'[b] = phase[b]
  BY <1>1, AgentFacts DEF Put
<1>3. BudgetInv'
  BY <1>2, NoReservation, OwnBudget
<1>4. InputOK(g, NoInput)
  BY DEF InputOK, NoInput
<1> QED BY <1>1, <1>3, <1>4, MoveAgent

\* A step of an agent that stays where it is, at the calls of its model.
LEMMA QuietStay ==
  ASSUME AgentInv, NEW a \in Agents, NEW g, phase[a] = "calls", policy' = policy, UNCHANGED budget,
         UNCHANGED <<phase, input, outcome>>,
         DOMAIN loop' = Agents, loop'[a] = g, \A b \in Agents \ {a} : loop'[b] = loop[b],
         nextId' \in Nat, nextId <= nextId', LedgerOK', FrameOK(a, g), PhaseOK(a, "calls", g),
         g.first < nextId' /\ g.toolReq < nextId'
  PROVE  AgentInv'
<1>1. /\ DOMAIN phase = Agents /\ DOMAIN input = Agents /\ InputOK(loop[a], input[a])
      /\ OutcomeOK(phase[a], loop[a], outcome[a])
  BY AgentFacts
<1>2. BudgetInv'
  BY NoReservation, OwnBudget
<1>3. FrameOK(a, loop[a])'
  BY DEF FrameOK, Progress, Answer
<1>4. PhaseOK(a, "calls", g)'
  BY DEF PhaseOK, AtModel, ChoiceOK, Ran
<1>5. g.current = NoCall
  BY DEF PhaseOK
<1>6. PhaseOK(a, phase[a], loop[a])' /\ IssuedOK(phase[a], loop[a])'
  BY <1>4 DEF IssuedOK
<1>7. InputOK(loop[a], input[a])'
  BY <1>1, <1>5 DEF InputOK
<1>8. OutcomeOK(phase[a], loop[a], outcome[a])'
  BY <1>1 DEF OutcomeOK
<1>9. AgentOK(a)'
  BY <1>3, <1>6, <1>7, <1>8 DEF AgentOK
<1> QED BY <1>1, <1>2, <1>9, OneAgent

\* The reactor gets the answer; the call keeps its reservation.
LEMMA HostAnswersStep == ASSUME AgentInv, NEW a \in Agents, HostAnswers(a) PROVE AgentInv'
<1>1. /\ phase[a] = "waiting" /\ phase' = Put(phase, a, "ready") /\ UNCHANGED <<policy, loop, input, outcome>>
      /\ UNCHANGED budget /\ UNCHANGED shared
  BY DEF HostAnswers
<1>2. /\ FrameOK(a, loop[a]) /\ PhaseOK(a, "waiting", loop[a]) /\ InputOK(loop[a], input[a])
      /\ IssuedOK("waiting", loop[a]) /\ OutcomeOK("waiting", loop[a], outcome[a]) /\ nextId \in Nat
      /\ DOMAIN phase = Agents /\ DOMAIN loop = Agents /\ DOMAIN input = Agents /\ BudgetInv
  BY <1>1, AgentFacts
<1>3. DOMAIN phase' = Agents /\ phase'[a] = "ready" /\ \A b \in Agents \ {a} : phase'[b] = phase[b]
  BY <1>1, <1>2 DEF Put
<1>4. nextId' = nextId /\ ledger' = ledger /\ nextId' \in Nat /\ nextId <= nextId'
  BY <1>1, <1>2 DEF shared
<1>5. LedgerOK'
  BY <1>4, LedgerKept
<1>6. PhaseOK(a, "ready", loop[a])
  BY <1>2 DEF PhaseOK, Phases, AtModel
<1>7. FrameOK(a, loop[a])' /\ InputOK(loop[a], input[a])'
  BY <1>1, <1>2 DEF FrameOK, Progress, Answer, InputOK
<1>8. PhaseOK(a, "ready", loop[a])'
  BY <1>1, <1>6 DEF PhaseOK, AtModel, ChoiceOK, Ran
<1>9. IssuedOK(phase[a], loop[a])' /\ OutcomeOK(phase[a], loop[a], outcome[a])'
  BY <1>1, <1>2, <1>3, <1>4 DEF IssuedOK, OutcomeOK
<1>10. AgentOK(a)'
  BY <1>3, <1>7, <1>8, <1>9 DEF AgentOK
<1>11. BudgetInv'
  <2>1. ASSUME NEW b \in Agents, reservation[b] # 0
        PROVE  \/ phase'[b] = "ended"
               \/ phase'[b] \in {"waiting", "ready"} /\ loop'[b].current = NoCall
    BY <1>1, <1>2, <1>3, <2>1 DEF BudgetInv
  <2> QED BY <1>1, <1>2, <2>1, BudgetKept
<1> QED BY <1>1, <1>2, <1>3, <1>4, <1>5, <1>10, <1>11, OneAgent

\* A call settles at most what it has reserved, and returns the rest.
LEMMA ReleaseBudget ==
  ASSUME BudgetInv, NEW a \in Agents, Release(a), NEW used \in 0..reservation[a], consumed' = consumed + used,
         \A b \in Agents \ {a} : phase'[b] = phase[b] /\ loop'[b] = loop[b]
  PROVE  BudgetInv'
<1>1. /\ reservation \in [Agents -> Nat] /\ consumed \in Nat /\ reserved \in Nat /\ Tokens \in Nat
      /\ reservation[a] \in Nat /\ consumed + reserved <= Tokens
  BY AgentConstants DEF BudgetInv
<1>2. /\ reserved' = reserved - reservation[a] /\ reservation' \in [Agents -> Nat] /\ reservation'[a] = 0
      /\ \A b \in Agents \ {a} : reservation'[b] = reservation[b]
  BY <1>1 DEF Release, Put
<1>3. IsFiniteSet(Held') /\ reserved = Cardinality(Held) /\ Cardinality(Held') = Cardinality(Held) - reservation[a]
      /\ Cardinality(Held') \in Nat
  BY <1>1, HeldShrinks DEF BudgetInv, Release
<1>4. /\ reserved' = Cardinality(Held') /\ consumed' \in Nat /\ reserved' \in Nat /\ consumed' + reserved' <= Tokens
  BY <1>1, <1>2, <1>3
<1>5. \A b \in Agents : reservation'[b] # 0 =>
        /\ phase'[b] \in {"waiting", "ready", "ended"}
        /\ phase'[b] # "ended" => loop'[b].current = NoCall
  BY <1>2 DEF BudgetInv
<1> QED BY <1>2, <1>3, <1>4, <1>5 DEF BudgetInv

\* An answer is committed to the machine.
LEMMA CommitInput ==
  ASSUME AgentInv, NEW a \in Agents, NEW i, phase[a] = "ready", InputOK(loop[a], i),
         phase' = Put(phase, a, Committed), input' = Put(input, a, i),
         UNCHANGED <<policy, loop, outcome, nextId, ledger>>, BudgetInv'
  PROVE  AgentInv'
<1>1. PICK f, p : f = loop[a] /\ p = Committed
  OBVIOUS
<1>2. p \in {"input", "saved"}
  BY <1>1 DEF Committed
<1>3. /\ FrameOK(a, f) /\ PhaseOK(a, "ready", f) /\ IssuedOK("ready", f) /\ nextId \in Nat
      /\ DOMAIN loop = Agents
  BY <1>1, AgentFacts
<1>4. PhaseOK(a, p, f)
  BY <1>2, <1>3 DEF PhaseOK, Phases, AtModel
<1>5. nextId' \in Nat /\ nextId <= nextId' /\ f.first < nextId' /\ f.toolReq < nextId'
  BY <1>3 DEF IssuedOK
<1>6. LedgerOK'
  BY <1>5, LedgerKept
<1>7. DOMAIN loop' = Agents /\ loop'[a] = f /\ \A b \in Agents \ {a} : loop'[b] = loop[b]
  BY <1>1, <1>3
<1>8. phase' = Put(phase, a, p) /\ InputOK(f, i) /\ outcome' = outcome /\ policy' = policy
  BY <1>1
<1> QED BY <1>3, <1>4, <1>5, <1>6, <1>7, <1>8, MoveAgent

\* dispatch::model::finish: the reply is an input for the model loop.
LEMMA CommitModelStep == ASSUME AgentInv, NEW a \in Agents, CommitModel(a) PROVE AgentInv'
<1>1. /\ phase[a] = "ready" /\ loop[a].current = NoCall /\ Release(a) /\ phase' = Put(phase, a, Committed)
      /\ UNCHANGED <<policy, loop, outcome, nextId, ledger>>
  BY DEF CommitModel, shared
<1>2. BudgetInv /\ DOMAIN phase = Agents
  BY AgentFacts
<1>3. \A b \in Agents \ {a} : phase'[b] = phase[b] /\ loop'[b] = loop[b]
  BY <1>1, <1>2 DEF Put
<1>4. reservation[a] \in Nat /\ consumed \in Nat
  BY <1>2 DEF BudgetInv
<1>5. \E used \in 0..reservation[a] : consumed' = consumed + used
  <2>1. CASE consumed' = consumed
    <3>1. 0 \in 0..reservation[a] /\ consumed' = consumed + 0
      BY <1>4, <2>1
    <3> QED BY <3>1
  <2> QED BY <2>1 DEF CommitModel
<1>6. BudgetInv'
  BY <1>1, <1>2, <1>3, <1>5, ReleaseBudget
<1>7. Replies[a] \subseteq Seq(Calls)
  BY AgentConstants
<1>8. \A answer \in Answers(a) : InputOK(loop[a], answer)
  BY <1>1, <1>7 DEF Answers, InputOK
<1>9. InputOK(loop[a], [kind |-> "error"])
  BY DEF InputOK
<1>10. \E i : InputOK(loop[a], i) /\ input' = Put(input, a, i)
  BY <1>8, <1>9 DEF CommitModel
<1> QED BY <1>1, <1>6, <1>10, CommitInput

\* dispatch::tool::finish: a tool call holds no tokens.
LEMMA CommitToolStep == ASSUME AgentInv, NEW a \in Agents, CommitTool(a) PROVE AgentInv'
<1>1. /\ phase[a] = "ready" /\ loop[a].current # NoCall /\ phase' = Put(phase, a, Committed)
      /\ UNCHANGED <<policy, loop, outcome, nextId, ledger>> /\ UNCHANGED budget
  BY DEF CommitTool, shared
<1>2. BudgetInv /\ DOMAIN phase = Agents
  BY AgentFacts
<1>3. \A b \in Agents \ {a} : phase'[b] = phase[b] /\ loop'[b] = loop[b]
  BY <1>1, <1>2 DEF Put
<1>4. reservation[a] = 0
  BY <1>1, <1>2 DEF BudgetInv
<1>5. BudgetInv'
  BY <1>1, <1>3, <1>4, OwnBudget
<1>6. PICK kind \in {"error", "result"} : input' = Put(input, a, [kind |-> kind])
  BY DEF CommitTool
<1>7. InputOK(loop[a], [kind |-> kind])
  BY DEF InputOK
<1> QED BY <1>1, <1>5, <1>6, <1>7, CommitInput

\* A machine that is polled after its cancellation ends.
LEMMA CancelledStep == ASSUME AgentInv, NEW a \in Agents, Cancelled(a) PROVE AgentInv'
<1>1. policy' = policy /\ UNCHANGED budget /\ nextId' = nextId /\ ledger' = ledger /\ End(a, "cancelled")
  BY DEF Cancelled, shared
<1>2. nextId' \in Nat /\ nextId <= nextId'
  BY <1>1, AgentFacts
<1> QED BY <1>1, <1>2, LedgerKept, EndAgents

-----------------------------------------------------------------------------
\* The reply of the model.

\* What is recorded has an identity that was issued.
LEMMA RecordRequest ==
  ASSUME AgentInv, NEW n \in Nat, NEW key, n < nextId, ledger' = Record(Request(n), key), nextId' = nextId
  PROVE  LedgerOK'
<1>1. DOMAIN ledger' = DOMAIN ledger \union {Request(n)}
  BY DEF Record
<1>2. LedgerOK /\ nextId \in Nat
  BY DEF AgentInv, TypeInv
<1>3. ASSUME NEW m \in Nat, Request(m) \in DOMAIN ledger' PROVE m < nextId'
  <2>1. CASE Request(m) \in DOMAIN ledger
    BY <1>2, <2>1 DEF LedgerOK
  <2>2. CASE Request(m) = Request(n)
    BY <2>2 DEF Request
  <2> QED BY <1>1, <1>3, <2>1, <2>2
<1>4. \A m \in Nat : Request(m)' = Request(m)
  BY DEF Request
<1> QED BY <1>3, <1>4 DEF LedgerOK

\* The completion of a source tool is recorded under no request.
LEMMA RecordSource ==
  ASSUME AgentInv, NEW id, NEW call, NEW key, ledger' = Record(SourceCall(id, call), key), nextId' = nextId
  PROVE  LedgerOK'
<1>1. DOMAIN ledger' = DOMAIN ledger \union {SourceCall(id, call)}
  BY DEF Record
<1>2. LedgerOK /\ nextId \in Nat
  BY DEF AgentInv, TypeInv
<1>3. ASSUME NEW m \in Nat, Request(m) \in DOMAIN ledger' PROVE m < nextId'
  <2>1. Request(m) # SourceCall(id, call)
    BY DEF Request, SourceCall
  <2> QED BY <1>1, <1>2, <1>3, <2>1 DEF LedgerOK
<1>4. \A m \in Nat : Request(m)' = Request(m)
  BY DEF Request
<1> QED BY <1>3, <1>4 DEF LedgerOK

\* The agent returns: the answer is recorded under its first request.
LEMMA AcceptStep ==
  ASSUME AgentInv, NEW a \in Agents, Accept(a), policy' = policy, UNCHANGED budget,
         phase[a] \notin {"idle", "ended"}, policy.decode = "typed" => Ran(loop[a].done)
  PROVE  AgentInv'
<1>1. loop[a].first \in Nat /\ loop[a].first < nextId /\ nextId \in Nat
  BY AgentFacts DEF FrameOK, IssuedOK
<1>2. End(a, "value") /\ ledger' = Record(Request(loop[a].first), "model") /\ nextId' = nextId
  BY DEF Accept
<1>3. LedgerOK'
  BY <1>1, <1>2, RecordRequest
<1>4. nextId' \in Nat /\ nextId <= nextId'
  BY <1>1, <1>2
<1> QED BY <1>2, <1>3, <1>4, EndAgents

\* A round that repairs the answer, or the last one is over.
LEMMA RepairStep ==
  ASSUME AgentInv, NEW a \in Agents, Repair(a), policy' = policy, UNCHANGED budget,
         phase[a] \in {"input", "saved"}, loop[a].current = NoCall
  PROVE  AgentInv'
<1>1. CASE End(a, "failed") /\ UNCHANGED shared
  <2>1. nextId' = nextId /\ ledger' = ledger /\ nextId' \in Nat /\ nextId <= nextId'
    BY <1>1, AgentFacts DEF shared
  <2> QED BY <1>1, <2>1, LedgerKept, EndAgents
<1>2. CASE /\ loop[a].round < MaxRounds[a] /\ Move(a, "model")
           /\ loop' = [loop EXCEPT ![a].round = @ + 1, ![a].req = nextId,
                                   ![a].asked = <<>>, ![a].answered = <<>>]
           /\ nextId' = nextId + 1 /\ UNCHANGED ledger
  <2>1. PICK f, g : f = loop[a] /\ g = loop'[a]
    OBVIOUS
  <2>2. /\ FrameOK(a, f) /\ PhaseOK(a, phase[a], f) /\ IssuedOK(phase[a], f) /\ DOMAIN f = LoopFields
        /\ nextId \in Nat
    BY <2>1, AgentFacts
  <2>3. DOMAIN loop' = Agents /\ loop'[a] = g /\ \A b \in Agents \ {a} : loop'[b] = loop[b]
    BY <1>2, <2>1, AgentFacts
  <2>4. /\ DOMAIN g = LoopFields /\ g.round = f.round + 1 /\ g.asked = <<>> /\ g.answered = <<>>
        /\ g.first = f.first /\ g.choice = f.choice /\ g.queue = f.queue /\ g.current = f.current
        /\ g.toolReq = f.toolReq /\ g.completed = f.completed /\ g.sent = f.sent /\ g.done = f.done
    BY <1>2, <2>1, <2>2, AgentFacts DEF LoopFields
  <2>5. /\ f.sent \in Nat /\ f.round \in Nat /\ f.first \in Nat /\ f.toolReq \in Nat
        /\ MaxRounds[a] \in Nat /\ f.round < MaxRounds[a]
    BY <1>2, <2>1, <2>2, AgentConstants DEF FrameOK
  <2>6. f.queue = <<>> /\ f.current = NoCall /\ f.sent <= f.round + 1 /\ ChoiceOK(f)
    BY <2>1, <2>2 DEF PhaseOK, AtModel
  <2>7. g.round \in 0..MaxRounds[a]
    BY <2>4, <2>5
  <2>8. FrameOK(a, g)
    BY <2>4, <2>5, <2>6, <2>7, BareFrame
  <2>9. PhaseOK(a, "model", g)
    BY <2>4, <2>5, <2>6 DEF PhaseOK, Phases, AtModel, ChoiceOK
  <2>10. nextId' \in Nat /\ nextId <= nextId' /\ g.first < nextId' /\ g.toolReq < nextId'
    BY <1>2, <2>2, <2>4, <2>5 DEF IssuedOK
  <2>11. LedgerOK'
    BY <1>2, <2>10, LedgerKept
  <2> QED BY <1>2, <2>3, <2>8, <2>9, <2>10, <2>11, QuietMove
<1> QED BY <1>1, <1>2 DEF Repair

\* A failed reply is retried or ends the task.
LEMMA ModelFailsStep == ASSUME AgentInv, NEW a \in Agents, ModelFails(a) PROVE AgentInv'
<1>1. /\ policy' = policy /\ UNCHANGED budget /\ nextId' = nextId /\ ledger' = ledger
      /\ phase[a] \in {"input", "saved"}
  BY DEF ModelFails, shared, Polled
<1>2. nextId' \in Nat /\ nextId <= nextId'
  BY <1>1, AgentFacts
<1>3. LedgerOK'
  BY <1>1, <1>2, LedgerKept
<1>4. CASE BoundaryFailure(a)
  BY <1>1, <1>2, <1>3, <1>4, BoundaryFails
<1>5. CASE End(a, "failed")
  BY <1>1, <1>2, <1>3, <1>5, EndAgents
<1> QED BY <1>4, <1>5 DEF ModelFails

\* An answer is accepted once no tool is required, or is repaired.
LEMMA ModelAnswersStep == ASSUME AgentInv, NEW a \in Agents, ModelAnswers(a) PROVE AgentInv'
<1>1. /\ policy' = policy /\ UNCHANGED budget /\ phase[a] \in {"input", "saved"}
      /\ input[a].kind \in {"final", "junk"}
  BY DEF ModelAnswers, Polled
<1>2. loop[a].current = NoCall /\ ChoiceOK(loop[a])
  BY <1>1, AgentFacts DEF InputOK, PhaseOK
<1>3. CASE Accept(a) /\ policy.decode = "raw"
  BY <1>1, <1>3, AcceptStep
<1>4. CASE Accept(a) /\ loop[a].choice = "auto"
  <2>1. Ran(loop[a].done)
    BY <1>2, <1>4 DEF ChoiceOK, Ran
  <2> QED BY <1>1, <1>4, <2>1, AcceptStep
<1>5. CASE Repair(a)
  BY <1>1, <1>2, <1>5, RepairStep
<1> QED BY <1>3, <1>4, <1>5 DEF ModelAnswers

\* A reply with calls costs a round and queues them.
LEMMA ModelCallsStep == ASSUME AgentInv, NEW a \in Agents, ModelCalls(a) PROVE AgentInv'
<1>1. /\ policy' = policy /\ UNCHANGED budget /\ phase[a] \in {"input", "saved"} /\ input[a].kind = "calls"
  BY DEF ModelCalls, Polled
<1>2. CASE Accept(a) /\ policy.decode = "raw"
  BY <1>1, <1>2, AcceptStep
<1>3. CASE End(a, "failed") /\ UNCHANGED shared
  <2>1. nextId' = nextId /\ ledger' = ledger /\ nextId' \in Nat /\ nextId <= nextId'
    BY <1>3, AgentFacts DEF shared
  <2> QED BY <1>1, <1>3, <2>1, LedgerKept, EndAgents
<1>4. CASE /\ ~(loop[a].round >= MaxRounds[a]) /\ Move(a, "calls") /\ UNCHANGED shared
           /\ loop' = [loop EXCEPT ![a].round = @ + 1, ![a].queue = input[a].calls,
                                   ![a].completed = FALSE,
                                   ![a].asked = input[a].calls, ![a].answered = <<>>]
  <2>1. PICK f, g, calls : f = loop[a] /\ g = loop'[a] /\ calls = input[a].calls
    OBVIOUS
  <2>2. /\ FrameOK(a, f) /\ PhaseOK(a, phase[a], f) /\ IssuedOK(phase[a], f) /\ DOMAIN f = LoopFields
        /\ nextId \in Nat /\ InputOK(f, input[a])
    BY <2>1, AgentFacts
  <2>3. DOMAIN loop' = Agents /\ loop'[a] = g /\ \A b \in Agents \ {a} : loop'[b] = loop[b]
    BY <1>4, <2>1, AgentFacts
  <2>4. /\ DOMAIN g = LoopFields /\ g.round = f.round + 1 /\ g.asked = calls /\ g.answered = <<>>
        /\ g.first = f.first /\ g.choice = f.choice /\ g.queue = calls /\ g.current = f.current
        /\ g.toolReq = f.toolReq /\ g.completed = FALSE /\ g.sent = f.sent /\ g.done = f.done
    BY <1>4, <2>1, <2>2, AgentFacts DEF LoopFields
  <2>5. /\ f.sent \in Nat /\ f.round \in Nat /\ f.first \in Nat /\ f.toolReq \in Nat
        /\ MaxRounds[a] \in Nat /\ f.round < MaxRounds[a]
    BY <1>4, <2>1, <2>2, AgentConstants DEF FrameOK
  <2>6. f.current = NoCall /\ calls \in Seq(Calls)
    BY <1>1, <2>1, <2>2 DEF InputOK
  <2>7. f.sent <= f.round + 1 /\ ChoiceOK(f)
    BY <1>1, <2>2, <2>6 DEF PhaseOK, AtModel
  <2>8. g.round \in 0..MaxRounds[a]
    BY <2>4, <2>5
  <2>9. FrameOK(a, g)
    BY <2>2, <2>4, <2>6, <2>8, AskCalls
  <2>10. PhaseOK(a, "calls", g)
    BY <2>4, <2>5, <2>6, <2>7 DEF PhaseOK, Phases, AtModel, ChoiceOK
  <2>11. nextId' = nextId /\ ledger' = ledger /\ nextId' \in Nat /\ nextId <= nextId'
         /\ g.first < nextId' /\ g.toolReq < nextId'
    BY <1>1, <1>4, <2>2, <2>4 DEF IssuedOK, shared
  <2>12. LedgerOK'
    BY <2>11, LedgerKept
  <2>13. phase[a] \notin {"waiting", "ready", "ended"}
    BY <1>1
  <2> QED BY <1>1, <1>4, <2>3, <2>9, <2>10, <2>11, <2>12, <2>13, QuietMove
<1> QED BY <1>2, <1>3, <1>4 DEF ModelCalls

-----------------------------------------------------------------------------
\* The calls of a reply.

\* A tool that runs under the choice of the request satisfies the declaration.
LEMMA RunTool ==
  ASSUME NEW f, ChoiceOK(f), NEW tool, f.choice \notin {"auto", "any"} => tool = f.choice
  PROVE  Ran(f.done \union {tool})
<1>1. CASE f.choice = policy.choice
  BY <1>1 DEF Ran
<1>2. CASE f.choice # policy.choice
  BY <1>2 DEF ChoiceOK, Ran
<1> QED BY <1>1, <1>2

\* Frame g is f after append_tool_result.
Appended(f, g, call, by) ==
  /\ DOMAIN g = LoopFields /\ g.answered = Append(f.answered, [id |-> call.id, by |-> by])
  /\ g.completed = TRUE /\ g.current = NoCall /\ g.done = f.done \union {call.tool}
  /\ g.first = f.first /\ g.round = f.round /\ g.choice = f.choice
  /\ g.toolReq = f.toolReq /\ g.asked = f.asked /\ g.sent = f.sent

\* The fields append_tool_result writes, and those it keeps.
LEMMA AppendResult ==
  ASSUME NEW f, DOMAIN f = LoopFields, NEW call, NEW by
  PROVE  /\ Appended(f, append_tool_result(f, call, by), call, by)
         /\ append_tool_result(f, call, by).queue = f.queue
<1>1. PICK g : g = append_tool_result(f, call, by)
  OBVIOUS
<1>2. Appended(f, g, call, by) /\ g.queue = f.queue
  BY <1>1 DEF append_tool_result, LoopFields, Appended
<1> QED BY <1>1, <1>2

\* A call of a tool that is not offered ends the task.
LEMMA RejectCallStep == ASSUME AgentInv, NEW a \in Agents, RejectCall(a) PROVE AgentInv'
<1>1. policy' = policy /\ UNCHANGED budget /\ nextId' = nextId /\ ledger' = ledger /\ End(a, "failed")
  BY DEF RejectCall, shared
<1>2. nextId' \in Nat /\ nextId <= nextId'
  BY <1>1, AgentFacts
<1> QED BY <1>1, <1>2, LedgerKept, EndAgents

\* What an agent knows of the call at the head of its queue.
LEMMA CallFacts ==
  ASSUME AgentInv, NEW a \in Agents, phase[a] = "calls", loop[a].queue # <<>>, ~Rejected(a), NEW f, f = loop[a]
  PROVE  /\ FrameOK(a, f) /\ PhaseOK(a, "calls", f) /\ DOMAIN f = LoopFields /\ f.current = NoCall
         /\ f.sent \in Nat /\ f.round \in Nat /\ f.sent <= f.round /\ ChoiceOK(f) /\ f.toolReq \in Nat
         /\ f.first < nextId /\ f.toolReq < nextId /\ nextId \in Nat /\ f.first \in Nat
         /\ Call(a) = Head(f.queue) /\ Call(a) # NoCall
         /\ f.choice \notin {"auto", "any"} => Call(a).tool = f.choice
<1>1. /\ FrameOK(a, f) /\ PhaseOK(a, "calls", f) /\ IssuedOK("calls", f) /\ DOMAIN f = LoopFields
      /\ nextId \in Nat
  BY AgentFacts
<1>2. f.current = NoCall /\ ChoiceOK(f) /\ f.sent \in Nat /\ f.round \in Nat /\ f.toolReq \in Nat /\ f.first \in Nat
  BY <1>1 DEF PhaseOK, FrameOK
<1>3. f.sent <= f.round /\ f.first < nextId /\ f.toolReq < nextId
  BY <1>1, <1>2 DEF PhaseOK, AtModel, IssuedOK
<1>4. Call(a).tool \in Available /\ (f.choice \notin {"auto", "any"} => Call(a).tool = f.choice)
  BY DEF Rejected
<1>5. Call(a) # NoCall
  <2>1. NoCall.tool = "none" /\ "none" \notin Available
    BY DEF NoCall, Available
  <2> QED BY <1>4, <2>1
<1> QED BY <1>1, <1>2, <1>3, <1>4, <1>5 DEF Call

\* Invalid arguments are answered by the validation; no tool has run.
LEMMA InvalidCallStep == ASSUME AgentInv, NEW a \in Agents, InvalidCall(a) PROVE AgentInv'
<1>1. /\ phase[a] = "calls" /\ loop[a].queue # <<>> /\ ~Rejected(a) /\ Call(a).args = "bad"
      /\ UNCHANGED <<policy, phase, input, outcome>> /\ policy' = policy /\ UNCHANGED budget
      /\ nextId' = nextId /\ ledger' = ledger
  BY DEF InvalidCall, shared
<1>2. PICK f, g, c : f = loop[a] /\ g = loop'[a] /\ c = Call(a)
  OBVIOUS
<1>3. /\ FrameOK(a, f) /\ PhaseOK(a, "calls", f) /\ DOMAIN f = LoopFields /\ f.current = NoCall
      /\ f.sent \in Nat /\ f.round \in Nat /\ f.sent <= f.round /\ ChoiceOK(f) /\ f.toolReq \in Nat
      /\ f.first < nextId /\ f.toolReq < nextId /\ nextId \in Nat
      /\ c = Head(f.queue)
  BY <1>1, <1>2, CallFacts
<1>4. loop' = [loop EXCEPT ![a].queue = Tail(@), ![a].answered = Append(@, [id |-> c.id, by |-> NoCall])]
  BY <1>2 DEF InvalidCall
<1>5. DOMAIN loop' = Agents /\ loop'[a] = g /\ \A b \in Agents \ {a} : loop'[b] = loop[b]
  BY <1>2, <1>4, AgentFacts
<1>6. /\ DOMAIN g = LoopFields /\ g.queue = Tail(f.queue)
      /\ g.answered = Append(f.answered, [id |-> c.id, by |-> NoCall])
      /\ g.first = f.first /\ g.round = f.round /\ g.choice = f.choice /\ g.current = f.current
      /\ g.toolReq = f.toolReq /\ g.completed = f.completed /\ g.asked = f.asked /\ g.sent = f.sent
      /\ g.done = f.done
  BY <1>2, <1>3, <1>4, AgentFacts DEF LoopFields
<1>7. [id |-> c.id, by |-> NoCall] = Answer(c)
  BY <1>1, <1>2 DEF Answer
<1>8. FrameOK(a, g)
  BY <1>1, <1>2, <1>3, <1>6, <1>7, AnswerCall DEF Untouched
<1>9. PhaseOK(a, "calls", g)
  BY <1>3, <1>6 DEF PhaseOK, Phases, AtModel, ChoiceOK
<1>10. nextId' \in Nat /\ nextId <= nextId' /\ g.first < nextId' /\ g.toolReq < nextId'
  BY <1>1, <1>3, <1>6
<1>11. LedgerOK'
  BY <1>1, <1>10, LedgerKept
<1>12. UNCHANGED <<phase, input, outcome>>
  BY <1>1
<1> QED BY <1>1, <1>5, <1>8, <1>9, <1>10, <1>11, <1>12, QuietStay

\* The call is answered from the ledger.
LEMMA ReplayCall ==
  ASSUME AgentInv, NEW a \in Agents, phase[a] = "calls", loop[a].queue # <<>>, ~Rejected(a),
         Call(a).args # "bad", UNCHANGED <<phase, input, outcome>>, policy' = policy, UNCHANGED budget,
         nextId' \in Nat, nextId <= nextId', ledger' = ledger,
         loop' = Put(loop, a, [append_tool_result(loop[a], Call(a), Call(a)) EXCEPT !.queue = Tail(@)])
  PROVE  AgentInv'
<1>1. PICK f, g, c : f = loop[a] /\ g = loop'[a] /\ c = Call(a)
  OBVIOUS
<1>2. /\ FrameOK(a, f) /\ PhaseOK(a, "calls", f) /\ DOMAIN f = LoopFields /\ f.current = NoCall
      /\ f.sent \in Nat /\ f.round \in Nat /\ f.sent <= f.round /\ ChoiceOK(f) /\ f.toolReq \in Nat
      /\ f.first < nextId /\ f.toolReq < nextId /\ nextId \in Nat /\ f.first \in Nat
      /\ c = Head(f.queue) /\ (f.choice \notin {"auto", "any"} => c.tool = f.choice)
  BY <1>1, CallFacts
<1>3. DOMAIN loop' = Agents /\ loop'[a] = g /\ \A b \in Agents \ {a} : loop'[b] = loop[b]
  BY <1>1, AgentFacts DEF Put
<1>4. PICK h : h = append_tool_result(f, c, c) /\ g = [h EXCEPT !.queue = Tail(@)]
  BY <1>1, AgentFacts DEF Put
<1>5. Appended(f, g, c, c) /\ g.queue = Tail(f.queue)
  <2>1. Appended(f, h, c, c) /\ h.queue = f.queue
    BY <1>2, <1>4, AppendResult
  <2> QED BY <1>4, <2>1 DEF Appended, LoopFields
<1>6. [id |-> c.id, by |-> c] = Answer(c)
  BY <1>1 DEF Answer
<1>7. FrameOK(a, g)
  BY <1>1, <1>2, <1>5, <1>6, AnswerCall DEF Untouched, Appended
<1>8. Ran(g.done)
  <2>1. PICK t : t = c.tool
    OBVIOUS
  <2>2. Ran(f.done \union {t})
    BY <1>2, <2>1, RunTool
  <2>3. g.done = f.done \union {t}
    BY <1>5, <2>1 DEF Appended
  <2> QED BY <2>2, <2>3
<1>9. PhaseOK(a, "calls", g)
  BY <1>2, <1>5, <1>8 DEF PhaseOK, Phases, AtModel, ChoiceOK, Appended
<1>10. g.first < nextId' /\ g.toolReq < nextId'
  BY <1>2, <1>5 DEF Appended
<1>11. LedgerOK'
  BY LedgerKept
<1> QED BY <1>3, <1>7, <1>9, <1>10, <1>11, QuietStay

\* Frame g is f after its next call c becomes the current one.
Taken(f, g, c) ==
  /\ Untouched(f, g) /\ g.queue = Tail(f.queue) /\ g.current = c /\ g.answered = f.answered
  /\ g.choice = f.choice /\ g.completed = f.completed /\ g.done = f.done

\* The call becomes the current one.
LEMMA StartCall ==
  ASSUME AgentInv, NEW a \in Agents, phase[a] = "calls", loop[a].queue # <<>>, ~Rejected(a),
         Call(a).args # "bad", Move(a, "tool"), policy' = policy, UNCHANGED budget,
         nextId' \in Nat, nextId <= nextId', ledger' = ledger, DOMAIN loop' = Agents,
         \A b \in Agents \ {a} : loop'[b] = loop[b], NEW f, NEW g, NEW c, f = loop[a], g = loop'[a],
         c = Call(a), Taken(f, g, c), g.toolReq \in Nat, g.toolReq < nextId'
  PROVE  AgentInv'
<1>1. /\ FrameOK(a, f) /\ PhaseOK(a, "calls", f) /\ DOMAIN f = LoopFields /\ f.current = NoCall
      /\ f.sent \in Nat /\ f.round \in Nat /\ f.sent <= f.round /\ ChoiceOK(f) /\ f.toolReq \in Nat
      /\ f.first < nextId /\ f.toolReq < nextId /\ nextId \in Nat /\ f.first \in Nat
      /\ c = Head(f.queue) /\ c # NoCall /\ (f.choice \notin {"auto", "any"} => c.tool = f.choice)
  BY CallFacts
<1>2. FrameOK(a, g)
  BY <1>1, TakeCall DEF Taken
<1>3. PhaseOK(a, "tool", g)
  BY <1>1 DEF PhaseOK, Phases, AtModel, ChoiceOK, Taken, Untouched
<1>4. g.first < nextId'
  BY <1>1 DEF Taken, Untouched
<1>5. LedgerOK'
  BY LedgerKept
<1> QED BY <1>2, <1>3, <1>4, <1>5, QuietMove

\* A source tool is run, or answered from the ledger.
LEMMA SourceToolCallStep == ASSUME AgentInv, NEW a \in Agents, SourceToolCall(a) PROVE AgentInv'
<1> DEFINE o == SourceCall(loop[a].req, Call(a).id)
<1>1. /\ phase[a] = "calls" /\ loop[a].queue # <<>> /\ ~Rejected(a) /\ Call(a).args # "bad"
      /\ policy' = policy /\ UNCHANGED budget /\ nextId' = nextId /\ ledger' = ledger
  BY DEF SourceToolCall, shared
<1>2. nextId' \in Nat /\ nextId <= nextId' /\ nextId \in Nat
  BY <1>1, AgentFacts
<1>3. CASE /\ Move(a, "tool")
           /\ loop' = [loop EXCEPT ![a].queue = Tail(@), ![a].current = Call(a)]
  <2>1. PICK f, g, c : f = loop[a] /\ g = loop'[a] /\ c = Call(a)
    OBVIOUS
  <2>2. DOMAIN f = LoopFields /\ DOMAIN loop = Agents /\ f.toolReq \in Nat /\ f.toolReq < nextId
    BY <1>1, <2>1, CallFacts, AgentFacts
  <2>3. loop' = [loop EXCEPT ![a].queue = Tail(@), ![a].current = c]
    BY <1>3, <2>1
  <2>4. DOMAIN loop' = Agents /\ \A b \in Agents \ {a} : loop'[b] = loop[b]
    BY <2>2, <2>3
  <2>5. Taken(f, g, c) /\ g.toolReq = f.toolReq
    BY <2>1, <2>2, <2>3 DEF LoopFields, Taken, Untouched
  <2>6. g.toolReq \in Nat /\ g.toolReq < nextId'
    BY <1>1, <2>2, <2>5
  <2> QED BY <1>1, <1>2, <1>3, <2>1, <2>4, <2>5, <2>6, StartCall
<1>4. CASE End(a, "failed")
  BY <1>1, <1>2, <1>4, LedgerKept, EndAgents
<1>5. CASE /\ ledger[o] = Call(a)
           /\ loop' = Put(loop, a, [append_tool_result(loop[a], Call(a), ledger[o])
                                      EXCEPT !.queue = Tail(@)])
           /\ UNCHANGED <<phase, attempt, stop, input, outcome>>
  <2>1. loop' = Put(loop, a, [append_tool_result(loop[a], Call(a), Call(a)) EXCEPT !.queue = Tail(@)])
    BY <1>5
  <2>2. UNCHANGED <<phase, input, outcome>>
    BY <1>5
  <2> QED BY <1>1, <1>2, <2>1, <2>2, ReplayCall
<1> QED BY <1>3, <1>4, <1>5 DEF SourceToolCall

\* A Host tool is run under a fresh identity.
LEMMA HostToolCallStep == ASSUME AgentInv, NEW a \in Agents, HostToolCall(a) PROVE AgentInv'
<1>1. /\ phase[a] = "calls" /\ loop[a].queue # <<>> /\ ~Rejected(a) /\ Call(a).args # "bad"
      /\ policy' = policy /\ UNCHANGED budget /\ nextId' = nextId + 1 /\ ledger' = ledger
  BY DEF HostToolCall
<1>2. nextId' \in Nat /\ nextId <= nextId' /\ nextId \in Nat /\ nextId < nextId'
  BY <1>1, AgentFacts
<1>3. Request(nextId) \notin DOMAIN ledger
  BY <1>2, AgentFacts DEF LedgerOK
<1>4. /\ Move(a, "tool")
      /\ loop' = [loop EXCEPT ![a].queue = Tail(@), ![a].current = Call(a), ![a].toolReq = nextId]
  BY <1>3 DEF HostToolCall
<1>5. PICK f, g, c : f = loop[a] /\ g = loop'[a] /\ c = Call(a)
  OBVIOUS
<1>6. DOMAIN f = LoopFields /\ DOMAIN loop = Agents
  BY <1>5, AgentFacts
<1>7. loop' = [loop EXCEPT ![a].queue = Tail(@), ![a].current = c, ![a].toolReq = nextId]
  BY <1>4, <1>5
<1>8. DOMAIN loop' = Agents /\ \A b \in Agents \ {a} : loop'[b] = loop[b]
  BY <1>6, <1>7
<1>9. Taken(f, g, c) /\ g.toolReq = nextId
  BY <1>5, <1>6, <1>7 DEF LoopFields, Taken, Untouched
<1>10. g.toolReq \in Nat /\ g.toolReq < nextId'
  BY <1>2, <1>9
<1> QED BY <1>1, <1>2, <1>4, <1>5, <1>8, <1>9, <1>10, StartCall

\* The choice is relaxed after a tool has completed.
LEMMA NextRoundStep == ASSUME AgentInv, NEW a \in Agents, NextRound(a) PROVE AgentInv'
<1>1. /\ phase[a] = "calls" /\ loop[a].queue = <<>> /\ Move(a, "model") /\ nextId' = nextId + 1
      /\ policy' = policy /\ UNCHANGED budget /\ ledger' = ledger
  BY DEF NextRound
<1>2. PICK f, g : f = loop[a] /\ g = loop'[a]
  OBVIOUS
<1>3. /\ FrameOK(a, f) /\ PhaseOK(a, "calls", f) /\ IssuedOK("calls", f) /\ DOMAIN f = LoopFields
      /\ nextId \in Nat /\ DOMAIN loop = Agents
  BY <1>1, <1>2, AgentFacts
<1>4. loop' = [loop EXCEPT
        ![a].tools = @ /\ ~(f.completed /\ f.choice # "auto"),
        ![a].choice = IF f.completed THEN "auto" ELSE @,
        ![a].req = nextId]
  BY <1>2 DEF NextRound
<1>5. DOMAIN loop' = Agents /\ loop'[a] = g /\ \A b \in Agents \ {a} : loop'[b] = loop[b]
  BY <1>2, <1>3, <1>4
<1>6. /\ DOMAIN g = LoopFields /\ g.choice = (IF f.completed THEN "auto" ELSE f.choice)
      /\ g.first = f.first /\ g.round = f.round /\ g.queue = f.queue /\ g.current = f.current
      /\ g.toolReq = f.toolReq /\ g.completed = f.completed /\ g.asked = f.asked
      /\ g.answered = f.answered /\ g.sent = f.sent /\ g.done = f.done
  BY <1>2, <1>3, <1>4 DEF LoopFields
<1>7. /\ f.sent \in Nat /\ f.round \in Nat /\ f.current = NoCall /\ f.queue = <<>> /\ f.sent <= f.round
      /\ ChoiceOK(f) /\ f.first < nextId /\ f.toolReq < nextId /\ f.first \in Nat /\ f.toolReq \in Nat
  BY <1>1, <1>2, <1>3 DEF FrameOK, PhaseOK, AtModel, IssuedOK
<1>8. FrameOK(a, g)
  BY <1>3, <1>6, <1>7, SameCalls
<1>9. ChoiceOK(g)
  BY <1>6, <1>7 DEF ChoiceOK
<1>10. PhaseOK(a, "model", g)
  BY <1>6, <1>7, <1>9 DEF PhaseOK, Phases, AtModel
<1>11. nextId' \in Nat /\ nextId <= nextId' /\ g.first < nextId' /\ g.toolReq < nextId'
  BY <1>1, <1>3, <1>6, <1>7
<1>12. LedgerOK'
  BY <1>1, <1>11, LedgerKept
<1> QED BY <1>1, <1>5, <1>8, <1>10, <1>11, <1>12, QuietMove

-----------------------------------------------------------------------------
\* The tool that runs.

\* The current call moves on, and the frame stays.
LEMMA ToolMoves ==
  ASSUME AgentInv, NEW a \in Agents, phase[a] \in {"tool", "running", "captured"},
         NEW p \in {"running", "waiting", "captured"}, Move(a, p), loop' = loop,
         policy' = policy, UNCHANGED budget, ledger' = ledger, nextId' \in Nat, nextId <= nextId'
  PROVE  AgentInv'
<1>1. PICK f : f = loop[a]
  OBVIOUS
<1>2. /\ FrameOK(a, f) /\ PhaseOK(a, phase[a], f) /\ IssuedOK(phase[a], f) /\ nextId \in Nat
      /\ DOMAIN loop = Agents
  BY <1>1, AgentFacts
<1>3. PhaseOK(a, p, f)
  BY <1>2 DEF PhaseOK, Phases, AtModel
<1>4. f.first < nextId' /\ f.toolReq < nextId'
  BY <1>2 DEF IssuedOK, FrameOK
<1>5. LedgerOK'
  BY LedgerKept
<1>6. DOMAIN loop' = Agents /\ loop'[a] = f /\ \A b \in Agents \ {a} : loop'[b] = loop[b]
  BY <1>1, <1>2
<1>7. phase[a] \notin {"waiting", "ready", "ended"}
  OBVIOUS
<1> QED BY <1>2, <1>3, <1>4, <1>5, <1>6, <1>7, QuietMove

\* The current call returns, and the next one is due.
LEMMA ToolAnswers ==
  ASSUME AgentInv, NEW a \in Agents, phase[a] \in {"input", "saved", "running"},
         loop[a].current # NoCall, Move(a, "calls"), policy' = policy, UNCHANGED budget,
         nextId' = nextId, LedgerOK',
         loop' = Put(loop, a, append_tool_result(loop[a], loop[a].current, loop[a].current))
  PROVE  AgentInv'
<1>1. PICK f, g, c : f = loop[a] /\ g = loop'[a] /\ c = f.current
  OBVIOUS
<1>2. /\ FrameOK(a, f) /\ PhaseOK(a, phase[a], f) /\ IssuedOK(phase[a], f) /\ nextId \in Nat
      /\ DOMAIN loop = Agents /\ DOMAIN f = LoopFields
  BY <1>1, AgentFacts
<1>3. g = append_tool_result(f, c, c) /\ c # NoCall
  BY <1>1, <1>2 DEF Put
<1>4. Appended(f, g, c, c) /\ g.queue = f.queue
  BY <1>2, <1>3, AppendResult
<1>5. /\ f.sent \in Nat /\ f.round \in Nat /\ f.sent <= f.round /\ ChoiceOK(f)
      /\ f.first < nextId /\ f.toolReq < nextId /\ f.toolReq \in Nat
  BY <1>1, <1>2, <1>3 DEF FrameOK, PhaseOK, AtModel, IssuedOK
<1>6. FrameOK(a, g)
  BY <1>1, <1>2, <1>3, <1>4, <1>5, ReturnCall DEF Appended, Untouched
<1>7. Ran(g.done)
  <2>1. PICK t : t = c.tool
    OBVIOUS
  <2>2. f.choice \notin {"auto", "any"} => t = f.choice
    BY <1>1, <1>3, <1>5, <2>1 DEF ChoiceOK
  <2>3. Ran(f.done \union {t})
    BY <1>5, <2>2, RunTool
  <2>4. g.done = f.done \union {t}
    BY <1>4, <2>1 DEF Appended
  <2> QED BY <2>3, <2>4
<1>8. PhaseOK(a, "calls", g)
  BY <1>4, <1>5, <1>7 DEF PhaseOK, Phases, AtModel, ChoiceOK, Appended
<1>9. nextId' \in Nat /\ nextId <= nextId' /\ g.first < nextId' /\ g.toolReq < nextId'
  BY <1>2, <1>4, <1>5 DEF Appended
<1>10. DOMAIN loop' = Agents /\ loop'[a] = g /\ \A b \in Agents \ {a} : loop'[b] = loop[b]
  BY <1>1, <1>2 DEF Put
<1>11. phase[a] \notin {"waiting", "ready", "ended"}
  OBVIOUS
<1> QED BY <1>6, <1>8, <1>9, <1>10, <1>11, QuietMove

\* dispatch::tool::begin runs the body, awaits the Host or fails.
LEMMA DispatchToolStep == ASSUME AgentInv, NEW a \in Agents, DispatchTool(a) PROVE AgentInv'
<1>1. /\ phase[a] = "tool" /\ nextId' = nextId + 1 /\ policy' = policy /\ UNCHANGED budget
      /\ ledger' = ledger
  BY DEF DispatchTool
<1>2. nextId' \in Nat /\ nextId <= nextId'
  BY <1>1, AgentFacts
<1>3. LedgerOK'
  BY <1>1, <1>2, LedgerKept
<1>4. CASE Move(a, "running") /\ loop' = loop
  BY <1>1, <1>2, <1>4, ToolMoves
<1>5. CASE Move(a, "waiting") /\ loop' = loop
  BY <1>1, <1>2, <1>5, ToolMoves
<1>6. CASE BoundaryFailure(a)
  BY <1>1, <1>2, <1>3, <1>6, BoundaryFails
<1> QED BY <1>4, <1>5, <1>6 DEF DispatchTool

\* resume_tool_host_result records the result under its request and answers.
LEMMA ToolResultStep == ASSUME AgentInv, NEW a \in Agents, ToolResult(a) PROVE AgentInv'
<1>1. /\ phase[a] \in {"input", "saved"} /\ loop[a].current # NoCall /\ policy' = policy /\ UNCHANGED budget
  BY DEF ToolResult, Polled
<1>2. CASE BoundaryFailure(a) /\ UNCHANGED shared
  <2>1. nextId' = nextId /\ ledger' = ledger /\ nextId' \in Nat /\ nextId <= nextId'
    BY <1>2, AgentFacts DEF shared
  <2>2. LedgerOK'
    BY <2>1, LedgerKept
  <2> QED BY <1>1, <1>2, <2>1, <2>2, BoundaryFails
<1>3. CASE /\ Move(a, "calls")
           /\ ledger' = Record(Request(loop[a].toolReq), loop[a].current)
           /\ loop' = Put(loop, a, append_tool_result(loop[a], loop[a].current, loop[a].current))
           /\ UNCHANGED nextId
  <2>1. loop[a].toolReq \in Nat /\ loop[a].toolReq < nextId
    BY <1>1, AgentFacts DEF FrameOK, IssuedOK
  <2>2. LedgerOK'
    BY <1>3, <2>1, RecordRequest
  <2> QED BY <1>1, <1>3, <2>2, ToolAnswers
<1> QED BY <1>2, <1>3 DEF ToolResult

\* resume_source_tool_value records the result under the call and answers.
LEMMA ToolReturnsStep == ASSUME AgentInv, NEW a \in Agents, ToolReturns(a) PROVE AgentInv'
<1>1. /\ phase[a] = "running" /\ policy' = policy /\ UNCHANGED budget /\ nextId' = nextId /\ Move(a, "calls")
      /\ ledger' = Record(SourceCall(loop[a].req, loop[a].current.id), loop[a].current)
      /\ loop' = Put(loop, a, append_tool_result(loop[a], loop[a].current, loop[a].current))
  BY DEF ToolReturns
<1>2. loop[a].current # NoCall
  BY <1>1, AgentFacts DEF PhaseOK
<1>3. LedgerOK'
  BY <1>1, RecordSource
<1> QED BY <1>1, <1>2, <1>3, ToolAnswers

\* The body, or the handler that took its action, ends the task.
LEMMA ToolEndsStep ==
  ASSUME AgentInv, NEW a \in Agents, ToolMisbehaves(a) \/ ToolRaises(a) \/ HandlerFinishes(a) PROVE AgentInv'
<1>1. /\ policy' = policy /\ UNCHANGED budget /\ nextId' = nextId /\ ledger' = ledger
      /\ End(a, "failed") \/ End(a, "raised") \/ End(a, "finished")
  BY DEF ToolMisbehaves, ToolRaises, HandlerFinishes, shared
<1>2. nextId' \in Nat /\ nextId <= nextId'
  BY <1>1, AgentFacts
<1>3. LedgerOK'
  BY <1>1, <1>2, LedgerKept
<1>4. PICK how \in {"failed", "raised", "finished"} : End(a, how)
  BY <1>1
<1> QED BY <1>1, <1>2, <1>3, <1>4, EndAgents

\* A handler takes the body over, or gives it back.
LEMMA HandlerStep ==
  ASSUME AgentInv, NEW a \in Agents, HandlerTakes(a) \/ HandlerResumes(a) PROVE AgentInv'
<1>1. /\ policy' = policy /\ UNCHANGED budget /\ nextId' = nextId /\ ledger' = ledger /\ loop' = loop
      /\ phase[a] \in {"running", "captured"} /\ (Move(a, "captured") \/ Move(a, "running"))
  BY DEF HandlerTakes, HandlerResumes, shared
<1>2. nextId' \in Nat /\ nextId <= nextId'
  BY <1>1, AgentFacts
<1>3. PICK p \in {"running", "captured"} : Move(a, p)
  BY <1>1
<1> QED BY <1>1, <1>2, <1>3, ToolMoves

\* The barrier, a resumed run and a run that has ended leave the agents alone:
\* the snapshot keeps the whole frame.
LEMMA RunStep ==
  ASSUME AgentInv, EnterBarrier \/ Resume \/ UNCHANGED vars PROVE AgentInv'
<1>1. UNCHANGED <<policy, phase, input, outcome, nextId, ledger>> /\ UNCHANGED budget
  BY DEF EnterBarrier, Resume, vars, agents, shared
<1>2. DOMAIN loop' = Agents /\ \A a \in Agents : loop'[a] = loop[a]
  BY DEF EnterBarrier, Resume, vars, agents, AgentInv, TypeInv, Capture
<1>3. nextId \in Nat /\ nextId' \in Nat /\ nextId <= nextId'
  BY <1>1 DEF AgentInv, TypeInv
<1>4. ASSUME NEW b \in Agents PROVE AgentOK(b)'
  BY <1>1, <1>2, <1>3, KeptAgent DEF AgentInv
<1>5. LedgerOK'
  BY <1>1, <1>3, LedgerKept
<1>6. BudgetInv'
  <2>1. ASSUME NEW b \in Agents, reservation[b] # 0
        PROVE  \/ phase'[b] = "ended"
               \/ phase'[b] \in {"waiting", "ready"} /\ loop'[b].current = NoCall
    BY <1>1, <1>2, <2>1 DEF AgentInv, BudgetInv
  <2> QED BY <1>1, <2>1, BudgetKept DEF AgentInv
<1>7. TypeInv'
  BY <1>1, <1>2 DEF AgentInv, TypeInv
<1> QED BY <1>4, <1>5, <1>6, <1>7 DEF AgentInv

\* Every step keeps the invariant.
LEMMA NextAgents == AgentInv /\ [Next]_vars => AgentInv'
<1> SUFFICES ASSUME AgentInv, [Next]_vars PROVE AgentInv'
  OBVIOUS
<1>1. CASE EnterBarrier \/ Resume \/ UNCHANGED vars
  BY <1>1, RunStep
<1>2. ASSUME NEW a \in Agents,
             \/ Begin(a) \/ IncompatibleLimits(a) \/ Denied(a) \/ DispatchModel(a)
             \/ HostAnswers(a) \/ CommitModel(a) \/ CommitTool(a)
      PROVE  AgentInv'
  BY <1>2, BeginStep, LimitsStep, DeniedStep, DispatchModelStep, HostAnswersStep, CommitModelStep, CommitToolStep
<1>3. ASSUME NEW a \in Agents,
             \/ Cancelled(a) \/ ModelFails(a) \/ ModelAnswers(a) \/ ModelCalls(a) \/ RejectCall(a)
             \/ InvalidCall(a) \/ SourceToolCall(a) \/ HostToolCall(a) \/ NextRound(a)
      PROVE  AgentInv'
  BY <1>3, CancelledStep, ModelFailsStep, ModelAnswersStep, ModelCallsStep, RejectCallStep,
     InvalidCallStep, SourceToolCallStep, HostToolCallStep, NextRoundStep
<1>4. ASSUME NEW a \in Agents,
             \/ DispatchTool(a) \/ ToolResult(a) \/ ToolReturns(a) \/ ToolMisbehaves(a) \/ ToolRaises(a)
             \/ HandlerTakes(a) \/ HandlerResumes(a) \/ HandlerFinishes(a)
      PROVE  AgentInv'
  BY <1>4, DispatchToolStep, ToolResultStep, ToolReturnsStep, ToolEndsStep, HandlerStep
<1> QED BY <1>1, <1>2, <1>3, <1>4 DEF Next, Ended

-----------------------------------------------------------------------------
\* The state of every agent, the budget and the ledger agree in every reachable
\* state (eval/machine/model.rs, driver/dispatch/model.rs and tool.rs).
THEOREM AgentHolds == Spec => []AgentInv
  BY InitAgents, NextAgents, PTL DEF Spec

\* Every call of the last reply is answered, in order and by itself, when the
\* next request goes to the model (append_tool_result, advance_tool_calls).
THEOREM CallsAnswered == Spec => []ToolCallsAnswered
<1>1. AgentInv => ToolCallsAnswered
  <2> SUFFICES ASSUME AgentInv, NEW a \in Agents, phase[a] \in {"model", "waiting", "ready"},
                      loop[a].current = NoCall
               PROVE  /\ Len(loop[a].answered) = Len(loop[a].asked)
                      /\ \A i \in DOMAIN loop[a].asked :
                           /\ loop[a].answered[i].id = loop[a].asked[i].id
                           /\ loop[a].answered[i].by =
                                IF loop[a].asked[i].args = "bad" THEN NoCall ELSE loop[a].asked[i]
    BY DEF ToolCallsAnswered
  <2>1. PICK f : f = loop[a]
    OBVIOUS
  <2>2. FrameOK(a, f) /\ PhaseOK(a, phase[a], f)
    BY <2>1, AgentFacts
  <2>3. f.queue = <<>> /\ f.asked \in Seq(Calls) /\ f.answered \in Seq(Messages) /\ Progress(f)
    BY <2>1, <2>2 DEF FrameOK, PhaseOK, AtModel
  <2>4. Len(f.answered) \in Nat /\ Len(f.asked) = Len(f.answered) + 0 + 0
        /\ \A i \in 1..Len(f.answered) : f.answered[i] = Answer(f.asked[i])
    BY <2>1, <2>3 DEF Progress
  <2>5. Len(f.asked) = Len(f.answered) /\ DOMAIN f.asked = 1..Len(f.answered)
    BY <2>3, <2>4
  <2>6. \A c : Answer(c).id = c.id /\ Answer(c).by = IF c.args = "bad" THEN NoCall ELSE c
    BY DEF Answer
  <2>7. ASSUME NEW i \in DOMAIN f.asked
        PROVE  /\ f.answered[i].id = f.asked[i].id
               /\ f.answered[i].by = IF f.asked[i].args = "bad" THEN NoCall ELSE f.asked[i]
    <3>1. f.answered[i] = Answer(f.asked[i])
      BY <2>4, <2>5
    <3> QED BY <2>6, <3>1
  <2> QED BY <2>1, <2>5, <2>7
<1> QED BY <1>1, AgentHolds, PTL

\* An agent that requires a tool returns no decoded answer before one has run
\* (ModelRepairPolicy::required_tool_choice, advance_tool_calls).
THEOREM RequiredToolRan == Spec => []RequiredToolHonoured
<1>1. AgentInv => RequiredToolHonoured
  <2> SUFFICES ASSUME AgentInv, NEW a \in Agents, outcome[a] = "value", policy.decode = "typed"
               PROVE  CASE policy.choice = "auto" -> TRUE
                        [] policy.choice = "any"  -> loop[a].done # {}
                        [] OTHER                  -> policy.choice \in loop[a].done
    BY DEF RequiredToolHonoured
  <2>1. Ran(loop[a].done)
    BY AgentFacts DEF OutcomeOK
  <2> QED BY <2>1 DEF Ran
<1> QED BY <1>1, AgentHolds, PTL

\* The requests of one inference are one more than its rounds, at most
\* (max_tool_rounds, handle_model_response and ModelRepairPolicy).
THEOREM RoundsAreBounded == Spec => []RoundsBounded
<1>1. AgentInv => RoundsBounded
  <2> SUFFICES ASSUME AgentInv, NEW a \in Agents PROVE loop[a].sent <= MaxRounds[a] + 1
    BY DEF RoundsBounded
  <2>1. FrameOK(a, loop[a]) /\ PhaseOK(a, phase[a], loop[a])
    BY AgentFacts
  <2>2. /\ loop[a].round \in 0..MaxRounds[a] /\ MaxRounds[a] \in Nat /\ loop[a].sent \in Nat
        /\ loop[a].sent <= loop[a].round + (IF AtModel(phase[a], loop[a]) /\ phase[a] # "model" THEN 1 ELSE 0)
    BY <2>1, AgentConstants DEF FrameOK, PhaseOK
  <2> QED BY <2>2
<1> QED BY <1>1, AgentHolds, PTL

\* The budget of the run holds exactly what its calls have reserved, and is never
\* overdrawn, whatever limits the agents have (driver/dispatch/model.rs begin and
\* finish).
THEOREM BudgetIsExact == Spec => []BudgetExact
<1>1. AgentInv => BudgetExact
  <2>1. BudgetInv => BudgetExact
    BY DEF BudgetInv, BudgetExact
  <2> QED BY <2>1 DEF AgentInv
<1> QED BY <1>1, AgentHolds, PTL

============================================================================
