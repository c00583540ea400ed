-------------------------- MODULE EvalMachineProofs --------------------------
(***************************************************************************)
(* What the stack machine keeps true, for every program, every bound on    *)
(* calls, attempts and iterations, and any number of crashes.              *)
(*                                                                         *)
(* A frame may hold a continuation whose frames hold others: a property    *)
(* of all that a stack holds is a property of a tree.  Built says that a   *)
(* sequence of frames lies in some set of frames that is closed under what *)
(* a frame holds (Closed); the names below it are then those its links     *)
(* record, and no induction over the tree is needed.                       *)
(*                                                                         *)
(* The properties are not inductive.  MachineInv adds that the signal, the *)
(* stack and the arena together name each block, scope, attempt and token  *)
(* at most once (Base), only names that have been handed out and, of the   *)
(* blocks, only ones that have not run (Known), and that all of this holds *)
(* of the checkpoint as well, with which a restart brings it back.         *)
(*                                                                         *)
(* That the scopes and attempts are those of the frames needs more: what   *)
(* each frame may stand on.  Fits relates a sequence of frames to the      *)
(* context below it and the context above it (lexical position, whether    *)
(* code, the end of an error arm or an answer may come, active scopes and  *)
(* attempts); it is the greatest relation that follows the rule of each    *)
(* frame, so that frames inside frames and continuations in the arena are  *)
(* covered without an induction.  TopologyInv says for each signal which   *)
(* contexts it may be in, as long as no exit has crossed a boundary.       *)
(***************************************************************************)
EXTENDS EvalMachine, QueueProofs, FiniteSetTheorems

-----------------------------------------------------------------------------
(***************************************************************************)
(* Sequences of frames                                                     *)
(***************************************************************************)
\* One sequence on another, entry by entry.
LEMMA Cat ==
  ASSUME NEW V, NEW s \in Seq(V), NEW t \in Seq(V)
  PROVE  /\ s \o t \in Seq(V) /\ DOMAIN s = 1..Len(s) /\ DOMAIN t = 1..Len(t)
         /\ Len(s) \in Nat /\ Len(t) \in Nat /\ Len(s \o t) = Len(s) + Len(t)
         /\ DOMAIN (s \o t) = 1..(Len(s) + Len(t))
         /\ \A i \in 1..Len(s) : i \in 1..(Len(s) + Len(t)) /\ (s \o t)[i] = s[i]
         /\ \A i \in 1..Len(t) : Len(s) + i \in 1..(Len(s) + Len(t)) /\ (s \o t)[Len(s) + i] = t[i]
         /\ \A i \in 1..(Len(s) + Len(t)) :
              \/ i \in 1..Len(s) /\ (s \o t)[i] = s[i]
              \/ i - Len(s) \in 1..Len(t) /\ i = Len(s) + (i - Len(s)) /\ (s \o t)[i] = t[i - Len(s)]
<1>1. PICK n \in Nat, m \in Nat : n = Len(s) /\ m = Len(t)
  OBVIOUS
<1>2. PICK h : h = s \o t
  OBVIOUS
<1>3. /\ h \in Seq(V) /\ DOMAIN h = 1..(n + m) /\ DOMAIN s = 1..n /\ DOMAIN t = 1..m /\ Len(h) = n + m
      /\ \A i \in 1..n : h[i] = s[i]
      /\ \A i \in 1..m : h[n + i] = t[i]
  BY <1>1, <1>2
<1>4. /\ \A i \in 1..n : i \in 1..(n + m)
      /\ \A i \in 1..m : n + i \in 1..(n + m)
      /\ \A i \in 1..(n + m) : i \in 1..n \/ (i - n \in 1..m /\ i = n + (i - n))
  BY <1>1
<1>5. \A i \in 1..(n + m) : \/ i \in 1..n /\ h[i] = s[i]
                            \/ i - n \in 1..m /\ i = n + (i - n) /\ h[i] = t[i - n]
  BY <1>3, <1>4
<1> QED BY <1>1, <1>2, <1>3, <1>4, <1>5

\* A sequence with a frame on top.
LEMMA OnTop ==
  ASSUME NEW V, NEW f \in V, NEW r \in Seq(V)
  PROVE  /\ <<f>> \in Seq(V) /\ <<f>> \o r \in Seq(V) /\ Len(<<f>> \o r) = Len(r) + 1
         /\ <<f>> \o r # <<>> /\ (<<f>> \o r)[1] = f /\ Tail(<<f>> \o r) = r
         /\ \A i \in 1..Len(r) : (<<f>> \o r)[i + 1] = r[i]
<1>1. PICK n \in Nat : n = Len(r)
  OBVIOUS
<1>2. PICK h : h = <<f>> \o r
  OBVIOUS
<1>3. h \in Seq(V) /\ Len(h) = n + 1 /\ h[1] = f /\ \A i \in 1..n : h[i + 1] = r[i]
  BY <1>1, <1>2
<1>4. h # <<>>
  BY <1>1, <1>3
<1>5. PICK t : t = Tail(h)
  OBVIOUS
<1>6. t \in Seq(V) /\ Len(t) = n /\ \A i \in 1..n : t[i] = h[i + 1]
  BY <1>1, <1>3, <1>4, <1>5
<1>7. t = r
  <2>1. \A i \in 1..n : t[i] = r[i]
    BY <1>3, <1>6
  <2> QED BY <1>1, <1>6, <2>1, SeqEqual
<1> QED BY <1>1, <1>2, <1>3, <1>4, <1>5, <1>7

\* Taking the top frame off.
LEMMA Uncons ==
  ASSUME NEW V, NEW s \in Seq(V), s # <<>>
  PROVE  /\ s[1] \in V /\ Tail(s) \in Seq(V) /\ Len(s) = Len(Tail(s)) + 1 /\ Len(Tail(s)) \in Nat
         /\ 1 \in DOMAIN s /\ s = <<s[1]>> \o Tail(s)
         /\ \A i \in 1..Len(Tail(s)) : s[i + 1] = Tail(s)[i] /\ i + 1 \in DOMAIN s
<1>1. PICK n \in Nat : n = Len(s)
  OBVIOUS
<1>2. n > 0 /\ DOMAIN s = 1..n /\ s[1] \in V
  BY <1>1
<1>3. PICK t : t = Tail(s)
  OBVIOUS
<1>4. t \in Seq(V) /\ Len(t) = n - 1 /\ \A i \in 1..(n - 1) : t[i] = s[i + 1]
  BY <1>1, <1>2, <1>3
<1>5. PICK h : h = <<s[1]>> \o t
  OBVIOUS
<1>6. h \in Seq(V) /\ Len(h) = n /\ h[1] = s[1] /\ \A i \in 1..(n - 1) : h[i + 1] = t[i]
  BY <1>1, <1>2, <1>4, <1>5
<1>7. h = s
  <2>1. \A i \in 1..n : h[i] = s[i]
    <3> SUFFICES ASSUME NEW i \in 1..n PROVE h[i] = s[i]
      OBVIOUS
    <3>1. CASE i = 1
      BY <1>6, <3>1
    <3>2. CASE i # 1
      <4>1. i - 1 \in 1..(n - 1) /\ (i - 1) + 1 = i
        BY <1>1, <3>2
      <4> QED BY <1>4, <1>6, <4>1
    <3> QED BY <3>1, <3>2
  <2> QED BY <1>1, <1>6, <2>1, SeqEqual
<1>8. \A i \in 1..(n - 1) : i + 1 \in 1..n
  BY <1>1
<1> QED BY <1>1, <1>2, <1>3, <1>4, <1>5, <1>7, <1>8

\* Cutting a sequence below its first n frames.
LEMMA Cut ==
  ASSUME NEW V, NEW s \in Seq(V), NEW n \in 0..Len(s)
  PROVE  /\ SubSeq(s, 1, n) \in Seq(V) /\ SubSeq(s, n + 1, Len(s)) \in Seq(V)
         /\ Len(SubSeq(s, 1, n)) = n /\ \A i \in 1..n : SubSeq(s, 1, n)[i] = s[i]
         /\ Len(SubSeq(s, n + 1, Len(s))) = Len(s) - n
         /\ \A i \in 1..(Len(s) - n) : SubSeq(s, n + 1, Len(s))[i] = s[n + i]
         /\ s = SubSeq(s, 1, n) \o SubSeq(s, n + 1, Len(s))
<1>1. PICK l \in Nat : l = Len(s) /\ n \in Nat /\ n <= l
  OBVIOUS
<1>2. PICK p : p = SubSeq(s, 1, n)
  OBVIOUS
<1>3. PICK q : q = SubSeq(s, n + 1, Len(s))
  OBVIOUS
<1>4. \A i \in 1..l : s[i] \in V
  BY <1>1
<1>5. p \in Seq(V) /\ Len(p) = n /\ \A i \in 1..n : p[i] = s[i]
  <2>1. \A i \in 1..n : i \in 1..l /\ s[i] \in V
    BY <1>1, <1>4
  <2>2. p = [i \in 1..n |-> s[i]]
    BY <1>1, <1>2
  <2> QED BY <1>1, <2>1, <2>2
<1>6. q \in Seq(V) /\ Len(q) = l - n /\ \A i \in 1..(l - n) : q[i] = s[n + i]
  <2>1. \A i \in (n + 1)..l : s[i] \in V
    BY <1>1, <1>4
  <2>2. q \in Seq(V) /\ Len(q) = l - n /\ \A i \in 1..(l - n) : q[i] = s[n + 1 + i - 1]
    BY <1>1, <1>3, <2>1, SubSeqProperties
  <2>3. \A i \in 1..(l - n) : n + 1 + i - 1 = n + i
    BY <1>1
  <2> QED BY <2>2, <2>3
<1>7. PICK h : h = p \o q
  OBVIOUS
<1>8. h = s
  <2>1. h \in Seq(V) /\ Len(h) = n + (l - n)
    BY <1>5, <1>6, <1>7, ConcatProperties
  <2>2. \A i \in 1..l : h[i] = s[i]
    <3> SUFFICES ASSUME NEW i \in 1..l PROVE h[i] = s[i]
      OBVIOUS
    <3>1. CASE i \in 1..n
      BY <1>1, <1>5, <1>6, <1>7, <3>1
    <3>2. CASE i \notin 1..n
      <4>1. i - n \in 1..(l - n) /\ n + (i - n) = i
        BY <1>1, <3>2
      <4>2. h[n + (i - n)] = q[i - n]
        BY <1>1, <1>5, <1>6, <1>7, <4>1
      <4> QED BY <1>6, <4>1, <4>2
    <3> QED BY <3>1, <3>2
  <2>3. Len(h) = l
    BY <1>1, <2>1
  <2> QED BY <1>1, <2>1, <2>2, <2>3, SeqEqual
<1> QED BY <1>1, <1>2, <1>3, <1>5, <1>6, <1>7, <1>8

-----------------------------------------------------------------------------
(***************************************************************************)
(* Well-built frames                                                       *)
(***************************************************************************)
Kinds == {"Next", "Call", "Handle", "Reenter", "Dispatch", "Retry", "Loop", "Try"}
Boundaries == {"Handle", "Reenter"}

\* The lexical contexts of source: only an arm that can resume binds a token.
LexEntries ==
  {e \in [c : {"handle", "retry", "loop", "arm", "errorarm"}, tok : Int] :
     e.c # "arm" => e.tok = NoToken}

Scoped(H) == {n \in Nat : <<"scope", n>> \in H}

\* A link says of its frames what a walk would find.
Coherent(l, W) ==
  /\ l.frames \in Seq(W) /\ l = Link(l.frames)
  /\ l.scopes \in Seq(Scoped(l.holds)) /\ l.retries \in Seq(Nat)

\* A frame has the shape of its kind, and what it holds is in W.
Shape(f, W) ==
  /\ f.k \in Kinds
  /\ f.k \in {"Next", "Retry", "Loop"} \cup Boundaries => f.lex \in Seq(LexEntries)
  /\ f.k \in {"Next", "Retry"} => f.id \in Nat
  /\ f.k = "Retry" => f.next \in Nat
  /\ f.k = "Loop" => f = Loop(f.left, f.afterBody, f.lex)
  /\ f.k \in Boundaries => /\ f.scope \in Nat /\ f.on \in Actions \cup {Error} /\ Coherent(f.inner, W)
                           /\ f.binder \in BOOLEAN /\ (f.on = Error => ~f.binder)
  /\ f.k = "Dispatch" => f.deferred \in Int /\ Coherent(f.outer, W)

Closed(W) == \A f \in W : Shape(f, W)
Built(s)  == \E W : Closed(W) /\ s \in Seq(W)

\* Nothing is named twice.
Lin(s) == Twice(s) = {}

\* What two continuations name one after the other is what either names.
LEMMA HoldsCat ==
  ASSUME NEW V, NEW s \in Seq(V), NEW t \in Seq(V)
  PROVE  Holds(s \o t) = Holds(s) \cup Holds(t)
<1>1. PICK n, m, h : n = Len(s) /\ m = Len(t) /\ h = s \o t
  OBVIOUS
<1>2. /\ DOMAIN s = 1..n /\ DOMAIN t = 1..m /\ DOMAIN h = 1..(n + m)
      /\ \A i \in 1..n : i \in 1..(n + m) /\ h[i] = s[i]
      /\ \A i \in 1..m : n + i \in 1..(n + m) /\ h[n + i] = t[i]
      /\ \A i \in 1..(n + m) : \/ i \in 1..n /\ h[i] = s[i]
                               \/ i - n \in 1..m /\ i = n + (i - n) /\ h[i] = t[i - n]
  BY <1>1, Cat
<1>3. \A x \in Holds(h) : x \in Holds(s) \cup Holds(t)
  BY <1>2 DEF Holds
<1>4. \A x \in Holds(s) : x \in Holds(h)
  BY <1>2 DEF Holds
<1>5. \A x \in Holds(t) : x \in Holds(h)
  <2> SUFFICES ASSUME NEW x \in Holds(t) PROVE x \in Holds(h)
    OBVIOUS
  <2>1. PICK i \in 1..m : x \in FrameHolds(t[i])
    BY <1>2 DEF Holds
  <2>2. n + i \in DOMAIN h /\ x \in FrameHolds(h[n + i])
    BY <1>2, <2>1
  <2> QED BY <2>2 DEF Holds
<1> QED BY <1>1, <1>3, <1>4, <1>5

\* A single frame names what it names itself and in the continuation it holds.
LEMMA HoldsOne == ASSUME NEW f PROVE Holds(<<f>>) = FrameHolds(f)
<1>1. DOMAIN <<f>> = {1} /\ <<f>>[1] = f
  OBVIOUS
<1> QED BY <1>1 DEF Holds

\* The empty continuation names nothing.
LEMMA HoldsNil == Holds(<<>>) = {} /\ Twice(<<>>) = {}
  BY DEF Holds, Twice

\* A frame names something twice only if it names it.
LEMMA FrameTwiceHeld ==
  ASSUME NEW W, NEW f, Shape(f, W) PROVE FrameTwice(f) \subseteq FrameHolds(f)
<1>1. Nested(f).twice \subseteq Nested(f).holds
  <2>1. CASE f.k \in Boundaries
    <3>1. Nested(f) = f.inner /\ f.inner = Link(f.inner.frames)
      BY <2>1 DEF Nested, Shape, Boundaries, Coherent
    <3>2. f.inner.twice = Twice(f.inner.frames) /\ f.inner.holds = Holds(f.inner.frames)
      BY <3>1 DEF Link
    <3> QED BY <3>1, <3>2 DEF Twice
  <2>2. CASE f.k = "Dispatch"
    <3>1. Nested(f) = f.outer /\ f.outer = Link(f.outer.frames)
      BY <2>2 DEF Nested, Shape, Boundaries, Coherent
    <3>2. f.outer.twice = Twice(f.outer.frames) /\ f.outer.holds = Holds(f.outer.frames)
      BY <3>1 DEF Link
    <3> QED BY <3>1, <3>2 DEF Twice
  <2>3. CASE f.k \notin Boundaries /\ f.k # "Dispatch"
    <3>1. Nested(f) = NoLink
      BY <2>3 DEF Nested, Boundaries
    <3>2. NoLink.twice = {}
      BY DEF NoLink
    <3> QED BY <3>1, <3>2
  <2> QED BY <2>1, <2>2, <2>3
<1> QED BY <1>1 DEF FrameTwice, FrameHolds

\* One frame is linear when nothing in it is named twice.
LEMMA LinOne ==
  ASSUME NEW W, NEW f, Shape(f, W) PROVE Lin(<<f>>) <=> FrameTwice(f) = {}
<1>1. DOMAIN <<f>> = {1} /\ <<f>>[1] = f
  OBVIOUS
<1>2. FrameTwice(f) \subseteq FrameHolds(f)
  BY FrameTwiceHeld
<1>3. Twice(<<f>>) = FrameTwice(f)
  BY <1>1, <1>2, HoldsOne DEF Twice
<1> QED BY <1>3 DEF Lin

\* One linear sequence on another.
LEMMA LinCat ==
  ASSUME NEW W, Closed(W), NEW s \in Seq(W), NEW t \in Seq(W)
  PROVE  Lin(s \o t) <=> Lin(s) /\ Lin(t) /\ Holds(s) \cap Holds(t) = {}
<1>1. PICK n, m, h : n = Len(s) /\ m = Len(t) /\ h = s \o t
  OBVIOUS
<1>2. /\ DOMAIN s = 1..n /\ DOMAIN t = 1..m /\ DOMAIN h = 1..(n + m) /\ n \in Nat /\ m \in Nat
      /\ \A i \in 1..n : i \in 1..(n + m) /\ h[i] = s[i]
      /\ \A i \in 1..m : n + i \in 1..(n + m) /\ h[n + i] = t[i]
      /\ \A i \in 1..(n + m) : \/ i \in 1..n /\ h[i] = s[i]
                               \/ i - n \in 1..m /\ i = n + (i - n) /\ h[i] = t[i - n]
  BY <1>1, Cat
<1>3. Holds(h) = Holds(s) \cup Holds(t)
  BY <1>1, HoldsCat
<1>4. /\ \A i \in 1..n : FrameHolds(s[i]) \subseteq Holds(s) /\ FrameTwice(s[i]) \subseteq FrameHolds(s[i])
      /\ \A i \in 1..m : FrameHolds(t[i]) \subseteq Holds(t) /\ FrameTwice(t[i]) \subseteq FrameHolds(t[i])
  <2>1. \A i \in 1..n : Shape(s[i], W)
    BY <1>2 DEF Closed
  <2>2. \A i \in 1..m : Shape(t[i], W)
    BY <1>2 DEF Closed
  <2> QED BY <1>2, <2>1, <2>2, FrameTwiceHeld DEF Holds
<1>5. ASSUME NEW x \in Twice(h) PROVE x \in Twice(s) \cup Twice(t) \cup (Holds(s) \cap Holds(t))
  <2>1. CASE \E i \in 1..(n + m) : x \in FrameTwice(h[i])
    BY <1>2, <1>4, <2>1 DEF Twice
  <2>2. ASSUME NEW i \in 1..(n + m), NEW j \in 1..(n + m), i # j,
               x \in FrameHolds(h[i]), x \in FrameHolds(h[j])
        PROVE  x \in Twice(s) \cup Twice(t) \cup (Holds(s) \cap Holds(t))
    <3>1. CASE i \in 1..n /\ j \in 1..n
      BY <1>2, <1>4, <2>2, <3>1 DEF Twice
    <3>2. CASE i - n \in 1..m /\ j - n \in 1..m /\ i = n + (i - n) /\ j = n + (j - n)
      <4>1. i - n # j - n
        BY <1>2, <2>2
      <4>2. h[n + (i - n)] = t[i - n] /\ h[n + (j - n)] = t[j - n]
        BY <1>2, <3>2
      <4>3. x \in FrameHolds(t[i - n]) /\ x \in FrameHolds(t[j - n])
        BY <2>2, <3>2, <4>2
      <4> QED BY <1>2, <1>4, <3>2, <4>1, <4>3 DEF Twice
    <3>3. CASE i \in 1..n /\ j - n \in 1..m /\ j = n + (j - n)
      <4>1. h[i] = s[i] /\ h[n + (j - n)] = t[j - n]
        BY <1>2, <3>3
      <4> QED BY <1>4, <2>2, <3>3, <4>1
    <3>4. CASE j \in 1..n /\ i - n \in 1..m /\ i = n + (i - n)
      <4>1. h[j] = s[j] /\ h[n + (i - n)] = t[i - n]
        BY <1>2, <3>4
      <4> QED BY <1>4, <2>2, <3>4, <4>1
    <3> QED BY <1>2, <3>1, <3>2, <3>3, <3>4
  <2> QED BY <1>2, <1>5, <2>1, <2>2 DEF Twice
<1>6. ASSUME NEW x \in Twice(s) PROVE x \in Twice(h)
  BY <1>2, <1>3, <1>6 DEF Twice
<1>7. ASSUME NEW x \in Twice(t) PROVE x \in Twice(h)
  <2>1. x \in Holds(h)
    BY <1>3, <1>7 DEF Twice
  <2>2. CASE \E i \in 1..m : x \in FrameTwice(t[i])
    <3>1. PICK i \in 1..m : x \in FrameTwice(t[i])
      BY <2>2
    <3>2. n + i \in DOMAIN h /\ x \in FrameTwice(h[n + i])
      BY <1>2, <3>1
    <3> QED BY <2>1, <3>2 DEF Twice
  <2>3. ASSUME NEW i \in 1..m, NEW j \in 1..m, i # j, x \in FrameHolds(t[i]), x \in FrameHolds(t[j])
        PROVE  x \in Twice(h)
    <3>1. n + i \in DOMAIN h /\ n + j \in DOMAIN h /\ n + i # n + j
      BY <1>2, <2>3
    <3>2. x \in FrameHolds(h[n + i]) /\ x \in FrameHolds(h[n + j])
      BY <1>2, <2>3
    <3> QED BY <2>1, <3>1, <3>2 DEF Twice
  <2> QED BY <1>2, <1>7, <2>2, <2>3 DEF Twice
<1>8. ASSUME NEW x \in Holds(s) \cap Holds(t) PROVE x \in Twice(h)
  <2>1. PICK i \in 1..n : x \in FrameHolds(s[i])
    BY <1>2 DEF Holds
  <2>2. PICK j \in 1..m : x \in FrameHolds(t[j])
    BY <1>2 DEF Holds
  <2>3. i \in DOMAIN h /\ n + j \in DOMAIN h /\ i # n + j
    BY <1>2
  <2>4. x \in FrameHolds(h[i]) /\ x \in FrameHolds(h[n + j])
    BY <1>2, <2>1, <2>2
  <2> QED BY <1>3, <2>3, <2>4 DEF Twice
<1>9. Twice(h) = Twice(s) \cup Twice(t) \cup (Holds(s) \cap Holds(t))
  BY <1>5, <1>6, <1>7, <1>8
<1> QED BY <1>1, <1>9 DEF Lin

\* The closed sets that build two sequences build them both.
LEMMA ShapeGrows ==
  ASSUME NEW W, NEW V, W \subseteq V, NEW f, Shape(f, W) PROVE Shape(f, V)
<1>1. \A s \in Seq(W) : s \in Seq(V)
  OBVIOUS
<1>2. \A l : Coherent(l, W) => Coherent(l, V)
  BY <1>1 DEF Coherent
<1> QED BY <1>2 DEF Shape

\* Two built continuations have a set of frames in common that is closed.
LEMMA BuiltTogether ==
  ASSUME NEW s, Built(s), NEW t, Built(t) PROVE \E W : Closed(W) /\ s \in Seq(W) /\ t \in Seq(W)
<1>1. PICK W1 : Closed(W1) /\ s \in Seq(W1)
  BY DEF Built
<1>2. PICK W2 : Closed(W2) /\ t \in Seq(W2)
  BY DEF Built
<1>3. PICK W : W = W1 \cup W2
  OBVIOUS
<1>4. W1 \subseteq W /\ W2 \subseteq W
  BY <1>3
<1>5. \A f \in W : Shape(f, W)
  <2> SUFFICES ASSUME NEW f \in W PROVE Shape(f, W)
    OBVIOUS
  <2>1. CASE f \in W1
    BY <1>1, <1>4, <2>1, ShapeGrows DEF Closed
  <2>2. CASE f \in W2
    BY <1>2, <1>4, <2>2, ShapeGrows DEF Closed
  <2> QED BY <1>3, <2>1, <2>2
<1>6. s \in Seq(W) /\ t \in Seq(W)
  BY <1>1, <1>2, <1>4
<1> QED BY <1>5, <1>6 DEF Closed

\* Well-built sequences are sequences.
LEMMA BuiltSeq ==
  ASSUME NEW s, Built(s)
  PROVE  \E W : Closed(W) /\ s \in Seq(W) /\ DOMAIN s = 1..Len(s) /\ Len(s) \in Nat
                /\ \A i \in 1..Len(s) : s[i] \in W /\ Shape(s[i], W) /\ s[i].k \in Kinds
<1>1. PICK W : Closed(W) /\ s \in Seq(W)
  BY DEF Built
<1>2. DOMAIN s = 1..Len(s) /\ Len(s) \in Nat /\ \A i \in 1..Len(s) : s[i] \in W
  BY <1>1
<1>3. \A i \in 1..Len(s) : Shape(s[i], W) /\ s[i].k \in Kinds
  BY <1>1, <1>2 DEF Closed, Shape
<1> QED BY <1>1, <1>2, <1>3

\* The empty continuation is built.
LEMMA BuiltNil == Built(<<>>)
<1>1. Closed({}) /\ <<>> \in Seq({})
  BY DEF Closed
<1> QED BY <1>1 DEF Built

\* Pushing one continuation on another: what is named, and when it is linear.
LEMMA BuiltCat ==
  ASSUME NEW s, Built(s), NEW t, Built(t)
  PROVE  /\ Built(s \o t) /\ Holds(s \o t) = Holds(s) \cup Holds(t)
         /\ (Lin(s \o t) <=> Lin(s) /\ Lin(t) /\ Holds(s) \cap Holds(t) = {})
<1>1. PICK W : Closed(W) /\ s \in Seq(W) /\ t \in Seq(W)
  BY BuiltTogether
<1>2. s \o t \in Seq(W)
  BY <1>1
<1>3. Built(s \o t)
  BY <1>1, <1>2 DEF Built
<1>4. Holds(s \o t) = Holds(s) \cup Holds(t)
  BY <1>1, HoldsCat
<1>5. Lin(s \o t) <=> Lin(s) /\ Lin(t) /\ Holds(s) \cap Holds(t) = {}
  BY <1>1, LinCat
<1> QED BY <1>3, <1>4, <1>5

\* A single frame, from a set that is closed.
LEMMA BuiltOne ==
  ASSUME NEW W, Closed(W), NEW f, Shape(f, W)
  PROVE  Built(<<f>>) /\ Holds(<<f>>) = FrameHolds(f) /\ (Lin(<<f>>) <=> FrameTwice(f) = {})
<1>1. PICK V : V = W \cup {f}
  OBVIOUS
<1>2. W \subseteq V /\ f \in V
  BY <1>1
<1>3. \A g \in V : Shape(g, V)
  <2>1. \A g \in W : Shape(g, V)
    BY <1>2, ShapeGrows DEF Closed
  <2>2. Shape(f, V)
    BY <1>2, ShapeGrows
  <2> QED BY <1>1, <2>1, <2>2
<1>4. <<f>> \in Seq(V)
  BY <1>2
<1>5. Built(<<f>>)
  BY <1>3, <1>4 DEF Built, Closed
<1>6. Lin(<<f>>) <=> FrameTwice(f) = {}
  BY LinOne
<1> QED BY <1>5, <1>6, HoldsOne

\* Parts of a well-built sequence.
LEMMA BuiltTail ==
  ASSUME NEW s, Built(s), s # <<>>
  PROVE  /\ Built(<<s[1]>>) /\ Built(Tail(s)) /\ s = <<s[1]>> \o Tail(s)
         /\ Len(s) = Len(Tail(s)) + 1 /\ Len(Tail(s)) \in Nat /\ 1 \in DOMAIN s
         /\ \A i \in 1..Len(Tail(s)) : s[i + 1] = Tail(s)[i] /\ i + 1 \in DOMAIN s
<1>1. PICK W : Closed(W) /\ s \in Seq(W)
  BY DEF Built
<1>2. /\ s[1] \in W /\ Tail(s) \in Seq(W) /\ Len(s) = Len(Tail(s)) + 1 /\ Len(Tail(s)) \in Nat
      /\ 1 \in DOMAIN s /\ s = <<s[1]>> \o Tail(s)
      /\ \A i \in 1..Len(Tail(s)) : s[i + 1] = Tail(s)[i] /\ i + 1 \in DOMAIN s
  BY <1>1, Uncons
<1>3. <<s[1]>> \in Seq(W)
  BY <1>2
<1> QED BY <1>1, <1>2, <1>3 DEF Built

\* A built continuation can be cut at any frame.
LEMMA BuiltCut ==
  ASSUME NEW s, Built(s), NEW n \in 0..Len(s)
  PROVE  /\ Built(SubSeq(s, 1, n)) /\ Built(SubSeq(s, n + 1, Len(s)))
         /\ Len(SubSeq(s, 1, n)) = n /\ \A i \in 1..n : SubSeq(s, 1, n)[i] = s[i]
         /\ Len(SubSeq(s, n + 1, Len(s))) = Len(s) - n
         /\ \A i \in 1..(Len(s) - n) : SubSeq(s, n + 1, Len(s))[i] = s[n + i]
         /\ s = SubSeq(s, 1, n) \o SubSeq(s, n + 1, Len(s))
<1>1. PICK W : Closed(W) /\ s \in Seq(W)
  BY DEF Built
<1>2. SubSeq(s, 1, n) \in Seq(W) /\ SubSeq(s, n + 1, Len(s)) \in Seq(W)
  BY <1>1, Cut
<1>3. Built(SubSeq(s, 1, n)) /\ Built(SubSeq(s, n + 1, Len(s)))
  BY <1>1, <1>2 DEF Built
<1>4. /\ Len(SubSeq(s, 1, n)) = n /\ \A i \in 1..n : SubSeq(s, 1, n)[i] = s[i]
      /\ Len(SubSeq(s, n + 1, Len(s))) = Len(s) - n
      /\ \A i \in 1..(Len(s) - n) : SubSeq(s, n + 1, Len(s))[i] = s[n + i]
      /\ s = SubSeq(s, 1, n) \o SubSeq(s, n + 1, Len(s))
  BY <1>1, Cut
<1> QED BY <1>3, <1>4

\* Concatenation of sequences of numbers is associative.
LEMMA NumbersAssoc == \A x, y, z \in Seq(Nat) : x \o (y \o z) = (x \o y) \o z
<1> SUFFICES ASSUME NEW x \in Seq(Nat), NEW y \in Seq(Nat), NEW z \in Seq(Nat)
             PROVE  x \o (y \o z) = (x \o y) \o z
  OBVIOUS
<1>1. PICK S : S = Nat
  OBVIOUS
<1>2. x \in Seq(S) /\ y \in Seq(S) /\ z \in Seq(S)
  BY <1>1
<1>3. (x \o y) \o z = x \o (y \o z)
  BY <1>2, ConcatAssociative, SMTT(60)
<1> QED BY <1>3

\* Concatenation is associative.
LEMMA CatAssoc ==
  ASSUME NEW s, Built(s), NEW t, Built(t), NEW u, Built(u) PROVE (s \o t) \o u = s \o (t \o u)
<1>1. PICK W1 : Closed(W1) /\ s \in Seq(W1) /\ t \in Seq(W1)
  BY BuiltTogether
<1>2. s \o t \in Seq(W1)
  BY <1>1
<1>3. PICK W : Closed(W) /\ s \in Seq(W) /\ u \in Seq(W)
  BY BuiltTogether
<1>4. PICK W2 : W2 = W \cup W1
  OBVIOUS
<1>5. s \in Seq(W2) /\ t \in Seq(W2) /\ u \in Seq(W2)
  <2>1. W \subseteq W2 /\ W1 \subseteq W2
    BY <1>4
  <2> QED BY <1>1, <1>3, <2>1
<1> QED BY <1>5, ConcatAssociative, SMTT(60)

-----------------------------------------------------------------------------
(***************************************************************************)
(* The orders a walk finds                                                 *)
(***************************************************************************)
\* f is the recursive function of FlattenSeq.
Flattens(f, q, n) == f = [i \in 1..n |-> IF i = 1 THEN q[i] ELSE f[i - 1] \o q[i]]

\* The recursive function by which FlattenSeq is defined exists.
LEMMA FlattensExists == ASSUME NEW q, NEW n \in Nat PROVE \E f : Flattens(f, q, n)
<1> DEFINE T == {m \in Nat : ~\E f : Flattens(f, q, m)}
<1>1. SUFFICES ASSUME T # {} PROVE FALSE
  OBVIOUS
<1>2. PICK m \in T : \A k \in T : m <= k
  <2>1. T \in SUBSET Nat
    OBVIOUS
  <2> QED BY <1>1, <2>1, LeastNat
<1>3. CASE m = 0
  <2>1. PICK f : f = [i \in 1..0 |-> <<>>]
    OBVIOUS
  <2>2. Flattens(f, q, 0)
    BY <2>1 DEF Flattens
  <2> QED BY <1>2, <1>3, <2>2
<1>4. CASE m # 0
  <2>1. m - 1 \in Nat /\ m - 1 \notin T /\ m \in Nat
    BY <1>2, <1>4
  <2>2. PICK f : Flattens(f, q, m - 1)
    BY <2>1
  <2> DEFINE last == IF m = 1 THEN q[m] ELSE f[m - 1] \o q[m]
  <2>3. PICK g : g = [i \in 1..m |-> IF i < m THEN f[i] ELSE last]
    OBVIOUS
  <2>4. \A i \in 1..(m - 1) : f[i] = IF i = 1 THEN q[i] ELSE f[i - 1] \o q[i]
    BY <2>2 DEF Flattens
  <2>5. \A i \in 1..(m - 1) : g[i] = f[i]
    BY <2>1, <2>3
  <2>6. \A i \in 1..m : g[i] = IF i = 1 THEN q[i] ELSE g[i - 1] \o q[i]
    <3> SUFFICES ASSUME NEW i \in 1..m
                 PROVE  g[i] = IF i = 1 THEN q[i] ELSE g[i - 1] \o q[i]
      OBVIOUS
    <3>1. CASE i = m
      <4>1. g[m] = last /\ (m # 1 => g[m - 1] = f[m - 1])
        BY <2>1, <2>3, <2>5
      <4> QED BY <1>4, <3>1, <4>1
    <3>2. CASE i # m
      <4>1. i \in 1..(m - 1) /\ (i # 1 => i - 1 \in 1..(m - 1))
        BY <2>1, <3>2
      <4> QED BY <2>4, <2>5, <4>1
    <3> QED BY <3>1, <3>2
  <2> HIDE DEF last
  <2>7. g = [i \in 1..m |-> IF i = 1 THEN q[i] ELSE g[i - 1] \o q[i]]
    BY <2>3, <2>6
  <2>8. Flattens(g, q, m)
    BY <2>7 DEF Flattens
  <2> QED BY <1>2, <2>8
<1> QED BY <1>3, <1>4

\* What FlattenSeq returns is a value of that function.
LEMMA FlattenValue ==
  ASSUME NEW q, Len(q) \in Nat, Len(q) # 0
  PROVE  \E f : Flattens(f, q, Len(q)) /\ FlattenSeq(q) = f[Len(q)]
<1>1. \E f : Flattens(f, q, Len(q))
  BY FlattensExists
<1>2. PICK f : f = CHOOSE g : Flattens(g, q, Len(q))
  OBVIOUS
<1>3. Flattens(f, q, Len(q))
  BY <1>1, <1>2
<1>4. FlattenSeq(q) = f[Len(q)]
  BY <1>2, Zenon DEF FlattenSeq, Flattens
<1> QED BY <1>3, <1>4

\* The same recursion from an empty start.
LEMMA FlattenRecursion ==
  ASSUME NEW E, NEW q \in Seq(Seq(E))
  PROVE  \E f : /\ f[0] = <<>> /\ f[Len(q)] = FlattenSeq(q)
                /\ \A i \in 1..Len(q) : f[i] = f[i - 1] \o q[i]
                /\ \A i \in 0..Len(q) : f[i] \in Seq(E)
<1>1. PICK n \in Nat : n = Len(q)
  OBVIOUS
<1>2. CASE n = 0
  <2>1. q = <<>> /\ Len(q) = 0
    BY <1>1, <1>2, EmptySeq
  <2>2. FlattenSeq(q) = q
    BY <2>1, Zenon DEF FlattenSeq
  <2>3. PICK f : f = [i \in 0..0 |-> <<>>]
    OBVIOUS
  <2>4. f[0] = <<>> /\ <<>> \in Seq(E)
    BY <2>3
  <2>5. f[Len(q)] = FlattenSeq(q)
    BY <2>1, <2>2, <2>4
  <2>6. /\ \A i \in 1..Len(q) : f[i] = f[i - 1] \o q[i]
        /\ \A i \in 0..Len(q) : f[i] \in Seq(E)
    <3>1. 1..Len(q) = {} /\ 0..Len(q) = {0}
      BY <2>1
    <3> QED BY <2>4, <3>1
  <2> QED BY <2>4, <2>5, <2>6
<1>3. CASE n # 0
  <2>1. PICK g : Flattens(g, q, n) /\ FlattenSeq(q) = g[n]
    BY <1>1, <1>3, FlattenValue
  <2>2. \A i \in 1..n : g[i] = IF i = 1 THEN q[i] ELSE g[i - 1] \o q[i]
    BY <2>1 DEF Flattens
  <2>3. PICK f : f = [i \in 0..n |-> IF i = 0 THEN <<>> ELSE g[i]]
    OBVIOUS
  <2>4. f[0] = <<>> /\ \A i \in 1..n : f[i] = g[i]
    BY <1>1, <2>3
  <2>5. \A i \in 1..n : q[i] \in Seq(E)
    BY <1>1
  <2>6. ASSUME NEW i \in 1..n PROVE f[i] = f[i - 1] \o q[i]
    <3>1. CASE i = 1
      <4>1. f[i] = q[1] /\ f[i - 1] = <<>>
        BY <2>2, <2>4, <3>1
      <4>2. q[1] \in Seq(E)
        BY <2>5, <3>1
      <4>3. <<>> \o q[1] = q[1]
        BY <4>2, ConcatEmptySeq
      <4> QED BY <3>1, <4>1, <4>3
    <3>2. CASE i # 1
      <4>1. i - 1 \in 1..n
        BY <1>1, <3>2
      <4> QED BY <2>2, <2>4, <3>2, <4>1
    <3> QED BY <3>1, <3>2
  <2> DEFINE G == {i \in 0..n : f[i] \in Seq(E)}
  <2>7. 0 \in G
    <3>1. 0 \in 0..n /\ <<>> \in Seq(E)
      BY <1>1
    <3> QED BY <2>4, <3>1
  <2>8. \A i \in 1..n : i - 1 \in G => i \in G
    <3> SUFFICES ASSUME NEW i \in 1..n, i - 1 \in G PROVE i \in G
      OBVIOUS
    <3>1. f[i - 1] \in Seq(E) /\ q[i] \in Seq(E)
      BY <2>5
    <3>2. f[i - 1] \o q[i] \in Seq(E)
      BY <3>1, ConcatProperties
    <3>3. f[i] \in Seq(E)
      BY <2>6, <3>2
    <3> QED BY <1>1, <3>3
  <2>9. \A i \in 0..n : i \in G
    <3> SUFFICES ASSUME NEW i \in 0..n PROVE i \in G
      OBVIOUS
    <3> HIDE DEF G
    <3>1. \A k \in 1..i : k - 1 \in G => k \in G
      BY <1>1, <2>8
    <3>2. i \in Nat
      BY <1>1
    <3> QED BY <2>7, <3>1, <3>2, Climb
  <2>10. f[n] = FlattenSeq(q)
    BY <1>1, <1>3, <2>1, <2>4
  <2> QED BY <1>1, <2>4, <2>6, <2>9, <2>10
<1> QED BY <1>2, <1>3

\* Flattening sequences over a set gives a sequence over that set.
LEMMA FlattenIn == ASSUME NEW E, NEW q \in Seq(Seq(E)) PROVE FlattenSeq(q) \in Seq(E)
<1>1. PICK f : f[Len(q)] = FlattenSeq(q) /\ \A i \in 0..Len(q) : f[i] \in Seq(E)
  BY FlattenRecursion
<1>2. Len(q) \in 0..Len(q)
  OBVIOUS
<1> QED BY <1>1, <1>2

\* Flattening a single sequence returns it.
LEMMA FlattenOne == ASSUME NEW E, NEW q \in Seq(E) PROVE FlattenSeq(<<q>>) = q
<1>1. PICK s : s = <<q>>
  OBVIOUS
<1>2. s \in Seq(Seq(E)) /\ Len(s) = 1 /\ s[1] = q
  BY <1>1
<1>3. PICK f : f[0] = <<>> /\ f[Len(s)] = FlattenSeq(s) /\ \A i \in 1..Len(s) : f[i] = f[i - 1] \o s[i]
  BY <1>2, FlattenRecursion
<1>4. f[1] = FlattenSeq(s) /\ f[1] = f[0] \o s[1]
  <2>1. 1 \in 1..Len(s) /\ 1 - 1 = 0
    BY <1>2
  <2>2. f[1] = f[1 - 1] \o s[1]
    BY <1>3, <2>1
  <2> QED BY <1>2, <1>3, <2>1, <2>2
<1>5. <<>> \o q = q
  BY ConcatEmptySeq
<1> QED BY <1>1, <1>2, <1>3, <1>4, <1>5

\* Flattening distributes over concatenation.
LEMMA FlattenCat ==
  ASSUME NEW E, NEW p \in Seq(Seq(E)), NEW q \in Seq(Seq(E))
  PROVE  FlattenSeq(p \o q) = FlattenSeq(p) \o FlattenSeq(q)
<1>1. PICK n, m, h : n = Len(p) /\ m = Len(q) /\ h = p \o q
  OBVIOUS
<1>2. /\ n \in Nat /\ m \in Nat /\ h \in Seq(Seq(E)) /\ Len(h) = n + m
      /\ \A i \in 1..n : i \in 1..(n + m) /\ h[i] = p[i]
      /\ \A i \in 1..m : n + i \in 1..(n + m) /\ h[n + i] = q[i]
  BY <1>1, Cat
<1>3. PICK f : /\ f[0] = <<>> /\ f[n] = FlattenSeq(p)
               /\ \A i \in 1..n : f[i] = f[i - 1] \o p[i]
               /\ \A i \in 0..n : f[i] \in Seq(E)
  BY <1>1, FlattenRecursion
<1>4. PICK g : /\ g[0] = <<>> /\ g[m] = FlattenSeq(q)
               /\ \A i \in 1..m : g[i] = g[i - 1] \o q[i]
               /\ \A i \in 0..m : g[i] \in Seq(E)
  BY <1>1, FlattenRecursion
<1>5. PICK e : /\ e[0] = <<>> /\ e[n + m] = FlattenSeq(h)
               /\ \A i \in 1..(n + m) : e[i] = e[i - 1] \o h[i]
               /\ \A i \in 0..(n + m) : e[i] \in Seq(E)
  <2>1. PICK e : /\ e[0] = <<>> /\ e[Len(h)] = FlattenSeq(h)
                 /\ \A i \in 1..Len(h) : e[i] = e[i - 1] \o h[i]
                 /\ \A i \in 0..Len(h) : e[i] \in Seq(E)
    BY <1>2, FlattenRecursion
  <2> QED BY <1>2, <2>1, Zenon
<1> DEFINE G == {i \in 0..n : e[i] = f[i]}
<1>6. n \in G
  <2>1. 0 \in G
    BY <1>2, <1>3, <1>5
  <2>2. \A i \in 1..n : i - 1 \in G => i \in G
    <3> SUFFICES ASSUME NEW i \in 1..n, i - 1 \in G PROVE i \in G
      OBVIOUS
    <3>1. i \in 0..n /\ i \in 1..(n + m)
      BY <1>2
    <3>2. e[i] = e[i - 1] \o h[i] /\ h[i] = p[i] /\ f[i] = f[i - 1] \o p[i] /\ e[i - 1] = f[i - 1]
      BY <1>2, <1>3, <1>5, <3>1
    <3> QED BY <3>1, <3>2
  <2> HIDE DEF G
  <2> QED BY <1>2, <2>1, <2>2, Climb
<1>7. e[n] = FlattenSeq(p) /\ e[n] \in Seq(E)
  BY <1>2, <1>3, <1>6
<1> DEFINE D == {i \in 0..m : e[n + i] = e[n] \o g[i]}
<1>8. m \in D
  <2>1. 0 \in D
    <3>1. e[n] \o <<>> = e[n]
      BY <1>7, ConcatEmptySeq
    <3>2. n + 0 = n
      BY <1>2
    <3>3. e[n + 0] = e[n] \o g[0]
      BY <1>4, <3>1, <3>2
    <3>4. 0 \in 0..m
      BY <1>2
    <3> QED BY <3>3, <3>4
  <2>2. \A i \in 1..m : i - 1 \in D => i \in D
    <3> SUFFICES ASSUME NEW i \in 1..m, i - 1 \in D PROVE i \in D
      OBVIOUS
    <3>1. n + i \in 1..(n + m) /\ (n + i) - 1 = n + (i - 1) /\ i - 1 \in 0..m /\ i \in 0..m
      BY <1>2
    <3>2. e[n + i] = e[n + (i - 1)] \o q[i]
      <4>1. e[n + i] = e[(n + i) - 1] \o h[n + i]
        BY <1>5, <3>1
      <4> QED BY <1>2, <3>1, <4>1
    <3>3. e[n + (i - 1)] = e[n] \o g[i - 1]
      OBVIOUS
    <3>4. g[i - 1] \in Seq(E) /\ q[i] \in Seq(E)
      BY <1>1, <1>4, <3>1
    <3>5. (e[n] \o g[i - 1]) \o q[i] = e[n] \o (g[i - 1] \o q[i])
      <4>1. PICK x, y, z : x = e[n] /\ y = g[i - 1] /\ z = q[i]
        OBVIOUS
      <4>2. x \in Seq(E) /\ y \in Seq(E) /\ z \in Seq(E)
        BY <1>7, <3>4, <4>1
      <4>3. (x \o y) \o z = x \o (y \o z)
        BY <4>2, ConcatAssociative, SMTT(60)
      <4> QED BY <4>1, <4>3
    <3>6. g[i] = g[i - 1] \o q[i]
      BY <1>4
    <3>7. e[n + i] = e[n] \o g[i]
      BY <3>2, <3>3, <3>5, <3>6, Zenon
    <3> QED BY <3>1, <3>7
  <2> HIDE DEF D
  <2> QED BY <1>2, <2>1, <2>2, Climb
<1>9. e[n + m] = e[n] \o g[m]
  BY <1>8
<1> QED BY <1>1, <1>4, <1>5, <1>7, <1>9

\* What FrameScopes and FrameRetries give for a frame of the right shape.
LEMMA FrameOrders ==
  ASSUME NEW W, NEW f, Shape(f, W)
  PROVE  FrameScopes(f) \in Seq(Scoped(FrameHolds(f))) /\ FrameRetries(f) \in Seq(Nat)
<1>1. Nested(f).holds \subseteq FrameHolds(f)
  BY DEF FrameHolds
<1>2. CASE f.k = "Handle"
  <2>1. /\ Nested(f) = f.inner /\ FrameScopes(f) = Append(f.inner.scopes, f.scope)
        /\ FrameRetries(f) = f.inner.retries
    BY <1>2 DEF Nested, FrameScopes, FrameRetries
  <2>2. f.inner.scopes \in Seq(Scoped(f.inner.holds)) /\ f.inner.retries \in Seq(Nat) /\ f.scope \in Nat
    BY <1>2 DEF Shape, Coherent, Boundaries
  <2>3. f.scope \in Scoped(FrameHolds(f))
    <3>1. Own(f) = {<<"scope", f.scope>>}
      BY <1>2 DEF Own
    <3> QED BY <2>2, <3>1 DEF Scoped, FrameHolds
  <2>4. Scoped(f.inner.holds) \subseteq Scoped(FrameHolds(f))
    BY <1>1, <2>1 DEF Scoped
  <2>5. f.inner.scopes \in Seq(Scoped(FrameHolds(f)))
    BY <2>2, <2>4
  <2> QED BY <2>1, <2>2, <2>3, <2>5
<1>3. CASE f.k = "Dispatch"
  <2>1. Nested(f) = f.outer /\ FrameScopes(f) = f.outer.scopes /\ FrameRetries(f) = f.outer.retries
    BY <1>3 DEF Nested, FrameScopes, FrameRetries
  <2>2. f.outer.scopes \in Seq(Scoped(f.outer.holds)) /\ f.outer.retries \in Seq(Nat)
    BY <1>3 DEF Shape, Coherent, Boundaries
  <2>4. Scoped(f.outer.holds) \subseteq Scoped(FrameHolds(f))
    BY <1>1, <2>1 DEF Scoped
  <2>5. f.outer.scopes \in Seq(Scoped(FrameHolds(f)))
    BY <2>2, <2>4
  <2> QED BY <2>1, <2>2, <2>5
<1>4. CASE f.k = "Reenter"
  <2>1. Nested(f) = f.inner /\ FrameScopes(f) = <<>> /\ FrameRetries(f) = f.inner.retries
    BY <1>4 DEF Nested, FrameScopes, FrameRetries
  <2>2. f.inner.retries \in Seq(Nat)
    BY <1>4 DEF Shape, Coherent, Boundaries
  <2> QED BY <2>1, <2>2
<1>5. CASE f.k = "Retry"
  <2>1. FrameScopes(f) = <<>> /\ FrameRetries(f) = <<f.id>> /\ f.id \in Nat
    BY <1>5 DEF FrameScopes, FrameRetries, Shape
  <2> QED BY <2>1
<1>6. CASE f.k \notin {"Handle", "Dispatch", "Reenter", "Retry"}
  <2>1. Nested(f) = NoLink
    BY <1>6 DEF Nested
  <2>2. NoLink.retries = <<>>
    BY DEF NoLink
  <2>3. FrameScopes(f) = <<>> /\ FrameRetries(f) = <<>>
    BY <1>6, <2>1, <2>2 DEF FrameScopes, FrameRetries
  <2> QED BY <2>3
<1> QED BY <1>2, <1>3, <1>4, <1>5, <1>6

\* The walk over a sequence, frame by frame.
LEMMA OrderSeqs ==
  ASSUME NEW W, Closed(W), NEW s \in Seq(W)
  PROVE  /\ [i \in DOMAIN s |-> FrameScopes(s[i])] \in Seq(Seq(Scoped(Holds(s))))
         /\ [i \in DOMAIN s |-> FrameRetries(s[i])] \in Seq(Seq(Nat))
<1>1. PICK n \in Nat : n = Len(s)
  OBVIOUS
<1>2. DOMAIN s = 1..n /\ \A i \in 1..n : s[i] \in W
  BY <1>1
<1>3. ASSUME NEW i \in 1..n PROVE FrameScopes(s[i]) \in Seq(Scoped(Holds(s))) /\ FrameRetries(s[i]) \in Seq(Nat)
  <2>1. Shape(s[i], W)
    BY <1>2 DEF Closed
  <2>2. FrameScopes(s[i]) \in Seq(Scoped(FrameHolds(s[i]))) /\ FrameRetries(s[i]) \in Seq(Nat)
    BY <2>1, FrameOrders
  <2>3. FrameHolds(s[i]) \subseteq Holds(s)
    BY <1>2 DEF Holds
  <2>4. Scoped(FrameHolds(s[i])) \subseteq Scoped(Holds(s))
    BY <2>3 DEF Scoped
  <2> QED BY <2>2, <2>4
<1>4. PICK E, F : E = Seq(Scoped(Holds(s))) /\ F = Seq(Nat)
  OBVIOUS
<1>5. \A i \in 1..n : FrameScopes(s[i]) \in E /\ FrameRetries(s[i]) \in F
  BY <1>3, <1>4
<1>6. /\ [i \in 1..n |-> FrameScopes(s[i])] \in [1..n -> E]
      /\ [i \in 1..n |-> FrameRetries(s[i])] \in [1..n -> F]
  BY <1>5
<1>7. /\ [i \in 1..n |-> FrameScopes(s[i])] \in Seq(E)
      /\ [i \in 1..n |-> FrameRetries(s[i])] \in Seq(F)
  BY <1>1, <1>6
<1> QED BY <1>2, <1>4, <1>7

\* Closing an empty stack visits nothing.
LEMMA OrderNil == ScopeOrder(<<>>) = <<>> /\ RetryOrder(<<>>) = <<>>
<1>1. /\ [i \in DOMAIN <<>> |-> FrameScopes(<<>>[i])] = <<>>
      /\ [i \in DOMAIN <<>> |-> FrameRetries(<<>>[i])] = <<>>
  OBVIOUS
<1>2. FlattenSeq(<<>>) = <<>>
  <2>1. Len(<<>>) = 0
    OBVIOUS
  <2> QED BY <2>1, Zenon DEF FlattenSeq
<1> QED BY <1>1, <1>2, Zenon DEF ScopeOrder, RetryOrder

\* The unwind orders of two continuations one after the other are concatenated.
LEMMA OrderCat ==
  ASSUME NEW s, Built(s), NEW t, Built(t)
  PROVE  /\ ScopeOrder(s \o t) = ScopeOrder(s) \o ScopeOrder(t)
         /\ RetryOrder(s \o t) = RetryOrder(s) \o RetryOrder(t)
         /\ ScopeOrder(s) \in Seq(Scoped(Holds(s))) /\ RetryOrder(s) \in Seq(Nat)
<1>1. PICK W : Closed(W) /\ s \in Seq(W) /\ t \in Seq(W)
  BY BuiltTogether
<1>2. PICK n, m, h : n = Len(s) /\ m = Len(t) /\ h = s \o t
  OBVIOUS
<1>3. /\ DOMAIN s = 1..n /\ DOMAIN t = 1..m /\ DOMAIN h = 1..(n + m) /\ n \in Nat /\ m \in Nat
      /\ \A i \in 1..n : i \in 1..(n + m) /\ h[i] = s[i]
      /\ \A i \in 1..m : n + i \in 1..(n + m) /\ h[n + i] = t[i]
      /\ \A i \in 1..(n + m) : \/ i \in 1..n /\ h[i] = s[i]
                               \/ i - n \in 1..m /\ i = n + (i - n) /\ h[i] = t[i - n]
  BY <1>1, <1>2, Cat
<1>4. /\ [i \in DOMAIN s |-> FrameScopes(s[i])] \in Seq(Seq(Scoped(Holds(s))))
      /\ [i \in DOMAIN s |-> FrameRetries(s[i])] \in Seq(Seq(Nat))
      /\ [i \in DOMAIN t |-> FrameScopes(t[i])] \in Seq(Seq(Scoped(Holds(t))))
      /\ [i \in DOMAIN t |-> FrameRetries(t[i])] \in Seq(Seq(Nat))
  BY <1>1, OrderSeqs
<1>5. ScopeOrder(s) \in Seq(Scoped(Holds(s))) /\ RetryOrder(s) \in Seq(Nat)
  BY <1>4, FlattenIn DEF ScopeOrder, RetryOrder
<1>6. PICK S1, S2, S3 : /\ S1 = [i \in DOMAIN s |-> FrameScopes(s[i])]
                        /\ S2 = [i \in DOMAIN t |-> FrameScopes(t[i])]
                        /\ S3 = [i \in DOMAIN h |-> FrameScopes(h[i])]
  OBVIOUS
<1>7. PICK R1, R2, R3 : /\ R1 = [i \in DOMAIN s |-> FrameRetries(s[i])]
                        /\ R2 = [i \in DOMAIN t |-> FrameRetries(t[i])]
                        /\ R3 = [i \in DOMAIN h |-> FrameRetries(h[i])]
  OBVIOUS
<1>8. PICK E : E = Seq(Nat)
  OBVIOUS
<1>9. S1 \in Seq(E) /\ S2 \in Seq(E) /\ R1 \in Seq(E) /\ R2 \in Seq(E)
  <2>1. /\ Seq(Scoped(Holds(s))) \subseteq E /\ Seq(Scoped(Holds(t))) \subseteq E
    <3>1. Scoped(Holds(s)) \subseteq Nat /\ Scoped(Holds(t)) \subseteq Nat
      BY DEF Scoped
    <3> QED BY <1>8, <3>1
  <2>2. S1 \in Seq(Seq(Scoped(Holds(s)))) /\ S2 \in Seq(Seq(Scoped(Holds(t))))
    BY <1>4, <1>6
  <2>3. S1 \in Seq(E) /\ S2 \in Seq(E)
    BY <2>1, <2>2
  <2> QED BY <1>4, <1>7, <1>8, <2>3
<1>10. Len(S1) = n /\ Len(S2) = m /\ Len(R1) = n /\ Len(R2) = m
  <2>1. DOMAIN S1 = 1..n /\ DOMAIN S2 = 1..m /\ DOMAIN R1 = 1..n /\ DOMAIN R2 = 1..m
    BY <1>3, <1>6, <1>7
  <2> QED BY <1>3, <1>9, <2>1
<1>11. S3 = S1 \o S2
  <2>1. PICK c : c = S1 \o S2
    OBVIOUS
  <2>2. /\ c \in Seq(E) /\ DOMAIN c = 1..(n + m)
        /\ \A i \in 1..n : c[i] = S1[i]
        /\ \A i \in 1..m : c[n + i] = S2[i]
    <3>1. /\ c \in Seq(E) /\ DOMAIN c = 1..(Len(S1) + Len(S2))
          /\ \A i \in 1..Len(S1) : c[i] = S1[i]
          /\ \A i \in 1..Len(S2) : c[Len(S1) + i] = S2[i]
      BY <1>9, <2>1, Cat
    <3> QED BY <1>10, <3>1
  <2>3. ASSUME NEW i \in 1..(n + m) PROVE c[i] = FrameScopes(h[i])
    <3>1. CASE i \in 1..n
      <4>1. h[i] = s[i] /\ c[i] = S1[i] /\ S1[i] = FrameScopes(s[i])
        BY <1>3, <1>6, <2>2, <3>1
      <4> QED BY <4>1
    <3>2. CASE i - n \in 1..m /\ i = n + (i - n) /\ h[i] = t[i - n]
      <4>1. c[n + (i - n)] = S2[i - n] /\ S2[i - n] = FrameScopes(t[i - n])
        BY <1>3, <1>6, <2>2, <3>2
      <4> QED BY <3>2, <4>1
    <3> QED BY <1>3, <3>1, <3>2
  <2>4. c = [i \in 1..(n + m) |-> FrameScopes(h[i])]
    <3>1. c = [i \in DOMAIN c |-> c[i]]
      BY <2>2
    <3> QED BY <2>2, <2>3, <3>1
  <2> QED BY <1>3, <1>6, <2>1, <2>4
<1>12. R3 = R1 \o R2
  <2>1. PICK c : c = R1 \o R2
    OBVIOUS
  <2>2. /\ c \in Seq(E) /\ DOMAIN c = 1..(n + m)
        /\ \A i \in 1..n : c[i] = R1[i]
        /\ \A i \in 1..m : c[n + i] = R2[i]
    <3>1. /\ c \in Seq(E) /\ DOMAIN c = 1..(Len(R1) + Len(R2))
          /\ \A i \in 1..Len(R1) : c[i] = R1[i]
          /\ \A i \in 1..Len(R2) : c[Len(R1) + i] = R2[i]
      BY <1>9, <2>1, Cat
    <3> QED BY <1>10, <3>1
  <2>3. ASSUME NEW i \in 1..(n + m) PROVE c[i] = FrameRetries(h[i])
    <3>1. CASE i \in 1..n
      <4>1. h[i] = s[i] /\ c[i] = R1[i] /\ R1[i] = FrameRetries(s[i])
        BY <1>3, <1>7, <2>2, <3>1
      <4> QED BY <4>1
    <3>2. CASE i - n \in 1..m /\ i = n + (i - n) /\ h[i] = t[i - n]
      <4>1. c[n + (i - n)] = R2[i - n] /\ R2[i - n] = FrameRetries(t[i - n])
        BY <1>3, <1>7, <2>2, <3>2
      <4> QED BY <3>2, <4>1
    <3> QED BY <1>3, <3>1, <3>2
  <2>4. c = [i \in 1..(n + m) |-> FrameRetries(h[i])]
    <3>1. c = [i \in DOMAIN c |-> c[i]]
      BY <2>2
    <3> QED BY <2>2, <2>3, <3>1
  <2> QED BY <1>3, <1>7, <2>1, <2>4
<1>13. FlattenSeq(S3) = FlattenSeq(S1) \o FlattenSeq(S2) /\ FlattenSeq(R3) = FlattenSeq(R1) \o FlattenSeq(R2)
  BY <1>8, <1>9, <1>11, <1>12, FlattenCat
<1>14. /\ ScopeOrder(s) = FlattenSeq(S1) /\ ScopeOrder(t) = FlattenSeq(S2) /\ ScopeOrder(h) = FlattenSeq(S3)
       /\ RetryOrder(s) = FlattenSeq(R1) /\ RetryOrder(t) = FlattenSeq(R2) /\ RetryOrder(h) = FlattenSeq(R3)
  BY <1>6, <1>7, Zenon DEF ScopeOrder, RetryOrder
<1> QED BY <1>2, <1>5, <1>13, <1>14

\* The unwind orders of a single frame.
LEMMA OrderOne ==
  ASSUME NEW f, Built(<<f>>)
  PROVE  ScopeOrder(<<f>>) = FrameScopes(f) /\ RetryOrder(<<f>>) = FrameRetries(f)
<1>1. PICK W : Closed(W) /\ <<f>> \in Seq(W)
  BY DEF Built
<1>2. f \in W
  <2>1. PICK s : s = <<f>>
    OBVIOUS
  <2>2. s \in Seq(W) /\ Len(s) = 1 /\ s[1] = f
    BY <1>1, <2>1
  <2>3. s[1] \in W
    BY <2>2
  <2> QED BY <2>2, <2>3
<1>3. FrameScopes(f) \in Seq(Scoped(FrameHolds(f))) /\ FrameRetries(f) \in Seq(Nat)
  BY <1>1, <1>2, FrameOrders DEF Closed
<1>4. /\ [i \in DOMAIN <<f>> |-> FrameScopes(<<f>>[i])] = <<FrameScopes(f)>>
      /\ [i \in DOMAIN <<f>> |-> FrameRetries(<<f>>[i])] = <<FrameRetries(f)>>
  OBVIOUS
<1>5. FlattenSeq(<<FrameScopes(f)>>) = FrameScopes(f) /\ FlattenSeq(<<FrameRetries(f)>>) = FrameRetries(f)
  BY <1>3, FlattenOne
<1> QED BY <1>4, <1>5, Zenon DEF ScopeOrder, RetryOrder

\* Hence a link to well-built frames says what a walk would find.
LEMMA LinkCoherent ==
  ASSUME NEW W, Closed(W), NEW s \in Seq(W)
  PROVE  /\ Coherent(Link(s), W) /\ Link(s).frames = s /\ Link(s).holds = Holds(s)
         /\ Link(s).twice = Twice(s) /\ Link(s).scopes = ScopeOrder(s) /\ Link(s).retries = RetryOrder(s)
<1>1. /\ Link(s).frames = s /\ Link(s).holds = Holds(s)
      /\ Link(s).twice = Twice(s) /\ Link(s).scopes = ScopeOrder(s) /\ Link(s).retries = RetryOrder(s)
  BY DEF Link
<1>2. Built(s)
  BY DEF Built
<1>3. ScopeOrder(s) \in Seq(Scoped(Holds(s))) /\ RetryOrder(s) \in Seq(Nat)
  BY <1>2, OrderCat
<1>4. Coherent(Link(s), W)
  BY <1>1, <1>3 DEF Coherent
<1> QED BY <1>1, <1>4

-----------------------------------------------------------------------------
(***************************************************************************)
(* Single frames                                                           *)
(***************************************************************************)
\* A built frame is well formed over a closed set of frames.
LEMMA BuiltFrame ==
  ASSUME NEW f, Built(<<f>>)
  PROVE  \E W : Closed(W) /\ f \in W /\ Shape(f, W)
<1>1. PICK W : Closed(W) /\ <<f>> \in Seq(W)
  BY DEF Built
<1>2. PICK s : s = <<f>>
  OBVIOUS
<1>3. s \in Seq(W) /\ Len(s) = 1 /\ s[1] = f
  BY <1>1, <1>2
<1>4. s[1] \in W
  BY <1>3
<1> QED BY <1>1, <1>3, <1>4 DEF Closed

\* A boundary holds its scope and what its own frames hold.
LEMMA BoundaryFrame ==
  ASSUME NEW f, Built(<<f>>), f.k \in Boundaries
  PROVE  /\ Built(f.inner.frames) /\ f.inner = Link(f.inner.frames)
         /\ f.inner.scopes = ScopeOrder(f.inner.frames) /\ f.inner.retries = RetryOrder(f.inner.frames)
         /\ f.scope \in Nat /\ f.on \in Actions \cup {Error} /\ f.binder \in BOOLEAN /\ (f.on = Error => ~f.binder)
         /\ f.lex \in Seq(LexEntries)
         /\ Holds(<<f>>) = {<<"scope", f.scope>>} \cup Holds(f.inner.frames)
         /\ (Lin(<<f>>) <=> Lin(f.inner.frames) /\ <<"scope", f.scope>> \notin Holds(f.inner.frames))
<1>1. PICK W : Closed(W) /\ Shape(f, W)
  BY BuiltFrame
<1>2. /\ Coherent(f.inner, W) /\ f.scope \in Nat /\ f.on \in Actions \cup {Error} /\ f.binder \in BOOLEAN
      /\ (f.on = Error => ~f.binder) /\ f.lex \in Seq(LexEntries)
  BY <1>1 DEF Shape
<1>3. /\ f.inner.frames \in Seq(W) /\ f.inner = Link(f.inner.frames)
  BY <1>2 DEF Coherent
<1>4. Built(f.inner.frames)
  BY <1>1, <1>3 DEF Built
<1>5. /\ f.inner.holds = Holds(f.inner.frames) /\ f.inner.twice = Twice(f.inner.frames)
      /\ f.inner.scopes = ScopeOrder(f.inner.frames) /\ f.inner.retries = RetryOrder(f.inner.frames)
  BY <1>3 DEF Link
<1>6. Own(f) = {<<"scope", f.scope>>} /\ Nested(f) = f.inner
  BY DEF Own, Nested, Boundaries
<1>7. Holds(<<f>>) = {<<"scope", f.scope>>} \cup Holds(f.inner.frames)
  BY <1>5, <1>6, HoldsOne DEF FrameHolds
<1>8. FrameTwice(f) = Twice(f.inner.frames) \cup ({<<"scope", f.scope>>} \cap Holds(f.inner.frames))
  BY <1>5, <1>6 DEF FrameTwice
<1>9. Lin(<<f>>) <=> FrameTwice(f) = {}
  BY <1>1, LinOne
<1> QED BY <1>2, <1>3, <1>4, <1>5, <1>7, <1>8, <1>9 DEF Lin

Token(t) == IF t = NoToken THEN {} ELSE {<<"token", t>>}

\* What is known of a HandlerDispatch frame.
LEMMA DispatchFrame ==
  ASSUME NEW f, Built(<<f>>), f.k = "Dispatch"
  PROVE  /\ Built(f.outer.frames) /\ f.outer = Link(f.outer.frames) /\ f.deferred \in Int
         /\ f.outer.scopes = ScopeOrder(f.outer.frames) /\ f.outer.retries = RetryOrder(f.outer.frames)
         /\ Holds(<<f>>) = Token(f.deferred) \cup Holds(f.outer.frames)
         /\ (Lin(<<f>>) <=> Lin(f.outer.frames) /\ Token(f.deferred) \cap Holds(f.outer.frames) = {})
<1>1. PICK W : Closed(W) /\ Shape(f, W)
  BY BuiltFrame
<1>2. Coherent(f.outer, W) /\ f.deferred \in Int
  BY <1>1 DEF Shape
<1>3. /\ f.outer.frames \in Seq(W) /\ f.outer = Link(f.outer.frames)
  BY <1>2 DEF Coherent
<1>4. Built(f.outer.frames)
  BY <1>1, <1>3 DEF Built
<1>5. /\ f.outer.holds = Holds(f.outer.frames) /\ f.outer.twice = Twice(f.outer.frames)
      /\ f.outer.scopes = ScopeOrder(f.outer.frames) /\ f.outer.retries = RetryOrder(f.outer.frames)
  BY <1>3 DEF Link
<1>6. Own(f) = Token(f.deferred) /\ Nested(f) = f.outer
  BY DEF Own, Nested, Boundaries, Token
<1>7. Holds(<<f>>) = Token(f.deferred) \cup Holds(f.outer.frames)
  BY <1>5, <1>6, HoldsOne DEF FrameHolds
<1>8. FrameTwice(f) = Twice(f.outer.frames) \cup (Token(f.deferred) \cap Holds(f.outer.frames))
  BY <1>5, <1>6 DEF FrameTwice
<1>9. Lin(<<f>>) <=> FrameTwice(f) = {}
  BY <1>1, LinOne
<1> QED BY <1>2, <1>3, <1>4, <1>5, <1>7, <1>8, <1>9 DEF Lin

\* Every other frame holds at most its own name.
LEMMA LeafFrame ==
  ASSUME NEW f, Built(<<f>>), f.k \notin Boundaries, f.k # "Dispatch"
  PROVE  /\ Holds(<<f>>) = Own(f) /\ Lin(<<f>>) /\ f.k \in Kinds
         /\ (f.k = "Next" => Own(f) = {<<"block", f.id>>} /\ f.id \in Nat)
         /\ (f.k = "Retry" => Own(f) = {<<"retry", f.id>>} /\ f.id \in Nat /\ f.next \in Nat)
         /\ (f.k \in {"Call", "Try", "Loop"} => Own(f) = {})
         /\ (f.k = "Loop" => f = Loop(f.left, f.afterBody, f.lex))
         /\ (f.k \in {"Next", "Retry", "Loop"} => f.lex \in Seq(LexEntries))
<1>1. PICK W : Closed(W) /\ Shape(f, W)
  BY BuiltFrame
<1>2. Nested(f) = NoLink /\ NoLink.holds = {} /\ NoLink.twice = {}
  <2>1. Nested(f) = NoLink
    BY DEF Nested, Boundaries
  <2> QED BY <2>1 DEF NoLink
<1>3. FrameHolds(f) = Own(f) /\ FrameTwice(f) = {}
  BY <1>2 DEF FrameHolds, FrameTwice
<1>4. Lin(<<f>>) <=> FrameTwice(f) = {}
  BY <1>1, LinOne
<1>5. Holds(<<f>>) = FrameHolds(f)
  BY HoldsOne
<1>6. /\ f.k \in Kinds
      /\ (f.k = "Next" => f.id \in Nat)
      /\ (f.k = "Retry" => f.id \in Nat /\ f.next \in Nat)
      /\ (f.k = "Loop" => f = Loop(f.left, f.afterBody, f.lex))
      /\ (f.k \in {"Next", "Retry", "Loop"} => f.lex \in Seq(LexEntries))
  BY <1>1 DEF Shape
<1>7. /\ (f.k = "Next" => Own(f) = {<<"block", f.id>>})
      /\ (f.k = "Retry" => Own(f) = {<<"retry", f.id>>})
      /\ (f.k \in {"Call", "Try", "Loop"} => Own(f) = {})
  BY DEF Own
<1> QED BY <1>3, <1>4, <1>5, <1>6, <1>7

\* The frames the machine makes are well built.
LEMMA MakeHandle ==
  ASSUME NEW s, Built(s), NEW scope \in Nat, NEW on \in Actions \cup {Error}, NEW binder \in BOOLEAN,
         on = Error => ~binder, NEW lex \in Seq(LexEntries)
  PROVE  /\ Built(<<HandleBoundary(scope, Link(s), on, binder, lex)>>)
         /\ Built(<<ReenterHandler(scope, Link(s), on, binder, lex)>>)
<1>1. PICK W : Closed(W) /\ s \in Seq(W)
  BY DEF Built
<1>2. Coherent(Link(s), W)
  BY <1>1, LinkCoherent
<1>3. Shape(HandleBoundary(scope, Link(s), on, binder, lex), W)
  <2>1. PICK l : l = Link(s)
    OBVIOUS
  <2>2. Coherent(l, W)
    BY <1>2, <2>1
  <2>3. PICK f : f = HandleBoundary(scope, l, on, binder, lex)
    OBVIOUS
  <2>4. f.k = "Handle" /\ f.scope = scope /\ f.inner = l /\ f.on = on /\ f.binder = binder /\ f.lex = lex
    BY <2>3 DEF HandleBoundary
  <2>5. Shape(f, W)
    BY <2>2, <2>4 DEF Shape, Kinds, Boundaries
  <2> QED BY <2>1, <2>3, <2>5
<1>4. Shape(ReenterHandler(scope, Link(s), on, binder, lex), W)
  <2>1. PICK l : l = Link(s)
    OBVIOUS
  <2>2. Coherent(l, W)
    BY <1>2, <2>1
  <2>3. PICK f : f = ReenterHandler(scope, l, on, binder, lex)
    OBVIOUS
  <2>4. f.k = "Reenter" /\ f.scope = scope /\ f.inner = l /\ f.on = on /\ f.binder = binder /\ f.lex = lex
    BY <2>3 DEF ReenterHandler
  <2>5. Shape(f, W)
    BY <2>2, <2>4 DEF Shape, Kinds, Boundaries
  <2> QED BY <2>1, <2>3, <2>5
<1> QED BY <1>1, <1>3, <1>4, BuiltOne

\* A HandlerDispatch over a built continuation is built.
LEMMA MakeDispatch ==
  ASSUME NEW s, Built(s), NEW t \in Int PROVE Built(<<HandlerDispatch(Link(s), t)>>)
<1>1. PICK W : Closed(W) /\ s \in Seq(W)
  BY DEF Built
<1>2. PICK l : l = Link(s)
  OBVIOUS
<1>3. Coherent(l, W)
  BY <1>1, <1>2, LinkCoherent
<1>4. PICK f : f = HandlerDispatch(l, t)
  OBVIOUS
<1>5. f.k = "Dispatch" /\ f.outer = l /\ f.deferred = t
  BY <1>4 DEF HandlerDispatch
<1>6. Shape(f, W)
  BY <1>3, <1>5 DEF Shape, Kinds, Boundaries
<1> QED BY <1>1, <1>2, <1>4, <1>6, BuiltOne

\* The frames that hold no continuation are built.
LEMMA MakeLeaf ==
  ASSUME NEW f, \/ f = CallBoundary \/ f = TryExpr
                \/ \E id \in Nat, lex \in Seq(LexEntries) : f = Next_(id, lex)
                \/ \E id \in Nat, n \in Nat, lex \in Seq(LexEntries) : f = RetryAttempt(id, n, lex)
                \/ \E n, b, lex : lex \in Seq(LexEntries) /\ f = Loop(n, b, lex)
  PROVE  Built(<<f>>)
<1>1. Shape(f, {})
  <2>1. CASE f = CallBoundary
    <3>1. f.k = "Call"
      BY <2>1 DEF CallBoundary
    <3> QED BY <3>1 DEF Shape, Kinds, Boundaries
  <2>2. CASE f = TryExpr
    <3>1. f.k = "Try"
      BY <2>2 DEF TryExpr
    <3> QED BY <3>1 DEF Shape, Kinds, Boundaries
  <2>3. CASE \E id \in Nat, lex \in Seq(LexEntries) : f = Next_(id, lex)
    <3>1. f.k = "Next" /\ f.id \in Nat /\ f.lex \in Seq(LexEntries)
      BY <2>3 DEF Next_
    <3> QED BY <3>1 DEF Shape, Kinds, Boundaries
  <2>4. CASE \E id \in Nat, n \in Nat, lex \in Seq(LexEntries) : f = RetryAttempt(id, n, lex)
    <3>1. f.k = "Retry" /\ f.id \in Nat /\ f.next \in Nat /\ f.lex \in Seq(LexEntries)
      BY <2>4 DEF RetryAttempt
    <3> QED BY <3>1 DEF Shape, Kinds, Boundaries
  <2>5. CASE \E n, b, lex : lex \in Seq(LexEntries) /\ f = Loop(n, b, lex)
    <3>1. f.k = "Loop" /\ f.lex \in Seq(LexEntries) /\ f = Loop(f.left, f.afterBody, f.lex)
      BY <2>5 DEF Loop
    <3> QED BY <3>1 DEF Shape, Kinds, Boundaries
  <2> QED BY <2>1, <2>2, <2>3, <2>4, <2>5
<1>2. Closed({})
  BY DEF Closed
<1> QED BY <1>1, <1>2, BuiltOne

-----------------------------------------------------------------------------
(***************************************************************************)
(* Frames made of the parts of others                                      *)
(***************************************************************************)
\* u is well built, and names nothing that s does not, or more often.
Under(u, s) == Built(u) /\ Holds(u) \subseteq Holds(s) /\ (Lin(s) => Lin(u))

\* Under is reflexive on what is built.
LEMMA UnderSelf == ASSUME NEW s, Built(s) PROVE Under(s, s)
  BY DEF Under

\* Nothing is under everything.
LEMMA UnderNil == ASSUME NEW s PROVE Under(<<>>, s)
  BY BuiltNil, HoldsNil DEF Under, Lin

\* Under is monotone in both parts of a concatenation.
LEMMA UnderCat ==
  ASSUME NEW s, Built(s), NEW t, Built(t), NEW u, Under(u, s), NEW v, Under(v, t)
  PROVE  Under(u \o v, s \o t)
<1>1. Built(u) /\ Built(v)
  BY DEF Under
<1>2. /\ Built(u \o v) /\ Holds(u \o v) = Holds(u) \cup Holds(v)
      /\ (Lin(u \o v) <=> Lin(u) /\ Lin(v) /\ Holds(u) \cap Holds(v) = {})
  BY <1>1, BuiltCat
<1>3. /\ Built(s \o t) /\ Holds(s \o t) = Holds(s) \cup Holds(t)
      /\ (Lin(s \o t) <=> Lin(s) /\ Lin(t) /\ Holds(s) \cap Holds(t) = {})
  BY BuiltCat
<1> QED BY <1>2, <1>3 DEF Under

\* The lower part of a sequence, and the frames below its top.
LEMMA UnderCut ==
  ASSUME NEW s, Built(s), NEW n \in 0..Len(s) PROVE Under(SubSeq(s, n + 1, Len(s)), s)
<1>1. PICK p, q : p = SubSeq(s, 1, n) /\ q = SubSeq(s, n + 1, Len(s))
  OBVIOUS
<1>2. Built(p) /\ Built(q) /\ s = p \o q
  BY <1>1, BuiltCut
<1>3. Holds(p \o q) = Holds(p) \cup Holds(q) /\ (Lin(p \o q) => Lin(q))
  BY <1>2, BuiltCat
<1> QED BY <1>1, <1>2, <1>3 DEF Under

\* Popping a frame leaves something under the stack.
LEMMA UnderTail == ASSUME NEW s, Built(s), s # <<>> PROVE Under(Tail(s), s)
<1>1. PICK p, q : p = <<s[1]>> /\ q = Tail(s)
  OBVIOUS
<1>2. Built(p) /\ Built(q) /\ s = p \o q
  BY <1>1, BuiltTail
<1>3. Holds(p \o q) = Holds(p) \cup Holds(q) /\ (Lin(p \o q) => Lin(q))
  BY <1>2, BuiltCat
<1> QED BY <1>1, <1>2, <1>3 DEF Under

\* A boundary around other frames.
LEMMA Owns ==
  ASSUME NEW f, Built(<<f>>), f.k \in Boundaries, NEW s, Built(s)
  PROVE  /\ Built(<<Owning(f, s)>>) /\ Owning(f, s).k = "Handle" /\ Owning(f, s).inner.frames = s
         /\ Owning(f, s).scope = f.scope /\ Owning(f, s).on = f.on /\ Owning(f, s).binder = f.binder /\ Owning(f, s).lex = f.lex
         /\ Holds(<<Owning(f, s)>>) = {<<"scope", f.scope>>} \cup Holds(s)
         /\ (Lin(<<Owning(f, s)>>) <=> Lin(s) /\ <<"scope", f.scope>> \notin Holds(s))
         /\ Owning(f, s).inner.scopes = ScopeOrder(s) /\ Owning(f, s).inner.retries = RetryOrder(s)
<1>1. /\ f.scope \in Nat /\ f.on \in Actions \cup {Error} /\ f.binder \in BOOLEAN /\ (f.on = Error => ~f.binder)
      /\ f.lex \in Seq(LexEntries)
  BY BoundaryFrame
<1>2. PICK g, l : g = Owning(f, s) /\ l = Link(s)
  OBVIOUS
<1>3. g = HandleBoundary(f.scope, l, f.on, f.binder, f.lex)
  BY <1>2 DEF Owning
<1>4. Built(<<g>>)
  BY <1>1, <1>2, <1>3, MakeHandle
<1>5. g.k = "Handle" /\ g.inner = l /\ g.scope = f.scope /\ g.on = f.on /\ g.binder = f.binder /\ g.lex = f.lex
  BY <1>3 DEF HandleBoundary
<1>6. g.inner.frames = s
  BY <1>2, <1>5 DEF Link
<1>7. /\ Holds(<<g>>) = {<<"scope", g.scope>>} \cup Holds(g.inner.frames)
      /\ (Lin(<<g>>) <=> Lin(g.inner.frames) /\ <<"scope", g.scope>> \notin Holds(g.inner.frames))
      /\ g.inner.scopes = ScopeOrder(g.inner.frames) /\ g.inner.retries = RetryOrder(g.inner.frames)
  <2>1. g.k \in Boundaries
    BY <1>5 DEF Boundaries
  <2> QED BY <1>4, <2>1, BoundaryFrame
<1>8. /\ Holds(<<g>>) = {<<"scope", f.scope>>} \cup Holds(s)
      /\ (Lin(<<g>>) <=> Lin(s) /\ <<"scope", f.scope>> \notin Holds(s))
      /\ g.inner.scopes = ScopeOrder(s) /\ g.inner.retries = RetryOrder(s)
  BY <1>5, <1>6, <1>7
<1> QED BY <1>2, <1>4, <1>5, <1>6, <1>8, Zenon

\* Suspending a boundary above a continuation (SuspendHandler).
LEMMA Suspends ==
  ASSUME NEW f, Built(<<f>>), f.k \in Boundaries, NEW s, Built(s)
  PROVE  /\ Built(<<Suspended(f, s)>>) /\ Suspended(f, s).k = "Reenter" /\ Suspended(f, s).inner.frames = s
         /\ Suspended(f, s).scope = f.scope /\ Suspended(f, s).on = f.on /\ Suspended(f, s).binder = f.binder /\ Suspended(f, s).lex = f.lex
         /\ Holds(<<Suspended(f, s)>>) = {<<"scope", f.scope>>} \cup Holds(s)
         /\ (Lin(<<Suspended(f, s)>>) <=> Lin(s) /\ <<"scope", f.scope>> \notin Holds(s))
         /\ Suspended(f, s).inner.scopes = ScopeOrder(s) /\ Suspended(f, s).inner.retries = RetryOrder(s)
<1>1. /\ f.scope \in Nat /\ f.on \in Actions \cup {Error} /\ f.binder \in BOOLEAN /\ (f.on = Error => ~f.binder)
      /\ f.lex \in Seq(LexEntries)
  BY BoundaryFrame
<1>2. PICK g, l : g = Suspended(f, s) /\ l = Link(s)
  OBVIOUS
<1>3. g = ReenterHandler(f.scope, l, f.on, f.binder, f.lex)
  BY <1>2 DEF Suspended
<1>4. Built(<<g>>)
  BY <1>1, <1>2, <1>3, MakeHandle
<1>5. g.k = "Reenter" /\ g.inner = l /\ g.scope = f.scope /\ g.on = f.on /\ g.binder = f.binder /\ g.lex = f.lex
  BY <1>3 DEF ReenterHandler
<1>6. g.inner.frames = s
  BY <1>2, <1>5 DEF Link
<1>7. /\ Holds(<<g>>) = {<<"scope", g.scope>>} \cup Holds(g.inner.frames)
      /\ (Lin(<<g>>) <=> Lin(g.inner.frames) /\ <<"scope", g.scope>> \notin Holds(g.inner.frames))
      /\ g.inner.scopes = ScopeOrder(g.inner.frames) /\ g.inner.retries = RetryOrder(g.inner.frames)
  <2>1. g.k \in Boundaries
    BY <1>5 DEF Boundaries
  <2> QED BY <1>4, <2>1, BoundaryFrame
<1>8. /\ Holds(<<g>>) = {<<"scope", f.scope>>} \cup Holds(s)
      /\ (Lin(<<g>>) <=> Lin(s) /\ <<"scope", f.scope>> \notin Holds(s))
      /\ g.inner.scopes = ScopeOrder(s) /\ g.inner.retries = RetryOrder(s)
  BY <1>5, <1>6, <1>7
<1> QED BY <1>2, <1>4, <1>5, <1>6, <1>8, Zenon

\* Opening a boundary, and entering it again.
LEMMA OpenUnder ==
  ASSUME NEW f, Built(<<f>>), f.k \in Boundaries
  PROVE  /\ Under(f.inner.frames \o <<Owning(f, <<>>)>>, <<f>>)
         /\ Under(<<Owning(f, f.inner.frames)>>, <<f>>)
         /\ Under(<<Owning(f, <<>>)>>, <<f>>)
<1>1. PICK s, x : s = f.inner.frames /\ x = <<"scope", f.scope>>
  OBVIOUS
<1>2. Built(s) /\ Holds(<<f>>) = {x} \cup Holds(s) /\ (Lin(<<f>>) <=> Lin(s) /\ x \notin Holds(s))
  BY <1>1, BoundaryFrame
<1>3. PICK e, g : e = Owning(f, <<>>) /\ g = Owning(f, s)
  OBVIOUS
<1>4. Built(<<e>>) /\ Holds(<<e>>) = {x} /\ Lin(<<e>>)
  <2>1. /\ Built(<<e>>) /\ Holds(<<e>>) = {<<"scope", f.scope>>} \cup Holds(<<>>)
        /\ (Lin(<<e>>) <=> Lin(<<>>) /\ <<"scope", f.scope>> \notin Holds(<<>>))
    BY <1>3, BuiltNil, Owns
  <2> QED BY <1>1, <2>1, HoldsNil DEF Lin
<1>5. Built(<<g>>) /\ Holds(<<g>>) = {x} \cup Holds(s) /\ (Lin(<<g>>) <=> Lin(s) /\ x \notin Holds(s))
  <2>2. /\ Built(<<g>>) /\ Holds(<<g>>) = {<<"scope", f.scope>>} \cup Holds(s)
        /\ (Lin(<<g>>) <=> Lin(s) /\ <<"scope", f.scope>> \notin Holds(s))
    BY <1>2, <1>3, Owns
  <2> QED BY <1>1, <2>2
<1>6. /\ Built(s \o <<e>>) /\ Holds(s \o <<e>>) = Holds(s) \cup Holds(<<e>>)
      /\ (Lin(s \o <<e>>) <=> Lin(s) /\ Lin(<<e>>) /\ Holds(s) \cap Holds(<<e>>) = {})
  BY <1>2, <1>4, BuiltCat
<1>7. Under(s \o <<e>>, <<f>>)
  BY <1>2, <1>4, <1>6 DEF Under
<1>8. Under(<<g>>, <<f>>) /\ Under(<<e>>, <<f>>)
  BY <1>2, <1>4, <1>5 DEF Under
<1> QED BY <1>1, <1>3, <1>7, <1>8

\* Frames drawn into a boundary.
LEMMA SuspendUnder ==
  ASSUME NEW p, Built(p), NEW f, Built(<<f>>), f.k \in Boundaries
  PROVE  /\ Built(p \o f.inner.frames) /\ Under(<<Suspended(f, p \o f.inner.frames)>>, p \o <<f>>)
         /\ Lin(p \o <<f>>) => Lin(p \o f.inner.frames) /\ <<"scope", f.scope>> \notin Holds(p \o f.inner.frames)
<1>1. PICK s, x, q : s = f.inner.frames /\ x = <<"scope", f.scope>> /\ q = p \o s
  OBVIOUS
<1>2. Built(s) /\ Holds(<<f>>) = {x} \cup Holds(s) /\ (Lin(<<f>>) <=> Lin(s) /\ x \notin Holds(s))
  BY <1>1, BoundaryFrame
<1>3. /\ Built(q) /\ Holds(q) = Holds(p) \cup Holds(s)
      /\ (Lin(q) <=> Lin(p) /\ Lin(s) /\ Holds(p) \cap Holds(s) = {})
  BY <1>1, <1>2, BuiltCat
<1>4. /\ Built(p \o <<f>>) /\ Holds(p \o <<f>>) = Holds(p) \cup Holds(<<f>>)
      /\ (Lin(p \o <<f>>) <=> Lin(p) /\ Lin(<<f>>) /\ Holds(p) \cap Holds(<<f>>) = {})
  BY BuiltCat
<1>5. PICK g : g = Suspended(f, q)
  OBVIOUS
<1>6. Built(<<g>>) /\ Holds(<<g>>) = {x} \cup Holds(q) /\ (Lin(<<g>>) <=> Lin(q) /\ x \notin Holds(q))
  BY <1>1, <1>3, <1>5, Suspends
<1>7. Lin(p \o <<f>>) => Lin(q) /\ x \notin Holds(q)
  BY <1>2, <1>3, <1>4
<1>8. Under(<<g>>, p \o <<f>>)
  BY <1>2, <1>3, <1>4, <1>6, <1>7 DEF Under
<1> QED BY <1>1, <1>3, <1>5, <1>7, <1>8

\* The dispatch of an arm, and the boundary around it.
LEMMA Dispatches ==
  ASSUME NEW s, Built(s), NEW t \in Int
  PROVE  LET g == HandlerDispatch(Link(s), t)
         IN  /\ Built(<<g>>) /\ g.k = "Dispatch" /\ g.outer.frames = s /\ g.deferred = t
             /\ Holds(<<g>>) = Token(t) \cup Holds(s)
             /\ (Lin(<<g>>) <=> Lin(s) /\ Token(t) \cap Holds(s) = {})
             /\ g.outer.scopes = ScopeOrder(s) /\ g.outer.retries = RetryOrder(s)
<1>1. PICK g, l : g = HandlerDispatch(Link(s), t) /\ l = Link(s)
  OBVIOUS
<1>2. g = HandlerDispatch(l, t)
  BY <1>1
<1>3. Built(<<g>>)
  BY <1>1, MakeDispatch
<1>4. g.k = "Dispatch" /\ g.outer = l /\ g.deferred = t
  BY <1>2 DEF HandlerDispatch
<1>5. g.outer.frames = s
  BY <1>1, <1>4 DEF Link
<1>6. /\ g.outer.scopes = ScopeOrder(g.outer.frames) /\ g.outer.retries = RetryOrder(g.outer.frames)
      /\ Holds(<<g>>) = Token(g.deferred) \cup Holds(g.outer.frames)
      /\ (Lin(<<g>>) <=> Lin(g.outer.frames) /\ Token(g.deferred) \cap Holds(g.outer.frames) = {})
  BY <1>3, <1>4, DispatchFrame
<1>7. /\ g.outer.scopes = ScopeOrder(s) /\ g.outer.retries = RetryOrder(s)
      /\ Holds(<<g>>) = Token(t) \cup Holds(s)
      /\ (Lin(<<g>>) <=> Lin(s) /\ Token(t) \cap Holds(s) = {})
  BY <1>4, <1>5, <1>6
<1> QED BY <1>1, <1>3, <1>4, <1>5, <1>7, Zenon

-----------------------------------------------------------------------------
(***************************************************************************)
(* The names in use                                                        *)
(***************************************************************************)
\* The names given out: blocks that have not run, scopes, attempts and tokens.
Known(fu, nh, nr, na, rn) ==
  ({"block"} \X {b \in Nat : b > fu /\ b \notin rn}) \cup ({"scope"} \X (0..(nh - 1)))
    \cup ({"retry"} \X (0..(nr - 1))) \cup ({"token"} \X (0..(na - 1)))

Kept(A, t) == A.entries[t].frames
Owned(A)   == {t \in DOMAIN A.entries : A.entries[t].state = "ArmOwned"}

ArenaOK(A) ==
  /\ A = [next |-> A.next, entries |-> A.entries] /\ A.next \in Nat
  /\ DOMAIN A.entries = 0..(A.next - 1) /\ A.entries = [t \in 0..(A.next - 1) |-> A.entries[t]]
  /\ \A t \in DOMAIN A.entries :
       /\ A.entries[t] = [owner |-> 0, origin |-> "Root", frames |-> A.entries[t].frames,
                          state |-> A.entries[t].state]
       /\ A.entries[t].state \in ContinuationStates
       /\ A.entries[t].state = "ArmOwned" => Built(A.entries[t].frames)
       /\ A.entries[t].state # "ArmOwned" => A.entries[t].frames = NoFrames

\* The machine's frames m and those of the tokens name everything once, and
\* only names of L.
Base(m, A, L) ==
  /\ Built(m) /\ Lin(m) /\ Holds(m) \subseteq L /\ ArenaOK(A)
  /\ \A t \in Owned(A) : Lin(Kept(A, t)) /\ Holds(Kept(A, t)) \subseteq L /\ Holds(Kept(A, t)) \cap Holds(m) = {}
  /\ \A t, u \in Owned(A) : t # u => Holds(Kept(A, t)) \cap Holds(Kept(A, u)) = {}

\* The arena accepts exactly the tokens that an arm owns.
LEMMA Accepts ==
  ASSUME NEW A, ArenaOK(A), NEW t
  PROVE  /\ (Refusal(A, t, 0, "Root") = "Accepted") <=> t \in Owned(A)
         /\ t \in Owned(A) => t \in 0..(A.next - 1) /\ Built(Kept(A, t))
<1>1. CASE t \in DOMAIN A.entries
  <2>1. A.entries[t].owner = 0 /\ A.entries[t].origin = "Root"
    <3>1. PICK e, fr, st : e = A.entries[t] /\ fr = e.frames /\ st = e.state
      OBVIOUS
    <3>2. e = [owner |-> 0, origin |-> "Root", frames |-> fr, state |-> st]
      BY <1>1, <3>1 DEF ArenaOK
    <3>3. e.owner = 0 /\ e.origin = "Root"
      BY <3>2
    <3> QED BY <3>1, <3>3
  <2> QED BY <1>1, <2>1 DEF Refusal, Owned, ArenaOK, Kept
<1>2. CASE t \notin DOMAIN A.entries
  BY <1>2 DEF Refusal, Owned
<1> QED BY <1>1, <1>2

\* The frames of a token that is not owned by an arm hold nothing.
LEMMA TakenHolds == Holds(NoFrames) = {} /\ Twice(NoFrames) = {}
<1>1. PICK f : f = [k |-> "Taken"]
  OBVIOUS
<1>2. f.k = "Taken" /\ NoFrames = <<f>>
  BY <1>1 DEF NoFrames
<1>3. Own(f) = {} /\ Nested(f) = NoLink
  BY <1>2 DEF Own, Nested
<1>4. NoLink.holds = {}
  BY DEF NoLink
<1>5. FrameHolds(f) = {}
  BY <1>3, <1>4 DEF FrameHolds
<1>6. Holds(NoFrames) = {}
  BY <1>2, <1>5, HoldsOne
<1> QED BY <1>6 DEF Twice

\* Dropping frames keeps the frames and the arena linear.
LEMMA BaseUnder ==
  ASSUME NEW m, NEW A, NEW L, Base(m, A, L), NEW n, Under(n, m), NEW K, L \subseteq K
  PROVE  Base(n, A, K)
<1>1. Built(n) /\ Lin(n) /\ Holds(n) \subseteq Holds(m)
  BY DEF Base, Under
<1> QED BY <1>1 DEF Base

\* Pushing a frame with a fresh name keeps them linear.
LEMMA BaseNew ==
  ASSUME NEW m, NEW A, NEW L, Base(m, A, L), NEW n, Built(n), Lin(n), NEW x, Holds(n) \subseteq Holds(m) \cup {x},
         x \notin L, NEW K, L \cup {x} \subseteq K
  PROVE  Base(n, A, K)
  BY DEF Base

\* Taking the top frame away frees its name.
LEMMA BaseRun ==
  ASSUME NEW m, NEW A, NEW L, Base(m, A, L), m # <<>>, NEW x \in Holds(<<m[1]>>)
  PROVE  Base(Tail(m), A, L \ {x})
<1>1. PICK p, q : p = <<m[1]>> /\ q = Tail(m)
  OBVIOUS
<1>2. Built(p) /\ Built(q) /\ m = p \o q
  BY <1>1, BuiltTail DEF Base
<1>3. /\ Holds(p \o q) = Holds(p) \cup Holds(q)
      /\ (Lin(p \o q) <=> Lin(p) /\ Lin(q) /\ Holds(p) \cap Holds(q) = {})
  BY <1>2, BuiltCat
<1>4. x \in Holds(p) /\ x \in Holds(m) /\ x \notin Holds(q) /\ Lin(q) /\ Holds(q) \subseteq Holds(m)
  BY <1>1, <1>2, <1>3 DEF Base
<1>5. \A t \in Owned(A) : x \notin Holds(Kept(A, t))
  BY <1>4 DEF Base
<1> QED BY <1>1, <1>2, <1>4, <1>5 DEF Base

\* A token's frames leave the arena.
TakeOut(A, t, st) == [A EXCEPT !.entries[t].state = st, !.entries[t].frames = NoFrames]

\* An entry that is consumed or disposed of owns no frames.
LEMMA TakenArena ==
  ASSUME NEW A, ArenaOK(A), NEW t \in Owned(A), NEW st \in ContinuationStates, st # "ArmOwned",
         NEW B, B = TakeOut(A, t, st)
  PROVE  /\ ArenaOK(B) /\ B.next = A.next /\ Owned(B) = Owned(A) \ {t}
         /\ \A u \in Owned(B) : Kept(B, u) = Kept(A, u)
<1>1. t \in DOMAIN A.entries /\ DOMAIN A.entries = 0..(A.next - 1)
  BY DEF Owned, ArenaOK
<1>2. PICK e, en : e = A.entries[t] /\ en = A.entries
  OBVIOUS
<1>3. A = [next |-> A.next, entries |-> en]
  BY <1>2 DEF ArenaOK
<1>4. e = [owner |-> 0, origin |-> "Root", frames |-> e.frames, state |-> e.state]
  BY <1>1, <1>2 DEF ArenaOK
<1>5. PICK d : d = [owner |-> 0, origin |-> "Root", frames |-> NoFrames, state |-> st]
  OBVIOUS
<1>6. [[e EXCEPT !.state = st] EXCEPT !.frames = NoFrames] = d
  <2>1. PICK fr, s2 : fr = e.frames /\ s2 = e.state
    OBVIOUS
  <2>2. e = [owner |-> 0, origin |-> "Root", frames |-> fr, state |-> s2]
    BY <1>4, <2>1
  <2>3. PICK g : g = [e EXCEPT !.state = st]
    OBVIOUS
  <2>4. g = [owner |-> 0, origin |-> "Root", frames |-> fr, state |-> st]
    BY <2>2, <2>3
  <2>5. [g EXCEPT !.frames = NoFrames] = d
    BY <1>5, <2>4
  <2> QED BY <2>3, <2>5, Zenon
<1>7. B.next = A.next /\ B.entries = [en EXCEPT ![t] = d] /\ B = [next |-> A.next, entries |-> B.entries]
  <2>1. B = [next |-> A.next, entries |-> [en EXCEPT ![t] = d]]
    BY <1>1, <1>2, <1>3, <1>4, <1>5, <1>6 DEF TakeOut
  <2> QED BY <2>1
<1>8. /\ DOMAIN B.entries = 0..(A.next - 1) /\ B.entries[t] = d
      /\ \A u \in 0..(A.next - 1) : u # t => B.entries[u] = A.entries[u]
  BY <1>1, <1>2, <1>7
<1>9. B.entries = [u \in 0..(B.next - 1) |-> B.entries[u]]
  <2>1. B.entries = [u \in DOMAIN B.entries |-> B.entries[u]]
    BY <1>7
  <2> QED BY <1>7, <1>8, <2>1
<1>10. ASSUME NEW u \in DOMAIN B.entries
       PROVE  /\ B.entries[u] = [owner |-> 0, origin |-> "Root", frames |-> B.entries[u].frames,
                                 state |-> B.entries[u].state]
              /\ B.entries[u].state \in ContinuationStates
              /\ B.entries[u].state = "ArmOwned" => Built(B.entries[u].frames)
              /\ B.entries[u].state # "ArmOwned" => B.entries[u].frames = NoFrames
  <2>1. CASE u = t
    BY <1>5, <1>8, <2>1
  <2>2. CASE u # t
    BY <1>1, <1>8, <2>2 DEF ArenaOK
  <2> QED BY <2>1, <2>2
<1>11. A.next \in Nat
  BY DEF ArenaOK
<1>12. ArenaOK(B)
  BY <1>7, <1>8, <1>9, <1>10, <1>11 DEF ArenaOK
<1>13. d.state = st
  BY <1>5
<1>14. \A u : u \in Owned(B) <=> u \in Owned(A) /\ u # t
  BY <1>1, <1>8, <1>13 DEF Owned
<1>15. \A u \in Owned(B) : Kept(B, u) = Kept(A, u)
  BY <1>1, <1>8, <1>14 DEF Owned, Kept
<1> QED BY <1>7, <1>12, <1>14, <1>15

\* Moving an entry's frames to the stack keeps everything linear.
LEMMA BaseTake ==
  ASSUME NEW m, NEW A, NEW L, Base(m, A, L), NEW t \in Owned(A), NEW st \in ContinuationStates, st # "ArmOwned",
         NEW n, Built(n), Lin(n), Holds(n) \subseteq Holds(m) \cup Holds(Kept(A, t)), NEW K, L \subseteq K
  PROVE  Base(n, TakeOut(A, t, st), K)
<1>1. PICK B : B = TakeOut(A, t, st)
  OBVIOUS
<1>2. ArenaOK(B) /\ Owned(B) = Owned(A) \ {t} /\ \A u \in Owned(B) : Kept(B, u) = Kept(A, u)
  BY <1>1, TakenArena DEF Base
<1>3. Holds(n) \subseteq K
  BY DEF Base
<1>4. \A u \in Owned(B) : /\ Lin(Kept(B, u)) /\ Holds(Kept(B, u)) \subseteq K
                          /\ Holds(Kept(B, u)) \cap Holds(n) = {}
  BY <1>2 DEF Base
<1>5. \A u, v \in Owned(B) : u # v => Holds(Kept(B, u)) \cap Holds(Kept(B, v)) = {}
  BY <1>2 DEF Base
<1> QED BY <1>1, <1>2, <1>3, <1>4, <1>5 DEF Base

\* Moving frames to a new entry of the arena keeps everything linear.
LEMMA BaseAllocate ==
  ASSUME NEW m, NEW A, NEW L, Base(m, A, L), NEW s, Built(s), Lin(s), NEW n, Built(n), Lin(n), NEW x,
         x \notin L, Holds(n) \subseteq Holds(m) \cup {x}, Holds(s) \subseteq Holds(m), Holds(n) \cap Holds(s) = {},
         NEW K, L \cup {x} \subseteq K, NEW B, B = Allocate(A, 0, "Root", s)
  PROVE  /\ Base(n, B, K) /\ B.next = A.next + 1 /\ A.next \notin Owned(A)
         /\ Owned(B) = Owned(A) \cup {A.next} /\ Kept(B, A.next) = s
         /\ \A u \in Owned(A) : Kept(B, u) = Kept(A, u)
<1>1. PICK k \in Nat : k = A.next
  BY DEF Base, ArenaOK
<1>2. DOMAIN A.entries = 0..(k - 1)
  BY <1>1 DEF Base, ArenaOK
<1>3. PICK d : d = [owner |-> 0, origin |-> "Root", frames |-> s, state |-> "ArmOwned"]
  OBVIOUS
<1>4. PICK en : en = [i \in 0..k |-> IF i = k THEN d ELSE A.entries[i]]
  OBVIOUS
<1>5. B = [next |-> k + 1, entries |-> en]
  BY <1>1, <1>3, <1>4 DEF Allocate
<1>6. B.next = k + 1 /\ B.entries = en /\ (k + 1) - 1 = k
  BY <1>1, <1>5
<1>7. DOMAIN en = 0..k /\ en[k] = d /\ \A u \in 0..(k - 1) : u \in 0..k /\ u # k /\ en[u] = A.entries[u]
  BY <1>1, <1>4
<1>8. \A u \in 0..k : u = k \/ u \in 0..(k - 1)
  BY <1>1
<1>9. d.state = "ArmOwned" /\ d.frames = s
  BY <1>3
<1>10. ASSUME NEW u \in 0..k
       PROVE  /\ en[u] = [owner |-> 0, origin |-> "Root", frames |-> en[u].frames, state |-> en[u].state]
              /\ en[u].state \in ContinuationStates
              /\ en[u].state = "ArmOwned" => Built(en[u].frames)
              /\ en[u].state # "ArmOwned" => en[u].frames = NoFrames
  <2>1. CASE u = k
    BY <1>3, <1>7, <1>9, <2>1 DEF ContinuationStates
  <2>2. CASE u \in 0..(k - 1)
    BY <1>2, <1>7, <2>2 DEF Base, ArenaOK
  <2> QED BY <1>8, <2>1, <2>2
<1>11. ArenaOK(B)
  <2>1. en = [t \in 0..k |-> en[t]]
    BY <1>4
  <2>2. k + 1 \in Nat
    BY <1>1
  <2> QED BY <1>5, <1>6, <1>7, <1>10, <2>1, <2>2 DEF ArenaOK
<1>12. Owned(B) = Owned(A) \cup {k} /\ k \notin Owned(A)
  <2>1. \A u : u \in Owned(B) <=> u \in 0..k /\ en[u].state = "ArmOwned"
    BY <1>6, <1>7 DEF Owned
  <2>2. \A u : u \in Owned(A) <=> u \in 0..(k - 1) /\ A.entries[u].state = "ArmOwned"
    BY <1>2 DEF Owned
  <2>3. k \notin 0..(k - 1) /\ k \in 0..k
    BY <1>1
  <2> QED BY <1>7, <1>8, <1>9, <2>1, <2>2, <2>3
<1>13. Kept(B, k) = s /\ \A u \in Owned(A) : Kept(B, u) = Kept(A, u)
  <2>1. \A u \in Owned(A) : u \in 0..(k - 1)
    BY <1>2 DEF Owned
  <2> QED BY <1>6, <1>7, <1>9, <2>1 DEF Kept
<1>14. Holds(n) \subseteq K /\ Holds(s) \subseteq K
  BY DEF Base
<1>15. \A u \in Owned(A) : /\ Lin(Kept(A, u)) /\ Holds(Kept(A, u)) \subseteq K
                           /\ Holds(Kept(A, u)) \cap Holds(n) = {} /\ Holds(Kept(A, u)) \cap Holds(s) = {}
  BY DEF Base
<1>16. \A u \in Owned(B) : /\ Lin(Kept(B, u)) /\ Holds(Kept(B, u)) \subseteq K
                           /\ Holds(Kept(B, u)) \cap Holds(n) = {}
  BY <1>12, <1>13, <1>14, <1>15
<1>17. \A u, v \in Owned(B) : u # v => Holds(Kept(B, u)) \cap Holds(Kept(B, v)) = {}
  <2>1. \A u, v \in Owned(A) : u # v => Holds(Kept(A, u)) \cap Holds(Kept(A, v)) = {}
    BY DEF Base
  <2> QED BY <1>12, <1>13, <1>15, <2>1
<1>18. Base(n, B, K)
  BY <1>11, <1>14, <1>16, <1>17 DEF Base
<1> QED BY <1>1, <1>6, <1>12, <1>13, <1>18

\* Names that are in use stay in use when the counters grow and the fuel shrinks.
LEMMA KnownGrows ==
  ASSUME NEW fu \in Nat, NEW nh \in Nat, NEW nr \in Nat, NEW na \in Nat, NEW rn,
         NEW fu2 \in Nat, NEW nh2 \in Nat, NEW nr2 \in Nat, NEW na2 \in Nat,
         fu2 <= fu, nh <= nh2, nr <= nr2, na <= na2
  PROVE  Known(fu, nh, nr, na, rn) \subseteq Known(fu2, nh2, nr2, na2, rn)
<1>1. /\ 0..(nh - 1) \subseteq 0..(nh2 - 1) /\ 0..(nr - 1) \subseteq 0..(nr2 - 1) /\ 0..(na - 1) \subseteq 0..(na2 - 1)
      /\ {b \in Nat : b > fu /\ b \notin rn} \subseteq {b \in Nat : b > fu2 /\ b \notin rn}
  OBVIOUS
<1> QED BY <1>1 DEF Known

\* The next name of each kind is not in use.
LEMMA KnownFresh ==
  ASSUME NEW fu \in Nat, NEW nh \in Nat, NEW nr \in Nat, NEW na \in Nat, NEW rn
  PROVE  /\ <<"block", fu>> \notin Known(fu, nh, nr, na, rn) /\ <<"scope", nh>> \notin Known(fu, nh, nr, na, rn)
         /\ <<"retry", nr>> \notin Known(fu, nh, nr, na, rn) /\ <<"token", na>> \notin Known(fu, nh, nr, na, rn)
         /\ (fu # 0 /\ fu \notin rn => <<"block", fu>> \in Known(fu - 1, nh, nr, na, rn))
         /\ <<"scope", nh>> \in Known(fu, nh + 1, nr, na, rn)
         /\ <<"retry", nr>> \in Known(fu, nh, nr + 1, na, rn)
         /\ <<"token", na>> \in Known(fu, nh, nr, na + 1, rn)
<1>1. fu \notin {b \in Nat : b > fu /\ b \notin rn} /\ nh \notin 0..(nh - 1) /\ nr \notin 0..(nr - 1) /\ na \notin 0..(na - 1)
  OBVIOUS
<1>2. /\ (fu # 0 /\ fu \notin rn => fu \in {b \in Nat : b > fu - 1 /\ b \notin rn})
      /\ nh \in 0..((nh + 1) - 1) /\ nr \in 0..((nr + 1) - 1) /\ na \in 0..((na + 1) - 1)
  OBVIOUS
<1>3. \A x, y : /\ (<<"block", x>> \in {"block"} \X y) <=> x \in y
                /\ (<<"scope", x>> \in {"scope"} \X y) <=> x \in y
                /\ (<<"retry", x>> \in {"retry"} \X y) <=> x \in y
                /\ (<<"token", x>> \in {"token"} \X y) <=> x \in y
  OBVIOUS
<1>4. \A x, y : /\ <<"block", x>> \notin {"scope"} \X y /\ <<"block", x>> \notin {"retry"} \X y /\ <<"block", x>> \notin {"token"} \X y
                /\ <<"scope", x>> \notin {"block"} \X y /\ <<"scope", x>> \notin {"retry"} \X y /\ <<"scope", x>> \notin {"token"} \X y
                /\ <<"retry", x>> \notin {"block"} \X y /\ <<"retry", x>> \notin {"scope"} \X y /\ <<"retry", x>> \notin {"token"} \X y
                /\ <<"token", x>> \notin {"block"} \X y /\ <<"token", x>> \notin {"scope"} \X y /\ <<"token", x>> \notin {"retry"} \X y
  OBVIOUS
<1>5. <<"block", fu>> \notin Known(fu, nh, nr, na, rn)
  BY <1>1, <1>3, <1>4, Zenon DEF Known
<1>6. <<"scope", nh>> \notin Known(fu, nh, nr, na, rn)
  BY <1>1, <1>3, <1>4, Zenon DEF Known
<1>7. <<"retry", nr>> \notin Known(fu, nh, nr, na, rn)
  BY <1>1, <1>3, <1>4, Zenon DEF Known
<1>8. <<"token", na>> \notin Known(fu, nh, nr, na, rn)
  BY <1>1, <1>3, <1>4, Zenon DEF Known
<1>9. fu # 0 /\ fu \notin rn => <<"block", fu>> \in Known(fu - 1, nh, nr, na, rn)
  BY <1>2, <1>3, Zenon DEF Known
<1>10. <<"scope", nh>> \in Known(fu, nh + 1, nr, na, rn) /\ <<"retry", nr>> \in Known(fu, nh, nr + 1, na, rn)
  BY <1>2, <1>3, Zenon DEF Known
<1>11. <<"token", na>> \in Known(fu, nh, nr, na + 1, rn)
  BY <1>2, <1>3, Zenon DEF Known
<1> QED BY <1>5, <1>6, <1>7, <1>8, <1>9, <1>10, <1>11

\* A block that ran is not in use any more.
LEMMA KnownRun ==
  ASSUME NEW fu, NEW nh, NEW nr, NEW na, NEW rn, NEW b
  PROVE  Known(fu, nh, nr, na, rn) \ {<<"block", b>>} \subseteq Known(fu, nh, nr, na, rn \cup {b})
<1> SUFFICES ASSUME NEW x \in Known(fu, nh, nr, na, rn), x # <<"block", b>>
             PROVE  x \in Known(fu, nh, nr, na, rn \cup {b})
  OBVIOUS
<1>1. CASE x \in {"block"} \X {c \in Nat : c > fu /\ c \notin rn}
  <2>1. PICK c \in {c \in Nat : c > fu /\ c \notin rn} : x = <<"block", c>>
    BY <1>1
  <2>2. c # b
    BY <2>1
  <2>3. c \in {d \in Nat : d > fu /\ d \notin rn \cup {b}}
    BY <2>1, <2>2
  <2> QED BY <2>1, <2>3 DEF Known
<1>2. CASE x \notin {"block"} \X {c \in Nat : c > fu /\ c \notin rn}
  BY <1>2 DEF Known
<1> QED BY <1>1, <1>2

\* A scope that is in use was handed out by next_handler_scope.
LEMMA KnownNames ==
  ASSUME NEW fu, NEW nh, NEW nr, NEW na, NEW rn, NEW x, <<"scope", x>> \in Known(fu, nh, nr, na, rn)
  PROVE  x \in 0..(nh - 1)
  BY DEF Known

\* A block that is in use is older than the fuel and has not run.
LEMMA KnownBlocks ==
  ASSUME NEW fu, NEW nh, NEW nr, NEW na, NEW rn, NEW x, <<"block", x>> \in Known(fu, nh, nr, na, rn)
  PROVE  x \in Nat /\ x > fu /\ x \notin rn
  BY DEF Known

-----------------------------------------------------------------------------
(***************************************************************************)
(* The invariant that holds of every run                                   *)
(***************************************************************************)
PlainKinds == {"Value", "Return", "Resume", "Finish", "Break", "Continue", "Host", "Checkpoint", "Done",
               "Unhandled", "Fault"}

\* A signal that carries no frames.
Plain(sg) == sg.k \in PlainKinds \/ (sg.k = "Code" /\ sg.lex \in Seq(LexEntries))

SignalOK(sg) ==
  \/ Plain(sg)
  \/ /\ sg.k = "Perform" /\ sg = Perform(sg.on, sg.cont) /\ sg.on \in Actions \cup {Error} /\ Built(sg.cont)
  \/ sg.k = "Parked" /\ Built(sg.cont)

Handlers(nh) == [id : 0..(nh - 1), on : Actions \cup {Error}]

Stacks(hs, rs, nh, nr, fu, rn, cr) ==
  /\ nh \in Nat /\ nr \in Nat /\ fu \in Nat /\ rn \subseteq {b \in Nat : b > fu} /\ cr \in BOOLEAN
  /\ hs \in Seq(Handlers(nh)) /\ rs \in Seq(0..(nr - 1))

Names == Known(fuel, next_handler_scope, next_retry, arena.next, ran)

Body ==
  /\ Built(SignalFrames) /\ Built(stack) /\ Base(SignalFrames \o stack, arena, Names)

SavedBase(s) ==
  /\ Stacks(s.handler_stack, s.retry_stack, s.next_handler_scope, s.next_retry, s.fuel, s.ran, s.crossed)
  /\ Base(s.stack, s.arena, Known(s.fuel, s.next_handler_scope, s.next_retry, s.arena.next, s.ran))

Types ==
  /\ SignalOK(signal) /\ crashes \in Nat
  /\ Stacks(handler_stack, retry_stack, next_handler_scope, next_retry, fuel, ran, crossed)

MachineInv == Types /\ Body /\ (saved # NoCheckpoint => SavedBase(saved))

\* The signals that carry no frames are plain.
LEMMA PlainSignals ==
  /\ \A k \in PlainKinds : Plain(Sig(k))
  /\ \A w : Plain(Fault(w))
  /\ \A l \in Seq(LexEntries) : Plain(Code(l))
<1>1. \A k \in PlainKinds : Plain(Sig(k))
  BY DEF Plain, Sig
<1>2. \A w : Plain(Fault(w))
  BY DEF Plain, Fault, PlainKinds
<1>3. \A l \in Seq(LexEntries) : Plain(Code(l))
  BY DEF Plain, Code
<1> QED BY <1>1, <1>2, <1>3

\* Concatenation with the empty continuation.
LEMMA NilCat == ASSUME NEW s, Built(s) PROVE <<>> \o s = s /\ s \o <<>> = s
<1>1. PICK W : s \in Seq(W)
  BY DEF Built
<1> QED BY <1>1, ConcatEmptySeq

\* A signal that carries nothing.
LEMMA Carries ==
  ASSUME MachineInv
  PROVE  /\ Built(SignalFrames) /\ Built(stack) /\ Base(SignalFrames \o stack, arena, Names) /\ ArenaOK(arena)
         /\ (signal.k \notin {"Perform", "Parked"} => SignalFrames = <<>> /\ SignalFrames \o stack = stack)
         /\ (signal.k \in {"Perform", "Parked"} => SignalFrames = signal.cont /\ Built(signal.cont))
         /\ (signal.k = "Perform" => signal = Perform(signal.on, signal.cont) /\ signal.on \in Actions \cup {Error})
         /\ (signal.k = "Code" => signal.lex \in Seq(LexEntries))
<1>1. Built(SignalFrames) /\ Built(stack) /\ Base(SignalFrames \o stack, arena, Names)
  BY DEF MachineInv, Body
<1>2. ArenaOK(arena)
  BY <1>1 DEF Base
<1>3. signal.k \notin {"Perform", "Parked"} => SignalFrames = <<>> /\ SignalFrames \o stack = stack
  <2>1. signal.k \notin {"Perform", "Parked"} => SignalFrames = <<>>
    BY DEF SignalFrames
  <2>2. <<>> \o stack = stack
    BY <1>1, NilCat
  <2> QED BY <2>1, <2>2
<1>4. signal.k \in {"Perform", "Parked"} => SignalFrames = signal.cont
  BY DEF SignalFrames
<1>5. /\ (signal.k = "Perform" => signal = Perform(signal.on, signal.cont) /\ signal.on \in Actions \cup {Error})
      /\ (signal.k = "Code" => signal.lex \in Seq(LexEntries))
  BY DEF MachineInv, Types, SignalOK, Plain, PlainKinds
<1> QED BY <1>1, <1>2, <1>3, <1>4, <1>5

\* A plain signal is well formed and carries no frames.
LEMMA PlainCarries ==
  ASSUME NEW sg, Plain(sg) PROVE SignalOK(sg) /\ sg.k \notin {"Perform", "Parked"}
  BY DEF Plain, PlainKinds, SignalOK

\* A step after which the signal carries nothing and the stack is made of what
\* was there before.
LEMMA PlainStep ==
  ASSUME MachineInv, Plain(signal'), Under(stack', SignalFrames \o stack), arena' = arena,
         fuel' \in Nat, fuel' <= fuel, UNCHANGED <<next_handler_scope, next_retry, ran>>
  PROVE  Body' /\ SignalOK(signal')
<1>1. SignalOK(signal') /\ signal'.k \notin {"Perform", "Parked"}
  BY PlainCarries
<1>2. SignalFrames' = <<>>
  BY <1>1 DEF SignalFrames
<1>3. Built(stack')
  BY DEF Under
<1>4. <<>> \o stack' = stack'
  BY <1>3, NilCat
<1>5. Names \subseteq Names'
  <2>1. next_handler_scope \in Nat /\ next_retry \in Nat /\ fuel \in Nat /\ arena.next \in Nat
    BY DEF MachineInv, Types, Stacks, Body, Base, ArenaOK
  <2>2. Names' = Known(fuel', next_handler_scope, next_retry, arena.next, ran)
    BY DEF Names
  <2> QED BY <2>1, <2>2, KnownGrows DEF Names
<1>6. Base(stack', arena, Names')
  BY <1>5, BaseUnder DEF MachineInv, Body
<1> QED BY <1>1, <1>2, <1>3, <1>4, <1>6, BuiltNil DEF Body

\* A step that uses a new name.
LEMMA NewStep ==
  ASSUME MachineInv, Plain(signal'), Built(stack'), Lin(stack'), NEW x, x \notin Names, Names \cup {x} \subseteq Names',
         Holds(stack') \subseteq Holds(SignalFrames \o stack) \cup {x}, arena' = arena
  PROVE  Body' /\ SignalOK(signal')
<1>1. SignalOK(signal') /\ signal'.k \notin {"Perform", "Parked"}
  BY PlainCarries
<1>2. SignalFrames' = <<>>
  BY <1>1 DEF SignalFrames
<1>4. <<>> \o stack' = stack'
  BY NilCat
<1>6. Base(stack', arena, Names')
  BY BaseNew DEF MachineInv, Body
<1> QED BY <1>1, <1>2, <1>4, <1>6, BuiltNil DEF Body

-----------------------------------------------------------------------------
(***************************************************************************)
(* Every action keeps the invariant                                        *)
(***************************************************************************)
\* What is left to show of a step that touches neither checkpoint nor crashes.
LEMMA StepInv ==
  ASSUME MachineInv, Body', SignalOK(signal'), next_handler_scope' \in Nat, next_retry' \in Nat,
         handler_stack' \in Seq(Handlers(next_handler_scope')), retry_stack' \in Seq(0..(next_retry' - 1)),
         fuel' \in Nat, ran' \subseteq {b \in Nat : b > fuel'}, crossed' \in BOOLEAN, UNCHANGED history
  PROVE  MachineInv'
<1>1. saved' = saved /\ crashes' = crashes /\ crashes \in Nat
  BY DEF history, MachineInv, Types
<1>2. saved' # NoCheckpoint => SavedBase(saved')
  BY <1>1 DEF MachineInv
<1>3. Types'
  BY <1>1 DEF Types, Stacks
<1> QED BY <1>2, <1>3 DEF MachineInv

\* The types of the counters and of the two task stacks.
LEMMA StackTypes ==
  ASSUME MachineInv
  PROVE  /\ next_handler_scope \in Nat /\ next_retry \in Nat /\ fuel \in Nat /\ ran \subseteq {b \in Nat : b > fuel}
         /\ crossed \in BOOLEAN /\ handler_stack \in Seq(Handlers(next_handler_scope))
         /\ retry_stack \in Seq(0..(next_retry - 1)) /\ crashes \in Nat
         /\ (fuel > 0 => fuel - 1 \in Nat /\ ran \subseteq {b \in Nat : b > fuel - 1})
  BY DEF MachineInv, Types, Stacks

\* A step that draws on what was there and takes no new name.
LEMMA DownStep ==
  ASSUME MachineInv, Plain(signal'), Under(stack', SignalFrames \o stack),
         UNCHANGED <<arena, next_handler_scope, next_retry, ran, history>>,
         fuel' = fuel \/ (fuel > 0 /\ fuel' = fuel - 1), crossed' \in BOOLEAN,
         handler_stack' \in Seq(Handlers(next_handler_scope)), retry_stack' \in Seq(0..(next_retry - 1))
  PROVE  MachineInv'
<1>1. fuel' \in Nat /\ fuel' <= fuel /\ ran' \subseteq {b \in Nat : b > fuel'}
  BY StackTypes
<1>2. Body' /\ SignalOK(signal')
  BY <1>1, PlainStep
<1>3. /\ next_handler_scope' \in Nat /\ next_retry' \in Nat
      /\ handler_stack' \in Seq(Handlers(next_handler_scope')) /\ retry_stack' \in Seq(0..(next_retry' - 1))
  BY StackTypes
<1> QED BY <1>1, <1>2, <1>3, StepInv

\* A step that only changes the signal.
LEMMA SignalStep ==
  ASSUME MachineInv, signal.k \notin {"Perform", "Parked"}, Plain(signal'),
         UNCHANGED <<stack, handler_stack, retry_stack, arena, next_handler_scope, next_retry,
                     ran, history>>,
         fuel' = fuel \/ (fuel > 0 /\ fuel' = fuel - 1), crossed' \in BOOLEAN
  PROVE  MachineInv'
<1>1. SignalFrames \o stack = stack /\ Built(stack)
  BY Carries
<1>2. Under(stack', SignalFrames \o stack)
  BY <1>1, UnderSelf
<1>3. handler_stack' \in Seq(Handlers(next_handler_scope)) /\ retry_stack' \in Seq(0..(next_retry - 1))
  BY StackTypes
<1> QED BY <1>2, <1>3, DownStep

\* The steps that evaluate a form without frames of its own.
LEMMA SignalSteps ==
  ASSUME MachineInv,
         \/ EvalValue \/ EvalReturn \/ EvalHost \/ EvalCheckpoint \/ HostCompletes \/ Complete
         \/ \E exit \in {"resume", "finish"} : EvalArmExit(exit)
         \/ \E k \in {"Break", "Continue"} : EvalLoopControl(k)
  PROVE  MachineInv'
<1> USE StackTypes
<1>s. \A k \in PlainKinds : Plain(Sig(k))
  BY PlainSignals
<1>1. CASE EvalValue
  <2>1. Plain(signal')
    BY <1>1, <1>s DEF EvalValue, PlainKinds
  <2>2. crossed' \in BOOLEAN
    BY <1>1 DEF EvalValue, quiet
  <2> QED BY <1>1, <2>1, <2>2, SignalStep DEF EvalValue, quiet
<1>2. CASE EvalReturn
  <2>1. Plain(signal')
    BY <1>2, <1>s DEF EvalReturn, PlainKinds
  <2>2. crossed' \in BOOLEAN
    BY <1>2 DEF EvalReturn, quiet
  <2> QED BY <1>2, <2>1, <2>2, SignalStep DEF EvalReturn, quiet
<1>3. CASE EvalHost
  <2>1. Plain(signal')
    BY <1>3, <1>s DEF EvalHost, PlainKinds
  <2>2. crossed' \in BOOLEAN
    BY <1>3 DEF EvalHost, quiet
  <2> QED BY <1>3, <2>1, <2>2, SignalStep DEF EvalHost, Yields, Evaluates, quiet
<1>4. CASE EvalCheckpoint
  <2>1. Plain(signal')
    BY <1>4, <1>s DEF EvalCheckpoint, PlainKinds
  <2>2. crossed' \in BOOLEAN
    BY <1>4 DEF EvalCheckpoint, quiet
  <2> QED BY <1>4, <2>1, <2>2, SignalStep DEF EvalCheckpoint, Yields, Evaluates, quiet
<1>5. CASE HostCompletes
  <2>1. Plain(signal')
    BY <1>5, <1>s DEF HostCompletes, PlainKinds
  <2>2. crossed' \in BOOLEAN
    BY <1>5 DEF HostCompletes, quiet
  <2> QED BY <1>5, <2>1, <2>2, SignalStep DEF HostCompletes, quiet
<1>6. CASE Complete
  <2>1. Plain(signal')
    BY <1>6, <1>s DEF Complete, PlainKinds
  <2>2. crossed' \in BOOLEAN
    BY <1>6 DEF Complete, quiet
  <2> QED BY <1>6, <2>1, <2>2, SignalStep DEF Complete, quiet
<1>7. CASE \E exit \in {"resume", "finish"} : EvalArmExit(exit)
  <2>1. PICK exit \in {"resume", "finish"} : EvalArmExit(exit)
    BY <1>7
  <2>2. Plain(signal')
    BY <2>1, <1>s DEF EvalArmExit, PlainKinds
  <2>3. crossed' \in BOOLEAN
    BY <2>1 DEF EvalArmExit, Crosses
  <2> QED BY <2>1, <2>2, <2>3, SignalStep DEF EvalArmExit
<1>8. CASE \E k \in {"Break", "Continue"} : EvalLoopControl(k)
  <2>1. PICK k \in {"Break", "Continue"} : EvalLoopControl(k)
    BY <1>8
  <2>2. Plain(signal')
    BY <2>1, <1>s DEF EvalLoopControl, PlainKinds
  <2>3. crossed' \in BOOLEAN
    BY <2>1 DEF EvalLoopControl, Crosses
  <2> QED BY <2>1, <2>2, <2>3, SignalStep DEF EvalLoopControl, Evaluates
<1> QED BY <1>1, <1>2, <1>3, <1>4, <1>5, <1>6, <1>7, <1>8

\* A request starts.
LEMMA PerformSteps ==
  ASSUME MachineInv, signal.k \notin {"Perform", "Parked"}, NEW on \in Actions \cup {Error}, signal' = Perform(on, <<>>),
         UNCHANGED <<stack, handler_stack, retry_stack, arena, next_handler_scope, next_retry,
                     ran, history>>,
         fuel' = fuel \/ (fuel > 0 /\ fuel' = fuel - 1), crossed' \in BOOLEAN
  PROVE  MachineInv'
<1>1. SignalFrames \o stack = stack /\ Built(stack) /\ Base(SignalFrames \o stack, arena, Names)
  BY Carries
<1>2. PICK sg : sg = signal'
  OBVIOUS
<1>3. sg = Perform(on, <<>>)
  BY <1>2
<1>4. sg.k = "Perform" /\ sg.on = on /\ sg.cont = <<>>
  BY <1>3 DEF Perform
<1>5. SignalOK(sg)
  BY <1>3, <1>4, BuiltNil DEF SignalOK
<1>6. SignalFrames' = <<>>
  BY <1>2, <1>4 DEF SignalFrames
<1>7. Names \subseteq Names'
  <2>1. next_handler_scope \in Nat /\ next_retry \in Nat /\ fuel \in Nat /\ fuel' \in Nat /\ fuel' <= fuel
    BY StackTypes
  <2>2. arena.next \in Nat
    BY <1>1 DEF Base, ArenaOK
  <2>3. Names' = Known(fuel', next_handler_scope, next_retry, arena.next, ran)
    BY DEF Names
  <2> QED BY <2>1, <2>2, <2>3, KnownGrows DEF Names
<1>8. Base(stack, arena, Names')
  BY <1>1, <1>7, UnderSelf, BaseUnder
<1>9. Body'
  <2>1. SignalFrames' \o stack' = stack
    BY <1>1, <1>6, NilCat
  <2> QED BY <1>1, <1>6, <1>8, <2>1, BuiltNil DEF Body
<1>10. fuel' \in Nat /\ ran' \subseteq {b \in Nat : b > fuel'}
  BY StackTypes
<1> QED BY <1>2, <1>5, <1>9, <1>10, StackTypes, StepInv

\* A performed action and a Host's error keep the invariant.
LEMMA PerformsSteps ==
  ASSUME MachineInv, HostRaises \/ \E on \in Actions \cup {Error} : EvalPerform(on)
  PROVE  MachineInv'
<1>1. CASE HostRaises
  <2>1. crossed' \in BOOLEAN
    BY <1>1, StackTypes DEF HostRaises, Crosses
  <2> QED BY <1>1, <2>1, PerformSteps DEF HostRaises
<1>2. CASE \E on \in Actions \cup {Error} : EvalPerform(on)
  <2>1. PICK on \in Actions \cup {Error} : EvalPerform(on)
    BY <1>2
  <2>2. crossed' \in BOOLEAN
    BY <2>1, StackTypes DEF EvalPerform, Crosses
  <2> QED BY <2>1, <2>2, PerformSteps DEF EvalPerform, Evaluates
<1> QED BY <1>1, <1>2

\* A frame that names nothing goes on top.
LEMMA PushLeaf ==
  ASSUME NEW f, Built(<<f>>), Holds(<<f>>) = {}, Lin(<<f>>), NEW s, Built(s)
  PROVE  Under(<<f>> \o s, s)
<1>1. Under(<<f>>, <<>>)
  BY DEF Under
<1>2. Under(<<f>> \o s, <<>> \o s)
  BY <1>1, BuiltNil, UnderSelf, UnderCat
<1> QED BY <1>2, NilCat

\* A frame with one new name goes on top.
LEMMA PushNamed ==
  ASSUME NEW f, Built(<<f>>), NEW x, Holds(<<f>>) = {x}, Lin(<<f>>), f.k # "Call", NEW s, Built(s), Lin(s), x \notin Holds(s)
  PROVE  /\ Built(<<f>> \o s) /\ Lin(<<f>> \o s) /\ Holds(<<f>> \o s) \subseteq Holds(s) \cup {x}
<1>3. /\ Built(<<f>> \o s) /\ Holds(<<f>> \o s) = Holds(<<f>>) \cup Holds(s)
      /\ (Lin(<<f>> \o s) <=> Lin(<<f>>) /\ Lin(s) /\ Holds(<<f>>) \cap Holds(s) = {})
  BY BuiltCat
<1> QED BY <1>3

\* Entering a construct gives a lexical context.
LEMMA LexGrows ==
  ASSUME NEW lex \in Seq(LexEntries)
  PROVE  /\ \A c \in {"handle", "retry", "loop"} : Enter(c, lex) \in Seq(LexEntries)
         /\ \A t \in Int : \A on : (on = Error => t = NoToken) => EnterArm(t, on, lex) \in Seq(LexEntries)
<1>1. \A e \in LexEntries : <<e>> \o lex \in Seq(LexEntries)
  <2> SUFFICES ASSUME NEW e \in LexEntries PROVE <<e>> \o lex \in Seq(LexEntries)
    OBVIOUS
  <2>1. <<e>> \in Seq(LexEntries)
    OBVIOUS
  <2> QED BY <2>1, ConcatProperties
<1>2. \A c \in {"handle", "retry", "loop"} : [c |-> c, tok |-> NoToken] \in LexEntries
  BY DEF LexEntries, NoToken
<1>3. \A t \in Int : \A on : (on = Error => t = NoToken) => [c |-> IF on = Error THEN "errorarm" ELSE "arm", tok |-> t] \in LexEntries
  BY DEF LexEntries, NoToken
<1> QED BY <1>1, <1>2, <1>3 DEF Enter, EnterArm

\* Entering a try, a call and a loop keeps the invariant.
LEMMA LeafSteps ==
  ASSUME MachineInv, EvalTry \/ EvalCall \/ EvalLoop
  PROVE  MachineInv'
<1>1. signal.k = "Code" /\ fuel > 0 /\ fuel' = fuel - 1 /\ crossed' = crossed
  BY DEF EvalTry, EvalCall, EvalLoop, Yields, Evaluates, quiet
<1>2. SignalFrames \o stack = stack /\ Built(stack) /\ signal.lex \in Seq(LexEntries)
  BY <1>1, Carries
<1>3. crossed' \in BOOLEAN
  BY <1>1, StackTypes
<1>4. CASE EvalTry
  <2>1. Built(<<TryExpr>>) /\ TryExpr.k = "Try"
    BY MakeLeaf DEF TryExpr
  <2>2. Holds(<<TryExpr>>) = {} /\ Lin(<<TryExpr>>)
    BY <2>1, LeafFrame DEF Boundaries
  <2>3. Under(stack', stack)
    BY <1>2, <1>4, <2>1, <2>2, PushLeaf DEF EvalTry
  <2>5. Plain(signal')
    BY <1>1, <1>2, <1>4 DEF EvalTry, Plain
  <2> QED BY <1>1, <1>2, <1>3, <1>4, <2>3, <2>5, StackTypes, DownStep DEF EvalTry, quiet
<1>5. CASE EvalLoop
  <2>f. PICK f : f = Loop(Iterations, FALSE, signal.lex)
    OBVIOUS
  <2>1. Built(<<f>>) /\ f.k = "Loop"
    BY <1>2, <2>f, MakeLeaf DEF Loop
  <2>2. Holds(<<f>>) = {} /\ Lin(<<f>>)
    BY <2>1, LeafFrame DEF Boundaries
  <2>3. Under(stack', stack)
    BY <1>2, <1>5, <2>f, <2>1, <2>2, PushLeaf DEF EvalLoop
  <2>5. Plain(signal')
    BY <1>5, PlainSignals DEF EvalLoop, PlainKinds
  <2> QED BY <1>1, <1>2, <1>3, <1>5, <2>3, <2>5, StackTypes, DownStep DEF EvalLoop, quiet
<1>6. CASE EvalCall
  <2>1. Built(<<CallBoundary>>) /\ CallBoundary.k = "Call"
    BY MakeLeaf DEF CallBoundary
  <2>2. Holds(<<CallBoundary>>) = {} /\ Lin(<<CallBoundary>>)
    BY <2>1, LeafFrame DEF Boundaries
  <2>3. CASE Calls(stack) >= MaxCallDepth
    <3>1. UNCHANGED <<stack>> /\ signal' = Fault("call depth")
      BY <1>6, <2>3 DEF EvalCall
    <3>2. Plain(signal')
      BY <3>1, PlainSignals
    <3> QED BY <1>1, <1>3, <1>6, <3>1, <3>2, SignalStep DEF EvalCall, quiet
  <2>4. CASE ~ (Calls(stack) >= MaxCallDepth)
    <3>1. stack' = <<CallBoundary>> \o stack /\ signal' = Code(<<>>)
      BY <1>6, <2>4 DEF EvalCall
    <3>2. Under(stack', stack)
      BY <1>2, <2>1, <2>2, <3>1, PushLeaf
    <3>4. Plain(signal')
      <4>1. <<>> \in Seq(LexEntries)
        OBVIOUS
      <4> QED BY <3>1, <4>1, PlainSignals
    <3> QED BY <1>1, <1>2, <1>3, <1>6, <3>2, <3>4, StackTypes, DownStep DEF EvalCall, quiet
  <2> QED BY <2>3, <2>4
<1> QED BY <1>4, <1>5, <1>6

\* The forms that take a new name.
LEMMA BlockStep ==
  ASSUME MachineInv, ExecuteBlock PROVE MachineInv'
<1>1. signal.k = "Code" /\ fuel > 0 /\ fuel' = fuel - 1 /\ crossed' = crossed
  BY DEF ExecuteBlock, Evaluates, quiet
<1>2. /\ SignalFrames \o stack = stack /\ Built(stack)
      /\ signal.lex \in Seq(LexEntries) /\ Base(stack, arena, Names)
  BY <1>1, Carries
<1>3. PICK f, x : f = Next_(fuel, signal.lex) /\ x = <<"block", fuel>>
  OBVIOUS
<1>4. f.k = "Next" /\ f.id = fuel /\ Built(<<f>>)
  BY <1>2, <1>3, StackTypes, MakeLeaf DEF Next_
<1>5. Holds(<<f>>) = {x} /\ Lin(<<f>>)
  BY <1>3, <1>4, LeafFrame DEF Boundaries
<1>6. arena.next \in Nat /\ Lin(stack) /\ Holds(stack) \subseteq Names
  BY <1>2 DEF Base, ArenaOK
<1>7. x \notin Names /\ Names \cup {x} \subseteq Names'
  <2>1. Names' = Known(fuel - 1, next_handler_scope, next_retry, arena.next, ran)
    BY <1>1 DEF Names, ExecuteBlock
  <2>2. fuel \notin ran /\ fuel # 0 /\ fuel - 1 \in Nat /\ fuel - 1 <= fuel
    BY <1>1, StackTypes
  <2>3. x \notin Names /\ x \in Names'
    BY <1>3, <1>6, <2>1, <2>2, StackTypes, KnownFresh DEF Names
  <2>4. Names \subseteq Names'
    <3>1. Names = Known(fuel, next_handler_scope, next_retry, arena.next, ran)
      BY DEF Names
    <3>2. PICK fu \in Nat : fu = fuel - 1 /\ fu <= fuel
      BY <2>2
    <3>3. /\ next_handler_scope <= next_handler_scope /\ next_retry <= next_retry /\ arena.next <= arena.next
          /\ next_handler_scope \in Nat /\ next_retry \in Nat /\ fuel \in Nat
      BY <1>6, StackTypes
    <3>4. Known(fuel, next_handler_scope, next_retry, arena.next, ran) \subseteq Known(fu, next_handler_scope, next_retry, arena.next, ran)
      BY <1>6, <3>2, <3>3, KnownGrows
    <3> QED BY <2>1, <3>1, <3>2, <3>4
  <2> QED BY <2>3, <2>4
<1>8. /\ Built(stack') /\ Lin(stack') /\ Holds(stack') \subseteq Holds(stack) \cup {x}
  BY <1>2, <1>3, <1>4, <1>5, <1>6, <1>7, PushNamed DEF ExecuteBlock
<1>9. Plain(signal')
  BY <1>1, <1>2 DEF ExecuteBlock, Plain
<1>10. Body' /\ SignalOK(signal')
  BY <1>2, <1>7, <1>8, <1>9, NewStep DEF ExecuteBlock
<1> QED BY <1>1, <1>10, StackTypes, StepInv DEF ExecuteBlock, quiet

\* Opening a handler boundary keeps the invariant: its scope is fresh.
LEMMA HandleStep ==
  ASSUME MachineInv, NEW on \in Actions \cup {Error}, NEW b \in Binders, EvalHandle(on, b) PROVE MachineInv'
<1>1. signal.k = "Code" /\ fuel > 0 /\ fuel' = fuel - 1 /\ crossed' = crossed
  BY DEF EvalHandle, Yields, Evaluates, quiet
<1>2. /\ SignalFrames \o stack = stack /\ Built(stack)
      /\ signal.lex \in Seq(LexEntries) /\ Base(stack, arena, Names)
  BY <1>1, Carries
<1>0. PICK nh \in Nat : nh = next_handler_scope
  BY StackTypes
<1>3. PICK f, x : nh = next_handler_scope /\ f = HandleBoundary(nh, Link(<<>>), on, b, signal.lex) /\ x = <<"scope", nh>>
  BY <1>0
<1>4. f.k = "Handle" /\ f.scope = nh /\ Built(<<f>>) /\ f.inner.frames = <<>>
  <2>1. b \in BOOLEAN
    BY MachineConstants
  <2>2. PICK l : l = Link(<<>>)
    OBVIOUS
  <2>3. f.inner = l /\ l.frames = <<>>
    BY <1>3, <2>2 DEF HandleBoundary, Link
  <2> QED BY <1>2, <1>3, <2>1, <2>3, BuiltNil, MakeHandle DEF HandleBoundary, EvalHandle
<1>5. Holds(<<f>>) = {x} /\ Lin(<<f>>)
  <2>1. /\ Holds(<<f>>) = {<<"scope", f.scope>>} \cup Holds(f.inner.frames)
        /\ (Lin(<<f>>) <=> Lin(f.inner.frames) /\ <<"scope", f.scope>> \notin Holds(f.inner.frames))
    BY <1>4, BoundaryFrame DEF Boundaries
  <2> QED BY <1>3, <1>4, <2>1, HoldsNil DEF Lin
<1>6. arena.next \in Nat /\ Lin(stack) /\ Holds(stack) \subseteq Names
  BY <1>2 DEF Base, ArenaOK
<1>7. x \notin Names /\ Names \cup {x} \subseteq Names'
  <2>1. Names' = Known(fuel - 1, nh + 1, next_retry, arena.next, ran)
    BY <1>1, <1>3 DEF Names, EvalHandle
  <2>2. fuel - 1 \in Nat /\ fuel - 1 <= fuel /\ nh + 1 \in Nat /\ nh <= nh + 1
    BY <1>1, StackTypes
  <2>3. x \notin Names /\ x \in Names'
    BY <1>3, <1>6, <2>1, <2>2, StackTypes, KnownFresh DEF Names
  <2>4. Names \subseteq Names'
    <3>1. Names = Known(fuel, nh, next_retry, arena.next, ran)
      BY <1>3 DEF Names
    <3>2. PICK fu \in Nat, mh \in Nat : fu = fuel - 1 /\ fu <= fuel /\ mh = nh + 1 /\ nh <= mh
      BY <2>2
    <3>3. next_retry <= next_retry /\ arena.next <= arena.next /\ next_retry \in Nat /\ fuel \in Nat
      BY <1>6, StackTypes
    <3>4. Known(fuel, nh, next_retry, arena.next, ran) \subseteq Known(fu, mh, next_retry, arena.next, ran)
      BY <1>6, <3>2, <3>3, KnownGrows
    <3> QED BY <2>1, <3>1, <3>2, <3>4
  <2> QED BY <2>3, <2>4
<1>8. /\ Built(stack') /\ Lin(stack') /\ Holds(stack') \subseteq Holds(stack) \cup {x}
  <2>1. stack' = <<f>> \o stack
    BY <1>3 DEF EvalHandle
  <2>2. x \notin Holds(stack)
    BY <1>6, <1>7
  <2> QED BY <1>2, <1>4, <1>5, <1>6, <2>1, <2>2, PushNamed
<1>9. Plain(signal')
  BY <1>2, LexGrows, PlainSignals DEF EvalHandle
<1>10. Body' /\ SignalOK(signal')
  BY <1>2, <1>7, <1>8, <1>9, NewStep DEF EvalHandle
<1>11. next_handler_scope' \in Nat /\ handler_stack' \in Seq(Handlers(next_handler_scope'))
  <2>1. PICK e : e = [id |-> nh, on |-> on]
    OBVIOUS
  <2>2. handler_stack' = <<e>> \o handler_stack /\ next_handler_scope' = nh + 1
    BY <1>3, <2>1 DEF EvalHandle
  <2>3. e \in Handlers(nh + 1) /\ Handlers(nh) \subseteq Handlers(nh + 1)
    BY <2>1 DEF Handlers
  <2>4. handler_stack \in Seq(Handlers(nh + 1)) /\ <<e>> \in Seq(Handlers(nh + 1))
    BY <1>3, <2>3, StackTypes
  <2> QED BY <2>2, <2>4, ConcatProperties
<1> QED BY <1>1, <1>10, <1>11, StackTypes, StepInv DEF EvalHandle, quiet

\* An attempt starts over frames that were there.
LEMMA AttemptStep ==
  ASSUME MachineInv, NEW n \in Nat, NEW lex \in Seq(LexEntries), NEW below, Under(below, SignalFrames \o stack),
         NEW outer \in Seq(0..(next_retry - 1)), StartAttempt(n, lex, below, outer),
         fuel' = fuel \/ (fuel > 0 /\ fuel' = fuel - 1), crossed' \in BOOLEAN,
         UNCHANGED <<handler_stack, arena, next_handler_scope, ran, history>>
  PROVE  MachineInv'
<1>2. Base(SignalFrames \o stack, arena, Names)
  BY Carries
<1>0. PICK nr \in Nat : nr = next_retry
  BY StackTypes
<1>3. PICK f, x : nr = next_retry /\ f = RetryAttempt(nr, n + 1, lex) /\ x = <<"retry", nr>>
  BY <1>0
<1>4. f.k = "Retry" /\ f.id = nr /\ Built(<<f>>)
  <2>1. n + 1 \in Nat
    OBVIOUS
  <2>2. Built(<<f>>)
    BY <1>3, <2>1, MakeLeaf
  <2> QED BY <1>3, <2>2 DEF RetryAttempt
<1>5. Holds(<<f>>) = {x} /\ Lin(<<f>>)
  BY <1>3, <1>4, LeafFrame DEF Boundaries
<1>6. arena.next \in Nat /\ Lin(below) /\ Built(below) /\ Holds(below) \subseteq Holds(SignalFrames \o stack) /\ Holds(SignalFrames \o stack) \subseteq Names
  BY <1>2 DEF Base, ArenaOK, Under
<1>7. x \notin Names /\ Names \cup {x} \subseteq Names'
  <2>1. Names' = Known(fuel', next_handler_scope, nr + 1, arena.next, ran)
    BY <1>3 DEF Names, StartAttempt
  <2>2. fuel' \in Nat /\ fuel' <= fuel /\ nr + 1 \in Nat /\ nr <= nr + 1
    BY StackTypes
  <2>3. x \notin Names /\ x \in Names'
    BY <1>3, <1>6, <2>1, <2>2, StackTypes, KnownFresh DEF Names
  <2>4. Names \subseteq Names'
    <3>1. Names = Known(fuel, next_handler_scope, nr, arena.next, ran)
      BY <1>3 DEF Names
    <3>2. PICK mr \in Nat : mr = nr + 1 /\ nr <= mr
      BY <2>2
    <3>3. next_handler_scope <= next_handler_scope /\ arena.next <= arena.next
      BY <1>6, StackTypes
    <3>4. Known(fuel, next_handler_scope, nr, arena.next, ran) \subseteq Known(fuel', next_handler_scope, mr, arena.next, ran)
      BY <1>6, <2>2, <3>2, <3>3, StackTypes, KnownGrows
    <3> QED BY <2>1, <3>1, <3>2, <3>4
  <2> QED BY <2>3, <2>4
<1>8. Built(stack') /\ Lin(stack') /\ Holds(stack') \subseteq Holds(SignalFrames \o stack) \cup {x}
  <2>1. stack' = <<f>> \o below
    BY <1>3 DEF StartAttempt
  <2>2. x \notin Holds(below)
    BY <1>6, <1>7
  <2>3. Built(stack') /\ Lin(stack') /\ Holds(stack') \subseteq Holds(below) \cup {x}
    BY <1>4, <1>5, <1>6, <2>1, <2>2, PushNamed
  <2> QED BY <1>6, <2>3
<1>9. Plain(signal')
  BY LexGrows, PlainSignals DEF StartAttempt
<1>10. Body' /\ SignalOK(signal')
  BY <1>2, <1>7, <1>8, <1>9, NewStep
<1>11. next_retry' \in Nat /\ retry_stack' \in Seq(0..(next_retry' - 1))
  <2>1. retry_stack' = <<nr>> \o outer /\ next_retry' = nr + 1
    BY <1>3 DEF StartAttempt
  <2>2. nr \in 0..((nr + 1) - 1) /\ 0..(nr - 1) \subseteq 0..((nr + 1) - 1)
    OBVIOUS
  <2>3. outer \in Seq(0..((nr + 1) - 1)) /\ <<nr>> \in Seq(0..((nr + 1) - 1))
    BY <1>3, <2>2
  <2> QED BY <2>1, <2>3, ConcatProperties
<1>12. fuel' \in Nat /\ ran' \subseteq {b \in Nat : b > fuel'} /\ handler_stack' \in Seq(Handlers(next_handler_scope')) /\ next_handler_scope' \in Nat
  BY StackTypes
<1> QED BY <1>8, <1>10, <1>11, <1>12, StepInv

\* Starting a retry keeps the invariant: its attempt is fresh.
LEMMA RetryStep ==
  ASSUME MachineInv, EvalRetry PROVE MachineInv'
<1>1. signal.k = "Code" /\ fuel > 0 /\ fuel' = fuel - 1 /\ crossed' = crossed
  BY DEF EvalRetry, Evaluates, quiet
<1>2. SignalFrames \o stack = stack /\ Built(stack) /\ signal.lex \in Seq(LexEntries)
  BY <1>1, Carries
<1>3. Under(stack, stack)
  BY <1>2, UnderSelf
<1> QED BY <1>1, <1>2, <1>3, StackTypes, AttemptStep DEF EvalRetry, quiet

\* The top frame and the ones below it.
LEMMA TopBelow ==
  ASSUME MachineInv, stack # <<>>
  PROVE  /\ stack = <<Top>> \o Below /\ Built(<<Top>>) /\ Built(Below) /\ Under(Below, stack) /\ Top.k \in Kinds
<1>1. Built(stack)
  BY Carries
<1>2. Built(<<stack[1]>>) /\ Built(Tail(stack)) /\ stack = <<stack[1]>> \o Tail(stack) /\ 1 \in DOMAIN stack
  BY <1>1, BuiltTail
<1>3. Top.k \in Kinds
  <2>1. PICK W : Shape(Top, W)
    BY <1>2, BuiltFrame DEF Top
  <2> QED BY <2>1 DEF Shape
<1> QED BY <1>1, <1>2, <1>3, UnderTail DEF Top, Below

\* Popping a handler scope or a retry attempt keeps the task stacks typed.
LEMMA TailStacks ==
  ASSUME MachineInv
  PROVE  /\ (handler_stack # <<>> => Tail(handler_stack) \in Seq(Handlers(next_handler_scope)))
         /\ \A id : PopRetry(id) \in Seq(0..(next_retry - 1))
<1>1. \A X : \A s \in Seq(X) : s # <<>> => Tail(s) \in Seq(X)
  OBVIOUS
<1> QED BY <1>1, StackTypes DEF PopRetry

\* A frame leaves the stack.
LEMMA DropStep ==
  ASSUME MachineInv, signal.k \notin {"Perform", "Parked"}, stack # <<>>, stack' = Below, Plain(signal'),
         UNCHANGED <<arena, next_handler_scope, next_retry, ran, fuel, quiet>>,
         handler_stack' \in Seq(Handlers(next_handler_scope)), retry_stack' \in Seq(0..(next_retry - 1))
  PROVE  MachineInv'
<1>1. SignalFrames \o stack = stack
  BY Carries
<1>2. Under(stack', SignalFrames \o stack)
  BY <1>1, TopBelow
<1>4. crossed' \in BOOLEAN /\ UNCHANGED history
  BY StackTypes DEF quiet
<1> QED BY <1>2, <1>4, DownStep

\* The steps that pop a frame keep the invariant.
LEMMA DropSteps ==
  ASSUME MachineInv, Propagate \/ LeaveCall \/ FinishRetryAttempt \/ BreakLoop \/ LoopControlEscapes \/ LeaveHandler
  PROVE  MachineInv'
<1>s. \A k \in PlainKinds : Plain(Sig(k))
  BY PlainSignals
<1>u. handler_stack \in Seq(Handlers(next_handler_scope)) /\ retry_stack \in Seq(0..(next_retry - 1))
  BY StackTypes, Carries
<1>1. CASE Propagate
  <2>1. PICK kinds \in {{"Try"}, {"Next", "Dispatch", "Reenter", "Loop", "Try"}, {"Next", "Reenter", "Retry", "Loop", "Try"},
                        {"Next", "Reenter", "Loop", "Try"}, {"Next", "Handle", "Dispatch", "Reenter", "Retry", "Try"}} :
          PassOn(kinds) /\ signal.k \in {"Value", "Return", "Resume", "Finish", "Break", "Continue"}
    BY <1>1 DEF Propagate
  <2>2. Top.k # "Call"
    BY <2>1 DEF PassOn
  <2>3. Plain(signal') /\ signal.k \notin {"Perform", "Parked"}
    BY <2>1 DEF PassOn, Plain, PlainKinds
  <2> QED BY <1>u, <2>1, <2>2, <2>3, DropStep DEF PassOn
<1>2. CASE LeaveCall
  <2>1. Plain(signal')
    BY <1>2, <1>s DEF LeaveCall, PlainKinds
  <2> QED BY <1>2, <1>u, <2>1, DropStep DEF LeaveCall
<1>3. CASE FinishRetryAttempt
  <2>1. Plain(signal')
    <3>1. CASE signal.k = "Value"
      <4>1. Top.lex \in Seq(LexEntries)
        BY <1>3, TopBelow, LeafFrame DEF FinishRetryAttempt, Boundaries
      <4> QED BY <1>3, <3>1, <4>1, PlainSignals DEF FinishRetryAttempt
    <3>2. CASE signal.k # "Value"
      BY <1>3, <3>2 DEF FinishRetryAttempt, Plain, PlainKinds
    <3> QED BY <3>1, <3>2
  <2>2. retry_stack' \in Seq(0..(next_retry - 1))
    BY <1>3, TailStacks DEF FinishRetryAttempt
  <2> QED BY <1>3, <1>u, <2>1, <2>2, DropStep DEF FinishRetryAttempt
<1>4. CASE BreakLoop
  <2>1. Plain(signal')
    BY <1>4, <1>s DEF BreakLoop, PlainKinds
  <2> QED BY <1>4, <1>u, <2>1, DropStep DEF BreakLoop, Delivers
<1>5. CASE LeaveHandler
  <2>1. signal.k \in {"Return", "Finish", "Value", "Resume"}
    BY <1>5 DEF LeaveHandler
  <2>2. Plain(signal')
    <3>1. signal' \in {Fault("handler scope stack mismatch"), Sig("Value"), signal}
      BY <1>5 DEF LeaveHandler, CloseHandlerScope
    <3>2. Plain(signal) /\ Plain(Sig("Value"))
      BY <1>s, <2>1 DEF Plain, PlainKinds
    <3> QED BY <3>1, <3>2, PlainSignals
  <2>3. handler_stack' \in Seq(Handlers(next_handler_scope))
    BY <1>5, <1>u, TailStacks DEF LeaveHandler, CloseHandlerScope
  <2> QED BY <1>5, <1>u, <2>1, <2>2, <2>3, DropStep DEF LeaveHandler
<1>6. CASE LoopControlEscapes
  <2>1. Plain(signal') /\ signal.k \notin {"Perform", "Parked"}
    BY <1>6, PlainSignals DEF LoopControlEscapes
  <2>2. CASE stack # <<>>
    BY <1>6, <1>u, <2>1, <2>2, DropStep DEF LoopControlEscapes
  <2>3. CASE stack = <<>>
    BY <1>6, <2>1, <2>3, StackTypes, SignalStep DEF LoopControlEscapes, quiet
  <2> QED BY <2>2, <2>3
<1> QED BY <1>1, <1>2, <1>3, <1>4, <1>5, <1>6

\* Frames made of the top frame go in its place.
LEMMA ReplaceStep ==
  ASSUME MachineInv, signal.k \notin {"Perform", "Parked"}, stack # <<>>, NEW u, Under(u, <<Top>>), stack' = u \o Below,
         Plain(signal'), UNCHANGED <<arena, next_handler_scope, next_retry, ran, fuel, quiet>>,
         handler_stack' \in Seq(Handlers(next_handler_scope)), retry_stack' \in Seq(0..(next_retry - 1))
  PROVE  MachineInv'
<1>1. SignalFrames \o stack = stack
  BY Carries
<1>2. PICK p, q : p = <<Top>> /\ q = Below
  OBVIOUS
<1>3. Under(u \o q, p \o q)
  BY <1>2, TopBelow, UnderSelf, UnderCat
<1>4. Under(stack', SignalFrames \o stack)
  BY <1>1, <1>2, <1>3, TopBelow
<1>5. crossed' \in BOOLEAN /\ UNCHANGED history
  BY StackTypes DEF quiet
<1> QED BY <1>4, <1>5, DownStep

\* The steps that put other frames in the top frame's place keep the invariant.
LEMMA ReplaceSteps ==
  ASSUME MachineInv, OpenBoundary \/ Reenter \/ ContinueLoop
  PROVE  MachineInv'
<1>s. \A k \in PlainKinds : Plain(Sig(k))
  BY PlainSignals
<1>u. handler_stack \in Seq(Handlers(next_handler_scope)) /\ retry_stack \in Seq(0..(next_retry - 1))
  BY StackTypes, Carries
<1>t. stack # <<>>
  BY DEF OpenBoundary, Reenter, ContinueLoop, Delivers
<1>b. PICK p, q : p = <<Top>> /\ q = Below
  OBVIOUS
<1>c. /\ Built(p) /\ Built(q) /\ stack = p \o q
  BY <1>t, <1>b, TopBelow
<1>1. CASE OpenBoundary
  <2>1. PICK f : f = Top
    OBVIOUS
  <2>2. f.k = "Handle" /\ f.k \in Boundaries /\ Built(<<f>>)
    BY <1>1, <1>b, <1>c, <2>1 DEF OpenBoundary, Boundaries
  <2>3. PICK i, e : i = f.inner.frames /\ e = <<Owning(f, <<>>)>>
    OBVIOUS
  <2>4. Under(i \o e, <<f>>) /\ Built(i) /\ Built(e)
    BY <2>2, <2>3, OpenUnder, BoundaryFrame DEF Under
  <2>5. Owning(f, <<>>).k = "Handle"
    BY <2>2, BuiltNil, Owns
  <2>6. Built(i \o e)
    BY <2>3, <2>4, <2>5, BuiltCat
  <2>8. stack' = (i \o e) \o Below
    BY <1>1, <2>1, <2>3 DEF OpenBoundary
  <2>10. Plain(signal') /\ signal.k \notin {"Perform", "Parked"}
    BY <1>1 DEF OpenBoundary, Plain, PlainKinds
  <2> QED BY <1>1, <1>t, <1>u, <2>1, <2>4, <2>8, <2>10, ReplaceStep DEF OpenBoundary
<1>2. CASE Reenter
  <2>1. signal.k = "Value" /\ Top.k = "Reenter"
    BY <1>2 DEF Reenter, Delivers
  <2>2. PICK f : f = Top
    OBVIOUS
  <2>3. f.k \in Boundaries /\ Built(<<f>>)
    BY <1>b, <1>c, <2>1, <2>2 DEF Boundaries
  <2>4. CASE handler_stack # <<>> /\ handler_stack[1].id >= Top.scope
    <3>1. UNCHANGED <<stack, handler_stack>> /\ Plain(signal')
      BY <1>2, <2>4, PlainSignals DEF Reenter
    <3>2. crossed' \in BOOLEAN /\ UNCHANGED history
      BY <1>2, StackTypes DEF Reenter, quiet
    <3> QED BY <1>2, <2>1, <3>1, <3>2, SignalStep DEF Reenter
  <2>5. CASE ~ (handler_stack # <<>> /\ handler_stack[1].id >= Top.scope)
    <3>1. PICK u, e : u = <<Owning(f, f.inner.frames)>> /\ e = [id |-> f.scope, on |-> f.on]
      OBVIOUS
    <3>2. stack' = u \o Below /\ handler_stack' = <<e>> \o handler_stack /\ signal' = signal
      BY <1>2, <2>2, <2>5, <3>1 DEF Reenter
    <3>3. Under(u, <<f>>)
      BY <2>3, <3>1, OpenUnder
    <3>6. handler_stack' \in Seq(Handlers(next_handler_scope))
      <4>1. f.scope \in Nat /\ f.on \in Actions \cup {Error} /\ <<"scope", f.scope>> \in Holds(<<f>>)
        BY <2>3, BoundaryFrame
      <4>2. Holds(<<f>>) \subseteq Names
        <5>1. Holds(p \o q) = Holds(p) \cup Holds(q)
          BY <1>c, BuiltCat
        <5>2. Holds(stack) \subseteq Names
          <6>1. SignalFrames \o stack = stack /\ Base(SignalFrames \o stack, arena, Names)
            BY <2>1, Carries
          <6> QED BY <6>1 DEF Base
        <5> QED BY <1>b, <1>c, <2>2, <5>1, <5>2
      <4>3. f.scope \in 0..(next_handler_scope - 1)
        BY <4>1, <4>2, KnownNames DEF Names
      <4>4. e \in Handlers(next_handler_scope)
        BY <3>1, <4>1, <4>3 DEF Handlers
      <4>5. <<e>> \in Seq(Handlers(next_handler_scope))
        BY <4>4
      <4> QED BY <1>u, <3>2, <4>5, ConcatProperties
    <3>7. Plain(signal')
      BY <2>1, <3>2 DEF Plain, PlainKinds
    <3> QED BY <1>2, <1>t, <1>u, <2>1, <2>2, <3>2, <3>3, <3>6, <3>7, ReplaceStep DEF Reenter
  <2> QED BY <2>4, <2>5
<1>3. CASE ContinueLoop
  <2>1. signal.k \in {"Value", "Continue"} /\ Top.k = "Loop" /\ signal.k \notin {"Perform", "Parked"}
    BY <1>3 DEF ContinueLoop, Delivers
  <2>2. PICK f : f = Top
    OBVIOUS
  <2>3. f.k = "Loop" /\ Built(<<f>>) /\ f.lex \in Seq(LexEntries) /\ f = Loop(f.left, f.afterBody, f.lex)
    BY <1>b, <1>c, <2>1, <2>2, LeafFrame DEF Boundaries
  <2>4. \A n, c, u : u = <<Loop(n, c, f.lex)>> => Under(u, <<f>>)
    <3> SUFFICES ASSUME NEW n, NEW c, NEW u, u = <<Loop(n, c, f.lex)>>
                 PROVE  Under(u, <<f>>)
      OBVIOUS
    <3>1. PICK g : g = Loop(n, c, f.lex)
      OBVIOUS
    <3>2. g.k = "Loop"
      BY <3>1 DEF Loop
    <3>3. Built(<<g>>)
      BY <2>3, <3>1, MakeLeaf
    <3>4. Holds(<<g>>) = {} /\ Lin(<<g>>)
      BY <3>2, <3>3, LeafFrame DEF Boundaries
    <3> QED BY <1>c, <2>1, <3>1, <3>3, <3>4 DEF Under
  <2>5. CASE stack' = Below /\ signal' = Sig("Value")
    <3>1. Plain(signal')
      BY <1>s, <2>5 DEF PlainKinds
    <3> QED BY <1>3, <1>t, <1>u, <2>1, <2>5, <3>1, DropStep DEF ContinueLoop
  <2>6. CASE stack' = <<[Top EXCEPT !.afterBody = FALSE]>> \o Below /\ signal' = Sig("Value")
    <3>1. PICK n, c, l : n = f.left /\ c = f.afterBody /\ l = f.lex
      OBVIOUS
    <3>2. f = Loop(n, c, l)
      BY <2>3, <3>1
    <3>3. [f EXCEPT !.afterBody = FALSE] = Loop(n, FALSE, l)
      <4>1. \A b : [f EXCEPT !.afterBody = b] = Loop(n, b, l)
        BY <3>2 DEF Loop
      <4> QED BY <4>1, Zenon
    <3>4. PICK u : u = <<Loop(n, FALSE, f.lex)>>
      OBVIOUS
    <3>5. stack' = u \o Below /\ Under(u, <<Top>>)
      <4>1. u = <<[Top EXCEPT !.afterBody = FALSE]>>
        BY <2>2, <3>1, <3>3, <3>4, Zenon
      <4>2. stack' = u \o Below
        BY <2>6, <4>1, Zenon
      <4>3. Under(u, <<f>>)
        BY <2>4, <3>4, Zenon
      <4> QED BY <1>b, <2>2, <4>2, <4>3, Zenon
    <3>6. Plain(signal')
      BY <1>s, <2>6 DEF PlainKinds
    <3> QED BY <1>3, <1>t, <1>u, <2>1, <3>5, <3>6, ReplaceStep DEF ContinueLoop
  <2>7. CASE stack' = <<[Top EXCEPT !.afterBody = TRUE, !.left = @ - 1]>> \o Below /\ signal' = Code(Enter("loop", Top.lex))
    <3>1. PICK n, c, l : n = f.left /\ c = f.afterBody /\ l = f.lex
      OBVIOUS
    <3>2. f = Loop(n, c, l)
      BY <2>3, <3>1
    <3>3. [f EXCEPT !.afterBody = TRUE, !.left = @ - 1] = Loop(n - 1, TRUE, l)
      <4>1. PICK b, m, g : b = TRUE /\ m = n - 1 /\ g = [f EXCEPT !.afterBody = b]
        OBVIOUS
      <4>2. g = Loop(n, b, l) /\ f.left = n
        BY <3>2, <4>1 DEF Loop
      <4>3. [g EXCEPT !.left = m] = Loop(m, b, l)
        BY <4>2 DEF Loop
      <4>4. [f EXCEPT !.afterBody = TRUE, !.left = @ - 1] = [g EXCEPT !.left = m]
        BY <4>1, <4>2, Zenon
      <4> QED BY <4>1, <4>3, <4>4, Zenon
    <3>4. PICK u : u = <<Loop(n - 1, TRUE, f.lex)>>
      OBVIOUS
    <3>5. stack' = u \o Below /\ Under(u, <<Top>>)
      <4>1. u = <<[Top EXCEPT !.afterBody = TRUE, !.left = @ - 1]>>
        BY <2>2, <3>1, <3>3, <3>4, Zenon
      <4>2. stack' = u \o Below
        BY <2>7, <4>1, Zenon
      <4>3. Under(u, <<f>>)
        BY <2>4, <3>4, Zenon
      <4> QED BY <1>b, <2>2, <4>2, <4>3, Zenon
    <3>6. Plain(signal')
      BY <2>2, <2>3, <2>7, LexGrows, PlainSignals
    <3> QED BY <1>3, <1>t, <1>u, <2>1, <3>5, <3>6, ReplaceStep DEF ContinueLoop
  <2> QED BY <1>3, <2>5, <2>6, <2>7 DEF ContinueLoop
<1> QED BY <1>1, <1>2, <1>3

\* Running the rest of a block keeps the invariant: the block was not run before.
LEMMA ContinueBlockStep ==
  ASSUME MachineInv, ContinueBlock PROVE MachineInv'
<1>1. signal.k = "Value" /\ stack # <<>> /\ Top.k = "Next" /\ stack' = Below /\ signal' = Code(Top.lex) /\ ran' = ran \cup {Top.id}
  BY DEF ContinueBlock, Delivers
<1>2. SignalFrames \o stack = stack /\ Base(stack, arena, Names)
  BY <1>1, Carries
<1>3. PICK f, x : f = Top /\ x = <<"block", f.id>>
  OBVIOUS
<1>4. Holds(<<f>>) = {x} /\ f.lex \in Seq(LexEntries)
  BY <1>1, <1>3, TopBelow, LeafFrame DEF Boundaries
<1>5. Base(Below, arena, Names \ {x})
  BY <1>1, <1>2, <1>3, <1>4, BaseRun DEF Top, Below
<1>6. Names \ {x} \subseteq Names'
  BY <1>1, <1>3, KnownRun DEF Names, ContinueBlock
<1>7. Base(stack', arena', Names')
  <2>1. Under(Below, Below)
    BY <1>1, TopBelow, UnderSelf
  <2>2. Base(Below, arena, Names')
    BY <1>5, <1>6, <2>1, BaseUnder
  <2> QED BY <1>1, <2>2 DEF ContinueBlock
<1>8. f.id \in Nat /\ f.id > fuel
  <2>1. Holds(<<Top>> \o Below) = Holds(<<Top>>) \cup Holds(Below) /\ stack = <<Top>> \o Below
    BY <1>1, TopBelow, BuiltCat
  <2>2. x \in Names
    BY <1>2, <1>3, <1>4, <2>1 DEF Base
  <2> QED BY <1>3, <2>2, KnownBlocks DEF Names
<1>9. Plain(signal')
  BY <1>1, <1>3, <1>4, PlainSignals
<1>10. SignalOK(signal') /\ SignalFrames' = <<>>
  BY <1>9, PlainCarries DEF SignalFrames
<1>11. Built(stack') /\ <<>> \o stack' = stack'
  <2>1. Built(stack')
    BY <1>1, TopBelow
  <2> QED BY <1>2, <2>1, NilCat
<1>12. Body'
  BY <1>7, <1>10, <1>11, BuiltNil DEF Body
<1>13. ran' \subseteq {b \in Nat : b > fuel'}
  BY <1>1, <1>3, <1>8, StackTypes DEF ContinueBlock
<1> QED BY <1>10, <1>12, <1>13, StackTypes, StepInv DEF ContinueBlock, quiet

-----------------------------------------------------------------------------
(* Tokens.                                                                 *)
\* A step that takes an entry of the arena out keeps the invariant.
LEMMA TakeStep ==
  ASSUME MachineInv, NEW t \in Owned(arena), NEW st \in ContinuationStates, st # "ArmOwned", arena' = TakeOut(arena, t, st),
         SignalOK(signal'), Built(SignalFrames'), Built(stack'), NEW n, n = SignalFrames' \o stack',
         Lin(n), Holds(n) \subseteq Holds(SignalFrames \o stack) \cup Holds(Kept(arena, t)),
         UNCHANGED <<next_handler_scope, next_retry, ran, handler_stack, retry_stack, history>>,
         fuel' = fuel \/ (fuel > 0 /\ fuel' = fuel - 1), crossed' \in BOOLEAN
  PROVE  MachineInv'
<1>1. Base(SignalFrames \o stack, arena, Names) /\ ArenaOK(arena)
  BY Carries
<1>2. arena'.next = arena.next
  BY <1>1, TakenArena
<1>3. Names \subseteq Names'
  <2>1. next_handler_scope \in Nat /\ next_retry \in Nat /\ fuel \in Nat /\ fuel' \in Nat /\ fuel' <= fuel
    BY StackTypes
  <2>2. arena.next \in Nat
    BY <1>1 DEF ArenaOK
  <2>3. Names' = Known(fuel', next_handler_scope, next_retry, arena.next, ran)
    BY <1>2 DEF Names
  <2> QED BY <2>1, <2>2, <2>3, KnownGrows DEF Names
<1>4. Built(n)
  BY BuiltCat
<1>5. Base(n, arena', Names')
  BY <1>1, <1>3, <1>4, BaseTake
<1>6. Body'
  BY <1>5 DEF Body
<1>7. fuel' \in Nat /\ ran' \subseteq {b \in Nat : b > fuel'}
  BY StackTypes
<1> QED BY <1>6, <1>7, StackTypes, StepInv

\* The frames of a token over part of the stack.
LEMMA KeptOver ==
  ASSUME MachineInv, signal.k \notin {"Perform", "Parked"}, NEW t \in Owned(arena), NEW u, Under(u, stack), NEW K, K = Kept(arena, t)
  PROVE  /\ Built(K) /\ Built(u) /\ Lin(u) /\ Lin(K \o u) /\ Built(K \o u) /\ Holds(u) \subseteq Holds(SignalFrames \o stack)
         /\ Holds(K \o u) \subseteq Holds(SignalFrames \o stack) \cup Holds(K)
<1>1. SignalFrames \o stack = stack /\ Base(stack, arena, Names) /\ ArenaOK(arena)
  BY Carries
<1>2. Built(K)
  BY <1>1, Accepts
<1>3. Built(u) /\ Lin(u) /\ Holds(u) \subseteq Holds(stack)
  BY <1>1 DEF Under, Base
<1>4. Lin(K) /\ Holds(K) \cap Holds(stack) = {}
  BY <1>1 DEF Base
<1>5. /\ Built(K \o u) /\ Holds(K \o u) = Holds(K) \cup Holds(u)
      /\ (Lin(K \o u) <=> Lin(K) /\ Lin(u) /\ Holds(K) \cap Holds(u) = {})
  BY <1>2, <1>3, BuiltCat
<1>6. Lin(K \o u)
  BY <1>3, <1>4, <1>5
<1> QED BY <1>1, <1>2, <1>3, <1>5, <1>6

\* Consumption and disposal are the one way frames leave an entry of the arena.
LEMMA TakesOut ==
  ASSUME NEW A, NEW t
  PROVE  /\ Dispose(A, t) = TakeOut(A, t, "Disposed") /\ Consume(A, t, "Resume") = TakeOut(A, t, "Resumed")
         /\ Consume(A, t, "Requeue") = TakeOut(A, t, "ReadyOwned") /\ Consume(A, t, "Park") = TakeOut(A, t, "WaitingOn")
         /\ {"Disposed", "Resumed", "ReadyOwned", "WaitingOn"} \subseteq ContinuationStates \ {"ArmOwned"}
<1>1. TransferredState("Resume") = "Resumed" /\ TransferredState("Requeue") = "ReadyOwned" /\ TransferredState("Park") = "WaitingOn"
  BY DEF TransferredState
<1>2. Dispose(A, t) = TakeOut(A, t, "Disposed")
  BY Zenon DEF Dispose, TakeOut
<1>3. \A x : Consume(A, t, x) = TakeOut(A, t, TransferredState(x))
  BY Zenon DEF Consume, TakeOut
<1>4. {"Disposed", "Resumed", "ReadyOwned", "WaitingOn"} \subseteq ContinuationStates \ {"ArmOwned"}
  BY DEF ContinuationStates
<1> QED BY <1>1, <1>2, <1>3, <1>4

\* A value, a resume and a finish at a HandlerDispatch keep the invariant.
LEMMA DispatchSteps ==
  ASSUME MachineInv, ValueAtDispatch \/ ResumeAtDispatch \/ FinishAtDispatch
  PROVE  MachineInv'
<1>1. /\ signal.k \in {"Value", "Resume", "Finish"} /\ stack # <<>> /\ Top.k = "Dispatch"
      /\ UNCHANGED <<handler_stack, retry_stack, next_handler_scope, next_retry, ran, fuel, quiet>>
  BY DEF ValueAtDispatch, ResumeAtDispatch, FinishAtDispatch, Delivers
<1>2. PICK f, t, u : f = Top /\ t = f.deferred /\ u = f.outer.frames
  OBVIOUS
<1>3. /\ Built(<<f>>) /\ Built(u) /\ t \in Int /\ Holds(<<f>>) = Token(t) \cup Holds(u)
      /\ (Lin(<<f>>) <=> Lin(u) /\ Token(t) \cap Holds(u) = {})
  BY <1>1, <1>2, TopBelow, DispatchFrame
<1>4. Under(u, <<f>>)
  BY <1>3 DEF Under
<1>5. Built(Below) /\ Under(Below, stack)
  BY <1>1, TopBelow, Carries
<1>6. ArenaOK(arena) /\ SignalFrames \o stack = stack
  BY <1>1, Carries
<1>7. handler_stack' \in Seq(Handlers(next_handler_scope)) /\ retry_stack' \in Seq(0..(next_retry - 1))
  BY <1>1, StackTypes
<1>8. crossed' \in BOOLEAN /\ UNCHANGED history
  BY <1>1, StackTypes DEF quiet
<1>p. Plain(Sig("Value")) /\ (\A w : Plain(Fault(w))) /\ Plain(signal)
  BY <1>1, PlainSignals DEF Plain, PlainKinds
\* The outer frames go in the place of the dispatch.
<1>10. ASSUME stack' = u \o Below, Plain(signal'), UNCHANGED arena PROVE MachineInv'
  BY <1>1, <1>2, <1>4, <1>7, <1>10, ReplaceStep
\* The dispatch only leaves.
<1>11. ASSUME stack' = Below, Plain(signal'), UNCHANGED arena PROVE MachineInv'
  BY <1>1, <1>2, <1>5, <1>7, <1>11, Carries, DropStep
<1>12. ASSUME t \in Owned(arena), NEW st \in ContinuationStates \ {"ArmOwned"}, arena' = TakeOut(arena, t, st),
              stack' = Below \/ stack' = Kept(arena, t) \o Below, Plain(signal')
       PROVE  MachineInv'
  <2>1. SignalOK(signal') /\ SignalFrames' = <<>>
    BY <1>12, PlainCarries DEF SignalFrames
  <2>2. PICK K : K = Kept(arena, t)
    OBVIOUS
  <2>3. /\ Built(Below) /\ Lin(Below) /\ Lin(K \o Below) /\ Built(K \o Below) /\ Holds(Below) \subseteq Holds(SignalFrames \o stack)
        /\ Holds(K \o Below) \subseteq Holds(SignalFrames \o stack) \cup Holds(K)
    BY <1>1, <1>5, <1>12, <2>2, KeptOver
  <2>4. Built(stack') /\ Lin(stack') /\ Holds(stack') \subseteq Holds(SignalFrames \o stack) \cup Holds(Kept(arena, t))
    BY <1>12, <2>2, <2>3
  <2>5. stack' = SignalFrames' \o stack' /\ Built(SignalFrames')
    BY <2>1, <2>4, NilCat, BuiltNil
  <2> QED BY <1>1, <1>8, <1>12, <2>1, <2>4, <2>5, TakeStep
<1>13. (Refusal(arena, t, 0, "Root") = "Accepted") <=> t \in Owned(arena)
  BY <1>6, Accepts
<1>14. CASE ValueAtDispatch
  <2>1. CASE t = NoToken
    <3>1. stack' = u \o Below /\ signal' = signal /\ UNCHANGED arena
      BY <1>14, <1>2, <2>1 DEF ValueAtDispatch
    <3>2. Plain(signal')
      BY <1>p, <1>5, <3>1
    <3> QED BY <3>1, <3>2, <1>10
  <2>2. CASE t # NoToken
    <3>1. /\ arena' = IF Refusal(arena, t, 0, "Root") = "Accepted" THEN Dispose(arena, t) ELSE arena
          /\ stack' = Below /\ \E w : signal' = Fault(w)
      BY <1>14, <1>2, <2>2 DEF ValueAtDispatch
    <3>2. Plain(signal')
      BY <1>5, <1>p, <3>1
    <3>3. CASE t \in Owned(arena)
      <4>1. arena' = TakeOut(arena, t, "Disposed")
        BY <1>13, <3>1, <3>3, TakesOut
      <4> QED BY <3>1, <3>2, <3>3, <4>1, <1>12, TakesOut
    <3>4. CASE t \notin Owned(arena)
      BY <1>11, <1>13, <3>1, <3>2, <3>4
    <3> QED BY <3>3, <3>4
  <2> QED BY <2>1, <2>2
<1>15. CASE ResumeAtDispatch
  <2>1. CASE t = NoToken
    <3>1. stack' = u \o Below /\ signal' = Sig("Value") /\ UNCHANGED arena
      BY <1>15, <1>2, <2>1 DEF ResumeAtDispatch
    <3>2. Plain(signal')
      BY <1>p, <1>5, <3>1
    <3> QED BY <3>1, <3>2, <1>10
  <2>2. CASE t # NoToken /\ t \notin Owned(arena)
    <3>1. stack' = Below /\ UNCHANGED arena /\ signal' = Fault(Refusal(arena, t, 0, "Root"))
      BY <1>15, <1>2, <1>13, <2>2 DEF ResumeAtDispatch
    <3>2. Plain(signal')
      BY <1>p, <1>5, <3>1
    <3> QED BY <3>1, <3>2, <1>11
  <2>3. CASE t # NoToken /\ t \in Owned(arena)
    <3>1. stack' = Kept(arena, t) \o Below /\ arena' = Consume(arena, t, "Resume") /\ signal' = Sig("Value")
      BY <1>15, <1>2, <1>13, <2>3 DEF ResumeAtDispatch, Kept
    <3>3. Plain(signal')
      BY <1>p, <1>5, <3>1
    <3>4. arena' = TakeOut(arena, t, "Resumed")
      BY <3>1, TakesOut
    <3> QED BY <2>3, <3>1, <3>3, <3>4, <1>12, TakesOut
  <2> QED BY <2>1, <2>2, <2>3
<1>16. CASE FinishAtDispatch
  <2>0. stack' = Below
    BY <1>5, <1>16 DEF FinishAtDispatch
  <2>1. CASE t = NoToken
    <3>1. UNCHANGED <<arena, signal>>
      BY <1>16, <1>2, <2>1 DEF FinishAtDispatch
    <3> QED BY <2>0, <3>1, <1>p, <1>11
  <2>2. CASE t # NoToken /\ t \notin Owned(arena)
    <3>1. UNCHANGED arena /\ signal' = Fault(Refusal(arena, t, 0, "Root"))
      BY <1>16, <1>2, <1>13, <2>2 DEF FinishAtDispatch
    <3> QED BY <2>0, <3>1, <1>p, <1>11
  <2>3. CASE t # NoToken /\ t \in Owned(arena)
    <3>1. arena' = Dispose(arena, t) /\ UNCHANGED signal
      BY <1>16, <1>2, <1>13, <2>3 DEF FinishAtDispatch
    <3>2. arena' = TakeOut(arena, t, "Disposed") /\ Plain(signal')
      BY <1>p, <3>1, TakesOut
    <3> QED BY <2>0, <2>3, <3>2, <1>12, TakesOut
  <2> QED BY <2>1, <2>2, <2>3
<1> QED BY <1>14, <1>15, <1>16

\* A non-empty set of naturals has a least member, and Min returns it.
LEMMA LeastOf ==
  ASSUME NEW T \in SUBSET Nat, T # {} PROVE Min(T) \in T /\ \A y \in T : Min(T) <= y
<1>1. \E x \in T : \A y \in T : x <= y
  BY LeastNat
<1> QED BY <1>1 DEF Min

\* What is under the lower part of a stack is under the stack.
LEMMA UnderBelow ==
  ASSUME NEW s, Built(s), NEW t, Built(t), NEW u, Under(u, t) PROVE Under(u, s \o t)
<1>1. Under(<<>> \o u, s \o t)
  BY UnderNil, UnderCat
<1>2. <<>> \o u = u
  BY NilCat DEF Under
<1> QED BY <1>1, <1>2

\* Associativity, for a frame between two continuations.
LEMMA CatFrame ==
  ASSUME NEW c, Built(c), NEW f, Built(<<f>>), NEW q, Built(q)
  PROVE  c \o (<<f>> \o q) = (c \o <<f>>) \o q
<1>1. \A p : Built(p) => c \o (p \o q) = (c \o p) \o q
  BY CatAssoc
<1> QED BY <1>1, Zenon

\* A request, the frames it has passed and the frame it is at.
LEMMA PerformParts ==
  ASSUME MachineInv, signal.k = "Perform", stack # <<>>, NEW c, c \in {signal.cont}
  PROVE  /\ Built(c) /\ Built(<<Top>>) /\ Built(Below) /\ Built(c \o <<Top>>)
         /\ SignalFrames \o stack = (c \o <<Top>>) \o Below /\ Lin(c \o <<Top>>) /\ Lin((c \o <<Top>>) \o Below)
<1>1. SignalFrames = c /\ Built(c) /\ Base(SignalFrames \o stack, arena, Names)
  BY Carries
<1>2. Built(<<Top>>) /\ Built(Below) /\ stack = <<Top>> \o Below
  BY TopBelow
<1>3. Built(c \o <<Top>>)
  BY <1>1, <1>2, BuiltCat
<1>4. c \o (<<Top>> \o Below) = (c \o <<Top>>) \o Below
  BY <1>1, <1>2, CatFrame
<1>5. Lin((c \o <<Top>>) \o Below)
  BY <1>1, <1>2, <1>4 DEF Base
<1>6. Lin(c \o <<Top>>)
  <2>1. PICK p : p = c \o <<Top>>
    OBVIOUS
  <2>2. Lin(p \o Below) => Lin(p)
    BY <1>2, <1>3, <2>1, BuiltCat
  <2> QED BY <1>5, <2>1, <2>2
<1> QED BY <1>1, <1>2, <1>3, <1>4, <1>5, <1>6

\* The request goes on with other frames.
LEMMA MoveStep ==
  ASSUME MachineInv, signal.k = "Perform", NEW c, Built(c), signal' = Perform(signal.on, c), Built(stack'),
         Under(c \o stack', SignalFrames \o stack),
         UNCHANGED <<arena, next_handler_scope, next_retry, ran, fuel, quiet>>,
         handler_stack' \in Seq(Handlers(next_handler_scope)), retry_stack' \in Seq(0..(next_retry - 1))
  PROVE  MachineInv'
<1>1. PICK sg, on : sg = signal' /\ on = signal.on
  OBVIOUS
<1>2. on \in Actions \cup {Error} /\ Base(SignalFrames \o stack, arena, Names)
  BY <1>1, Carries
<1>3. sg.k = "Perform" /\ sg.on = on /\ sg.cont = c /\ sg = Perform(on, c)
  BY <1>1 DEF Perform
<1>4. SignalOK(sg)
  BY <1>2, <1>3 DEF SignalOK
<1>5. SignalFrames' = c
  BY <1>1, <1>3 DEF SignalFrames
<1>6. Names' = Names
  BY DEF Names
<1>7. Base(c \o stack', arena, Names)
  BY <1>2, BaseUnder
<1>8. Body'
  BY <1>5, <1>6, <1>7 DEF Body
<1> QED BY <1>1, <1>4, <1>8, StackTypes, StepInv DEF quiet

\* An action no scope handles leaves the machine, and the invariant holds.
LEMMA YieldPerformStep ==
  ASSUME MachineInv, YieldPerform PROVE MachineInv'
<1>1. signal.k = "Perform" /\ SignalFrames = signal.cont /\ Built(signal.cont) /\ Built(stack)
  BY Carries DEF YieldPerform
<1>2. crossed' \in BOOLEAN /\ UNCHANGED history /\ UNCHANGED <<arena, next_handler_scope, next_retry, ran, handler_stack, retry_stack, fuel>>
  BY StackTypes DEF YieldPerform, quiet
<1>3. handler_stack' \in Seq(Handlers(next_handler_scope)) /\ retry_stack' \in Seq(0..(next_retry - 1))
  BY <1>2, StackTypes
<1>4. stack' = signal.cont \o stack /\ Plain(signal')
  <2>1. signal' \in {Sig("Host"), Fault("active handler scope has no owning lexical frame")}
    BY DEF YieldPerform
  <2>2. Plain(signal')
    BY <2>1, PlainSignals DEF PlainKinds
  <2> QED BY <2>2 DEF YieldPerform
<1>5. Under(stack', SignalFrames \o stack)
  <2>1. Built(signal.cont \o stack)
    BY <1>1, BuiltCat
  <2> QED BY <1>1, <1>4, <2>1, UnderSelf
<1> QED BY <1>2, <1>3, <1>4, <1>5, DownStep

\* Unwinding an action past a frame, captured or not, keeps the invariant.
LEMMA PerformAtFrameStep ==
  ASSUME MachineInv, PerformAtFrame PROVE MachineInv'
<1>1. signal.k = "Perform" /\ stack # <<>>
  BY DEF PerformAtFrame, Propagates
<1>2. PICK c : c = signal.cont
  OBVIOUS
<1>3. /\ SignalFrames = c /\ Built(c) /\ Built(stack)
      /\ signal = Perform(signal.on, c)
  BY <1>1, <1>2, Carries
<1>4. /\ handler_stack' \in Seq(Handlers(next_handler_scope)) /\ retry_stack' \in Seq(0..(next_retry - 1))
      /\ crossed' \in BOOLEAN /\ UNCHANGED history
  BY StackTypes DEF PerformAtFrame, quiet
<1>7. CASE Captures # {}
  <2>1. PICK j : j = Min(Captures)
    OBVIOUS
  <2>2. j \in 0..Len(c)
    <3>1. DOMAIN c = 1..Len(c) /\ Len(c) \in Nat
      BY <1>3, BuiltSeq
    <3>2. Captures \in SUBSET Nat /\ Captures \subseteq 1..Len(c)
      BY <1>2, <3>1 DEF Captures
    <3>3. j \in Captures
      BY <1>7, <2>1, <3>2, LeastOf
    <3> QED BY <3>1, <3>2, <3>3
  <2>3. PICK q : q = SubSeq(c, j + 1, Len(c))
    OBVIOUS
  <2>4. Under(q, c)
    BY <1>3, <2>2, <2>3, UnderCut
  <2>5. stack' = q \o stack /\ signal' = Sig("Value")
    BY <1>2, <1>7, <2>1, <2>3 DEF PerformAtFrame
  <2>6. Under(stack', SignalFrames \o stack)
    BY <1>3, <2>4, <2>5, UnderSelf, UnderCat
  <2>7. Plain(signal')
    BY <2>5, PlainSignals DEF PlainKinds
  <2> QED BY <1>4, <2>6, <2>7, DownStep DEF PerformAtFrame
<1>8. CASE Captures = {}
  <2>1. stack' = Below /\ signal' = IF Top.k = "Try" /\ signal.on = Error THEN Sig("Value") ELSE [signal EXCEPT !.cont = @ \o <<Top>>]
    BY <1>8 DEF PerformAtFrame
  <2>2. Under(stack', SignalFrames \o stack)
    BY <1>1, <1>3, <2>1, TopBelow, UnderBelow
  <2>3. CASE Top.k = "Try" /\ signal.on = Error
    <3>1. Plain(signal')
      BY <2>1, <2>3, PlainSignals DEF PlainKinds
    <3> QED BY <1>4, <2>2, <3>1, DownStep DEF PerformAtFrame
  <2>4. CASE ~ (Top.k = "Try" /\ signal.on = Error)
    <3>1. signal' = [signal EXCEPT !.cont = signal.cont \o <<Top>>]
      BY <2>1, <2>4
    <3>2. PICK d, on : d = c \o <<Top>> /\ on = signal.on
      OBVIOUS
    <3>3. signal' = Perform(on, d)
      <4>1. signal = Perform(on, c)
        BY <1>3, <3>2
      <4>2. signal' = [signal EXCEPT !.cont = d]
        BY <1>2, <3>1, <3>2
      <4> QED BY <4>1, <4>2 DEF Perform
    <3>4. Built(d) /\ SignalFrames \o stack = d \o Below /\ Built(Below)
      BY <1>1, <1>2, <3>2, PerformParts
    <3>5. Under(d \o stack', SignalFrames \o stack)
      <4>1. Built(d \o Below)
        BY <3>4, BuiltCat
      <4> QED BY <2>1, <3>4, <4>1, UnderSelf
    <3> QED BY <1>1, <1>4, <2>1, <3>2, <3>3, <3>4, <3>5, MoveStep DEF PerformAtFrame
  <2> QED BY <2>3, <2>4
<1> QED BY <1>7, <1>8

\* A scope that is not named does not occur.
LEMMA NoOccurrence ==
  ASSUME NEW s, NEW x PROVE <<"scope", x>> \notin Holds(s) => Occurrences(s, x) = 0
  BY DEF Occurrences, Twice

\* Suspending a boundary below an action keeps the invariant.
LEMMA SuspendHandlerStep ==
  ASSUME MachineInv, SuspendHandler PROVE MachineInv'
<1>1. signal.k = "Perform" /\ stack # <<>> /\ Top.k = "Handle" /\ stack' = Below
  BY DEF SuspendHandler, Propagates
<1>2. PICK c, f, s, on : c = signal.cont /\ f = Top /\ s = c \o f.inner.frames /\ on = signal.on
  OBVIOUS
<1>3. /\ Built(c) /\ Built(<<f>>) /\ Built(Below) /\ Built(c \o <<f>>) /\ SignalFrames \o stack = (c \o <<f>>) \o Below
      /\ signal = Perform(on, c) /\ f.k \in Boundaries
  BY <1>1, <1>2, PerformParts, Carries DEF Boundaries
<1>5. /\ handler_stack \in Seq(Handlers(next_handler_scope)) /\ retry_stack' \in Seq(0..(next_retry - 1))
      /\ crossed' \in BOOLEAN /\ UNCHANGED history
  BY StackTypes DEF SuspendHandler, quiet
<1>6. CASE \E w : signal' = Fault(w) /\ UNCHANGED handler_stack
  <2>1. Under(stack', SignalFrames \o stack)
    BY <1>1, <1>3, UnderSelf, UnderBelow
  <2>2. Plain(signal')
    BY <1>6, PlainSignals
  <2> QED BY <1>5, <1>6, <2>1, <2>2, DownStep DEF SuspendHandler
<1>7. CASE handler_stack # <<>> /\ signal' = [signal EXCEPT !.cont = <<Suspended(f, s)>>] /\ handler_stack' = Tail(handler_stack)
  <2>1. PICK d : d = <<Suspended(f, s)>>
    OBVIOUS
  <2>2. Under(d, c \o <<f>>)
    BY <1>2, <1>3, <2>1, SuspendUnder
  <2>3. signal' = Perform(on, d)
    <3>1. signal' = [signal EXCEPT !.cont = d]
      BY <1>7, <2>1
    <3> QED BY <1>3, <3>1 DEF Perform
  <2>4. Under(d \o stack', SignalFrames \o stack) /\ Built(d) /\ Built(stack')
    <3>1. PICK p : p = c \o <<f>>
      OBVIOUS
    <3>2. Under(d \o Below, p \o Below)
      BY <1>3, <2>2, <3>1, UnderSelf, UnderCat
    <3> QED BY <1>1, <1>3, <2>2, <3>1, <3>2 DEF Under
  <2>5. handler_stack' \in Seq(Handlers(next_handler_scope))
    BY <1>7, TailStacks
  <2> QED BY <1>1, <1>2, <1>5, <2>3, <2>4, <2>5, MoveStep DEF SuspendHandler
<1> QED
  <2>1. \/ signal' = Fault("forwarded handler scope already has a boundary owner") /\ UNCHANGED handler_stack
        \/ CloseHandlerScope(f.scope, [signal EXCEPT !.cont = <<Suspended(f, s)>>])
    BY <1>2, Zenon DEF SuspendHandler
  <2> QED BY <1>6, <1>7, <2>1, Zenon DEF CloseHandlerScope

\* The boundary of a dispatched arm always goes around the dispatch.
LEMMA WrapsArm ==
  ASSUME NEW f, NEW d, <<"scope", f.scope>> \notin Holds(<<d>>)
  PROVE  WrapBoundary(f, d).ok /\ WrapBoundary(f, d).frames = <<Owning(f, <<d>>)>>
<1>1. Occurrences(<<d>>, f.scope) = 0
  BY NoOccurrence
<1>2. PICK o : o = <<Owning(f, <<d>>)>>
  OBVIOUS
<1>3. WrapBoundary(f, d) = [ok |-> TRUE, frames |-> o]
  BY <1>1, <1>2 DEF WrapBoundary
<1> QED BY <1>2, <1>3

\* What dispatch_handler does: the parts of its step.
LEMMA DispatchParts ==
  ASSUME MachineInv, DispatchHandler
  PROVE  LET f == Top c == signal.cont outer == c \o f.inner.frames
             t == IF f.binder THEN arena.next ELSE NoToken
             inside == IF f.binder THEN <<>> ELSE outer
             d == HandlerDispatch(Link(inside), t)
         IN /\ signal.k = "Perform" /\ stack # <<>> /\ f.k = "Handle" /\ f.on = signal.on
            /\ Built(c) /\ Built(<<f>>) /\ Built(outer) /\ Lin(outer) /\ Built(inside) /\ <<"scope", f.scope>> \notin Holds(outer)
            /\ Holds(outer) \subseteq Holds(c \o <<f>>) /\ Built(c \o <<f>>) /\ Built(Below)
            /\ SignalFrames \o stack = (c \o <<f>>) \o Below /\ Lin((c \o <<f>>) \o Below)
            /\ arena' = (IF f.binder THEN Allocate(arena, 0, "Root", outer) ELSE arena)
            /\ t \in Int /\ f.binder \in BOOLEAN
            /\ stack' = <<Owning(f, <<d>>)>> \o Below /\ signal' = Code(EnterArm(t, f.on, f.lex))
<1> DEFINE f == Top c == signal.cont outer == c \o f.inner.frames
           t == IF f.binder THEN arena.next ELSE NoToken
           inside == IF f.binder THEN <<>> ELSE outer
           d == HandlerDispatch(Link(inside), t)
<1>1. signal.k = "Perform" /\ stack # <<>> /\ f.k = "Handle" /\ f.on = signal.on
  BY DEF DispatchHandler, Propagates
<1>2. /\ Built(c) /\ Built(<<f>>) /\ Built(Below) /\ Built(c \o <<f>>) /\ SignalFrames \o stack = (c \o <<f>>) \o Below
      /\ Lin(c \o <<f>>) /\ Lin((c \o <<f>>) \o Below)
  BY <1>1, PerformParts
<1>3. f.k \in Boundaries
  BY <1>1 DEF Boundaries
<1>4. Built(outer) /\ Lin(outer) /\ <<"scope", f.scope>> \notin Holds(outer)
  BY <1>2, <1>3, SuspendUnder
<1>5. Holds(outer) \subseteq Holds(c \o <<f>>)
  <2>1. PICK i : i = f.inner.frames
    OBVIOUS
  <2>2. Built(i) /\ Holds(i) \subseteq Holds(<<f>>)
    BY <1>2, <1>3, <2>1, BoundaryFrame
  <2>3. Holds(c \o <<f>>) = Holds(c) \cup Holds(<<f>>)
    BY <1>2, BuiltCat
  <2>4. Holds(c \o i) = Holds(c) \cup Holds(i)
    BY <1>2, <2>2, BuiltCat
  <2> QED BY <2>1, <2>2, <2>3, <2>4
<1>6. f.binder \in BOOLEAN
  BY <1>2, <1>3, BoundaryFrame
<1>7. arena.next \in Nat
  BY Carries DEF ArenaOK
<1>8. t \in Int /\ Built(inside)
  BY <1>4, <1>7, BuiltNil DEF NoToken
<1>9. <<"scope", f.scope>> \notin Holds(<<d>>)
  <2>1. PICK e, s : e = d /\ s = inside
    OBVIOUS
  <2>2. Holds(<<e>>) = Token(t) \cup Holds(s)
    BY <1>8, <2>1, Dispatches
  <2>3. <<"scope", f.scope>> \notin Token(t)
    BY DEF Token
  <2>4. <<"scope", f.scope>> \notin Holds(s)
    BY <1>4, <2>1, HoldsNil
  <2> QED BY <2>1, <2>2, <2>3, <2>4
<1>10. WrapBoundary(f, d).ok /\ WrapBoundary(f, d).frames = <<Owning(f, <<d>>)>>
  <2>1. PICK g, e : g = f /\ e = d
    OBVIOUS
  <2> QED BY <1>9, <2>1, WrapsArm
<1>11. /\ arena' = (IF f.binder THEN Allocate(arena, 0, "Root", outer) ELSE arena)
       /\ stack' = <<Owning(f, <<d>>)>> \o Below /\ signal' = Code(EnterArm(t, f.on, f.lex))
  BY <1>10, Zenon DEF DispatchHandler
<1> QED BY <1>1, <1>2, <1>4, <1>5, <1>6, <1>8, <1>11, Zenon

\* Running an arm, with its continuation in the frame or in the arena, keeps the invariant.
LEMMA DispatchHandlerStep ==
  ASSUME MachineInv, DispatchHandler PROVE MachineInv'
<1>1. PICK f, c, outer, t, inside, d :
        /\ f = Top /\ c = signal.cont /\ outer = c \o f.inner.frames
        /\ t = (IF f.binder THEN arena.next ELSE NoToken) /\ inside = (IF f.binder THEN <<>> ELSE outer)
        /\ d = HandlerDispatch(Link(inside), t)
  OBVIOUS
<1>2. /\ signal.k = "Perform" /\ stack # <<>> /\ f.k = "Handle" /\ f.on = signal.on
      /\ Built(c) /\ Built(<<f>>) /\ Built(outer) /\ Lin(outer) /\ Built(inside) /\ <<"scope", f.scope>> \notin Holds(outer)
      /\ Holds(outer) \subseteq Holds(c \o <<f>>) /\ Built(c \o <<f>>) /\ Built(Below)
      /\ SignalFrames \o stack = (c \o <<f>>) \o Below /\ Lin((c \o <<f>>) \o Below)
      /\ arena' = (IF f.binder THEN Allocate(arena, 0, "Root", outer) ELSE arena)
      /\ t \in Int /\ f.binder \in BOOLEAN
      /\ stack' = <<Owning(f, <<d>>)>> \o Below /\ signal' = Code(EnterArm(t, f.on, f.lex))
  BY <1>1, DispatchParts, Zenon
<1>3. UNCHANGED <<handler_stack, retry_stack, next_handler_scope, next_retry, ran, fuel, quiet>>
  BY DEF DispatchHandler
<1>4. f.k \in Boundaries /\ f.lex \in Seq(LexEntries) /\ (f.on = Error => ~f.binder)
  <2>1. f.k \in Boundaries
    BY <1>2 DEF Boundaries
  <2> QED BY <1>2, <2>1, BoundaryFrame
<1>5. Plain(signal')
  <2>1. f.on = Error => t = NoToken
    BY <1>1, <1>4
  <2>2. EnterArm(t, f.on, f.lex) \in Seq(LexEntries)
    BY <1>2, <1>4, <2>1, LexGrows
  <2> QED BY <1>2, <2>2, PlainSignals
<1>6. Built(<<d>>) /\ Holds(<<d>>) = Token(t) \cup Holds(inside) /\ (Lin(<<d>>) <=> Lin(inside) /\ Token(t) \cap Holds(inside) = {})
  BY <1>1, <1>2, Dispatches
<1>7. PICK g, x : g = <<Owning(f, <<d>>)>> /\ x = <<"scope", f.scope>>
  OBVIOUS
<1>8. Built(g) /\ Holds(g) = {x} \cup Holds(<<d>>) /\ (Lin(g) <=> Lin(<<d>>) /\ x \notin Holds(<<d>>))
  <2>1. PICK s : s = <<d>> /\ Built(s)
    BY <1>6
  <2>2. /\ Built(<<Owning(f, s)>>) /\ Holds(<<Owning(f, s)>>) = {<<"scope", f.scope>>} \cup Holds(s)
        /\ (Lin(<<Owning(f, s)>>) <=> Lin(s) /\ <<"scope", f.scope>> \notin Holds(s))
    BY <1>2, <1>4, <2>1, Owns
  <2> QED BY <1>7, <2>1, <2>2
<1>9. x \notin Token(t)
  BY <1>7 DEF Token
<1>11. PICK p : p = c \o <<f>>
  OBVIOUS
<1>12. Built(p) /\ Lin(p) /\ Lin(Below) /\ Holds(p) \cap Holds(Below) = {} /\ Holds(p \o Below) = Holds(p) \cup Holds(Below) /\ x \in Holds(p)
  <2>1. Built(p) /\ Lin(p \o Below)
    BY <1>2, <1>11
  <2>2. x \in Holds(<<f>>)
    BY <1>2, <1>4, <1>7, BoundaryFrame
  <2>3. Holds(c \o <<f>>) = Holds(c) \cup Holds(<<f>>)
    BY <1>2, BuiltCat
  <2>4. /\ Holds(p \o Below) = Holds(p) \cup Holds(Below)
        /\ (Lin(p \o Below) <=> Lin(p) /\ Lin(Below) /\ Holds(p) \cap Holds(Below) = {})
    BY <1>2, <2>1, BuiltCat
  <2> QED BY <1>11, <2>1, <2>2, <2>3, <2>4
<1>13. CASE ~f.binder
  <2>1. t = NoToken /\ inside = outer /\ arena' = arena
    BY <1>1, <1>2, <1>13
  <2>2. Token(t) = {}
    BY <2>1 DEF Token
  <2>3. Holds(g) \subseteq Holds(p) /\ Lin(g)
    BY <1>2, <1>6, <1>7, <1>8, <1>11, <1>12, <2>1, <2>2
  <2>4. Under(g, p)
    BY <1>8, <2>3 DEF Under
  <2>5. Under(g \o Below, p \o Below)
    BY <1>2, <1>12, <2>4, UnderSelf, UnderCat
  <2>6. Under(stack', SignalFrames \o stack)
    BY <1>2, <1>7, <1>11, <2>5
  <2> QED BY <1>3, <1>5, <2>1, <2>6, StackTypes, DownStep DEF quiet
<1>14. CASE f.binder
  <2>1. t = arena.next /\ inside = <<>> /\ arena' = Allocate(arena, 0, "Root", outer)
    BY <1>1, <1>2, <1>14
  <2>2. arena.next \in Nat /\ Base(p \o Below, arena, Names)
    BY <1>2, <1>11, Carries DEF ArenaOK
  <2>3. PICK y : y = <<"token", arena.next>>
    OBVIOUS
  <2>4. Holds(<<d>>) = {y} /\ Lin(<<d>>)
    <3>1. Token(t) = {y}
      BY <2>1, <2>2, <2>3 DEF Token, NoToken
    <3> QED BY <1>6, <2>1, <3>1, HoldsNil DEF Lin
  <2>5. Built(g) /\ Holds(g) = {x, y} /\ Lin(g)
    <3>1. x # y
      BY <1>7, <2>3
    <3> QED BY <1>8, <2>4, <3>1
  <2>6. y \notin Names /\ Names \cup {y} \subseteq Names'
    <3>1. Names = Known(fuel, next_handler_scope, next_retry, arena.next, ran)
      BY DEF Names
    <3>2. arena'.next = arena.next + 1
      BY <2>1 DEF Allocate
    <3>3. Names' = Known(fuel, next_handler_scope, next_retry, arena.next + 1, ran)
      BY <1>3, <3>2 DEF Names
    <3>4. next_handler_scope \in Nat /\ next_retry \in Nat /\ fuel \in Nat
      BY StackTypes
    <3>5. y \notin Names /\ y \in Names'
      BY <2>2, <2>3, <3>1, <3>3, <3>4, KnownFresh
    <3>6. PICK na \in Nat : na = arena.next + 1 /\ arena.next <= na
      BY <2>2
    <3>7. fuel <= fuel /\ next_handler_scope <= next_handler_scope /\ next_retry <= next_retry
      BY <3>4
    <3>8. Known(fuel, next_handler_scope, next_retry, arena.next, ran) \subseteq Known(fuel, next_handler_scope, next_retry, na, ran)
      BY <2>2, <3>4, <3>6, <3>7, KnownGrows
    <3> QED BY <3>1, <3>3, <3>5, <3>6, <3>8
  <2>7. PICK n : n = g \o Below
    OBVIOUS
  <2>8. Built(n) /\ Lin(n) /\ Holds(n) \subseteq Holds(p \o Below) \cup {y} /\ Holds(n) \cap Holds(outer) = {}
    <3>1. /\ Built(n) /\ Holds(n) = Holds(g) \cup Holds(Below)
          /\ (Lin(n) <=> Lin(g) /\ Lin(Below) /\ Holds(g) \cap Holds(Below) = {})
      BY <1>2, <2>5, <2>7, BuiltCat
    <3>2. y \notin Holds(p \o Below)
      BY <2>2, <2>6 DEF Base
    <3>3. Holds(outer) \subseteq Holds(p) /\ x \notin Holds(outer)
      BY <1>2, <1>7, <1>11
    <3> QED BY <1>12, <2>5, <3>1, <3>2, <3>3
  <2>9. Base(n, arena', Names')
    <3>1. Holds(outer) \subseteq Holds(p \o Below)
      BY <1>2, <1>11, <1>12
    <3> QED BY <1>2, <2>1, <2>2, <2>6, <2>8, <3>1, BaseAllocate
  <2>10. SignalOK(signal') /\ SignalFrames' = <<>>
    BY <1>5, PlainCarries DEF SignalFrames
  <2>11. stack' = n /\ SignalFrames' \o stack' = n
    BY <1>2, <1>7, <2>7, <2>8, <2>10, NilCat
  <2>12. Body'
    BY <2>8, <2>9, <2>10, <2>11, BuiltNil DEF Body
  <2> QED BY <1>3, <2>10, <2>12, StackTypes, StepInv DEF quiet
<1> QED BY <1>2, <1>13, <1>14

\* Under is transitive.
LEMMA UnderTrans == ASSUME NEW s, NEW t, NEW u, Under(u, t), Under(t, s) PROVE Under(u, s)
  BY DEF Under

\* A frame in the middle.
LEMMA CutAt ==
  ASSUME NEW s, Built(s), NEW n \in 1..Len(s)
  PROVE  /\ Built(<<s[n]>>) /\ Built(SubSeq(s, n + 1, Len(s))) /\ Built(SubSeq(s, 1, n - 1))
         /\ Under(<<s[n]>> \o SubSeq(s, n + 1, Len(s)), s)
         /\ s = SubSeq(s, 1, n - 1) \o (<<s[n]>> \o SubSeq(s, n + 1, Len(s)))
<1>1. PICK m \in Nat : m = n - 1 /\ m + 1 = n /\ m \in 0..Len(s) /\ n \in 0..Len(s)
  <2>1. Len(s) \in Nat
    BY BuiltSeq
  <2> QED BY <2>1
<1>2. PICK p, r, q : p = SubSeq(s, 1, m) /\ r = SubSeq(s, m + 1, Len(s)) /\ q = SubSeq(s, n + 1, Len(s))
  OBVIOUS
<1>3. Built(p) /\ Built(r) /\ s = p \o r /\ Len(r) = Len(s) - m /\ \A i \in 1..(Len(s) - m) : r[i] = s[m + i]
  BY <1>1, <1>2, BuiltCut
<1>4. Built(q) /\ Len(q) = Len(s) - n /\ \A i \in 1..(Len(s) - n) : q[i] = s[n + i]
  BY <1>1, <1>2, BuiltCut
<1>5. Len(s) \in Nat /\ Len(s) - m >= 1 /\ Len(s) - n \in Nat
  <2>1. Len(s) \in Nat
    BY BuiltSeq
  <2> QED BY <1>1, <2>1
<1>6. r # <<>>
  BY <1>3, <1>5
<1>7. /\ Built(<<r[1]>>) /\ Built(Tail(r)) /\ r = <<r[1]>> \o Tail(r) /\ Len(r) = Len(Tail(r)) + 1 /\ Len(Tail(r)) \in Nat
      /\ \A i \in 1..Len(Tail(r)) : r[i + 1] = Tail(r)[i]
  BY <1>3, <1>6, BuiltTail
<1>8. r[1] = s[n]
  BY <1>1, <1>3, <1>5
<1>9. Tail(r) = q
  <2>1. Len(Tail(r)) = Len(q)
    <3>1. PICK a \in Nat, l \in Nat : a = Len(Tail(r)) /\ l = Len(s)
      BY <1>5, <1>7
    <3>2. Len(r) = l - m /\ Len(r) = a + 1
      BY <1>3, <1>7, <3>1
    <3>3. PICK b : b = l - n /\ b = Len(q)
      BY <1>4, <3>1
    <3>4. a = b
      BY <1>1, <3>1, <3>2, <3>3
    <3> QED BY <3>1, <3>3, <3>4
  <2>2. \A i \in 1..Len(q) : Tail(r)[i] = q[i]
    <3> SUFFICES ASSUME NEW i \in 1..Len(q) PROVE Tail(r)[i] = q[i]
      OBVIOUS
    <3>1. i \in Nat /\ i + 1 \in 1..(Len(s) - m) /\ i \in 1..(Len(s) - n) /\ i \in 1..Len(Tail(r)) /\ m + (i + 1) = n + i
      BY <1>1, <1>3, <1>4, <1>5, <1>7, <2>1
    <3>2. r[i + 1] = s[m + (i + 1)] /\ q[i] = s[n + i] /\ r[i + 1] = Tail(r)[i]
      BY <1>3, <1>4, <1>7, <3>1
    <3> QED BY <3>1, <3>2
  <2>3. PICK W : Tail(r) \in Seq(W) /\ q \in Seq(W)
    BY <1>4, <1>7, BuiltTogether
  <2> QED BY <2>1, <2>2, <2>3, SeqEqual
<1>10. Under(r, s)
  BY <1>1, <1>2, UnderCut
<1>11. r = <<s[n]>> \o q /\ Built(<<s[n]>>)
  <2>1. PICK x, v : x = r[1] /\ v = Tail(r)
    OBVIOUS
  <2>2. r = <<x>> \o v /\ Built(<<x>>) /\ x = s[n] /\ v = q
    BY <1>7, <1>8, <1>9, <2>1
  <2> QED BY <2>2
<1>12. SubSeq(s, 1, n - 1) = p
  BY <1>1, <1>2
<1> QED BY <1>2, <1>3, <1>4, <1>10, <1>11, <1>12

\* The parts of the stack around the dispatch a requeue or park ends.
LEMMA TransferParts ==
  ASSUME MachineInv, NEW t, DispatchAt(t) # {}
  PROVE  LET at == Min(DispatchAt(t))
             kept == IF stack[at].k = "Handle" THEN <<Owning(stack[at], <<>>)>> ELSE <<>>
             rest == SubSeq(stack, at + 1, Len(stack))
         IN /\ at \in 1..Len(stack) /\ at \in DispatchAt(t) /\ (\A j \in DispatchAt(t) : at <= j)
            /\ Built(kept) /\ Built(rest) /\ Under(kept \o rest, stack)
<1> DEFINE at == Min(DispatchAt(t))
           kept == IF stack[at].k = "Handle" THEN <<Owning(stack[at], <<>>)>> ELSE <<>>
           rest == SubSeq(stack, at + 1, Len(stack))
<1>1. Built(stack)
  BY Carries
<1>2. DOMAIN stack = 1..Len(stack) /\ Len(stack) \in Nat
  BY <1>1, BuiltSeq
<1>3. DispatchAt(t) \in SUBSET Nat /\ DispatchAt(t) \subseteq 1..Len(stack)
  BY <1>2 DEF DispatchAt
<1>4. at \in DispatchAt(t) /\ (\A j \in DispatchAt(t) : at <= j) /\ at \in 1..Len(stack)
  BY <1>3, LeastOf
<1> HIDE DEF at
<1>5. Built(<<stack[at]>>) /\ Built(rest) /\ Under(<<stack[at]>> \o rest, stack)
  BY <1>1, <1>4, CutAt
<1>6. Built(kept) /\ Under(kept, <<stack[at]>>)
  <2>1. CASE stack[at].k = "Handle"
    <3>1. PICK f : f = stack[at]
      OBVIOUS
    <3>2. f.k \in Boundaries /\ Built(<<f>>)
      BY <1>5, <2>1, <3>1 DEF Boundaries
    <3>3. Under(<<Owning(f, <<>>)>>, <<f>>)
      BY <3>2, OpenUnder
    <3>4. Owning(f, <<>>).k = "Handle"
      BY DEF Owning, HandleBoundary
    <3>6. kept = <<Owning(f, <<>>)>>
      BY <2>1, <3>1
    <3> QED BY <3>1, <3>3, <3>6 DEF Under
  <2>2. CASE stack[at].k # "Handle"
    BY <2>2, BuiltNil, UnderNil
  <2> QED BY <2>1, <2>2
<1>7. Under(kept \o rest, stack)
  <2>1. PICK k, r, f : k = kept /\ r = rest /\ f = <<stack[at]>>
    OBVIOUS
  <2>2. Under(k \o r, f \o r)
    BY <1>5, <1>6, <2>1, UnderSelf, UnderCat
  <2>3. Under(k \o r, stack)
    BY <1>5, <2>1, <2>2, UnderTrans
  <2> QED BY <2>1, <2>3
<1> QED BY <1>4, <1>5, <1>6, <1>7, Zenon DEF at

\* The step of transfer_from with frames fr, apart from what happens to the arena.
LEMMA TransferStep ==
  ASSUME MachineInv, NEW t, NEW fr, Built(fr), TransferFrom(t, fr)
  PROVE  \/ signal' = Fault("transfer without a boundary") /\ UNCHANGED <<stack>>
         \/ \E u : /\ Under(u, stack) /\ stack' = fr \o u /\ signal' = Sig("Value")
<1>1. CASE DispatchAt(t) = {}
  BY <1>1 DEF TransferFrom
<1>2. CASE DispatchAt(t) # {}
  <2>1. PICK at, kept, rest : /\ at = Min(DispatchAt(t)) /\ kept = (IF stack[at].k = "Handle" THEN <<Owning(stack[at], <<>>)>> ELSE <<>>)
                              /\ rest = SubSeq(stack, at + 1, Len(stack))
    OBVIOUS
  <2>2. /\ Built(kept) /\ Built(rest) /\ Under(kept \o rest, stack)
    BY <1>2, <2>1, TransferParts, Zenon
  <2>3. /\ stack' = (fr \o kept) \o rest /\ signal' = Sig("Value")
    BY <1>2, <2>1, Zenon DEF TransferFrom
  <2>4. PICK u : u = kept \o rest
    OBVIOUS
  <2>5. (fr \o kept) \o rest = fr \o u
    <3>1. \A k, r : Built(k) /\ Built(r) => (fr \o k) \o r = fr \o (k \o r)
      BY CatAssoc
    <3> QED BY <2>2, <2>4, <3>1, Zenon
  <2> QED BY <2>2, <2>3, <2>4, <2>5
<1> QED BY <1>1, <1>2

\* Requeueing and parking a continuation keep the invariant.
LEMMA TransferSteps ==
  ASSUME MachineInv, EvalRequeue \/ EvalPark PROVE MachineInv'
<1>1. /\ signal.k = "Code" /\ fuel > 0 /\ fuel' = fuel - 1 /\ crossed' \in BOOLEAN
      /\ UNCHANGED <<handler_stack, retry_stack, next_handler_scope, next_retry, ran, history>>
  BY StackTypes DEF EvalRequeue, EvalPark, Evaluates, MayTransfer, Crosses
<1>2. PICK t : t = ArmToken(signal.lex)
  OBVIOUS
<1>3. ArenaOK(arena) /\ Built(stack) /\ Under(stack, stack)
  BY Carries, UnderSelf
<1>4. (Refusal(arena, t, 0, "Root") = "Accepted") <=> t \in Owned(arena)
  BY <1>3, Accepts
<1>5. CASE t \notin Owned(arena)
  <2>1. signal' = Fault(Refusal(arena, t, 0, "Root")) /\ UNCHANGED <<stack, arena>>
    BY <1>2, <1>4, <1>5 DEF EvalRequeue, EvalPark
  <2>2. Plain(signal')
    BY <2>1, PlainSignals
  <2> QED BY <1>1, <2>1, <2>2, SignalStep
<1>6. CASE t \in Owned(arena)
  <2>1. PICK K : K = Kept(arena, t)
    OBVIOUS
  <2>2. \A u : Under(u, stack) =>
          /\ Built(K) /\ Built(u) /\ Lin(u) /\ Lin(K \o u) /\ Built(K \o u) /\ Holds(u) \subseteq Holds(SignalFrames \o stack)
          /\ Holds(K \o u) \subseteq Holds(SignalFrames \o stack) \cup Holds(K)
    BY <1>1, <1>6, <2>1, KeptOver
  <2>3. Built(K)
    BY <1>3, <2>2
  <2>4. CASE EvalRequeue
    <3>1. arena' = TakeOut(arena, t, "ReadyOwned") /\ TransferFrom(t, K)
      BY <1>2, <1>4, <1>6, <2>1, <2>4, TakesOut DEF EvalRequeue, Kept
    <3>2. \/ signal' = Fault("transfer without a boundary") /\ UNCHANGED <<stack>>
          \/ \E u : /\ Under(u, stack) /\ stack' = K \o u /\ signal' = Sig("Value")
      BY <2>3, <3>1, TransferStep
    <3>3. Plain(signal')
      BY <3>2, PlainSignals DEF PlainKinds
    <3>4. SignalOK(signal') /\ SignalFrames' = <<>>
      BY <3>3, PlainCarries DEF SignalFrames
    <3>5. /\ Built(stack') /\ Lin(stack')
          /\ Holds(stack') \subseteq Holds(SignalFrames \o stack) \cup Holds(Kept(arena, t))
      BY <1>3, <2>1, <2>2, <3>2
    <3>6. stack' = SignalFrames' \o stack' /\ Built(SignalFrames')
      BY <3>4, <3>5, NilCat, BuiltNil
    <3> QED BY <1>1, <1>6, <3>1, <3>4, <3>5, <3>6, TakeStep, TakesOut
  <2>5. CASE EvalPark
    <3>1. /\ arena' = TakeOut(arena, t, "WaitingOn") /\ signal' = [k |-> "Parked", tok |-> t, cont |-> K]
          /\ UNCHANGED <<stack>>
      BY <1>2, <1>4, <1>6, <2>1, <2>5, TakesOut DEF EvalPark, Kept
    <3>2. signal'.k = "Parked" /\ signal'.cont = K
      BY <3>1
    <3>3. SignalOK(signal') /\ SignalFrames' = K
      BY <2>3, <3>2 DEF SignalOK, SignalFrames
    <3>4. PICK n : n = K \o stack
      OBVIOUS
    <3>5. /\ Lin(n) /\ Holds(n) \subseteq Holds(SignalFrames \o stack) \cup Holds(Kept(arena, t)) /\ n = SignalFrames' \o stack'
      BY <1>3, <2>1, <2>2, <3>1, <3>3, <3>4
    <3>6. Built(SignalFrames') /\ Built(stack')
      BY <1>3, <2>3, <3>1, <3>3
    <3> QED BY <1>1, <1>6, <3>1, <3>3, <3>5, <3>6, TakeStep, TakesOut
  <2> QED BY <2>4, <2>5
<1> QED BY <1>5, <1>6

\* The continuation of a parked await goes back on the stack, and the invariant holds.
LEMMA UnparkSteps ==
  ASSUME MachineInv, UnparkCompleted \/ UnparkRaised PROVE MachineInv'
<1>1. signal.k = "Parked" /\ UNCHANGED <<handler_stack, retry_stack, next_handler_scope, next_retry, ran, fuel, arena, history>>
  BY DEF UnparkCompleted, UnparkRaised, quiet
<1>2. crossed' \in BOOLEAN
  BY StackTypes DEF UnparkCompleted, UnparkRaised, quiet
<1>3. PICK c : c = signal.cont
  OBVIOUS
<1>4. Built(c) /\ Built(stack) /\ SignalFrames = c /\ Base(c \o stack, arena, Names)
  BY <1>1, <1>3, Carries
<1>5. CASE UnparkCompleted
  <2>1. TransferFrom(signal.tok, c)
    BY <1>3, <1>5 DEF UnparkCompleted
  <2>2. \/ signal' = Fault("transfer without a boundary") /\ UNCHANGED <<stack>>
        \/ \E u : /\ Under(u, stack) /\ stack' = c \o u /\ signal' = Sig("Value")
    BY <1>4, <2>1, TransferStep
  <2>3. Plain(signal')
    BY <2>2, PlainSignals DEF PlainKinds
  <2>5. Under(stack', SignalFrames \o stack)
    BY <1>4, <2>2, UnderSelf, UnderCat, UnderBelow
  <2> QED BY <1>1, <1>2, <2>3, <2>5, StackTypes, DownStep
<1>6. CASE UnparkRaised
  <2>1. signal' = Perform(Error, c) /\ UNCHANGED <<stack>>
    BY <1>3, <1>6 DEF UnparkRaised
  <2>2. PICK sg, e : sg = signal' /\ e = Error
    OBVIOUS
  <2>3. sg = Perform(e, c)
    BY <2>1, <2>2
  <2>4. sg.k = "Perform" /\ sg.on = e /\ sg.cont = c
    BY <2>3 DEF Perform
  <2>5. SignalOK(sg)
    BY <1>4, <2>2, <2>3, <2>4 DEF SignalOK
  <2>6. SignalFrames' = c /\ Names' = Names
    BY <1>1, <2>2, <2>4 DEF SignalFrames, Names
  <2>7. Body'
    BY <1>1, <1>4, <2>1, <2>6 DEF Body
  <2> QED BY <1>1, <1>2, <2>2, <2>5, <2>7, StackTypes, StepInv
<1> QED BY <1>5, <1>6

\* An error nobody captures keeps it, whether it ends the run or the attempt it was
\* raised in is made again.
LEMMA UnhandledErrorStep ==
  ASSUME MachineInv, UnhandledError PROVE MachineInv'
<1>1. /\ signal.k = "Perform" /\ stack = <<>> /\ UNCHANGED <<handler_stack, arena, next_handler_scope, ran, fuel, history>>
      /\ SignalFrames = signal.cont /\ Built(signal.cont)
  BY Carries DEF UnhandledError
<1>2. CASE Attempted = {}
  <2>1. signal' = Sig("Unhandled") /\ UNCHANGED <<stack, retry_stack, next_retry, crossed>>
    BY <1>2 DEF UnhandledError
  <2>2. Plain(signal') /\ Under(stack', SignalFrames \o stack)
    BY <1>1, <2>1, PlainSignals, UnderNil DEF PlainKinds
  <2> QED BY <1>1, <2>1, <2>2, StackTypes, DownStep
<1>3. CASE Attempted # {}
  <2>1. PICK at, f : at = Min(Attempted) /\ f = signal.cont[at]
    OBVIOUS
  <2>2. DOMAIN signal.cont = 1..Len(signal.cont) /\ Len(signal.cont) \in Nat
    BY <1>1, BuiltSeq
  <2>3. at \in Attempted /\ at \in 1..Len(signal.cont)
    <3>1. Attempted \in SUBSET Nat /\ Attempted \subseteq 1..Len(signal.cont)
      BY <2>2 DEF Attempted
    <3> QED BY <1>3, <2>1, <3>1, LeastOf
  <2>4. f.k = "Retry" /\ f.next \in Nat /\ f.lex \in Seq(LexEntries)
    <3>1. f.k = "Retry"
      BY <2>1, <2>3 DEF Attempted
    <3>2. Built(<<f>>)
      BY <1>1, <2>1, <2>3, CutAt
    <3> QED BY <3>1, <3>2, LeafFrame DEF Boundaries
  <2>5. PopRetry(f.id) \in Seq(0..(next_retry - 1)) /\ crossed' \in BOOLEAN
    BY <1>3, TailStacks DEF UnhandledError
  <2>6. CASE f.next >= Attempts
    <3>1. signal' = Fault("retry exhausted") /\ retry_stack' = PopRetry(f.id) /\ UNCHANGED <<stack, next_retry>>
      BY <1>3, <2>1, <2>6 DEF UnhandledError
    <3>2. Plain(signal') /\ Under(stack', SignalFrames \o stack)
      BY <1>1, <3>1, PlainSignals, UnderNil
    <3> QED BY <1>1, <2>5, <3>1, <3>2, StackTypes, DownStep
  <2>7. CASE ~ (f.next >= Attempts)
    <3>1. StartAttempt(f.next, f.lex, <<>>, PopRetry(f.id))
      BY <1>3, <2>1, <2>7 DEF UnhandledError
    <3> QED BY <1>1, <2>4, <2>5, <3>1, UnderNil, AttemptStep
  <2> QED BY <2>6, <2>7
<1> QED BY <1>2, <1>3

\* A failing Host call unwinds to the retry or ends the run, and the invariant holds.
LEMMA HostFailsStep ==
  ASSUME MachineInv, HostFails PROVE MachineInv'
<1>1. /\ signal.k = "Host" /\ crossed' \in BOOLEAN /\ UNCHANGED <<handler_stack, arena, next_handler_scope, ran, fuel, history>>
  BY StackTypes DEF HostFails, Crosses
<1>2. SignalFrames \o stack = stack /\ Built(stack)
  BY <1>1, Carries
<1>4. CASE RetryFrames = {}
  <2>1. signal' = Fault("host") /\ UNCHANGED <<stack, retry_stack, next_retry>>
    BY <1>4 DEF HostFails
  <2>3. Plain(signal')
    BY <2>1, PlainSignals
  <2> QED BY <1>1, <2>1, <2>3, SignalStep
<1>5. CASE RetryFrames # {}
  <2>1. PICK at : at = Min(RetryFrames)
    OBVIOUS
  <2>2. DOMAIN stack = 1..Len(stack) /\ Len(stack) \in Nat
    BY <1>2, BuiltSeq
  <2>3. RetryFrames \in SUBSET Nat /\ RetryFrames \subseteq 1..Len(stack)
    BY <2>2 DEF RetryFrames
  <2>4. at \in RetryFrames /\ at \in 1..Len(stack) /\ at \in 0..Len(stack)
    <3>1. at \in RetryFrames
      BY <1>5, <2>1, <2>3, LeastOf
    <3> QED BY <2>2, <2>3, <3>1
  <2>5. PICK f, below : f = stack[at] /\ below = SubSeq(stack, at + 1, Len(stack))
    OBVIOUS
  <2>6. Under(below, stack) /\ Built(<<f>>)
    BY <1>2, <2>4, <2>5, UnderCut, CutAt
  <2>7. f.k = "Retry" /\ f.next \in Nat /\ f.lex \in Seq(LexEntries)
    <3>1. f.k = "Retry"
      BY <2>4, <2>5 DEF RetryFrames
    <3> QED BY <2>6, <3>1, LeafFrame DEF Boundaries
  <2>8. PopRetry(f.id) \in Seq(0..(next_retry - 1))
    BY TailStacks
  <2>9. CASE f.next >= Attempts
    <3>1. signal' = Fault("retry exhausted") /\ stack' = below /\ retry_stack' = PopRetry(f.id) /\ UNCHANGED next_retry
      BY <1>5, <2>1, <2>5, <2>9 DEF HostFails
    <3>2. Plain(signal') /\ Under(stack', SignalFrames \o stack) /\ Built(stack')
      BY <1>2, <2>6, <3>1, PlainSignals DEF Under
    <3> QED BY <1>1, <2>8, <3>1, <3>2, StackTypes, DownStep
  <2>10. CASE ~ (f.next >= Attempts)
    <3>1. StartAttempt(f.next, f.lex, below, PopRetry(f.id))
      BY <1>5, <2>1, <2>5, <2>10 DEF HostFails
    <3>2. Built(stack')
      <4>1. PICK g : g = RetryAttempt(next_retry, f.next + 1, f.lex)
        OBVIOUS
      <4>2. f.next + 1 \in Nat /\ next_retry \in Nat
        BY <2>7, StackTypes
      <4>3. Built(<<g>>)
        BY <2>7, <4>1, <4>2, MakeLeaf
      <4>4. stack' = <<g>> \o below
        BY <3>1, <4>1 DEF StartAttempt
      <4> QED BY <2>6, <4>3, <4>4, BuiltCat DEF Under
    <3> QED BY <1>1, <1>2, <2>6, <2>7, <2>8, <3>1, <3>2, AttemptStep
  <2> QED BY <2>9, <2>10
<1> QED BY <1>4, <1>5

\* Recording a checkpoint keeps the invariant.
LEMMA RecordCheckpointStep ==
  ASSUME MachineInv, RecordCheckpoint PROVE MachineInv'
<1>1. /\ signal.k = "Checkpoint" /\ UNCHANGED <<stack, handler_stack, retry_stack, arena, next_handler_scope, next_retry,
                                                ran, crossed, fuel, crashes>>
  BY DEF RecordCheckpoint
<1>2. SignalFrames = <<>> /\ SignalFrames \o stack = stack /\ Built(stack) /\ Base(stack, arena, Names)
  BY <1>1, Carries
<1>3. Plain(signal')
  <2>1. signal' \in {Sig("Value"), Fault("checkpoint cannot preserve")}
    BY DEF RecordCheckpoint
  <2> QED BY <2>1, PlainSignals DEF PlainKinds
<1>4. SignalOK(signal') /\ SignalFrames' = <<>>
  BY <1>3, PlainCarries DEF SignalFrames
<1>5. Body'
  <2>1. Names' = Names
    BY <1>1 DEF Names
  <2> QED BY <1>1, <1>2, <1>4, <2>1, BuiltNil DEF Body
<1>6. Types'
  BY <1>1, <1>4 DEF MachineInv, Types
<1>7. saved' # NoCheckpoint => SavedBase(saved')
  <2>1. CASE saved' = saved
    BY <2>1 DEF MachineInv
  <2>2. CASE saved' = [stack |-> stack, handler_stack |-> handler_stack,
                       retry_stack |-> retry_stack, arena |-> arena,
                       next_handler_scope |-> next_handler_scope, next_retry |-> next_retry,
                       ran |-> ran, crossed |-> crossed, fuel |-> fuel]
    <3>1. /\ saved'.stack = stack /\ saved'.handler_stack = handler_stack /\ saved'.retry_stack = retry_stack /\ saved'.arena = arena
          /\ saved'.next_handler_scope = next_handler_scope /\ saved'.next_retry = next_retry
          /\ saved'.ran = ran /\ saved'.crossed = crossed /\ saved'.fuel = fuel
      BY <2>2
    <3>2. Stacks(handler_stack, retry_stack, next_handler_scope, next_retry, fuel, ran, crossed)
      BY DEF MachineInv, Types
    <3>3. Base(stack, arena, Known(fuel, next_handler_scope, next_retry, arena.next, ran))
      BY <1>2 DEF Names
    <3> QED BY <3>1, <3>2, <3>3 DEF SavedBase
  <2> QED BY <2>1, <2>2 DEF RecordCheckpoint
<1> QED BY <1>5, <1>6, <1>7 DEF MachineInv

\* The least bound above a set of ids is within the range they come from.
LEMMA SupBound ==
  ASSUME NEW n \in Nat, NEW S, S \subseteq 0..(n - 1) PROVE SupOf(S) \in 0..n
<1>1. CASE S = {}
  BY <1>1 DEF SupOf
<1>2. CASE S # {}
  <2>1. PICK T : T = {d \in Nat : \E x \in S : d = (n - 1) - x}
    OBVIOUS
  <2>2. T \in SUBSET Nat /\ T # {}
    <3>1. PICK x \in S : TRUE
      BY <1>2
    <3>2. (n - 1) - x \in Nat
      BY <3>1
    <3> QED BY <2>1, <3>1, <3>2
  <2>3. PICK d \in T : \A e \in T : d <= e
    BY <2>2, LeastNat
  <2>4. PICK x \in S : d = (n - 1) - x
    BY <2>1, <2>3
  <2>5. \A y \in S : x >= y
    <3> SUFFICES ASSUME NEW y \in S PROVE x >= y
      OBVIOUS
    <3>1. PICK e \in Nat : e = (n - 1) - y
      OBVIOUS
    <3>2. d <= e
      BY <2>1, <2>3, <3>1
    <3> QED BY <2>4, <3>1, <3>2
  <2>6. Max(S) \in S
    BY <2>4, <2>5 DEF Max
  <2>7. PICK k \in 0..(n - 1) : k = Max(S)
    BY <2>6
  <2>8. SupOf(S) = k + 1
    BY <1>2, <2>7 DEF SupOf
  <2> QED BY <2>8
<1> QED BY <1>1, <1>2

\* A restart hands out the scopes and attempts the checkpointed run would have.
LEMMA RestoredCounters ==
  ASSUME NEW s, SavedBase(s)
  PROVE  RestoredScopeCounter(s) = s.next_handler_scope /\ RestoredRetryCounter(s) = s.next_retry
<1>0. PICK nh \in Nat, nr \in Nat : nh = s.next_handler_scope /\ nr = s.next_retry
  BY DEF SavedBase, Stacks
<1>1. PICK hs, rs : nh = s.next_handler_scope /\ nr = s.next_retry /\ hs = s.handler_stack /\ rs = s.retry_stack
  BY <1>0
<1>2. hs \in Seq(Handlers(nh)) /\ rs \in Seq(0..(nr - 1)) /\ Holds(s.stack) \subseteq Known(s.fuel, nh, nr, s.arena.next, s.ran)
  BY <1>1 DEF SavedBase, Stacks, Base
<1>3. {hs[i].id : i \in DOMAIN hs} \subseteq 0..(nh - 1)
  <2>1. \A i \in DOMAIN hs : hs[i] \in Handlers(nh)
    BY <1>2
  <2>2. \A i \in DOMAIN hs : hs[i].id \in 0..(nh - 1)
    BY <2>1 DEF Handlers
  <2> QED BY <2>2
<1>4. {rs[i] : i \in DOMAIN rs} \subseteq 0..(nr - 1)
  BY <1>2
<1>5. ScopeIds(s.stack) \subseteq 0..(nh - 1)
  <2>1. \A y \in Known(s.fuel, nh, nr, s.arena.next, s.ran) : y[1] = "scope" => y[2] \in 0..(nh - 1)
    BY DEF Known
  <2> QED BY <1>2, <2>1 DEF ScopeIds
<1>6. SupOf({hs[i].id : i \in DOMAIN hs} \cup ScopeIds(s.stack)) \in 0..nh
  BY <1>3, <1>5, SupBound
<1>7. SupOf({rs[i] : i \in DOMAIN rs}) \in 0..nr
  BY <1>4, SupBound
<1>8. RestoredScopeCounter(s) = nh
  <2>1. PICK a \in 0..nh : a = SupOf({hs[i].id : i \in DOMAIN hs} \cup ScopeIds(s.stack))
    BY <1>6
  <2>2. RestoredScopeCounter(s) = IF a >= nh THEN a ELSE nh
    BY <1>1, <2>1, Zenon DEF RestoredScopeCounter
  <2> QED BY <2>2
<1>9. RestoredRetryCounter(s) = nr
  <2>1. PICK a \in 0..nr : a = SupOf({rs[i] : i \in DOMAIN rs})
    BY <1>7
  <2>2. RestoredRetryCounter(s) = IF a >= nr THEN a ELSE nr
    BY <1>1, <2>1, Zenon DEF RestoredRetryCounter
  <2> QED BY <2>2
<1> QED BY <1>1, <1>8, <1>9

\* Restarting from the checkpoint keeps the invariant.
LEMMA CrashStep ==
  ASSUME MachineInv, CrashAndResume PROVE MachineInv'
<1>1. saved # NoCheckpoint /\ SavedBase(saved) /\ saved' = saved
  BY DEF MachineInv, CrashAndResume
<1>2. /\ signal' = Sig("Value") /\ stack' = saved.stack /\ handler_stack' = saved.handler_stack
      /\ retry_stack' = saved.retry_stack /\ arena' = saved.arena
      /\ next_handler_scope' = saved.next_handler_scope /\ next_retry' = saved.next_retry
      /\ ran' = saved.ran /\ crossed' = saved.crossed /\ fuel' = saved.fuel
  BY <1>1, RestoredCounters DEF CrashAndResume
<1>3. Plain(signal')
  BY <1>2, PlainSignals DEF PlainKinds
<1>4. SignalOK(signal') /\ SignalFrames' = <<>>
  BY <1>3, PlainCarries DEF SignalFrames
<1>5. Base(stack', arena', Names')
  BY <1>1, <1>2 DEF SavedBase, Names
<1>6. Built(stack') /\ SignalFrames' \o stack' = stack'
  BY <1>4, <1>5, NilCat DEF Base
<1>7. Body'
  BY <1>2, <1>4, <1>5, <1>6, BuiltNil DEF Body
<1>8. crashes' \in Nat
  BY StackTypes DEF CrashAndResume
<1>9. Types'
  BY <1>1, <1>2, <1>4, <1>8 DEF Types, SavedBase
<1> QED BY <1>1, <1>7, <1>9 DEF MachineInv

\* The invariant holds initially.
LEMMA InitMachine == Init => MachineInv
<1> SUFFICES ASSUME Init PROVE MachineInv
  OBVIOUS
<1>1. <<>> \in Seq(LexEntries) /\ <<>> \in Seq(Handlers(0)) /\ <<>> \in Seq(0..(0 - 1))
  OBVIOUS
<1>2. Plain(signal)
  BY <1>1, PlainSignals DEF Init
<1>3. SignalOK(signal) /\ SignalFrames = <<>>
  BY <1>2, PlainCarries DEF SignalFrames
<1>4. MaxForms \in Nat
  BY MachineConstants
<1>5. Types
  BY <1>1, <1>3, <1>4 DEF Init, Types, Stacks
<1>6. ArenaOK(arena) /\ Owned(arena) = {}
  <2>1. PICK en : en = [i \in {} |-> 0]
    OBVIOUS
  <2>2. arena = [next |-> 0, entries |-> en] /\ arena.next = 0 /\ arena.entries = en
    BY <2>1 DEF Init, NewArena
  <2>3. DOMAIN en = {} /\ 0..(0 - 1) = {} /\ en = [t \in {} |-> en[t]]
    BY <2>1
  <2> QED BY <2>2, <2>3 DEF ArenaOK, Owned
<1>7. Base(<<>>, arena, Names)
  BY <1>6, BuiltNil, HoldsNil DEF Base, Lin
<1>8. <<>> \o <<>> = <<>>
  BY BuiltNil, NilCat
<1>9. Body
  BY <1>3, <1>7, <1>8, BuiltNil DEF Body, Init
<1> QED BY <1>5, <1>9 DEF MachineInv, Init

\* Every step keeps the invariant.
LEMMA MachineStep == MachineInv /\ [Next]_vars => MachineInv'
<1> SUFFICES ASSUME MachineInv, [Next]_vars PROVE MachineInv'
  OBVIOUS
<1>1. CASE UNCHANGED vars \/ Ended
  <2>1. /\ signal' = signal /\ stack' = stack /\ handler_stack' = handler_stack /\ retry_stack' = retry_stack /\ arena' = arena
        /\ next_handler_scope' = next_handler_scope /\ next_retry' = next_retry
        /\ saved' = saved /\ ran' = ran /\ crossed' = crossed /\ fuel' = fuel /\ crashes' = crashes
    BY <1>1 DEF vars, Ended
  <2>2. SignalFrames' = SignalFrames /\ Names' = Names
    BY <2>1 DEF SignalFrames, Names
  <2> QED BY <2>1, <2>2 DEF MachineInv, Types, Body
<1>2. CASE Next /\ ~Ended
  <2>1. CASE \/ EvalValue \/ EvalReturn \/ EvalHost \/ EvalCheckpoint \/ HostCompletes \/ Complete
             \/ \E exit \in {"resume", "finish"} : EvalArmExit(exit)
             \/ \E k \in {"Break", "Continue"} : EvalLoopControl(k)
    BY <2>1, SignalSteps
  <2>2. CASE HostRaises \/ \E on \in Actions \cup {Error} : EvalPerform(on)
    BY <2>2, PerformsSteps
  <2>3. CASE EvalTry \/ EvalCall \/ EvalLoop
    BY <2>3, LeafSteps
  <2>4. CASE ExecuteBlock \/ EvalRetry \/ \E on \in Actions \cup {Error}, b \in Binders : EvalHandle(on, b)
    BY <2>4, BlockStep, RetryStep, HandleStep
  <2>5. CASE Propagate \/ LeaveCall \/ FinishRetryAttempt \/ BreakLoop \/ LoopControlEscapes \/ LeaveHandler
    BY <2>5, DropSteps
  <2>6. CASE OpenBoundary \/ Reenter \/ ContinueLoop
    BY <2>6, ReplaceSteps
  <2>7. CASE ContinueBlock \/ ValueAtDispatch \/ ResumeAtDispatch \/ FinishAtDispatch
    BY <2>7, ContinueBlockStep, DispatchSteps
  <2>8. CASE YieldPerform \/ UnhandledError \/ PerformAtFrame \/ SuspendHandler \/ DispatchHandler
    BY <2>8, YieldPerformStep, UnhandledErrorStep, PerformAtFrameStep, SuspendHandlerStep, DispatchHandlerStep
  <2>9. CASE EvalRequeue \/ EvalPark \/ UnparkCompleted \/ UnparkRaised
    BY <2>9, TransferSteps, UnparkSteps
  <2>10. CASE HostFails \/ RecordCheckpoint \/ CrashAndResume
    BY <2>10, HostFailsStep, RecordCheckpointStep, CrashStep
  <2> QED BY <1>2, <2>1, <2>2, <2>3, <2>4, <2>5, <2>6, <2>7, <2>8, <2>9, <2>10 DEF Next
<1> QED BY <1>1, <1>2

\* The inductive invariant of the machine holds throughout: frames, entries of the
\* arena and the checkpoint are well built and name everything at most once, every
\* name in use was handed out.
THEOREM MachineInvariant == Spec => []MachineInv
  BY InitMachine, MachineStep, PTL DEF Spec

\* The machine's state is well typed.
THEOREM MachineTypes == Spec => []EvalTypeOK
<1>1. MachineInv => EvalTypeOK
  <2> SUFFICES ASSUME MachineInv PROVE EvalTypeOK
    OBVIOUS
  <2>1. Built(stack) /\ ArenaOK(arena)
    BY Carries
  <2>2. \A i \in DOMAIN stack : stack[i].k \in Kinds
    BY <2>1, BuiltSeq
  <2>3. signal.k \in PlainKinds \cup {"Code", "Perform", "Parked"}
    BY DEF MachineInv, Types, SignalOK, Plain
  <2>4. \A i \in DOMAIN handler_stack : handler_stack[i] \in [id : Nat, on : Actions \cup {Error}]
    <3>1. \A i \in DOMAIN handler_stack : handler_stack[i] \in Handlers(next_handler_scope)
      BY StackTypes
    <3>2. Handlers(next_handler_scope) \subseteq [id : Nat, on : Actions \cup {Error}]
      BY StackTypes DEF Handlers
    <3> QED BY <3>1, <3>2
  <2>5. retry_stack \in Seq(Nat)
    <3>1. PICK A : A = 0..(next_retry - 1)
      OBVIOUS
    <3>2. retry_stack \in Seq(A) /\ A \subseteq Nat
      BY <3>1, StackTypes
    <3>3. \A S, T : S \subseteq T => Seq(S) \subseteq Seq(T)
      OBVIOUS
    <3> QED BY <3>2, <3>3
  <2>6. /\ arena.next \in Nat /\ DOMAIN arena.entries = 0..(arena.next - 1)
        /\ \A t \in DOMAIN arena.entries : arena.entries[t].state \in ContinuationStates
    BY <2>1 DEF ArenaOK
  <2>7. {next_handler_scope, next_retry, fuel, crashes} \subseteq Nat /\ ran \subseteq Nat /\ crossed \in BOOLEAN
    BY <2>1, StackTypes
  <2> QED BY <2>2, <2>3, <2>4, <2>5, <2>6, <2>7 DEF EvalTypeOK, Kinds, PlainKinds
<1> QED BY <1>1, MachineInvariant, PTL

\* No continuation is duplicated: a block, a scope, an attempt and a token occur at
\* most once in the frames, the signal and the arena together, and a block that ran
\* occurs nowhere (eval/handler.rs, scheduler/continuation.rs).
THEOREM Linear == Spec => []LinearContinuations
<1>1. MachineInv => LinearContinuations
  <2> SUFFICES ASSUME MachineInv PROVE LinearContinuations
    OBVIOUS
  <2>1. PICK m : m = SignalFrames \o stack
    OBVIOUS
  <2>2. Base(m, arena, Names) /\ ArenaOK(arena)
    BY <2>1, Carries
  <2>3. \A t \in DOMAIN arena.entries : t \notin Owned(arena) => Kept(arena, t) = NoFrames
    BY <2>2 DEF ArenaOK, Owned, Kept
  <2>4. \A t \in DOMAIN arena.entries : Lin(Kept(arena, t)) /\ Holds(Kept(arena, t)) \subseteq Names /\ Holds(Kept(arena, t)) \cap Holds(m) = {}
    BY <2>2, <2>3, TakenHolds DEF Base, Lin
  <2>5. \A t, u \in DOMAIN arena.entries : t # u => Holds(Kept(arena, t)) \cap Holds(Kept(arena, u)) = {}
    <3> SUFFICES ASSUME NEW t \in DOMAIN arena.entries, NEW u \in DOMAIN arena.entries, t # u
                 PROVE  Holds(Kept(arena, t)) \cap Holds(Kept(arena, u)) = {}
      OBVIOUS
    <3>1. CASE t \in Owned(arena) /\ u \in Owned(arena)
      BY <2>2, <3>1 DEF Base
    <3>2. CASE t \notin Owned(arena) \/ u \notin Owned(arena)
      BY <2>3, <3>2, TakenHolds
    <3> QED BY <3>1, <3>2
  <2>6. \A b \in ran : <<"block", b>> \notin Names
    BY KnownBlocks DEF Names
  <2>7. Holds(m) \subseteq Names /\ Twice(m) = {}
    BY <2>2 DEF Base, Lin
  <2> QED BY <2>1, <2>4, <2>5, <2>6, <2>7 DEF LinearContinuations, Lin, Kept
<1> QED BY <1>1, MachineInvariant, PTL

-----------------------------------------------------------------------------
(***************************************************************************)
(* What a stack means                                                      *)
(***************************************************************************)
\* Where in the source a signal is, seen from the frames below it: the lexical
\* context, whether code may run there ("code"), only the end of an arm of
\* Error.raise ("tail"), or only the answer to a request ("answer"), and what is
\* active there: handler scopes, attempts, and the action the boundary handles.
Ctx(lex, mode, scopes, retries, on) ==
  [lex |-> lex, mode |-> mode, scopes |-> scopes, retries |-> retries, on |-> on]
Context(c) ==
  /\ c = Ctx(c.lex, c.mode, c.scopes, c.retries, c.on)
  /\ c.lex \in Seq(LexEntries) /\ c.mode \in {"code", "tail", "answer"}
  /\ c.scopes \in Seq(Nat) /\ c.retries \in Seq(Nat)

At(b, lex, mode) == Ctx(lex, mode, b.scopes, b.retries, b.on)
Bottom           == Ctx(<<>>, "code", <<>>, <<>>, Error)
Inside(f, b)     == Ctx(Enter("handle", b.lex), "code", <<f.scope>> \o b.scopes, b.retries, f.on)
Trying(f, b)     == Ctx(Enter("retry", b.lex), "code", b.scopes, <<f.id>> \o b.retries, b.on)
InArm(f, b)      == At(b, EnterArm(f.deferred, b.on, Tail(b.lex)), IF b.on = Error THEN "tail" ELSE "code")

\* Frames between which no scope is opened and no attempt started.
Flat(s)   == \A i \in DOMAIN s : s[i].k \notin {"Handle", "Retry"}
Simple(s) == s = <<>> \/ (Len(s) = 1 /\ s[1].k = "Dispatch")

Bounds(f, b) ==
  /\ b.mode = "code" /\ f.lex = b.lex /\ (b.scopes # <<>> => b.scopes[1] < f.scope)
  /\ Flat(f.inner.frames) /\ f.inner.scopes = <<>> /\ f.inner.retries = <<>>

\* The frame f on top of context b makes context c; F(s, d, m) says that the frames
\* s do so for d and m, and K gives the continuations that the arms own.
Rule(K, f, c, b, F(_, _, _)) ==
  /\ b.mode # "answer"
  /\ \/ f.k = "Next" /\ f.lex = b.lex /\ c = At(b, b.lex, "code")
     \/ f.k = "Call" /\ b.mode = "code" /\ c = At(b, <<>>, "code")
     \/ f.k = "Try" /\ b.mode = "code" /\ c = b
     \/ f.k = "Loop" /\ b.mode = "code" /\ f.lex = b.lex /\ c = At(b, Enter("loop", b.lex), "code")
     \/ f.k = "Retry" /\ f.lex = b.lex /\ c = Trying(f, b)
     \/ /\ f.k = "Handle" /\ Bounds(f, b)
        /\ \E d : /\ F(f.inner.frames, d, Inside(f, b))
                  /\ IF Simple(f.inner.frames) THEN c = d ELSE d.mode # "tail" /\ c = At(d, d.lex, "answer")
     \/ /\ f.k = "Reenter" /\ Bounds(f, b) /\ c = At(b, b.lex, "answer")
        /\ \E d : F(f.inner.frames, d, Inside(f, b)) /\ d.mode # "tail"
     \/ /\ f.k = "Dispatch" /\ b.mode = "code" /\ b.lex # <<>> /\ b.lex[1].c = "handle"
        /\ f.outer.scopes = <<>> /\ f.outer.retries = <<>> /\ c = InArm(f, b)
        /\ IF b.on = Error THEN f.deferred = NoToken
           ELSE IF f.deferred = NoToken
           THEN Flat(f.outer.frames) /\ \E d : F(f.outer.frames, d, b) /\ d.mode # "tail"
           ELSE /\ f.deferred \in DOMAIN K /\ Flat(K[f.deferred])
                /\ \E d : F(K[f.deferred], d, b) /\ d.mode # "tail"

RuleIn(K, f, c, b, X) == Rule(K, f, c, b, LAMBDA u, d, e : <<u, d, e>> \in X)

\* Frames of any depth: the greatest relation that follows the rules, stated by
\* some set that does.
FitClosed(K, X) == \A s, c, b : <<s, c, b>> \in X =>
  /\ Built(s) /\ Context(c) /\ Context(b)
  /\ IF s = <<>> THEN c = b
     ELSE \E m : /\ Context(m) /\ <<Tail(s), m, b>> \in X
                 /\ RuleIn(K, s[1], c, m, X)
Fits(K, s, c, b) == \E X : FitClosed(K, X) /\ <<s, c, b>> \in X
Step(K, f, c, b) == Rule(K, f, c, b, LAMBDA u, d, e : Fits(K, u, d, e))

\* The first frame of a stack and the rest of it.
LEMMA OnTopOf ==
  ASSUME NEW f, NEW s, Built(<<f>> \o s), Built(s)
  PROVE  <<f>> \o s # <<>> /\ (<<f>> \o s)[1] = f /\ Tail(<<f>> \o s) = s /\ Built(<<f>>)
<1>1. PICK W : s \in Seq(W)
  BY DEF Built
<1>2. <<f>> \in Seq({f} \cup W) /\ s \in Seq({f} \cup W)
  BY <1>1
<1>3. <<f>> \o s # <<>> /\ (<<f>> \o s)[1] = f /\ Tail(<<f>> \o s) = s
  BY <1>2, OnTop
<1> QED BY <1>3, BuiltTail

\* What fits is well built and relates contexts.
LEMMA FitsTypes ==
  ASSUME NEW K, NEW s, NEW c, NEW b, Fits(K, s, c, b)
  PROVE  Built(s) /\ Context(c) /\ Context(b) /\ (s = <<>> => c = b)
  BY DEF Fits, FitClosed

\* No frames change nothing.
LEMMA FitsNil ==
  ASSUME NEW K, NEW b, Context(b) PROVE Fits(K, <<>>, b, b)
<1>1. PICK X : X = {<<<<>>, b, b>>}
  OBVIOUS
<1>2. \A s, c, e : <<s, c, e>> \in X => s = <<>> /\ c = b /\ e = b
  BY <1>1
<1>3. FitClosed(K, X)
  <2> SUFFICES ASSUME NEW s, NEW c, NEW e, <<s, c, e>> \in X
               PROVE  /\ Built(s) /\ Context(c) /\ Context(e) /\ s = <<>> /\ c = e
    BY DEF FitClosed
  <2> QED BY <1>2, BuiltNil
<1> QED BY <1>1, <1>3 DEF Fits

\* The top frame and the frames below it.
LEMMA FitsPop ==
  ASSUME NEW K, NEW s, NEW c, NEW b, Fits(K, s, c, b), s # <<>>
  PROVE  \E m : Context(m) /\ Step(K, s[1], c, m) /\ Fits(K, Tail(s), m, b)
<1>1. PICK X : FitClosed(K, X) /\ <<s, c, b>> \in X
  BY DEF Fits
<1>2. PICK m : /\ Context(m) /\ <<Tail(s), m, b>> \in X
               /\ RuleIn(K, s[1], c, m, X)
  BY <1>1 DEF FitClosed
<1>3. \A u, d, e : <<u, d, e>> \in X => Fits(K, u, d, e)
  BY <1>1 DEF Fits
<1>4. Rule(K, s[1], c, m, LAMBDA u, d, e : Fits(K, u, d, e))
  BY <1>2, <1>3 DEF Rule, RuleIn
<1> QED BY <1>2, <1>3, <1>4 DEF Step

\* The rules are monotone.
LEMMA RuleGrows ==
  ASSUME NEW K, NEW f, NEW c, NEW b, NEW Y, NEW X, Y \subseteq X, RuleIn(K, f, c, b, Y) PROVE RuleIn(K, f, c, b, X)
<1>1. \A u, d, e : <<u, d, e>> \in Y => <<u, d, e>> \in X
  OBVIOUS
<1> QED BY <1>1 DEF Rule, RuleIn

\* One more frame on frames that fit.
LEMMA FitsPush ==
  ASSUME NEW K, NEW f, NEW s, NEW c, NEW m, NEW b, Built(<<f>> \o s), Context(c), Step(K, f, c, m), Fits(K, s, m, b)
  PROVE  Fits(K, <<f>> \o s, c, b)
<1>1. PICK Y : FitClosed(K, Y) /\ <<s, m, b>> \in Y
  BY DEF Fits
<1>2. PICK Z : FitClosed(K, Z) /\ RuleIn(K, f, c, m, Z)
  <2>1. Rule(K, f, c, m, LAMBDA u, d, e : Fits(K, u, d, e))
    BY DEF Step
  <2>2. FitClosed(K, {})
    BY DEF FitClosed
  <2>3. CASE f.k = "Handle"
    <3>1. PICK d : /\ Fits(K, f.inner.frames, d, Inside(f, m))
                  /\ IF Simple(f.inner.frames) THEN c = d ELSE d.mode # "tail" /\ c = At(d, d.lex, "answer")
      BY <2>1, <2>3 DEF Rule, RuleIn
    <3>2. PICK Z : FitClosed(K, Z) /\ <<f.inner.frames, d, Inside(f, m)>> \in Z
      BY <3>1 DEF Fits
    <3>3. RuleIn(K, f, c, m, Z)
      BY <2>1, <2>3, <3>1, <3>2 DEF Rule, RuleIn
    <3> QED BY <3>2, <3>3
  <2>4. CASE f.k = "Reenter"
    <3>1. PICK d : Fits(K, f.inner.frames, d, Inside(f, m)) /\ d.mode # "tail"
      BY <2>1, <2>4 DEF Rule, RuleIn
    <3>2. PICK Z : FitClosed(K, Z) /\ <<f.inner.frames, d, Inside(f, m)>> \in Z
      BY <3>1 DEF Fits
    <3>3. RuleIn(K, f, c, m, Z)
      BY <2>1, <2>4, <3>1, <3>2 DEF Rule, RuleIn
    <3> QED BY <3>2, <3>3
  <2>5. CASE f.k = "Dispatch" /\ m.on # Error
    <3>1. PICK q, d : /\ q = (IF f.deferred = NoToken THEN f.outer.frames ELSE K[f.deferred])
                      /\ Fits(K, q, d, m) /\ d.mode # "tail"
      BY <2>1, <2>5 DEF Rule, RuleIn
    <3>2. PICK Z : FitClosed(K, Z) /\ <<q, d, m>> \in Z
      BY <3>1 DEF Fits
    <3>3. RuleIn(K, f, c, m, Z)
      BY <2>1, <2>5, <3>1, <3>2 DEF Rule, RuleIn
    <3> QED BY <3>2, <3>3
  <2>6. CASE f.k \notin Boundaries /\ (f.k = "Dispatch" => m.on = Error)
    <3>1. RuleIn(K, f, c, m, {})
      BY <2>1, <2>6 DEF Rule, RuleIn, Boundaries
    <3> QED BY <2>2, <3>1
  <2> QED BY <2>3, <2>4, <2>5, <2>6 DEF Boundaries
<1>3. PICK X : X = Y \cup Z \cup {<<<<f>> \o s, c, b>>}
  OBVIOUS
<1>4. \A g, d, n : /\ (RuleIn(K, g, d, n, Y) => RuleIn(K, g, d, n, X))
                    /\ (RuleIn(K, g, d, n, Z) => RuleIn(K, g, d, n, X))
  BY <1>3, RuleGrows
<1>5. <<f>> \o s # <<>> /\ (<<f>> \o s)[1] = f /\ Tail(<<f>> \o s) = s
  BY FitsTypes, OnTopOf
<1>6. FitClosed(K, X)
  <2> SUFFICES ASSUME NEW u, NEW d, NEW e, <<u, d, e>> \in X
               PROVE  /\ Built(u) /\ Context(d) /\ Context(e)
                      /\ IF u = <<>> THEN d = e
                         ELSE \E n : /\ Context(n) /\ <<Tail(u), n, e>> \in X
                                     /\ RuleIn(K, u[1], d, n, X)
    BY DEF FitClosed
  <2>1. CASE <<u, d, e>> \in Y
    BY <1>1, <1>3, <1>4, <2>1 DEF FitClosed
  <2>2. CASE <<u, d, e>> \in Z
    BY <1>2, <1>3, <1>4, <2>2 DEF FitClosed
  <2>3. CASE u = <<f>> \o s /\ d = c /\ e = b
    <3>1. Context(m) /\ Context(b)
      BY FitsTypes
    <3> QED BY <1>1, <1>2, <1>3, <1>4, <1>5, <2>3, <3>1
  <2>4. <<u, d, e>> = <<<<f>> \o s, c, b>> => u = <<f>> \o s /\ d = c /\ e = b
    OBVIOUS
  <2> QED BY <1>3, <2>1, <2>2, <2>3, <2>4
<1> QED BY <1>3, <1>6 DEF Fits

\* Frames on frames.
LEMMA FitsCat ==
  ASSUME NEW K, NEW s, NEW t, NEW c, NEW m, NEW b, Fits(K, s, c, m), Fits(K, t, m, b)
  PROVE  Fits(K, s \o t, c, b)
<1>1. PICK Y : FitClosed(K, Y) /\ <<s, c, m>> \in Y
  BY DEF Fits
<1>2. PICK Z : FitClosed(K, Z) /\ <<t, m, b>> \in Z
  BY DEF Fits
<1>3. Built(t) /\ Context(b)
  BY FitsTypes
<1>0. PICK M : M = {y \in Y : y = <<y[1], y[2], m>>}
  OBVIOUS
<1>9. PICK Sum : Sum = {<<x[1] \o t, x[2], b>> : x \in M}
  OBVIOUS
<1>4. /\ \A u, d : <<u, d, m>> \in Y => <<u \o t, d, b>> \in Sum
      /\ \A x \in Sum : \E u, d : <<u, d, m>> \in Y /\ x = <<u \o t, d, b>>
  <2>1. ASSUME NEW u, NEW d, <<u, d, m>> \in Y PROVE <<u \o t, d, b>> \in Sum
    <3>1. <<u, d, m>> \in M
      BY <1>0, <2>1
    <3>2. <<u, d, m>>[1] = u /\ <<u, d, m>>[2] = d
      OBVIOUS
    <3> QED BY <1>9, <3>1, <3>2
  <2>2. ASSUME NEW x \in Sum PROVE \E u, d : <<u, d, m>> \in Y /\ x = <<u \o t, d, b>>
    <3>1. PICK y \in M : x = <<y[1] \o t, y[2], b>>
      BY <1>9
    <3>2. <<y[1], y[2], m>> \in Y
      BY <1>0
    <3> QED BY <3>1, <3>2
  <2> QED BY <2>1, <2>2
<1>5. PICK X : X = Y \cup Z \cup Sum
  OBVIOUS
<1>6. Y \subseteq X /\ Z \subseteq X /\ Sum \subseteq X
  BY <1>5
<1>7. FitClosed(K, X)
  <2> SUFFICES ASSUME NEW u, NEW d, NEW e, <<u, d, e>> \in X
               PROVE  /\ Built(u) /\ Context(d) /\ Context(e)
                      /\ IF u = <<>> THEN d = e
                         ELSE \E n : /\ Context(n) /\ <<Tail(u), n, e>> \in X
                                     /\ RuleIn(K, u[1], d, n, X)
    BY DEF FitClosed
  <2>1. CASE <<u, d, e>> \in Y
    BY <1>1, <1>6, RuleGrows, <2>1 DEF FitClosed
  <2>2. CASE <<u, d, e>> \in Z
    <3>1. /\ Built(u) /\ Context(d) /\ Context(e)
          /\ IF u = <<>> THEN d = e
             ELSE \E n : /\ Context(n) /\ <<Tail(u), n, e>> \in Z /\ RuleIn(K, u[1], d, n, Z)
      BY <1>2, <2>2 DEF FitClosed
    <3> QED BY <1>6, <3>1, RuleGrows
  <2>3. CASE <<u, d, e>> \in Sum
    <3>1. PICK w, g : <<w, g, m>> \in Y /\ <<u, d, e>> = <<w \o t, g, b>>
      BY <1>4, <2>3
    <3>2. u = w \o t /\ d = g /\ e = b
      BY <3>1
    <3>3. Built(w) /\ Context(d) /\ Context(m)
      BY <1>1, <3>1, <3>2 DEF FitClosed
    <3>4. Built(u)
      BY <1>3, <3>2, <3>3, BuiltCat
    <3>5. CASE w = <<>>
      <4>1. d = m /\ u = t
        BY <1>1, <1>3, <3>1, <3>2, <3>5, NilCat DEF FitClosed
      <4> QED BY <1>2, <1>6, <4>1, <3>2, RuleGrows DEF FitClosed
    <3>6. CASE w # <<>>
      <4>1. PICK n : Context(n) /\ <<Tail(w), n, m>> \in Y /\ RuleIn(K, w[1], g, n, Y)
        BY <1>1, <3>1, <3>6 DEF FitClosed
      <4>2. u # <<>> /\ u[1] = w[1] /\ Tail(u) = Tail(w) \o t
        <5>1. Built(<<w[1]>>) /\ Built(Tail(w)) /\ w = <<w[1]>> \o Tail(w)
          BY <3>3, <3>6, BuiltTail
        <5>3. (<<w[1]>> \o Tail(w)) \o t = <<w[1]>> \o (Tail(w) \o t) /\ Built(Tail(w) \o t)
          <6>1. Built(Tail(w) \o t)
            BY <1>3, <5>1, BuiltCat
          <6>2. (<<w[1]>> \o Tail(w)) \o t = <<w[1]>> \o (Tail(w) \o t)
            <7>1. Built(<<w[1]>>) /\ Built(Tail(w))
              BY <5>1
            <7>2. \A p, q, r : Built(p) /\ Built(q) /\ Built(r) => (p \o q) \o r = p \o (q \o r)
              BY CatAssoc
            <7>3. PICK p, q : p = <<w[1]>> /\ q = Tail(w)
              OBVIOUS
            <7>4. Built(p) /\ Built(q)
              BY <7>1, <7>3
            <7>5. (p \o q) \o t = p \o (q \o t)
              BY <1>3, <7>4, <7>2
            <7> QED BY <7>3, <7>5, Zenon
          <6> QED BY <6>1, <6>2
        <5>2. u = <<w[1]>> \o (Tail(w) \o t)
          BY <3>2, <5>1, <5>3, Zenon
        <5> QED BY <3>4, <5>2, <5>3, OnTopOf
      <4> QED BY <1>3, <1>4, <1>6, <3>2, <3>3, <3>4, <4>1, <4>2, RuleGrows
    <3> QED BY <3>5, <3>6
  <2> QED BY <1>5, <2>1, <2>2, <2>3
<1>8. <<s \o t, c, b>> \in X
  BY <1>1, <1>4, <1>6
<1> QED BY <1>7, <1>8 DEF Fits

\* Frames that name none of the tokens T.
Away(s, T) == \A t \in T : <<"token", t>> \notin Holds(s)

\* Tokens that come or go matter only to frames that name them.
LEMMA FitsMove ==
  ASSUME NEW K, NEW L, NEW T, NEW s, NEW c, NEW b, Fits(K, s, c, b), Away(s, T), NoToken \notin T,
         \A u \in DOMAIN K \ T : u \in DOMAIN L /\ L[u] = K[u] /\ Away(K[u], T)
  PROVE  Fits(L, s, c, b)
<1>1. PICK X : FitClosed(K, X) /\ <<s, c, b>> \in X
  BY DEF Fits
<1>2. PICK Y : Y = {x \in X : Away(x[1], T)}
  OBVIOUS
<1>3. \A u, d, e : <<u, d, e>> \in Y <=> <<u, d, e>> \in X /\ Away(u, T)
  BY <1>2
<1>4. FitClosed(L, Y)
  <2> SUFFICES ASSUME NEW u, NEW d, NEW e, <<u, d, e>> \in Y
               PROVE  /\ Built(u) /\ Context(d) /\ Context(e)
                      /\ IF u = <<>> THEN d = e
                         ELSE \E n : /\ Context(n) /\ <<Tail(u), n, e>> \in Y
                                     /\ RuleIn(L, u[1], d, n, Y)
    BY DEF FitClosed
  <2>1. /\ Built(u) /\ Context(d) /\ Context(e) /\ Away(u, T)
        /\ IF u = <<>> THEN d = e
           ELSE \E n : Context(n) /\ <<Tail(u), n, e>> \in X /\ RuleIn(K, u[1], d, n, X)
    <3>1. <<u, d, e>> \in X /\ Away(u, T)
      BY <1>3
    <3> QED BY <1>1, <3>1 DEF FitClosed
  <2>2. CASE u # <<>>
    <3>1. PICK n : Context(n) /\ <<Tail(u), n, e>> \in X /\ RuleIn(K, u[1], d, n, X)
      BY <2>1, <2>2
    <3>2. PICK f : f = u[1]
      OBVIOUS
    <3>3. Built(<<f>>) /\ Built(Tail(u)) /\ Holds(u) = Holds(<<f>>) \cup Holds(Tail(u))
      <4>1. Built(<<f>>) /\ Built(Tail(u)) /\ u = <<f>> \o Tail(u)
        BY <2>1, <2>2, <3>2, BuiltTail
      <4>2. Holds(<<f>> \o Tail(u)) = Holds(<<f>>) \cup Holds(Tail(u))
        BY <4>1, BuiltCat
      <4> QED BY <4>1, <4>2, Zenon
    <3>4. Away(Tail(u), T) /\ Away(<<f>>, T)
      BY <2>1, <3>3 DEF Away
    <3>5. f.k \in Boundaries => Away(f.inner.frames, T)
      BY <3>3, <3>4, BoundaryFrame DEF Away
    <3>6. f.k = "Dispatch" => Away(f.outer.frames, T) /\ (f.deferred # NoToken => f.deferred \notin T)
      BY <3>3, <3>4, DispatchFrame DEF Away, Token
    <3>7. RuleIn(L, f, d, n, Y)
      <4>1. RuleIn(K, f, d, n, X)
        BY <3>1, <3>2
      <4>2. CASE f.k \in Boundaries
        <5>1. \A g, h : <<f.inner.frames, g, h>> \in X => <<f.inner.frames, g, h>> \in Y
          BY <1>3, <3>5, <4>2
        <5> QED BY <4>1, <4>2, <5>1 DEF RuleIn, Rule, Boundaries
      <4>3. CASE f.k = "Dispatch"
        <5>1. \A g, h : <<f.outer.frames, g, h>> \in X => <<f.outer.frames, g, h>> \in Y
          BY <1>3, <3>6, <4>3
        <5>2. f.deferred # NoToken /\ f.deferred \in DOMAIN K =>
                /\ f.deferred \in DOMAIN L /\ L[f.deferred] = K[f.deferred]
                /\ \A g, h : <<K[f.deferred], g, h>> \in X => <<K[f.deferred], g, h>> \in Y
          BY <1>3, <3>6, <4>3
        <5> QED BY <4>1, <4>3, <5>1, <5>2 DEF RuleIn, Rule
      <4>4. CASE f.k \notin Boundaries \cup {"Dispatch"}
        BY <4>1, <4>4 DEF RuleIn, Rule, Boundaries
      <4> QED BY <4>2, <4>3, <4>4
    <3> QED BY <1>3, <2>1, <2>2, <3>1, <3>2, <3>4, <3>7
  <2> QED BY <2>1, <2>2
<1> QED BY <1>1, <1>3, <1>4 DEF Fits

\* New tokens change nothing.
LEMMA FitsGrow ==
  ASSUME NEW K, NEW L, NEW s, NEW c, NEW b, Fits(K, s, c, b), \A u \in DOMAIN K : u \in DOMAIN L /\ L[u] = K[u]
  PROVE  Fits(L, s, c, b)
<1>1. \A u : Away(u, {})
  BY DEF Away
<1>2. Fits(K, s, c, b) /\ Away(s, {}) /\ NoToken \notin {} /\ \A u \in DOMAIN K \ {} : u \in DOMAIN L /\ L[u] = K[u] /\ Away(K[u], {})
  BY <1>1
<1> QED BY <1>2, FitsMove

\* Frames that fit can be cut anywhere.
LEMMA FitsCut ==
  ASSUME NEW K, NEW s, NEW c, NEW b, Fits(K, s, c, b), NEW n \in 0..Len(s)
  PROVE  \E m : Fits(K, SubSeq(s, 1, n), c, m) /\ Fits(K, SubSeq(s, n + 1, Len(s)), m, b)
<1>1. Built(s) /\ Context(c)
  BY FitsTypes
<1>2. PICK l \in Nat : l = Len(s) /\ DOMAIN s = 1..l
  BY <1>1, BuiltSeq
<1>3. PICK G : G = {i \in 0..n : \E m : Fits(K, SubSeq(s, 1, i), c, m) /\ Fits(K, SubSeq(s, i + 1, l), m, b)}
  OBVIOUS
<1>4. \A i \in 0..l : /\ Built(SubSeq(s, 1, i)) /\ Built(SubSeq(s, i + 1, l))
                      /\ Len(SubSeq(s, 1, i)) = i /\ Len(SubSeq(s, i + 1, l)) = l - i
  BY <1>1, <1>2, BuiltCut
<1>5. 0 \in G
  <2>1. SubSeq(s, 1, 0) = <<>> /\ SubSeq(s, 0 + 1, l) = s
    BY <1>1, <1>2, BuiltSeq
  <2>2. Fits(K, <<>>, c, c)
    BY <1>1, FitsNil
  <2>3. Fits(K, SubSeq(s, 1, 0), c, c) /\ Fits(K, SubSeq(s, 0 + 1, l), c, b)
    BY <2>1, <2>2
  <2> QED BY <1>3, <2>3
<1>6. ASSUME NEW i \in 1..n, i - 1 \in G PROVE i \in G
  <2>1. PICK j \in 0..n : j = i - 1 /\ i = j + 1 /\ j \in 0..l /\ i \in 0..l /\ j < l
    BY <1>2
  <2>2. PICK m : Fits(K, SubSeq(s, 1, j), c, m) /\ Fits(K, SubSeq(s, j + 1, l), m, b)
    BY <1>3, <1>6, <2>1
  <2>3. PICK r : r = SubSeq(s, j + 1, l)
    OBVIOUS
  <2>4. r # <<>> /\ r[1] = s[j + 1] /\ Tail(r) = SubSeq(s, i + 1, l) /\ Built(r)
    <3>1. PICK W : s \in Seq(W)
      BY <1>1 DEF Built
    <3>2. Built(r) /\ Len(r) = l - j
      BY <1>4, <2>1, <2>3
    <3>3. /\ \A x \in 1..(l - j) : r[x] = s[j + x]
          /\ \A x \in 1..(l - i) : SubSeq(s, i + 1, l)[x] = s[i + x]
      BY <1>1, <1>2, <2>1, <2>3, BuiltCut
    <3>4. r \in Seq(W) /\ SubSeq(s, i + 1, l) \in Seq(W) /\ r # <<>>
      <4>1. r \in Seq(W) /\ SubSeq(s, i + 1, l) \in Seq(W)
        BY <1>2, <2>1, <2>3, <3>1, Cut
      <4>2. Len(r) # 0
        BY <2>1, <3>2
      <4> QED BY <4>1, <4>2
    <3>5. PICK p : p = Tail(r)
      OBVIOUS
    <3>6. p \in Seq(W) /\ Len(p) = l - i /\ \A x \in 1..(l - i) : p[x] = r[x + 1]
      BY <1>2, <2>1, <3>2, <3>4, <3>5
    <3>7. \A x \in 1..(l - i) : x + 1 \in 1..(l - j) /\ j + (x + 1) = i + x
      BY <1>2, <2>1
    <3>8. \A x \in 1..(l - i) : p[x] = SubSeq(s, i + 1, l)[x]
      BY <3>3, <3>6, <3>7
    <3>9. p = SubSeq(s, i + 1, l)
      <4>1. PICK q : q = SubSeq(s, i + 1, l)
        OBVIOUS
      <4>2. q \in Seq(W) /\ Len(q) = l - i /\ \A x \in 1..(l - i) : p[x] = q[x]
        BY <1>4, <2>1, <3>4, <3>8, <4>1
      <4> QED BY <3>6, <4>1, <4>2
    <3>10. r[1] = s[j + 1]
      BY <1>2, <2>1, <3>3
    <3> QED BY <3>2, <3>4, <3>5, <3>9, <3>10
  <2>5. PICK k : Context(k) /\ Step(K, r[1], m, k) /\ Fits(K, Tail(r), k, b)
    BY <2>2, <2>3, <2>4, FitsPop
  <2>6. Fits(K, <<r[1]>>, m, k)
    <3>1. Built(<<r[1]>>)
      BY <2>4, BuiltTail
    <3>2. Fits(K, <<>>, k, k) /\ Context(m)
      BY <2>2, <2>5, FitsNil, FitsTypes
    <3>3. <<r[1]>> \o <<>> = <<r[1]>>
      OBVIOUS
    <3>4. Built(<<r[1]>> \o <<>>)
      BY <3>1, <3>3
    <3>5. Fits(K, <<r[1]>> \o <<>>, m, k)
      BY <2>5, <3>2, <3>4, FitsPush
    <3> QED BY <3>3, <3>5
  <2>7. Fits(K, SubSeq(s, 1, j) \o <<r[1]>>, c, k)
    BY <2>2, <2>6, FitsCat
  <2>8. SubSeq(s, 1, j) \o <<r[1]>> = SubSeq(s, 1, i)
    <3>1. PICK W : s \in Seq(W)
      BY <1>1 DEF Built
    <3> QED BY <1>2, <2>1, <2>4, <3>1
  <2>9. Fits(K, SubSeq(s, 1, i), c, k) /\ Fits(K, SubSeq(s, i + 1, l), k, b) /\ i \in 0..n
    <3>1. Fits(K, SubSeq(s, 1, i), c, k)
      BY <2>7, <2>8, Zenon
    <3>2. Fits(K, SubSeq(s, i + 1, l), k, b)
      BY <2>4, <2>5, Zenon
    <3> QED BY <3>1, <3>2, <2>1
  <2> QED BY <1>3, <2>9
<1>7. n \in G
  BY <1>5, <1>6, <1>2, Climb
<1> QED BY <1>2, <1>3, <1>7

\* The contexts that the rules make are contexts.
LEMMA Contexts ==
  ASSUME NEW b, Context(b)
  PROVE  /\ \A l \in Seq(LexEntries), m \in {"code", "tail", "answer"} : Context(At(b, l, m))
         /\ \A c \in {"handle", "retry", "loop"} : Enter(c, b.lex) \in Seq(LexEntries)
         /\ \A f : f.scope \in Nat => Context(Inside(f, b))
         /\ \A f : f.id \in Nat => Context(Trying(f, b))
         /\ \A f : b.lex # <<>> /\ f.deferred \in Int /\ (b.on = Error => f.deferred = NoToken) => Context(InArm(f, b))
         /\ Context(Bottom)
<1>1. b.lex \in Seq(LexEntries) /\ b.scopes \in Seq(Nat) /\ b.retries \in Seq(Nat)
  BY DEF Context
<1>2. \A l, m, s, r, o : l \in Seq(LexEntries) /\ m \in {"code", "tail", "answer"} /\ s \in Seq(Nat) /\ r \in Seq(Nat)
                           => Context(Ctx(l, m, s, r, o))
  BY DEF Context, Ctx
<1>3. \A c \in {"handle", "retry", "loop"} : Enter(c, b.lex) \in Seq(LexEntries)
  BY <1>1, LexGrows
<1>4. ASSUME NEW f, b.lex # <<>>, f.deferred \in Int, b.on = Error => f.deferred = NoToken PROVE Context(InArm(f, b))
  <2>2. Tail(b.lex) \in Seq(LexEntries)
    BY <1>1, <1>4
  <2>3. EnterArm(f.deferred, b.on, Tail(b.lex)) \in Seq(LexEntries)
    BY <1>4, <2>2, LexGrows
  <2> QED BY <1>1, <1>2, <2>3 DEF InArm, At
<1>5. \A x \in Nat : <<x>> \o b.scopes \in Seq(Nat) /\ <<x>> \o b.retries \in Seq(Nat)
  BY <1>1
<1>6. <<>> \in Seq(LexEntries) /\ <<>> \in Seq(Nat)
  OBVIOUS
<1> QED BY <1>1, <1>2, <1>3, <1>4, <1>5, <1>6 DEF At, Inside, Trying, Bottom

\* A frame that is no boundary and no attempt leaves scopes and attempts alone.
LEMMA StepFlat ==
  ASSUME NEW K, NEW f, NEW c, NEW m, Step(K, f, c, m), f.k \notin {"Handle", "Retry"}
  PROVE  c.scopes = m.scopes /\ c.retries = m.retries /\ c.on = m.on
  BY DEF Step, Rule, At, Ctx, InArm

\* So do several.
LEMMA FlatKeeps ==
  ASSUME NEW K, NEW s, NEW c, NEW b, Fits(K, s, c, b), Flat(s)
  PROVE  c.scopes = b.scopes /\ c.retries = b.retries /\ c.on = b.on
<1> DEFINE P(u, d) == d.scopes = b.scopes /\ d.retries = b.retries /\ d.on = b.on
<1>1. PICK G : G = {i \in Nat : \A u, d : Fits(K, u, d, b) /\ Flat(u) /\ Len(u) = i => P(u, d)}
  OBVIOUS
<1>2. 0 \in G
  <2> SUFFICES ASSUME NEW u, NEW d, Fits(K, u, d, b), Len(u) = 0 PROVE P(u, d)
    BY <1>1
  <2>1. u = <<>>
    BY FitsTypes DEF Built
  <2> QED BY <2>1, FitsTypes
<1>3. ASSUME NEW i \in Nat, i # 0, i - 1 \in G PROVE i \in G
  <2> SUFFICES ASSUME NEW u, NEW d, Fits(K, u, d, b), Flat(u), Len(u) = i PROVE P(u, d)
    BY <1>1
  <2>1. Built(u) /\ u # <<>>
    BY <1>3, FitsTypes
  <2>2. PICK m : Step(K, u[1], d, m) /\ Fits(K, Tail(u), m, b)
    BY <2>1, FitsPop
  <2>3. /\ Len(Tail(u)) = i - 1 /\ 1 \in DOMAIN u /\ \A j \in 1..Len(Tail(u)) : u[j + 1] = Tail(u)[j] /\ j + 1 \in DOMAIN u
        /\ Built(Tail(u))
    <3>1. Len(u) = Len(Tail(u)) + 1 /\ Len(Tail(u)) \in Nat
      BY <2>1, BuiltTail
    <3>2. 1 \in DOMAIN u /\ Built(Tail(u)) /\ \A j \in 1..Len(Tail(u)) : u[j + 1] = Tail(u)[j] /\ j + 1 \in DOMAIN u
      BY <2>1, BuiltTail
    <3> QED BY <3>1, <3>2
  <2>4. u[1].k \notin {"Handle", "Retry"} /\ Flat(Tail(u))
    <3>1. DOMAIN Tail(u) = 1..Len(Tail(u))
      BY <2>3, BuiltSeq
    <3> QED BY <2>3, <3>1 DEF Flat
  <2>5. P(Tail(u), m)
    BY <1>1, <1>3, <2>2, <2>3, <2>4
  <2> QED BY <2>2, <2>4, <2>5, StepFlat
<1>4. Len(s) \in Nat
  BY FitsTypes, BuiltSeq
<1>5. Len(s) \in G
  BY <1>2, <1>3, <1>4, Climb
<1> QED BY <1>1, <1>5

\* The scope of a boundary is the innermost one.
Opens(f, c, m) == c.scopes = <<f.scope>> \o m.scopes

\* A handler boundary.
LEMMA StepHandle ==
  ASSUME NEW K, NEW f, NEW c, NEW m, Step(K, f, c, m), f.k = "Handle"
  PROVE  /\ m.mode = "code" /\ f.lex = m.lex /\ Bounds(f, m)
         /\ Opens(f, c, m) /\ c.retries = m.retries /\ c.on = f.on
         /\ \E d : /\ Fits(K, f.inner.frames, d, Inside(f, m)) /\ Context(d)
                   /\ (Simple(f.inner.frames) => c = d) /\ (~Simple(f.inner.frames) => d.mode # "tail" /\ c.mode = "answer")
                   /\ d.scopes = c.scopes /\ d.retries = c.retries /\ d.lex = c.lex
<1>1. /\ Bounds(f, m)
      /\ \E d : /\ Fits(K, f.inner.frames, d, Inside(f, m))
                /\ IF Simple(f.inner.frames) THEN c = d ELSE d.mode # "tail" /\ c = At(d, d.lex, "answer")
  BY DEF Step, Rule
<1>2. PICK d : /\ Fits(K, f.inner.frames, d, Inside(f, m))
               /\ IF Simple(f.inner.frames) THEN c = d ELSE d.mode # "tail" /\ c = At(d, d.lex, "answer")
  BY <1>1
<1>3. d.scopes = <<f.scope>> \o m.scopes /\ d.retries = m.retries /\ d.on = f.on
  BY <1>1, <1>2, FlatKeeps DEF Bounds, Inside, Ctx
<1>4. c.scopes = d.scopes /\ c.retries = d.retries /\ c.on = d.on /\ c.lex = d.lex /\ (~Simple(f.inner.frames) => c.mode = "answer")
  BY <1>2 DEF At, Ctx
<1>5. Context(d)
  BY <1>2, FitsTypes
<1>6. Opens(f, c, m)
  BY <1>3, <1>4 DEF Opens
<1> QED BY <1>1, <1>2, <1>3, <1>4, <1>5, <1>6 DEF Bounds

Adds(f, c, m) == c.scopes = FrameScopes(f) \o m.scopes /\ c.retries = FrameRetries(f) \o m.retries

\* The scopes and attempts a frame adds are those an unwinding finds in it.
LEMMA StepOrder ==
  ASSUME NEW K, NEW f, NEW c, NEW m, Step(K, f, c, m), Built(<<f>>), Context(m)
  PROVE  /\ (f.k # "Handle" => FrameScopes(f) = <<>>) /\ (f.k # "Retry" => FrameRetries(f) = <<>>)
         /\ Adds(f, c, m)
<1>1. /\ (f.k \in Boundaries => f.inner.scopes = <<>> /\ f.inner.retries = <<>>)
      /\ (f.k = "Dispatch" => f.outer.scopes = <<>> /\ f.outer.retries = <<>>)
  BY DEF Step, Rule, Bounds, Boundaries
<1>2. f.k \in Boundaries => f.scope \in Nat
  BY BoundaryFrame
<1>3. /\ FrameScopes(f) = IF f.k = "Handle" THEN <<f.scope>> ELSE <<>>
      /\ FrameRetries(f) = IF f.k = "Retry" THEN <<f.id>> ELSE <<>>
  <2>1. f.k = "Handle" => FrameScopes(f) = Append(<<>>, f.scope)
    BY <1>1 DEF FrameScopes, Boundaries
  <2>2. \A x : Append(<<>>, x) = <<x>>
    OBVIOUS
  <2>3. f.k # "Handle" => FrameScopes(f) = <<>>
    BY <1>1 DEF FrameScopes
  <2>4. f.k # "Retry" => FrameRetries(f) = <<>>
    BY <1>1 DEF FrameRetries, Nested, NoLink, Boundaries
  <2>5. f.k = "Retry" => FrameRetries(f) = <<f.id>>
    BY DEF FrameRetries
  <2> QED BY <2>1, <2>2, <2>3, <2>4, <2>5
<1>4. m.scopes \in Seq(Nat) /\ m.retries \in Seq(Nat) /\ <<>> \o m.scopes = m.scopes /\ <<>> \o m.retries = m.retries
  BY DEF Context
<1>5. CASE f.k = "Handle"
  <2>1. c.scopes = <<f.scope>> \o m.scopes /\ c.retries = m.retries
    BY <1>5, StepHandle DEF Opens
  <2>2. FrameScopes(f) = <<f.scope>> /\ FrameRetries(f) = <<>>
    BY <1>3, <1>5
  <2>3. Adds(f, c, m)
    BY <1>4, <2>1, <2>2, Zenon DEF Adds
  <2> QED BY <1>3, <2>3
<1>6. CASE f.k = "Retry"
  BY <1>3, <1>4, <1>6 DEF Step, Rule, Trying, Ctx, Adds
<1>7. CASE f.k \notin {"Handle", "Retry"}
  <2>1. c.scopes = m.scopes /\ c.retries = m.retries
    BY <1>7, StepFlat
  <2>2. FrameScopes(f) = <<>> /\ FrameRetries(f) = <<>>
    BY <1>3, <1>7
  <2>3. Adds(f, c, m)
    BY <1>4, <2>1, <2>2, Zenon DEF Adds
  <2> QED BY <1>3, <2>3
<1> QED BY <1>3, <1>5, <1>6, <1>7

\* What is active in a context is what an unwinding of the frames closes.
LEMMA FitsOrder ==
  ASSUME NEW K, NEW s, NEW c, NEW b, Fits(K, s, c, b)
  PROVE  c.scopes = ScopeOrder(s) \o b.scopes /\ c.retries = RetryOrder(s) \o b.retries
<1> DEFINE P(u, d) == d.scopes = ScopeOrder(u) \o b.scopes /\ d.retries = RetryOrder(u) \o b.retries
<1>1. PICK G : G = {i \in Nat : \A u, d : Fits(K, u, d, b) /\ Len(u) = i => P(u, d)}
  OBVIOUS
<1>0. b.scopes \in Seq(Nat) /\ b.retries \in Seq(Nat)
  BY FitsTypes DEF Context
<1>2. 0 \in G
  <2> SUFFICES ASSUME NEW u, NEW d, Fits(K, u, d, b), Len(u) = 0 PROVE P(u, d)
    BY <1>1
  <2>1. u = <<>>
    BY FitsTypes DEF Built
  <2>2. <<>> \o b.scopes = b.scopes /\ <<>> \o b.retries = b.retries
    BY <1>0
  <2>3. d = b
    BY <2>1, FitsTypes
  <2> QED BY <2>1, <2>2, <2>3, OrderNil
<1>3. ASSUME NEW i \in Nat, i # 0, i - 1 \in G PROVE i \in G
  <2> SUFFICES ASSUME NEW u, NEW d, Fits(K, u, d, b), Len(u) = i PROVE P(u, d)
    BY <1>1
  <2>1. Built(u) /\ u # <<>>
    BY <1>3, FitsTypes
  <2>2. PICK m : Step(K, u[1], d, m) /\ Fits(K, Tail(u), m, b) /\ Context(m)
    BY <2>1, FitsPop
  <2>3. PICK f, r : f = u[1] /\ r = Tail(u)
    OBVIOUS
  <2>4. Len(r) = i - 1 /\ Built(<<f>>) /\ Built(r) /\ u = <<f>> \o r
    BY <2>1, <2>3, BuiltTail
  <2>5. P(r, m)
    BY <1>1, <1>3, <2>2, <2>3, <2>4
  <2>6. ScopeOrder(u) = FrameScopes(f) \o ScopeOrder(r) /\ RetryOrder(u) = FrameRetries(f) \o RetryOrder(r)
    <3>1. ScopeOrder(<<f>> \o r) = ScopeOrder(<<f>>) \o ScopeOrder(r) /\ RetryOrder(<<f>> \o r) = RetryOrder(<<f>>) \o RetryOrder(r)
      BY <2>4, OrderCat
    <3>2. ScopeOrder(<<f>>) = FrameScopes(f) /\ RetryOrder(<<f>>) = FrameRetries(f)
      BY <2>4, OrderOne
    <3> QED BY <2>4, <3>1, <3>2, Zenon
  <2>7. d.scopes = FrameScopes(f) \o m.scopes /\ d.retries = FrameRetries(f) \o m.retries
    <3>1. Step(K, f, d, m)
      BY <2>2, <2>3
    <3>2. Built(<<f>>) /\ Context(m)
      BY <2>2, <2>4
    <3>3. Adds(f, d, m)
      BY <3>1, <3>2, StepOrder
    <3> QED BY <3>3 DEF Adds
  <2>8. ScopeOrder(r) \in Seq(Nat) /\ RetryOrder(r) \in Seq(Nat) /\ FrameScopes(f) \in Seq(Nat) /\ FrameRetries(f) \in Seq(Nat)
    <3>1. \A S, T : S \subseteq T => Seq(S) \subseteq Seq(T)
      OBVIOUS
    <3>2. \A q : Built(q) => ScopeOrder(q) \in Seq(Nat) /\ RetryOrder(q) \in Seq(Nat)
      <4> SUFFICES ASSUME NEW q, Built(q) PROVE ScopeOrder(q) \in Seq(Nat) /\ RetryOrder(q) \in Seq(Nat)
        OBVIOUS
      <4>1. ScopeOrder(q) \in Seq(Scoped(Holds(q))) /\ RetryOrder(q) \in Seq(Nat)
        BY OrderCat
      <4>2. Scoped(Holds(q)) \subseteq Nat
        BY DEF Scoped
      <4> QED BY <3>1, <4>1, <4>2
    <3> QED BY <2>4, <3>2, OrderOne
  <2>9. \A x, y, z \in Seq(Nat) : x \o (y \o z) = (x \o y) \o z
    BY NumbersAssoc
  <2>10. PICK p, q, x, y, v, w : p = FrameScopes(f) /\ q = ScopeOrder(r) /\ x = FrameRetries(f) /\ y = RetryOrder(r)
                                 /\ v = b.scopes /\ w = b.retries
    OBVIOUS
  <2>11. p \o (q \o v) = (p \o q) \o v /\ x \o (y \o w) = (x \o y) \o w
    BY <1>0, <2>8, <2>9, <2>10
  <2>12. m.scopes = q \o v /\ m.retries = y \o w
    BY <2>5, <2>10
  <2>13. d.scopes = p \o (q \o v) /\ d.retries = x \o (y \o w)
    BY <2>7, <2>10, <2>12
  <2> QED BY <2>6, <2>10, <2>11, <2>13
<1>4. Len(s) \in Nat
  BY FitsTypes, BuiltSeq
<1>5. Len(s) \in G
  BY <1>2, <1>3, <1>4, Climb
<1> QED BY <1>1, <1>5

-----------------------------------------------------------------------------
(***************************************************************************)
(* The invariant that holds until an exit crosses a boundary               *)
(***************************************************************************)
KeptOf(A) == [u \in Owned(A) |-> Kept(A, u)]
With(K, t, fr) == [u \in DOMAIN K \cup {t} |-> IF u = t THEN fr ELSE K[u]]
Ids(hs)   == [i \in DOMAIN hs |-> hs[i].id]

\* The frames lead to context c, in which exactly the task's scopes and attempts
\* are active.
Settles(K, s, hs, rs, c) == Fits(K, s, c, Bottom) /\ c.scopes = Ids(hs) /\ c.retries = rs

\* A resume reaches the arm it is in; a requeue or park the arm that binds t.
ResumeOK(lex)      == \E j \in DOMAIN lex : lex[j].c = "arm" /\ \A i \in 1..(j - 1) : lex[i].c \in {"handle", "loop"}
TransferOK(lex, t) == \E j \in DOMAIN lex : lex[j].c = "arm" /\ lex[j].tok = t /\ \A i \in 1..(j - 1) : lex[i].c = "loop"

\* The frame that ends the arm of token t.
IsArm(f, t) ==
  \/ f.k = "Dispatch" /\ f.deferred = t
  \/ f.k = "Handle" /\ Len(f.inner.frames) = 1 /\ f.inner.frames[1].k = "Dispatch" /\ f.inner.frames[1].deferred = t

\* No attempt is left before the request is answered; no `?` before the arm ends.
NoRetryFirst(s, on) ==
  \A i \in DOMAIN s : s[i].k = "Retry" =>
    \E j \in 1..(i - 1) : (s[j].k = "Handle" /\ s[j].on = on) \/ (on = Error /\ s[j].k = "Try")
NoTryFirst(s, t) == \A i \in DOMAIN s : s[i].k = "Try" => \E j \in 1..(i - 1) : IsArm(s[j], t)

\* The arm that owned token t is still on the stack, its continuation fr is not.
Stranded(K, s, hs, rs, t, fr) ==
  /\ t # NoToken /\ NoTryFirst(s, t)
  /\ \E c : Settles(With(K, t, fr), s, hs, rs, c) /\ c.mode # "answer" /\ TransferOK(c.lex, t)

\* A request on its way to a handler, and an error on its way to one or to a `?`.
Forwarded(K, on, cont, s, hs, rs) ==
  /\ Flat(cont) /\ ((\E i \in DOMAIN hs : hs[i].on = on) => NoRetryFirst(s, on))
  /\ \E c, d : Settles(K, s, hs, rs, c) /\ c.mode # "answer" /\ Fits(K, cont, d, c) /\ d.mode # "tail"
Raised(K, cont, s, hs, rs) ==
  /\ ScopeOrder(cont) = <<>> /\ RetryOrder(cont) = <<>> /\ (\A i \in DOMAIN cont : cont[i].k # "Try")
  /\ NoRetryFirst(s, Error)
  /\ \/ \E c : Settles(K, s, hs, rs, c)
     \/ \E t, fr : Stranded(K, s, hs, rs, t, fr) /\ \A u \in DOMAIN K : u # t

Limits == {"call depth", "host", "retry exhausted", "arm completed"}

\* What each signal may find below it.
Placed(K, sg, s, hs, rs) ==
  /\ sg.k = "Code" => \E c : Settles(K, s, hs, rs, c) /\ c.mode # "answer" /\ c.lex = sg.lex
  /\ sg.k \in {"Value", "Host", "Checkpoint"} => \E c : Settles(K, s, hs, rs, c) /\ c.mode # "tail"
  /\ sg.k \in {"Return", "Finish"} => \E c : Settles(K, s, hs, rs, c) /\ c.mode # "answer"
  /\ sg.k = "Resume" => \E c : Settles(K, s, hs, rs, c) /\ c.mode # "answer" /\ ResumeOK(c.lex)
  /\ sg.k \in {"Break", "Continue"} =>
       \E c : Settles(K, s, hs, rs, c) /\ c.mode # "answer" /\ c.lex # <<>> /\ c.lex[1].c = "loop"
  /\ sg.k = "Perform" /\ sg.on # Error => Forwarded(K, sg.on, sg.cont, s, hs, rs)
  /\ sg.k = "Perform" /\ sg.on = Error => Raised(K, sg.cont, s, hs, rs)
  /\ sg.k = "Parked" => /\ ScopeOrder(sg.cont) = <<>> /\ RetryOrder(sg.cont) = <<>>
                        /\ Stranded(K, s, hs, rs, sg.tok, sg.cont) /\ \A u \in DOMAIN K : u # sg.tok
  /\ sg.k \in {"Done", "Unhandled"} => \E c : Settles(K, s, hs, rs, c)
  /\ sg.k = "Fault" => sg.why \in Limits

Here == Placed(KeptOf(arena), signal, stack, handler_stack, retry_stack)
TopologyInv ==
  /\ MachineInv /\ (~crossed => Here)
  /\ saved # NoCheckpoint /\ ~saved.crossed =>
       Placed(KeptOf(saved.arena), Sig("Value"), saved.stack, saved.handler_stack, saved.retry_stack)

\* The signals that a context admits.
LEMMA Admits ==
  ASSUME NEW K, NEW s, NEW hs, NEW rs, NEW c, Settles(K, s, hs, rs, c)
  PROVE  /\ (c.mode # "tail" => \A k \in {"Value", "Host", "Checkpoint"} : Placed(K, Sig(k), s, hs, rs))
         /\ (c.mode # "answer" => /\ \A k \in {"Return", "Finish"} : Placed(K, Sig(k), s, hs, rs)
                                  /\ Placed(K, Code(c.lex), s, hs, rs)
                                  /\ (ResumeOK(c.lex) => Placed(K, Sig("Resume"), s, hs, rs))
                                  /\ (c.lex # <<>> /\ c.lex[1].c = "loop" =>
                                        \A k \in {"Break", "Continue"} : Placed(K, Sig(k), s, hs, rs)))
         /\ \A k \in {"Done", "Unhandled"} : Placed(K, Sig(k), s, hs, rs)
  BY DEF Placed, Sig, Code

\* The machine's limits may end a run anywhere.
LEMMA Ends ==
  ASSUME NEW K, NEW s, NEW hs, NEW rs, NEW w \in Limits PROVE Placed(K, Fault(w), s, hs, rs)
  BY DEF Placed, Fault

\* What a frame of each kind says of the contexts around it.
LEMMA StepKinds ==
  ASSUME NEW K, NEW f, NEW c, NEW m, Step(K, f, c, m)
  PROVE  /\ m.mode # "answer"
         /\ (f.k = "Next" => f.lex = m.lex /\ c = At(m, m.lex, "code"))
         /\ (f.k = "Call" => m.mode = "code" /\ c = At(m, <<>>, "code"))
         /\ (f.k = "Try" => m.mode = "code" /\ c = m)
         /\ (f.k = "Loop" => m.mode = "code" /\ f.lex = m.lex /\ c = At(m, Enter("loop", m.lex), "code"))
         /\ (f.k = "Retry" => f.lex = m.lex /\ c = Trying(f, m))
         /\ (f.k = "Reenter" => c = At(m, m.lex, "answer"))
         /\ (f.k = "Dispatch" => c = InArm(f, m) /\ m.mode = "code" /\ (m.on = Error => f.deferred = NoToken))
  BY DEF Step, Rule

\* The frames that hold no continuation.
LEMMA MakeStep ==
  ASSUME NEW K, NEW f, NEW m, Context(m), m.mode # "answer"
  PROVE  /\ (f.k = "Next" /\ f.lex = m.lex => Step(K, f, At(m, m.lex, "code"), m))
         /\ (f.k = "Call" /\ m.mode = "code" => Step(K, f, At(m, <<>>, "code"), m))
         /\ (f.k = "Try" /\ m.mode = "code" => Step(K, f, m, m))
         /\ (f.k = "Loop" /\ m.mode = "code" /\ f.lex = m.lex => Step(K, f, At(m, Enter("loop", m.lex), "code"), m))
         /\ (f.k = "Retry" /\ f.lex = m.lex => Step(K, f, Trying(f, m), m))
  BY DEF Step, Rule

\* An attempt.
LEMMA AttemptTop ==
  ASSUME NEW f, NEW m, Context(m), f.id \in Nat
  PROVE  /\ Trying(f, m).scopes = m.scopes /\ Trying(f, m).mode = "code" /\ Trying(f, m).lex = Enter("retry", m.lex)
         /\ Trying(f, m).retries = <<f.id>> \o m.retries
  BY DEF Trying, Ctx

\* The first entry of a lexical context.
LEMMA LexTop ==
  ASSUME NEW lex \in Seq(LexEntries)
  PROVE  /\ \A c : Enter(c, lex) # <<>> /\ Enter(c, lex)[1].c = c /\ Tail(Enter(c, lex)) = lex /\ Len(Enter(c, lex)) = Len(lex) + 1
                   /\ \A i \in DOMAIN lex : i + 1 \in DOMAIN Enter(c, lex) /\ Enter(c, lex)[i + 1] = lex[i]
         /\ \A t, on : /\ EnterArm(t, on, lex) # <<>> /\ Tail(EnterArm(t, on, lex)) = lex /\ EnterArm(t, on, lex)[1].tok = t
                       /\ EnterArm(t, on, lex)[1].c = IF on = Error THEN "errorarm" ELSE "arm"
<1>1. ASSUME NEW e PROVE /\ <<e>> \o lex # <<>> /\ (<<e>> \o lex)[1] = e /\ Tail(<<e>> \o lex) = lex
                         /\ Len(<<e>> \o lex) = Len(lex) + 1 /\ \A i \in DOMAIN lex : i + 1 \in DOMAIN (<<e>> \o lex) /\ (<<e>> \o lex)[i + 1] = lex[i]
  <2>1. lex \in Seq(LexEntries \cup {e}) /\ e \in LexEntries \cup {e}
    OBVIOUS
  <2> QED BY <2>1, OnTop
<1> QED BY <1>1 DEF Enter, EnterArm

\* The dispatch of an arm.
LEMMA StepDispatch ==
  ASSUME NEW K, NEW f, NEW c, NEW m, Step(K, f, c, m), f.k = "Dispatch", Context(m)
  PROVE  /\ c.mode = (IF m.on = Error THEN "tail" ELSE "code") /\ m.mode = "code"
         /\ c.lex # <<>> /\ m.lex # <<>> /\ m.lex[1].c = "handle" /\ Tail(c.lex) = Tail(m.lex)
         /\ c.lex[1].c = (IF m.on = Error THEN "errorarm" ELSE "arm") /\ c.lex[1].tok = f.deferred
         /\ c.scopes = m.scopes /\ c.retries = m.retries /\ (m.on = Error => f.deferred = NoToken)
<1>1. /\ m.mode = "code" /\ m.lex # <<>> /\ m.lex[1].c = "handle" /\ c = InArm(f, m) /\ (m.on = Error => f.deferred = NoToken)
  BY DEF Step, Rule
<1>2. Tail(m.lex) \in Seq(LexEntries)
  BY <1>1 DEF Context
<1>3. c.lex = EnterArm(f.deferred, m.on, Tail(m.lex))
  BY <1>1 DEF InArm, At, Ctx
<1>4. c.lex # <<>> /\ Tail(c.lex) = Tail(m.lex) /\ c.lex[1].tok = f.deferred
      /\ c.lex[1].c = IF m.on = Error THEN "errorarm" ELSE "arm"
  <2>1. PICK lx \in Seq(LexEntries) : lx = Tail(m.lex)
    BY <1>2
  <2>2. PICK d, on : d = f.deferred /\ on = m.on
    OBVIOUS
  <2>3. c.lex = EnterArm(d, on, lx)
    BY <1>3, <2>1, <2>2
  <2>4. EnterArm(d, on, lx) # <<>> /\ Tail(EnterArm(d, on, lx)) = lx /\ EnterArm(d, on, lx)[1].tok = d
        /\ EnterArm(d, on, lx)[1].c = IF on = Error THEN "errorarm" ELSE "arm"
    BY LexTop
  <2> QED BY <2>1, <2>2, <2>3, <2>4
<1>5. c.scopes = m.scopes /\ c.retries = m.retries /\ c.mode = IF m.on = Error THEN "tail" ELSE "code"
  BY <1>1 DEF InArm, At, Ctx
<1> QED BY <1>1, <1>4, <1>5

\* A boundary that owns the dispatch of its arm.
LEMMA StepOwned ==
  ASSUME NEW K, NEW f, NEW c, NEW m, Step(K, f, c, m), f.k = "Handle", Built(<<f>>), Context(m), Simple(f.inner.frames),
         f.inner.frames # <<>>
  PROVE  \E g : /\ f.inner.frames = <<g>> /\ g = f.inner.frames[1] /\ g.k = "Dispatch" /\ Built(<<g>>)
                /\ Step(K, g, c, Inside(f, m)) /\ Context(Inside(f, m))
<1>1. /\ Built(f.inner.frames) /\ f.scope \in Nat
  BY BoundaryFrame DEF Boundaries
<1>2. PICK q : q = f.inner.frames
  OBVIOUS
<1>3. Len(q) = 1 /\ q[1].k = "Dispatch" /\ q # <<>> /\ Built(q)
  BY <1>1, <1>2 DEF Simple
<1>4. Fits(K, q, c, Inside(f, m))
  <2>1. \E d : /\ Fits(K, f.inner.frames, d, Inside(f, m)) /\ Context(d)
                   /\ (Simple(f.inner.frames) => c = d) /\ (~Simple(f.inner.frames) => d.mode # "tail" /\ c.mode = "answer")
                   /\ d.scopes = c.scopes /\ d.retries = c.retries /\ d.lex = c.lex
    BY StepHandle
  <2> QED BY <1>2, <2>1
<1>5. Built(<<q[1]>>) /\ Tail(q) = <<>> /\ q = <<q[1]>>
  <2>1. Built(<<q[1]>>) /\ Built(Tail(q)) /\ q = <<q[1]>> \o Tail(q)
    BY <1>3, BuiltTail
  <2>2. Len(q) = Len(Tail(q)) + 1 /\ Len(Tail(q)) \in Nat
    BY <1>3, BuiltTail
  <2>3. Len(Tail(q)) = 0
    BY <1>3, <2>2
  <2>4. Tail(q) = <<>>
    <3>1. PICK t : t = Tail(q)
      OBVIOUS
    <3>2. Built(t) /\ Len(t) = 0
      BY <2>1, <2>3, <3>1
    <3>3. t = <<>>
      BY <3>2 DEF Built
    <3> QED BY <3>1, <3>3
  <2>5. <<q[1]>> \o <<>> = <<q[1]>>
    OBVIOUS
  <2> QED BY <2>1, <2>4, <2>5
<1>6. PICK n : Context(n) /\ Step(K, q[1], c, n) /\ Fits(K, Tail(q), n, Inside(f, m))
  BY <1>3, <1>4, FitsPop
<1>7. n = Inside(f, m)
  BY <1>5, <1>6, FitsTypes
<1> QED BY <1>2, <1>3, <1>5, <1>6, <1>7

\* The frame on top of a context and the frames below it.
LEMMA Popped ==
  ASSUME NEW K, NEW s, NEW hs, NEW rs, NEW c, Settles(K, s, hs, rs, c), s # <<>>
  PROVE  /\ Context(c) /\ Built(s) /\ Built(<<s[1]>>) /\ Built(Tail(s)) /\ s = <<s[1]>> \o Tail(s)
         /\ \E m : Context(m) /\ Step(K, s[1], c, m) /\ Fits(K, Tail(s), m, Bottom)
<1>1. Context(c) /\ Built(s)
  BY FitsTypes DEF Settles
<1>2. \E m : Context(m) /\ Step(K, s[1], c, m) /\ Fits(K, Tail(s), m, Bottom)
  BY FitsPop DEF Settles
<1> QED BY <1>1, <1>2, BuiltTail

\* One more frame.
LEMMA Pushed ==
  ASSUME NEW K, NEW s, NEW f, NEW c, NEW m, Fits(K, s, m, Bottom), Built(<<f>>), Step(K, f, c, m), Context(c),
         NEW hs, NEW rs, c.scopes = Ids(hs), c.retries = rs
  PROVE  Settles(K, <<f>> \o s, hs, rs, c)
<1>1. Built(s)
  BY FitsTypes
<1>2. Built(<<f>> \o s)
  BY <1>1, BuiltCat
<1>3. Fits(K, <<f>> \o s, c, Bottom)
  BY <1>2, FitsPush
<1> QED BY <1>3 DEF Settles

\* Only the end of an arm of Error.raise has the mode "tail".
LEMMA TailEnds ==
  ASSUME NEW K, NEW s, NEW hs, NEW rs, NEW c, Settles(K, s, hs, rs, c), c.mode = "tail"
  PROVE  /\ s # <<>> /\ c.lex # <<>> /\ c.lex[1].c = "errorarm"
         /\ s[1].k = "Dispatch" \/ (s[1].k = "Handle" /\ s[1].inner.frames # <<>>)
<1>1. s # <<>>
  <2>1. s = <<>> => c = Bottom
    BY FitsTypes DEF Settles
  <2> QED BY <2>1 DEF Bottom, Ctx
<1>2. PICK m, f : f = s[1] /\ Built(<<f>>) /\ Context(m) /\ Step(K, f, c, m)
  BY <1>1, Popped
<1>3. f.k \in {"Handle", "Dispatch"}
  BY <1>2, StepKinds DEF Step, Rule, At, Ctx, Trying
<1>4. CASE f.k = "Dispatch"
  BY <1>1, <1>2, <1>4, StepDispatch
<1>5. CASE f.k = "Handle"
  <2>1. Simple(f.inner.frames)
    BY <1>2, <1>5, StepHandle
  <2>2. f.inner.frames # <<>>
    <3>1. f.inner.frames = <<>> => c = Inside(f, m)
      <4>1. PICK d : /\ Fits(K, f.inner.frames, d, Inside(f, m)) /\ Context(d)
                   /\ (Simple(f.inner.frames) => c = d) /\ (~Simple(f.inner.frames) => d.mode # "tail" /\ c.mode = "answer")
                   /\ d.scopes = c.scopes /\ d.retries = c.retries /\ d.lex = c.lex
        BY <1>2, <1>5, StepHandle
      <4> QED BY <2>1, <4>1, FitsTypes
    <3> QED BY <3>1 DEF Inside, Ctx
  <2>3. PICK g : g.k = "Dispatch" /\ Step(K, g, c, Inside(f, m)) /\ Context(Inside(f, m))
    BY <1>2, <1>5, <2>1, <2>2, StepOwned
  <2> QED BY <1>1, <1>2, <1>5, <2>2, <2>3, StepDispatch
<1> QED BY <1>3, <1>4, <1>5

\* Where the code that is evaluated next is.
LEMMA CodeAt ==
  ASSUME MachineInv, Here, signal.k = "Code"
  PROVE  \E c : /\ Settles(KeptOf(arena), stack, handler_stack, retry_stack, c) /\ Context(c) /\ c.mode \in {"code", "tail"}
                /\ c.lex = signal.lex /\ (~ErrorArmEnds => c.mode = "code")
<1>1. PICK c : Settles(KeptOf(arena), stack, handler_stack, retry_stack, c) /\ c.mode # "answer" /\ c.lex = signal.lex
  BY DEF Here, Placed
<1>2. Context(c)
  BY <1>1, FitsTypes DEF Settles
<1>3. c.mode = "tail" => ErrorArmEnds
  BY <1>1, TailEnds DEF ErrorArmEnds
<1> QED BY <1>1, <1>2, <1>3 DEF Context

\* A step that leaves the arena alone.
LEMMA StaysHere ==
  ASSUME arena' = arena, Placed(KeptOf(arena), signal', stack', handler_stack', retry_stack') PROVE Here'
  BY DEF Here

\* The ids of the active scopes.
LEMMA IdsOf ==
  ASSUME NEW n, NEW hs \in Seq(Handlers(n))
  PROVE  /\ Ids(hs) \in Seq(0..(n - 1)) /\ Len(Ids(hs)) = Len(hs) /\ DOMAIN Ids(hs) = DOMAIN hs /\ (hs = <<>> <=> Ids(hs) = <<>>)
         /\ \A i \in DOMAIN hs : Ids(hs)[i] = hs[i].id
         /\ (hs # <<>> => Ids(hs)[1] = hs[1].id /\ hs[1].id \in 0..(n - 1) /\ Ids(Tail(hs)) = Tail(Ids(hs)))
         /\ \A h : h.id \in Nat => Ids(<<h>> \o hs) = <<h.id>> \o Ids(hs)
<1>1. hs = [i \in 1..Len(hs) |-> hs[i]] /\ Len(hs) \in Nat /\ DOMAIN hs = 1..Len(hs) /\ \A i \in 1..Len(hs) : hs[i].id \in 0..(n - 1)
  <2>1. \A h \in Handlers(n) : h.id \in 0..(n - 1)
    BY DEF Handlers
  <2>2. hs = [i \in 1..Len(hs) |-> hs[i]] /\ Len(hs) \in Nat /\ DOMAIN hs = 1..Len(hs) /\ \A i \in 1..Len(hs) : hs[i] \in Handlers(n)
    OBVIOUS
  <2> QED BY <2>1, <2>2
<1>2. Ids(hs) = [i \in 1..Len(hs) |-> hs[i].id]
  BY <1>1 DEF Ids
<1>3. Ids(hs) \in Seq(0..(n - 1)) /\ Len(Ids(hs)) = Len(hs) /\ DOMAIN Ids(hs) = DOMAIN hs /\ \A i \in DOMAIN hs : Ids(hs)[i] = hs[i].id
  BY <1>1, <1>2
<1>4. hs = <<>> <=> Ids(hs) = <<>>
  BY <1>3
<1>5. ASSUME hs # <<>> PROVE Ids(hs)[1] = hs[1].id /\ hs[1].id \in 0..(n - 1) /\ Ids(Tail(hs)) = Tail(Ids(hs))
  <2>1. 1 \in 1..Len(hs)
    BY <1>1, <1>5
  <2>2. PICK q : q = Ids(hs)
    OBVIOUS
  <2>3. q \in Seq(0..(n - 1)) /\ q # <<>> /\ Len(q) = Len(hs) /\ \A i \in 1..Len(hs) : q[i] = hs[i].id
    BY <1>1, <1>3, <1>4, <1>5, <2>2
  <2>4. PICK t, r : t = Tail(hs) /\ r = Tail(q)
    OBVIOUS
  <2>5. t \in Seq(Handlers(n)) /\ Len(t) = Len(hs) - 1 /\ \A i \in 1..Len(t) : t[i] = hs[i + 1]
    BY <1>5, <2>4
  <2>6. r \in Seq(0..(n - 1)) /\ Len(r) = Len(hs) - 1 /\ \A i \in 1..Len(r) : r[i] = q[i + 1]
    BY <2>3, <2>4
  <2>7. Ids(t) = [i \in 1..Len(t) |-> t[i].id]
    BY <2>5 DEF Ids
  <2>8. r = [i \in 1..Len(r) |-> r[i]]
    BY <2>6
  <2>9. \A i \in 1..Len(t) : t[i].id = r[i]
    <3>1. \A i \in 1..Len(t) : i + 1 \in 1..Len(hs)
      BY <1>1, <2>5
    <3> QED BY <2>3, <2>5, <2>6, <3>1
  <2>10. Ids(t) = r
    BY <2>5, <2>6, <2>7, <2>8, <2>9
  <2> QED BY <1>1, <1>3, <2>1, <2>2, <2>4, <2>10
<1>6. ASSUME NEW h, h.id \in Nat PROVE Ids(<<h>> \o hs) = <<h.id>> \o Ids(hs)
  <2>1. PICK V : V = Handlers(n) \cup {h}
    OBVIOUS
  <2>2. hs \in Seq(V) /\ h \in V
    BY <2>1
  <2>3. PICK u : u = <<h>> \o hs
    OBVIOUS
  <2>4. u \in Seq(V) /\ Len(u) = Len(hs) + 1 /\ u[1] = h /\ \A i \in 1..Len(hs) : u[i + 1] = hs[i]
    BY <2>2, <2>3, OnTop
  <2>5. Ids(hs) \in Seq(Int) /\ h.id \in Int
    <3>1. \A S, T : S \subseteq T => Seq(S) \subseteq Seq(T)
      OBVIOUS
    <3>2. 0..(n - 1) \subseteq Int
      OBVIOUS
    <3>3. Seq(0..(n - 1)) \subseteq Seq(Int)
      BY <3>1, <3>2
    <3>4. Ids(hs) \in Seq(0..(n - 1))
      BY <1>3
    <3> QED BY <1>6, <3>3, <3>4
  <2>6. PICK w, q, x : w = <<h.id>> \o Ids(hs) /\ q = Ids(hs) /\ x = h.id
    OBVIOUS
  <2>7. w \in Seq(Int) /\ Len(w) = Len(hs) + 1 /\ w[1] = h.id /\ \A i \in 1..Len(hs) : w[i + 1] = hs[i].id
    <3>1. w \in Seq(Int) /\ Len(w) = Len(q) + 1 /\ w[1] = x /\ \A i \in 1..Len(q) : w[i + 1] = q[i]
      BY <2>5, <2>6, OnTop
    <3> QED BY <1>1, <1>3, <2>6, <3>1
  <2>8. Ids(u) = [i \in 1..Len(u) |-> u[i].id]
    BY <2>4 DEF Ids
  <2>9. w = [i \in 1..Len(u) |-> w[i]]
    BY <2>4, <2>7
  <2>10. \A i \in 1..Len(u) : u[i].id = w[i]
    <3> SUFFICES ASSUME NEW i \in 1..Len(u) PROVE u[i].id = w[i]
      OBVIOUS
    <3>1. CASE i = 1
      BY <2>4, <2>7, <3>1
    <3>2. CASE i # 1
      <4>1. PICK j \in 1..Len(hs) : i = j + 1
        <5>1. i - 1 \in 1..Len(hs) /\ i = (i - 1) + 1
          BY <1>1, <2>4, <3>2
        <5> QED BY <5>1
      <4> QED BY <2>4, <2>7, <4>1
    <3> QED BY <3>1, <3>2
  <2>11. Ids(u) = w
    BY <2>8, <2>9, <2>10
  <2> QED BY <2>3, <2>6, <2>11
<1> QED BY <1>3, <1>4, <1>5, <1>6

\* Signals that code makes where it stands.
LEMMA SignalsPlaced ==
  ASSUME MachineInv, Here, EvalValue \/ EvalReturn \/ EvalHost \/ EvalCheckpoint \/ HostCompletes \/ Complete
  PROVE  Here'
<1> DEFINE K == KeptOf(arena)
<1>1. UNCHANGED <<stack, handler_stack, retry_stack, arena>>
  BY DEF EvalValue, EvalReturn, EvalHost, EvalCheckpoint, HostCompletes, Complete, Yields
<1>2. CASE EvalValue \/ EvalHost \/ EvalCheckpoint
  <2>1. PICK c : Settles(K, stack, handler_stack, retry_stack, c) /\ c.mode = "code"
    BY <1>2, CodeAt DEF EvalValue, EvalHost, EvalCheckpoint, Yields, Evaluates
  <2>2. PICK k \in {"Value", "Host", "Checkpoint"} : signal' = Sig(k)
    BY <1>2 DEF EvalValue, EvalHost, EvalCheckpoint
  <2>3. Placed(K, Sig(k), stack, handler_stack, retry_stack)
    BY <2>1, Admits
  <2> QED BY <1>1, <2>2, <2>3, StaysHere
<1>3. CASE EvalReturn
  <2>1. PICK c : Settles(K, stack, handler_stack, retry_stack, c) /\ c.mode # "answer"
    BY <1>3, CodeAt DEF EvalReturn
  <2>2. Placed(K, Sig("Return"), stack, handler_stack, retry_stack)
    BY <2>1, Admits
  <2> QED BY <1>1, <1>3, <2>2, StaysHere DEF EvalReturn
<1>4. CASE HostCompletes
  <2>1. PICK c : Settles(K, stack, handler_stack, retry_stack, c) /\ c.mode # "tail"
    BY <1>4 DEF HostCompletes, Here, Placed
  <2>2. Placed(K, Sig("Value"), stack, handler_stack, retry_stack)
    BY <2>1, Admits
  <2> QED BY <1>1, <1>4, <2>2, StaysHere DEF HostCompletes
<1>5. CASE Complete
  <2>1. PICK c : Settles(K, stack, handler_stack, retry_stack, c)
    BY <1>5 DEF Complete, Here, Placed
  <2>2. Placed(K, Sig("Done"), stack, handler_stack, retry_stack)
    BY <2>1, Admits
  <2> QED BY <1>1, <1>5, <2>2, StaysHere DEF Complete
<1> QED BY <1>2, <1>3, <1>4, <1>5

\* What a context that differs only in place and mode keeps.
LEMMA SamePlace ==
  ASSUME NEW b, Context(b), NEW l \in Seq(LexEntries), NEW m \in {"code", "tail", "answer"}, NEW d, d \in {At(b, l, m)}
  PROVE  Context(d) /\ d.scopes = b.scopes /\ d.retries = b.retries /\ d.mode = m /\ d.lex = l /\ d.on = b.on
<1>1. d = At(b, l, m)
  OBVIOUS
<1>2. Context(d)
  BY <1>1, Contexts
<1> QED BY <1>1, <1>2 DEF At, Ctx

\* Code that puts a frame of its own under what it evaluates.
LEMMA PushesPlaced ==
  ASSUME MachineInv, Here, ExecuteBlock \/ EvalTry \/ EvalCall \/ EvalLoop
  PROVE  Here'
<1> DEFINE K == KeptOf(arena)
<1>0. signal.k = "Code" /\ UNCHANGED <<handler_stack, retry_stack, arena>> /\ signal.lex \in Seq(LexEntries) /\ fuel \in Nat
  BY Carries, StackTypes DEF ExecuteBlock, EvalTry, EvalCall, EvalLoop, Yields, Evaluates
<1>1. PICK c : /\ Settles(K, stack, handler_stack, retry_stack, c) /\ Context(c) /\ c.mode \in {"code", "tail"}
               /\ c.lex = signal.lex /\ (~ErrorArmEnds => c.mode = "code")
  BY <1>0, CodeAt
<1>2. Fits(K, stack, c, Bottom) /\ c.scopes = Ids(handler_stack) /\ c.retries = retry_stack
  BY <1>1 DEF Settles
<1>3. ASSUME NEW f, NEW d, Built(<<f>>), Step(K, f, d, c), Context(d), d.scopes = c.scopes, d.retries = c.retries
      PROVE  Settles(K, <<f>> \o stack, handler_stack, retry_stack, d)
  BY <1>2, <1>3, Pushed
<1>4. CASE ExecuteBlock
  <2>1. PICK f, d : f = Next_(fuel, signal.lex) /\ d = At(c, c.lex, "code")
    OBVIOUS
  <2>2. Built(<<f>>) /\ f.k = "Next" /\ f.lex = c.lex
    BY <1>0, <1>1, <2>1, MakeLeaf DEF Next_
  <2>3. Step(K, f, d, c)
    BY <1>1, <2>1, <2>2, MakeStep
  <2>4. Context(d) /\ d.scopes = c.scopes /\ d.retries = c.retries /\ d.mode = "code" /\ d.lex = signal.lex
    <3>1. c.lex \in Seq(LexEntries) /\ Enter("loop", c.lex) \in Seq(LexEntries)
      BY <1>0, <1>1, LexGrows
    <3>2. PICK l, w : l = c.lex /\ w = "code"
      OBVIOUS
    <3>3. Context(c) /\ l \in Seq(LexEntries) /\ w \in {"code", "tail", "answer"} /\ d \in {At(c, l, w)}
      BY <1>1, <2>1, <3>1, <3>2
    <3>4. Context(d) /\ d.scopes = c.scopes /\ d.retries = c.retries /\ d.mode = w /\ d.lex = l
      BY <3>3, SamePlace
    <3> QED BY <1>1, <3>2, <3>4
  <2>5. Settles(K, <<f>> \o stack, handler_stack, retry_stack, d)
    BY <1>3, <2>2, <2>3, <2>4
  <2>6. Placed(K, signal', stack', handler_stack', retry_stack')
    <3>1. stack' = <<f>> \o stack /\ signal' = signal
      BY <1>4, <2>1 DEF ExecuteBlock
    <3>2. Placed(K, signal, <<f>> \o stack, handler_stack, retry_stack)
      BY <1>0, <2>4, <2>5 DEF Placed
    <3> QED BY <1>0, <3>1, <3>2
  <2> QED BY <1>0, <2>6, StaysHere
<1>5. CASE EvalTry
  <2>1. Built(<<TryExpr>>) /\ TryExpr.k = "Try"
    BY MakeLeaf DEF TryExpr
  <2>2. c.mode = "code"
    BY <1>1, <1>5 DEF EvalTry, Yields
  <2>3. Step(K, TryExpr, c, c)
    BY <1>1, <2>1, <2>2, MakeStep
  <2>5. Settles(K, <<TryExpr>> \o stack, handler_stack, retry_stack, c)
    BY <1>1, <1>3, <2>1, <2>3
  <2>6. Placed(K, signal', stack', handler_stack', retry_stack')
    <3>1. stack' = <<TryExpr>> \o stack /\ signal' = signal
      BY <1>5 DEF EvalTry
    <3>2. Placed(K, signal, <<TryExpr>> \o stack, handler_stack, retry_stack)
      BY <1>0, <1>1, <2>2, <2>5 DEF Placed
    <3> QED BY <1>0, <3>1, <3>2
  <2> QED BY <1>0, <2>6, StaysHere
<1>6. CASE EvalCall
  <2>1. CASE signal' = Fault("call depth")
    <3>1. Placed(K, signal', stack', handler_stack', retry_stack')
      BY <2>1, Ends DEF Limits
    <3> QED BY <1>0, <3>1, StaysHere
  <2>2. CASE stack' = <<CallBoundary>> \o stack /\ signal' = Code(<<>>)
    <3>1. PICK d : d = At(c, <<>>, "code")
      OBVIOUS
    <3>2. Built(<<CallBoundary>>) /\ CallBoundary.k = "Call"
      BY MakeLeaf DEF CallBoundary
    <3>3. Step(K, CallBoundary, d, c)
      BY <1>1, <1>6, <3>1, <3>2, MakeStep DEF EvalCall, Yields
    <3>4. <<>> \in Seq(LexEntries)
      OBVIOUS
    <3>5. Context(d) /\ d.scopes = c.scopes /\ d.retries = c.retries /\ d.mode = "code" /\ d.lex = <<>>
      BY <1>1, <3>1, <3>4, SamePlace
    <3>6. Settles(K, <<CallBoundary>> \o stack, handler_stack, retry_stack, d)
      BY <1>3, <3>2, <3>3, <3>5
    <3>7. Placed(K, Code(d.lex), <<CallBoundary>> \o stack, handler_stack, retry_stack)
      BY <3>5, <3>6, Admits
    <3>8. Placed(K, signal', stack', handler_stack', retry_stack')
      BY <1>0, <2>2, <3>5, <3>7
    <3> QED BY <1>0, <3>8, StaysHere
  <2> QED BY <1>6, <2>1, <2>2 DEF EvalCall
<1>7. CASE EvalLoop
  <2>1. PICK f, d : f = Loop(Iterations, FALSE, signal.lex) /\ d = At(c, Enter("loop", c.lex), "code")
    OBVIOUS
  <2>2. Built(<<f>>) /\ f.k = "Loop" /\ f.lex = c.lex
    BY <1>0, <1>1, <2>1, MakeLeaf DEF Loop
  <2>3. Step(K, f, d, c)
    BY <1>1, <1>7, <2>1, <2>2, MakeStep DEF EvalLoop, Yields
  <2>4. Context(d) /\ d.scopes = c.scopes /\ d.retries = c.retries /\ d.mode = "code"
    <3>1. c.lex \in Seq(LexEntries) /\ Enter("loop", c.lex) \in Seq(LexEntries)
      BY <1>0, <1>1, LexGrows
    <3> QED BY <1>1, <2>1, <3>1, SamePlace
  <2>5. Settles(K, <<f>> \o stack, handler_stack, retry_stack, d)
    BY <1>3, <2>2, <2>3, <2>4
  <2>6. Placed(K, Sig("Value"), <<f>> \o stack, handler_stack, retry_stack)
    BY <2>4, <2>5, Admits
  <2>7. Placed(K, signal', stack', handler_stack', retry_stack')
    BY <1>0, <1>7, <2>1, <2>6 DEF EvalLoop
  <2> QED BY <1>0, <2>7, StaysHere
<1> QED BY <1>4, <1>5, <1>6, <1>7

\* A new boundary.
LEMMA HandlePlaced ==
  ASSUME MachineInv, Here, NEW on \in Actions \cup {Error}, NEW b \in Binders, EvalHandle(on, b)
  PROVE  Here'
<1> DEFINE K == KeptOf(arena)
<1>0. /\ signal.k = "Code" /\ UNCHANGED <<retry_stack, arena>> /\ signal.lex \in Seq(LexEntries) /\ next_handler_scope \in Nat
      /\ handler_stack \in Seq(Handlers(next_handler_scope)) /\ ~ErrorArmEnds /\ b \in BOOLEAN /\ (on = Error => ~b)
  BY Carries, StackTypes, MachineConstants DEF EvalHandle, Yields, Evaluates
<1>1. PICK c : /\ Settles(K, stack, handler_stack, retry_stack, c) /\ Context(c) /\ c.lex = signal.lex /\ c.mode = "code"
  BY <1>0, CodeAt
<1>2. Fits(K, stack, c, Bottom) /\ c.scopes = Ids(handler_stack) /\ c.retries = retry_stack
  BY <1>1 DEF Settles
<1>3. PICK f, d : f = HandleBoundary(next_handler_scope, Link(<<>>), on, b, signal.lex) /\ d = Inside(f, c)
  OBVIOUS
<1>4. Built(<<f>>) /\ f.k = "Handle" /\ f.lex = c.lex /\ f.scope = next_handler_scope /\ f.inner = Link(<<>>)
  BY <1>0, <1>1, <1>3, BuiltNil, MakeHandle DEF HandleBoundary
<1>5. f.inner.frames = <<>> /\ f.inner.scopes = <<>> /\ f.inner.retries = <<>>
  BY <1>4, OrderNil DEF Link
<1>6. Context(d) /\ d.mode = "code" /\ d.retries = c.retries /\ d.lex = Enter("handle", signal.lex)
  <2>1. Context(d)
    BY <1>0, <1>1, <1>3, <1>4, Contexts
  <2> QED BY <1>1, <1>3, <2>1 DEF Inside, Ctx
<1>7. d.scopes = <<next_handler_scope>> \o c.scopes
  BY <1>3, <1>4 DEF Inside, Ctx
<1>8. Bounds(f, c)
  <2>1. c.scopes # <<>> => c.scopes[1] < f.scope
    <3>1. c.scopes # <<>> => handler_stack # <<>> /\ c.scopes[1] \in 0..(next_handler_scope - 1)
      BY <1>0, <1>2, IdsOf
    <3> QED BY <1>0, <1>4, <3>1
  <2>2. Flat(f.inner.frames)
    BY <1>5 DEF Flat
  <2> QED BY <1>1, <1>4, <1>5, <2>1, <2>2 DEF Bounds
<1>9. Step(K, f, d, c)
  <2>1. Fits(K, f.inner.frames, d, Inside(f, c)) /\ Simple(f.inner.frames)
    BY <1>3, <1>5, <1>6, FitsNil DEF Simple
  <2> QED BY <1>1, <1>4, <1>8, <2>1 DEF Step, Rule
<1>10. handler_stack' = <<[id |-> next_handler_scope, on |-> on]>> \o handler_stack /\ stack' = <<f>> \o stack
       /\ signal' = Code(Enter("handle", signal.lex))
  BY <1>3 DEF EvalHandle
<1>11. d.scopes = Ids(handler_stack')
  <2>1. PICK h : h = [id |-> next_handler_scope, on |-> on]
    OBVIOUS
  <2>2. h.id = next_handler_scope /\ h.id \in Nat
    BY <1>0, <2>1
  <2>3. Ids(<<h>> \o handler_stack) = <<h.id>> \o Ids(handler_stack)
    BY <1>0, <2>2, IdsOf
  <2> QED BY <1>2, <1>7, <1>10, <2>1, <2>2, <2>3, Zenon
<1>12. Settles(K, <<f>> \o stack, handler_stack', retry_stack, d)
  BY <1>2, <1>4, <1>6, <1>9, <1>11, Pushed
<1>13. Placed(K, Code(d.lex), <<f>> \o stack, handler_stack', retry_stack)
  BY <1>6, <1>12, Admits
<1>14. Placed(K, signal', stack', handler_stack', retry_stack')
  BY <1>0, <1>6, <1>10, <1>13
<1> QED BY <1>0, <1>14, StaysHere

\* A new attempt.
LEMMA AttemptPlaced ==
  ASSUME MachineInv, NEW K, NEW m, NEW n \in Nat, NEW lex \in Seq(LexEntries), NEW below, NEW outer,
         Fits(K, below, m, Bottom), m.mode # "answer", m.lex = lex, m.scopes = Ids(handler_stack), m.retries = outer,
         StartAttempt(n, lex, below, outer), handler_stack' = handler_stack
  PROVE  Placed(K, signal', stack', handler_stack', retry_stack')
<1>0. next_retry \in Nat /\ Context(m)
  BY StackTypes, FitsTypes
<1>1. PICK f, d : f = RetryAttempt(next_retry, n + 1, lex) /\ d = Trying(f, m)
  OBVIOUS
<1>2. Built(<<f>>) /\ f.k = "Retry" /\ f.lex = m.lex /\ f.id = next_retry /\ f.id \in Nat
  <2>1. f = RetryAttempt(next_retry, n + 1, lex) /\ n + 1 \in Nat
    BY <1>1
  <2>2. Built(<<f>>)
    BY <1>0, <2>1, MakeLeaf
  <2> QED BY <1>0, <2>1, <2>2 DEF RetryAttempt
<1>3. Step(K, f, d, m)
  BY <1>0, <1>1, <1>2, MakeStep
<1>4. Context(d) /\ d.scopes = m.scopes /\ d.mode = "code" /\ d.lex = Enter("retry", m.lex)
  <2>1. Context(d)
    BY <1>0, <1>1, <1>2, Contexts
  <2> QED BY <1>0, <1>1, <1>2, <2>1, AttemptTop
<1>5. d.retries = <<next_retry>> \o outer
  BY <1>0, <1>1, <1>2, AttemptTop
<1>6. stack' = <<f>> \o below /\ signal' = Code(d.lex) /\ d.retries = retry_stack'
  BY <1>1, <1>4, <1>5 DEF StartAttempt
<1>7. Settles(K, <<f>> \o below, handler_stack, retry_stack', d)
  BY <1>2, <1>3, <1>4, <1>6, Pushed
<1>8. Placed(K, Code(d.lex), <<f>> \o below, handler_stack, retry_stack')
  BY <1>4, <1>7, Admits
<1> QED BY <1>6, <1>8

\* The retry form.
LEMMA RetryPlaced ==
  ASSUME MachineInv, Here, EvalRetry PROVE Here'
<1>0. /\ signal.k = "Code" /\ UNCHANGED <<handler_stack, arena>> /\ signal.lex \in Seq(LexEntries)
  BY Carries DEF EvalRetry, Evaluates
<1>1. PICK c : Settles(KeptOf(arena), stack, handler_stack, retry_stack, c) /\ c.lex = signal.lex /\ c.mode # "answer"
  BY <1>0, CodeAt
<1>2. StartAttempt(0, signal.lex, stack, retry_stack) /\ 0 \in Nat
  BY DEF EvalRetry
<1>3. Placed(KeptOf(arena), signal', stack', handler_stack', retry_stack')
  BY <1>0, <1>1, <1>2, AttemptPlaced DEF Settles
<1> QED BY <1>0, <1>3, StaysHere

\* A request that leaves no attempt.
LEMMA PerformsPlaced ==
  ASSUME MachineInv, Here, HostRaises \/ \E on \in Actions \cup {Error} : EvalPerform(on), ~crossed'
  PROVE  Here'
<1> DEFINE K == KeptOf(arena)
<1>0. UNCHANGED <<stack, handler_stack, retry_stack, arena>>
  BY DEF HostRaises, EvalPerform
<1>1. ASSUME NEW on, ~LeavesRetry(on), (on = Error \/ \E i \in DOMAIN handler_stack : handler_stack[i].on = on)
      PROVE  NoRetryFirst(stack, on)
  BY <1>1 DEF LeavesRetry, NoRetryFirst
<1>2. Flat(<<>>) /\ ScopeOrder(<<>>) = <<>> /\ RetryOrder(<<>>) = <<>> /\ \A i \in DOMAIN <<>> : <<>>[i].k # "Try"
  BY OrderNil DEF Flat
<1>3. ASSUME NEW c, Settles(K, stack, handler_stack, retry_stack, c), ~LeavesRetry(Error), signal' = Perform(Error, <<>>)
      PROVE  Here'
  <2>1. Raised(K, <<>>, stack, handler_stack, retry_stack)
    BY <1>1, <1>2, <1>3 DEF Raised
  <2>2. Placed(K, Perform(Error, <<>>), stack, handler_stack, retry_stack)
    BY <2>1 DEF Placed, Perform
  <2> QED BY <1>0, <1>3, <2>2, StaysHere
<1>4. CASE HostRaises
  <2>1. PICK c : Settles(K, stack, handler_stack, retry_stack, c)
    BY <1>4 DEF HostRaises, Here, Placed
  <2>2. ~LeavesRetry(Error)
    BY <1>4 DEF HostRaises, Crosses
  <2> QED BY <1>3, <1>4, <2>1, <2>2 DEF HostRaises
<1>5. ASSUME NEW on \in Actions \cup {Error}, EvalPerform(on) PROVE Here'
  <2>1. signal.k = "Code" /\ ~LeavesRetry(on) /\ (ErrorArmEnds => on = Error) /\ signal' = Perform(on, <<>>)
    BY <1>5 DEF EvalPerform, Evaluates, Crosses
  <2>2. PICK c : Settles(K, stack, handler_stack, retry_stack, c) /\ Context(c) /\ c.mode # "answer" /\ (~ErrorArmEnds => c.mode = "code")
    BY <2>1, CodeAt
  <2>3. CASE on = Error
    BY <1>3, <2>1, <2>2, <2>3
  <2>4. CASE on # Error
    <3>1. Fits(K, <<>>, c, c) /\ c.mode # "tail"
      BY <2>1, <2>2, <2>4, FitsNil
    <3>2. (\E i \in DOMAIN handler_stack : handler_stack[i].on = on) => NoRetryFirst(stack, on)
      BY <1>1, <2>1
    <3>3. Forwarded(K, on, <<>>, stack, handler_stack, retry_stack)
      BY <1>2, <2>2, <3>1, <3>2 DEF Forwarded
    <3>4. Placed(K, Perform(on, <<>>), stack, handler_stack, retry_stack)
      BY <2>4, <3>3 DEF Placed, Perform
    <3> QED BY <1>0, <2>1, <3>4, StaysHere
  <2> QED BY <2>3, <2>4
<1> QED BY <1>4, <1>5

\* An exit that leaves no attempt reaches the arm it is in.
LEMMA ResumeReaches ==
  ASSUME NEW lex \in Seq(LexEntries), Enclosing(lex, Arms), ~("errorarm" \in Left(lex, {"arm"})), ~("retry" \in Left(lex, Arms))
  PROVE  ResumeOK(lex)
<1>1. PICK T : T = {i \in DOMAIN lex : lex[i].c \in Arms}
  OBVIOUS
<1>2. T \in SUBSET Nat /\ T # {} /\ DOMAIN lex = 1..Len(lex)
  BY <1>1 DEF Enclosing
<1>3. PICK j \in T : \A y \in T : j <= y
  BY <1>2, LeastNat
<1>4. \A i \in DOMAIN lex : lex[i].c \in {"handle", "retry", "loop", "arm", "errorarm"}
  BY DEF LexEntries
<1>5. \A i \in 1..(j - 1) : i \in DOMAIN lex /\ lex[i].c \notin Arms
  BY <1>1, <1>2, <1>3
<1>6. ASSUME NEW i \in 1..(j - 1) PROVE lex[i].c \in {"handle", "loop"}
  <2>1. \A m \in 1..i : lex[m].c \notin Arms
    BY <1>2, <1>3, <1>5
  <2>2. lex[i].c \in Left(lex, Arms)
    BY <1>5, <2>1 DEF Left
  <2> QED BY <1>4, <1>5, <2>2 DEF Arms
<1>7. lex[j].c = "arm"
  <2>1. lex[j].c = "errorarm" => lex[j].c \in Left(lex, {"arm"})
    <3>1. lex[j].c = "errorarm" => \A m \in 1..j : lex[m].c \notin {"arm"}
      <4>1. \A m \in 1..j : m = j \/ m \in 1..(j - 1)
        BY <1>2, <1>3
      <4> QED BY <1>5, <4>1 DEF Arms
    <3> QED BY <1>1, <1>3, <3>1 DEF Left
  <2> QED BY <1>1, <1>3, <2>1 DEF Arms
<1> QED BY <1>1, <1>3, <1>6, <1>7 DEF ResumeOK

\* The exits of an arm and of a loop.
LEMMA ExitsPlaced ==
  ASSUME MachineInv, Here, ~crossed',
         \/ \E exit \in {"resume", "finish"} : EvalArmExit(exit)
         \/ \E k \in {"Break", "Continue"} : EvalLoopControl(k)
  PROVE  Here'
<1> DEFINE K == KeptOf(arena)
<1>0. UNCHANGED <<stack, handler_stack, retry_stack, arena>> /\ signal.k = "Code"
  BY DEF EvalArmExit, EvalLoopControl, Evaluates
<1>1. PICK c : Settles(K, stack, handler_stack, retry_stack, c) /\ Context(c) /\ c.lex = signal.lex /\ c.mode # "answer"
  BY <1>0, CodeAt
<1>2. signal.lex \in Seq(LexEntries)
  BY <1>0, Carries
<1>3. ASSUME NEW exit \in {"resume", "finish"}, EvalArmExit(exit) PROVE Here'
  <2>1. ~("retry" \in Left(signal.lex, Arms))
    BY <1>3 DEF EvalArmExit, Crosses
  <2>2. exit = "resume" => ResumeOK(signal.lex)
    BY <1>2, <1>3, <2>1, ResumeReaches DEF EvalArmExit
  <2>3. (signal' = Sig("Resume") /\ exit = "resume") \/ signal' = Sig("Finish")
    BY <1>3 DEF EvalArmExit
  <2>4. Placed(K, signal', stack, handler_stack, retry_stack)
    BY <1>1, <2>2, <2>3, Admits
  <2> QED BY <1>0, <2>4, StaysHere
<1>4. ASSUME NEW k \in {"Break", "Continue"}, EvalLoopControl(k) PROVE Here'
  <2>1. Left(signal.lex, {"loop"}) \cap ({"handle", "retry"} \cup Arms) = {} /\ Enclosing(signal.lex, {"loop"}) /\ signal' = Sig(k)
    BY <1>4 DEF EvalLoopControl, Crosses
  <2>2. 1 \in DOMAIN signal.lex /\ signal.lex # <<>> /\ signal.lex[1] \in LexEntries
    BY <1>2, <2>1 DEF Enclosing
  <2>3. signal.lex[1].c = "loop"
    <3>1. signal.lex[1].c # "loop" => signal.lex[1].c \in Left(signal.lex, {"loop"})
      BY <2>2 DEF Left
    <3> QED BY <2>1, <2>2, <3>1 DEF LexEntries, Arms
  <2>4. Placed(K, signal', stack, handler_stack, retry_stack)
    BY <1>1, <2>1, <2>2, <2>3, Admits
  <2> QED BY <1>0, <2>4, StaysHere
<1> QED BY <1>3, <1>4

\* The context below the top frame.
LEMMA TopAt ==
  ASSUME NEW K, NEW hs, NEW rs, NEW c, Settles(K, stack, hs, rs, c), stack # <<>>
  PROVE  /\ Built(<<Top>>) /\ Built(Below) /\ Context(c) /\ stack = <<Top>> \o Below
         /\ \E m : /\ Context(m) /\ Step(K, Top, c, m) /\ Fits(K, Below, m, Bottom) /\ m.mode # "answer"
                   /\ (Top.k \notin {"Handle", "Retry"} => Settles(K, Below, hs, rs, m))
<1>1. /\ Built(<<Top>>) /\ Built(Below) /\ Context(c) /\ stack = <<Top>> \o Below
  BY Popped DEF Top, Below
<1>2. PICK m : Context(m) /\ Step(K, Top, c, m) /\ Fits(K, Below, m, Bottom)
  BY Popped DEF Top, Below
<1>3. m.mode # "answer"
  BY <1>2, StepKinds
<1>4. Top.k \notin {"Handle", "Retry"} => Settles(K, Below, hs, rs, m)
  BY <1>2, StepFlat DEF Settles
<1> QED BY <1>1, <1>2, <1>3, <1>4

\* What follows a resume, and what it may pass.
LEMMA ResumeShift ==
  ASSUME NEW l \in Seq(LexEntries), ResumeOK(l)
  PROVE  /\ l # <<>> /\ l[1].c \in {"arm", "handle", "loop"} /\ (l[1].c # "arm" => ResumeOK(Tail(l)))
<1>1. PICK j \in DOMAIN l : l[j].c = "arm" /\ \A i \in 1..(j - 1) : l[i].c \in {"handle", "loop"}
  BY DEF ResumeOK
<1>2. DOMAIN l = 1..Len(l) /\ Len(l) \in Nat /\ l # <<>>
  BY <1>1
<1>3. l[1].c \in {"arm", "handle", "loop"}
  <2>1. CASE j = 1
    BY <1>1, <2>1
  <2>2. CASE j # 1
    <3>1. 1 \in 1..(j - 1)
      BY <1>2, <2>2
    <3> QED BY <1>1, <3>1
  <2> QED BY <2>1, <2>2
<1>4. ASSUME l[1].c # "arm" PROVE ResumeOK(Tail(l))
  <2>1. PICK t : t = Tail(l)
    OBVIOUS
  <2>2. Len(t) = Len(l) - 1 /\ DOMAIN t = 1..Len(t) /\ \A i \in 1..Len(t) : t[i] = l[i + 1]
    BY <1>2, <2>1
  <2>3. j # 1
    BY <1>1, <1>4
  <2>4. PICK k \in Nat : k = j - 1 /\ k \in 1..Len(t) /\ k + 1 = j
    BY <1>2, <2>2, <2>3
  <2>5. t[k].c = "arm"
    BY <1>1, <2>2, <2>4
  <2>6. ASSUME NEW i \in 1..(k - 1) PROVE t[i].c \in {"handle", "loop"}
    <3>1. i \in 1..Len(t) /\ i + 1 \in 1..(j - 1)
      BY <1>2, <2>2, <2>4
    <3> QED BY <1>1, <2>2, <3>1
  <2>7. ResumeOK(t)
    BY <2>2, <2>4, <2>5, <2>6 DEF ResumeOK
  <2> QED BY <2>1, <2>7
<1> QED BY <1>2, <1>3, <1>4

\* A frame of each kind has a first lexical entry of its own.
LEMMA StepLex ==
  ASSUME NEW K, NEW f, NEW c, NEW m, Step(K, f, c, m), Built(<<f>>), Context(m), c.mode # "answer"
  PROVE  /\ f.k # "Reenter"
         /\ (f.k \in {"Next", "Try"} => c.lex = m.lex)
         /\ (f.k = "Loop" => c.lex[1].c = "loop" /\ Tail(c.lex) = m.lex /\ m.mode = "code")
         /\ (f.k = "Retry" => c.lex[1].c = "retry")
         /\ (f.k = "Dispatch" => c.lex[1].c \in Arms)
         /\ (f.k = "Handle" => c.lex[1].c \in {"handle"} \cup Arms)
         /\ (f.k = "Handle" /\ f.inner.frames = <<>> => c = Inside(f, m) /\ c.lex[1].c = "handle" /\ Tail(c.lex) = m.lex)
<1>0. m.lex \in Seq(LexEntries)
  BY DEF Context
<1>1. f.k # "Reenter"
  BY StepKinds, SamePlace DEF At, Ctx
<1>2. f.k \in {"Next", "Try"} => c.lex = m.lex
  BY StepKinds DEF At, Ctx
<1>3. f.k = "Loop" => c.lex[1].c = "loop" /\ Tail(c.lex) = m.lex /\ m.mode = "code"
  <2>1. f.k = "Loop" => c.lex = Enter("loop", m.lex) /\ m.mode = "code"
    BY StepKinds DEF At, Ctx
  <2>2. \A x \in Seq(LexEntries) : Enter("loop", x)[1].c = "loop" /\ Tail(Enter("loop", x)) = x
    BY LexTop
  <2> QED BY <1>0, <2>1, <2>2
<1>4. f.k = "Retry" => c.lex[1].c = "retry"
  <2>1. f.k = "Retry" => c.lex = Enter("retry", m.lex)
    <3>1. f.k = "Retry" => c = Trying(f, m)
      BY StepKinds
    <3>2. Trying(f, m).lex = Enter("retry", m.lex)
      BY DEF Trying, Ctx
    <3> QED BY <3>1, <3>2
  <2> QED BY <1>0, <2>1, LexTop
<1>5. f.k = "Dispatch" => c.lex[1].c \in Arms
  BY StepDispatch DEF Arms
<1>6. f.k = "Handle" /\ f.inner.frames = <<>> => c = Inside(f, m) /\ c.lex[1].c = "handle" /\ Tail(c.lex) = m.lex
  <2> SUFFICES ASSUME f.k = "Handle", f.inner.frames = <<>> PROVE c = Inside(f, m) /\ c.lex[1].c = "handle" /\ Tail(c.lex) = m.lex
    OBVIOUS
  <2>1. Simple(f.inner.frames)
    BY DEF Simple
  <2>2. PICK d : Fits(K, f.inner.frames, d, Inside(f, m)) /\ c = d
    BY <2>1, StepHandle
  <2>3. c = Inside(f, m)
    BY <2>2, FitsTypes
  <2>4. c.lex = Enter("handle", m.lex)
    BY <2>3 DEF Inside, Ctx
  <2> QED BY <1>0, <2>3, <2>4, LexTop
<1>7. ASSUME f.k = "Handle", f.inner.frames # <<>> PROVE c.lex[1].c \in Arms
  <2>1. Simple(f.inner.frames)
    BY <1>7, StepHandle
  <2>2. PICK g : g.k = "Dispatch" /\ Step(K, g, c, Inside(f, m)) /\ Context(Inside(f, m))
    BY <1>7, <2>1, StepOwned
  <2> QED BY <2>2, StepDispatch DEF Arms
<1> QED BY <1>1, <1>2, <1>3, <1>4, <1>5, <1>6, <1>7

\* What the frames that pass a signal on do to it.
LEMMA PropagatePlaced ==
  ASSUME MachineInv, Here, Propagate PROVE Here'
<1> DEFINE K == KeptOf(arena)
<1>0. stack # <<>> /\ stack' = Below /\ signal' = signal /\ UNCHANGED <<handler_stack, retry_stack, arena>>
  BY DEF Propagate, PassOn
<1>2. CASE signal.k = "Value"
  <2>0. Top.k = "Try"
    BY <1>2 DEF Propagate, PassOn
  <2>1. PICK c : Settles(K, stack, handler_stack, retry_stack, c) /\ c.mode # "tail"
    BY <1>2 DEF Here, Placed
  <2>2. PICK m : Step(K, Top, c, m) /\ Settles(K, Below, handler_stack, retry_stack, m)
    BY <1>0, <2>0, <2>1, TopAt
  <2>3. m.mode = "code"
    BY <2>0, <2>2, StepKinds
  <2>4. Placed(K, signal, Below, handler_stack, retry_stack)
    BY <1>2, <2>2, <2>3 DEF Placed
  <2> QED BY <1>0, <2>4, StaysHere
<1>3. CASE signal.k \in {"Return", "Finish"}
  <2>0. Top.k \in {"Next", "Dispatch", "Reenter", "Loop", "Try"}
    BY <1>3 DEF Propagate, PassOn
  <2>1. PICK c : Settles(K, stack, handler_stack, retry_stack, c)
    BY <1>3 DEF Here, Placed
  <2>2. PICK m : Settles(K, Below, handler_stack, retry_stack, m) /\ m.mode # "answer"
    BY <1>0, <2>0, <2>1, TopAt
  <2>4. Placed(K, signal, Below, handler_stack, retry_stack)
    BY <1>3, <2>2 DEF Placed
  <2> QED BY <1>0, <2>4, StaysHere
<1>4. CASE signal.k = "Resume"
  <2>0. Top.k \in {"Next", "Reenter", "Retry", "Loop", "Try"}
    BY <1>4 DEF Propagate, PassOn
  <2>1. PICK c : Settles(K, stack, handler_stack, retry_stack, c) /\ c.mode # "answer" /\ ResumeOK(c.lex)
    BY <1>4 DEF Here, Placed
  <2>2. PICK m : /\ Context(m) /\ Step(K, Top, c, m) /\ m.mode # "answer" /\ Built(<<Top>>) /\ Context(c)
                 /\ (Top.k \notin {"Handle", "Retry"} => Settles(K, Below, handler_stack, retry_stack, m))
    BY <1>0, <2>1, TopAt
  <2>3. c.lex \in Seq(LexEntries)
    BY <2>2 DEF Context
  <2>4. c.lex[1].c \in {"arm", "handle", "loop"} /\ (c.lex[1].c # "arm" => ResumeOK(Tail(c.lex)))
    BY <2>1, <2>3, ResumeShift
  <2>5. Top.k \notin {"Reenter", "Retry"} /\ (Top.k \in {"Next", "Try"} => c.lex = m.lex)
        /\ (Top.k = "Loop" => c.lex[1].c = "loop" /\ Tail(c.lex) = m.lex)
    BY <2>1, <2>2, <2>4, StepLex
  <2>6. ResumeOK(m.lex)
    BY <2>0, <2>1, <2>4, <2>5
  <2>7. Settles(K, Below, handler_stack, retry_stack, m)
    BY <2>0, <2>2, <2>5
  <2>8. Placed(K, signal, Below, handler_stack, retry_stack)
    BY <1>4, <2>2, <2>6, <2>7 DEF Placed
  <2> QED BY <1>0, <2>8, StaysHere
<1>5. CASE signal.k \in {"Break", "Continue"}
  <2>0. Top.k \in {"Next", "Handle", "Dispatch", "Reenter", "Retry", "Try"}
    BY <1>5 DEF Propagate, PassOn
  <2>1. PICK c : Settles(K, stack, handler_stack, retry_stack, c) /\ c.mode # "answer" /\ c.lex # <<>> /\ c.lex[1].c = "loop"
    BY <1>5 DEF Here, Placed
  <2>2. PICK m : /\ Context(m) /\ Step(K, Top, c, m) /\ m.mode # "answer" /\ Built(<<Top>>) /\ Context(c)
                 /\ (Top.k \notin {"Handle", "Retry"} => Settles(K, Below, handler_stack, retry_stack, m))
    BY <1>0, <2>1, TopAt
  <2>3. Top.k \in {"Next", "Try"} /\ c.lex = m.lex
    BY <2>0, <2>1, <2>2, StepLex DEF Arms
  <2>4. Placed(K, signal, Below, handler_stack, retry_stack)
    BY <1>5, <2>1, <2>2, <2>3 DEF Placed
  <2> QED BY <1>0, <2>4, StaysHere
<1> QED BY <1>2, <1>3, <1>4, <1>5 DEF Propagate

\* Frames that end with a value or go on with more code.
LEMMA LeavesPlaced ==
  ASSUME MachineInv, Here, LeaveCall \/ ContinueBlock \/ BreakLoop PROVE Here'
<1> DEFINE K == KeptOf(arena)
<1>0. /\ stack # <<>> /\ stack' = Below /\ UNCHANGED <<handler_stack, retry_stack, arena>> /\ Top.k \in {"Call", "Next", "Loop"}
      /\ signal.k \in {"Value", "Return", "Resume", "Finish", "Break"}
  BY DEF LeaveCall, ContinueBlock, BreakLoop, Delivers
<1>1. PICK c : Settles(K, stack, handler_stack, retry_stack, c)
  BY <1>0 DEF Here, Placed
<1>2. PICK m : Step(K, Top, c, m) /\ m.mode # "answer" /\ Settles(K, Below, handler_stack, retry_stack, m)
  BY <1>0, <1>1, TopAt
<1>3. (Top.k \in {"Call", "Loop"} => m.mode = "code") /\ (Top.k = "Next" => Top.lex = m.lex)
  BY <1>2, StepKinds
<1>4. CASE signal' = Sig("Value") /\ Top.k \in {"Call", "Loop"}
  <2>1. Placed(K, Sig("Value"), Below, handler_stack, retry_stack)
    BY <1>2, <1>3, <1>4, Admits
  <2> QED BY <1>0, <1>4, <2>1, StaysHere
<1>5. CASE signal' = Code(Top.lex) /\ Top.k = "Next"
  <2>1. Placed(K, Code(m.lex), Below, handler_stack, retry_stack)
    BY <1>2, Admits
  <2> QED BY <1>0, <1>3, <1>5, <2>1, StaysHere
<1> QED BY <1>4, <1>5 DEF LeaveCall, ContinueBlock, BreakLoop, Delivers

\* In a place, the loop that a break or continue leaves is still there.
LEMMA EscapePlaced ==
  ASSUME MachineInv, Here, LoopControlEscapes PROVE FALSE
<1> DEFINE K == KeptOf(arena)
<1>1. PICK c : Settles(K, stack, handler_stack, retry_stack, c) /\ c.lex # <<>> /\ c.lex[1].c = "loop"
  BY DEF LoopControlEscapes, Here, Placed
<1>2. stack # <<>>
  <2>1. stack = <<>> => c = Bottom
    BY <1>1, FitsTypes DEF Settles
  <2> QED BY <1>1, <2>1 DEF Bottom, Ctx
<1>3. PICK m : Step(K, Top, c, m)
  BY <1>1, <1>2, TopAt
<1>4. Top.k = "Call"
  BY <1>2 DEF LoopControlEscapes
<1>5. c = At(m, <<>>, "code")
  BY <1>3, <1>4, StepKinds
<1>6. c.lex = <<>>
  BY <1>5 DEF At, Ctx
<1> QED BY <1>1, <1>6

\* The frame of a loop with other counts.
LEMMA LoopFrame ==
  ASSUME NEW f, Built(<<f>>), f.k = "Loop"
  PROVE  /\ Built(<<[f EXCEPT !.afterBody = FALSE]>>) /\ Built(<<[f EXCEPT !.afterBody = TRUE, !.left = @ - 1]>>)
         /\ [f EXCEPT !.afterBody = FALSE].k = "Loop" /\ [f EXCEPT !.afterBody = FALSE].lex = f.lex
         /\ [f EXCEPT !.afterBody = TRUE, !.left = @ - 1].k = "Loop" /\ [f EXCEPT !.afterBody = TRUE, !.left = @ - 1].lex = f.lex
<1>1. PICK n, c, l : n = f.left /\ c = f.afterBody /\ l = f.lex
  OBVIOUS
<1>2. f = Loop(n, c, l) /\ l \in Seq(LexEntries)
  BY <1>1, LeafFrame DEF Boundaries
<1>3. [f EXCEPT !.afterBody = FALSE] = Loop(n, FALSE, l)
  <2>1. \A b : [f EXCEPT !.afterBody = b] = Loop(n, b, l)
    BY <1>2 DEF Loop
  <2> QED BY <2>1, Zenon
<1>4. [f EXCEPT !.afterBody = TRUE, !.left = @ - 1] = Loop(n - 1, TRUE, l)
  <2>1. PICK b, m, g : b = TRUE /\ m = n - 1 /\ g = [f EXCEPT !.afterBody = b]
    OBVIOUS
  <2>2. g = Loop(n, b, l) /\ f.left = n
    BY <1>2, <2>1 DEF Loop
  <2>3. [g EXCEPT !.left = m] = Loop(m, b, l)
    BY <2>2 DEF Loop
  <2>4. [f EXCEPT !.afterBody = TRUE, !.left = @ - 1] = [g EXCEPT !.left = m]
    BY <2>1, <2>2, Zenon
  <2> QED BY <2>1, <2>3, <2>4, Zenon
<1>5. \A i, b : Built(<<Loop(i, b, l)>>) /\ Loop(i, b, l).k = "Loop" /\ Loop(i, b, l).lex = l
  <2> SUFFICES ASSUME NEW i, NEW b PROVE Built(<<Loop(i, b, l)>>) /\ Loop(i, b, l).k = "Loop" /\ Loop(i, b, l).lex = l
    OBVIOUS
  <2>1. PICK g : g = Loop(i, b, l)
    OBVIOUS
  <2>2. Built(<<g>>)
    BY <1>2, <2>1, MakeLeaf
  <2>3. g.k = "Loop" /\ g.lex = l
    BY <2>1 DEF Loop
  <2> QED BY <2>1, <2>2, <2>3
<1>6. PICK g, h : g = [f EXCEPT !.afterBody = FALSE] /\ h = [f EXCEPT !.afterBody = TRUE, !.left = @ - 1]
  OBVIOUS
<1>7. g = Loop(n, FALSE, l) /\ h = Loop(n - 1, TRUE, l)
  BY <1>3, <1>4, <1>6, Zenon
<1>8. Built(<<g>>) /\ g.k = "Loop" /\ g.lex = f.lex
  BY <1>1, <1>5, <1>7
<1>9. Built(<<h>>) /\ h.k = "Loop" /\ h.lex = f.lex
  BY <1>1, <1>5, <1>7
<1> QED BY <1>6, <1>8, <1>9, Zenon

\* The next condition, the next iteration, or the end of a loop.
LEMMA LoopPlaced ==
  ASSUME MachineInv, Here, ContinueLoop PROVE Here'
<1> DEFINE K == KeptOf(arena)
<1>0. stack # <<>> /\ UNCHANGED <<handler_stack, retry_stack, arena>> /\ Top.k = "Loop" /\ signal.k \in {"Value", "Continue"}
  BY DEF ContinueLoop, Delivers
<1>1. PICK c : Settles(K, stack, handler_stack, retry_stack, c)
  BY <1>0 DEF Here, Placed
<1>2. PICK m : Step(K, Top, c, m) /\ m.mode # "answer" /\ Settles(K, Below, handler_stack, retry_stack, m) /\ Context(m) /\ Built(<<Top>>)
  BY <1>0, <1>1, TopAt
<1>3. m.mode = "code" /\ Top.lex = m.lex /\ c = At(m, Enter("loop", m.lex), "code")
  BY <1>0, <1>2, StepKinds
<1>4. Context(c) /\ c.scopes = m.scopes /\ c.retries = m.retries /\ c.mode = "code" /\ c.lex = Enter("loop", m.lex)
  <2>1. Enter("loop", m.lex) \in Seq(LexEntries)
    BY <1>2, Contexts
  <2> QED BY <1>2, <1>3, <2>1, SamePlace
<1>5. ASSUME NEW g, Built(<<g>>), g.k = "Loop", g.lex = Top.lex PROVE Settles(K, <<g>> \o Below, handler_stack, retry_stack, c)
  <2>1. Step(K, g, c, m)
    BY <1>2, <1>3, <1>5, MakeStep
  <2>2. Fits(K, Below, m, Bottom) /\ c.scopes = Ids(handler_stack) /\ c.retries = retry_stack
    BY <1>2, <1>4 DEF Settles
  <2> QED BY <1>4, <1>5, <2>1, <2>2, Pushed
<1>6. CASE stack' = <<[Top EXCEPT !.afterBody = FALSE]>> \o Below /\ signal' = Sig("Value")
  <2>1. PICK g : g = [Top EXCEPT !.afterBody = FALSE]
    OBVIOUS
  <2>2. Built(<<g>>) /\ g.k = "Loop" /\ g.lex = Top.lex
    BY <1>0, <1>2, <2>1, LoopFrame
  <2>3. Placed(K, Sig("Value"), <<g>> \o Below, handler_stack, retry_stack)
    BY <1>4, <1>5, <2>2, Admits
  <2> QED BY <1>0, <1>6, <2>1, <2>3, StaysHere
<1>7. CASE stack' = <<[Top EXCEPT !.afterBody = TRUE, !.left = @ - 1]>> \o Below /\ signal' = Code(Enter("loop", Top.lex))
  <2>1. PICK g : g = [Top EXCEPT !.afterBody = TRUE, !.left = @ - 1]
    OBVIOUS
  <2>2. Built(<<g>>) /\ g.k = "Loop" /\ g.lex = Top.lex
    BY <1>0, <1>2, <2>1, LoopFrame
  <2>3. Placed(K, Code(c.lex), <<g>> \o Below, handler_stack, retry_stack)
    BY <1>4, <1>5, <2>2, Admits
  <2>4. signal' = Code(c.lex) /\ stack' = <<g>> \o Below
    BY <1>3, <1>4, <1>7, <2>1, Zenon
  <2> QED BY <1>0, <2>3, <2>4, StaysHere
<1>8. CASE stack' = Below /\ signal' = Sig("Value")
  <2>1. Placed(K, Sig("Value"), Below, handler_stack, retry_stack)
    BY <1>2, <1>3, Admits
  <2> QED BY <1>0, <1>8, <2>1, StaysHere
<1> QED BY <1>6, <1>7, <1>8 DEF ContinueLoop

\* The end of an attempt.
LEMMA AttemptEnds ==
  ASSUME MachineInv, NEW K, NEW c, NEW m, NEW f, Step(K, f, c, m), f.k = "Retry", Built(<<f>>), Context(m),
         c.scopes = Ids(handler_stack), c.retries = retry_stack
  PROVE  m.scopes = Ids(handler_stack) /\ m.retries = PopRetry(f.id) /\ f.lex = m.lex /\ m.mode # "answer"
         /\ f.id \in Nat /\ f.next \in Nat /\ f.lex \in Seq(LexEntries)
<1>1. c = Trying(f, m) /\ f.lex = m.lex /\ m.mode # "answer"
  BY StepKinds
<1>2. f.id \in Nat /\ f.next \in Nat /\ f.lex \in Seq(LexEntries)
  BY LeafFrame DEF Boundaries
<1>3. c.scopes = m.scopes /\ c.retries = <<f.id>> \o m.retries
  BY <1>1, <1>2, AttemptTop
<1>4. PICK r, x : r = m.retries /\ x = f.id
  OBVIOUS
<1>5. r \in Seq(Nat) /\ x \in Nat /\ retry_stack = <<x>> \o r
  BY <1>2, <1>3, <1>4 DEF Context
<1>6. <<x>> \o r # <<>> /\ (<<x>> \o r)[1] = x /\ Tail(<<x>> \o r) = r
  BY <1>5, OnTop
<1>7. PopRetry(x) = r
  BY <1>5, <1>6 DEF PopRetry
<1> QED BY <1>1, <1>2, <1>3, <1>4, <1>7

\* An attempt that succeeds, or is left.
LEMMA FinishRetryPlaced ==
  ASSUME MachineInv, Here, FinishRetryAttempt PROVE Here'
<1> DEFINE K == KeptOf(arena)
<1>0. /\ stack # <<>> /\ UNCHANGED <<handler_stack, arena>> /\ Top.k = "Retry" /\ signal.k \in {"Value", "Return", "Finish"}
      /\ stack' = Below /\ retry_stack' = PopRetry(Top.id) /\ signal' = IF signal.k = "Value" THEN Code(Top.lex) ELSE signal
  BY DEF FinishRetryAttempt
<1>1. PICK c : Settles(K, stack, handler_stack, retry_stack, c)
  BY <1>0 DEF Here, Placed
<1>2. PICK m : Step(K, Top, c, m) /\ Fits(K, Below, m, Bottom) /\ Context(m) /\ Built(<<Top>>)
  BY <1>0, <1>1, TopAt
<1>3. m.scopes = Ids(handler_stack) /\ m.retries = PopRetry(Top.id) /\ Top.lex = m.lex /\ m.mode # "answer"
  BY <1>0, <1>1, <1>2, AttemptEnds DEF Settles
<1>4. Settles(K, Below, handler_stack, retry_stack', m)
  BY <1>0, <1>2, <1>3 DEF Settles
<1>5. Placed(K, signal', Below, handler_stack, retry_stack')
  <2>1. CASE signal.k = "Value"
    <3>1. Placed(K, Code(m.lex), Below, handler_stack, retry_stack')
      BY <1>3, <1>4, Admits
    <3> QED BY <1>0, <1>3, <2>1, <3>1
  <2>2. CASE signal.k # "Value"
    <3>1. Placed(K, signal, Below, handler_stack, retry_stack')
      BY <1>0, <1>3, <1>4, <2>2 DEF Placed
    <3> QED BY <1>0, <2>2, <3>1
  <2> QED BY <2>1, <2>2
<1> QED BY <1>0, <1>5, StaysHere

\* A boundary with other frames above its own part.
LEMMA MakeBoundary ==
  ASSUME NEW K, NEW f, NEW s, NEW d, NEW m, Built(<<f>>), f.k \in Boundaries, Bounds(f, m), Context(m), Flat(s),
         ScopeOrder(s) = <<>>, RetryOrder(s) = <<>>, Fits(K, s, d, Inside(f, m))
  PROVE  /\ Built(<<Owning(f, s)>>) /\ Built(<<Suspended(f, s)>>)
         /\ (Simple(s) => Step(K, Owning(f, s), d, m))
         /\ (~Simple(s) /\ d.mode # "tail" => Step(K, Owning(f, s), At(d, d.lex, "answer"), m))
         /\ (d.mode # "tail" => Step(K, Suspended(f, s), At(m, m.lex, "answer"), m))
<1>0. Built(s)
  BY FitsTypes
<1>1. PICK g, h : g = Owning(f, s) /\ h = Suspended(f, s)
  OBVIOUS
<1>2. /\ Built(<<g>>) /\ g.k = "Handle" /\ g.inner.frames = s /\ g.scope = f.scope /\ g.on = f.on /\ g.lex = f.lex
      /\ g.inner.scopes = ScopeOrder(s) /\ g.inner.retries = RetryOrder(s)
  BY <1>0, <1>1, Owns
<1>3. /\ Built(<<h>>) /\ h.k = "Reenter" /\ h.inner.frames = s /\ h.scope = f.scope /\ h.on = f.on /\ h.lex = f.lex
      /\ h.inner.scopes = ScopeOrder(s) /\ h.inner.retries = RetryOrder(s)
  BY <1>0, <1>1, Suspends
<1>4. Inside(g, m) = Inside(f, m) /\ Inside(h, m) = Inside(f, m) /\ m.mode = "code"
  BY <1>2, <1>3 DEF Inside, Bounds
<1>5. Bounds(g, m)
  BY <1>2 DEF Bounds
<1>6. Bounds(h, m)
  BY <1>3 DEF Bounds
<1>7. Fits(K, g.inner.frames, d, Inside(g, m)) /\ Fits(K, h.inner.frames, d, Inside(h, m))
  BY <1>2, <1>3, <1>4
<1>8. Simple(s) => Step(K, g, d, m)
  BY <1>2, <1>4, <1>5, <1>7 DEF Step, Rule
<1>9. ~Simple(s) /\ d.mode # "tail" => Step(K, g, At(d, d.lex, "answer"), m)
  BY <1>2, <1>4, <1>5, <1>7 DEF Step, Rule
<1>10. d.mode # "tail" => Step(K, h, At(m, m.lex, "answer"), m)
  BY <1>3, <1>4, <1>6, <1>7 DEF Step, Rule
<1> QED BY <1>1, <1>2, <1>3, <1>8, <1>9, <1>10

\* The empty boundary that closes the scope.
LEMMA BareBoundary ==
  ASSUME NEW K, NEW f, NEW m, Built(<<f>>), f.k \in Boundaries, Bounds(f, m), Context(m)
  PROVE  /\ Built(<<Owning(f, <<>>)>>) /\ Step(K, Owning(f, <<>>), Inside(f, m), m) /\ Context(Inside(f, m))
         /\ Inside(f, m).mode = "code" /\ Inside(f, m).retries = m.retries /\ Inside(f, m).lex = Enter("handle", m.lex)
         /\ Inside(f, m).on = f.on
<1>1. f.scope \in Nat
  BY BoundaryFrame
<1>2. Context(Inside(f, m))
  BY <1>1, Contexts
<1>3. Fits(K, <<>>, Inside(f, m), Inside(f, m))
  BY <1>2, FitsNil
<1>4. Flat(<<>>) /\ Simple(<<>>) /\ ScopeOrder(<<>>) = <<>> /\ RetryOrder(<<>>) = <<>>
  BY OrderNil DEF Flat, Simple
<1>5. Built(<<Owning(f, <<>>)>>) /\ Step(K, Owning(f, <<>>), Inside(f, m), m)
  BY <1>3, <1>4, MakeBoundary
<1> QED BY <1>2, <1>5 DEF Inside, Ctx

\* The innermost active scope is the boundary's, and closing it succeeds.
LEMMA ScopeCloses ==
  ASSUME MachineInv, NEW c, NEW m, NEW f, Opens(f, c, m), f.scope \in Nat, Context(m), c.scopes = Ids(handler_stack)
  PROVE  /\ handler_stack # <<>> /\ handler_stack[1].id = f.scope /\ m.scopes = Ids(Tail(handler_stack))
<1>1. PICK r, x : r = m.scopes /\ x = f.scope
  OBVIOUS
<1>2. r \in Seq(Nat) /\ x \in Nat /\ Ids(handler_stack) = <<x>> \o r
  BY <1>1 DEF Context, Opens
<1>3. <<x>> \o r # <<>> /\ (<<x>> \o r)[1] = x /\ Tail(<<x>> \o r) = r
  <2>1. x \in Nat /\ r \in Seq(Nat)
    BY <1>2
  <2> QED BY <2>1, OnTop
<1>4. Ids(handler_stack) # <<>> /\ Ids(handler_stack)[1] = x /\ Tail(Ids(handler_stack)) = r
  BY <1>2, <1>3
<1>5. handler_stack \in Seq(Handlers(next_handler_scope))
  BY StackTypes
<1>6. handler_stack # <<>> /\ handler_stack[1].id = x /\ Ids(Tail(handler_stack)) = r
  BY <1>4, <1>5, IdsOf
<1> QED BY <1>1, <1>6

\* The boundary on top.
LEMMA BoundaryTop ==
  ASSUME MachineInv, NEW K, NEW c, Settles(K, stack, handler_stack, retry_stack, c), stack # <<>>, Top.k = "Handle"
  PROVE  /\ Built(<<Top>>) /\ Built(Below) /\ Context(c) /\ Built(Top.inner.frames)
         /\ handler_stack # <<>> /\ handler_stack[1].id = Top.scope
         /\ \E m : /\ Context(m) /\ Step(K, Top, c, m) /\ Fits(K, Below, m, Bottom) /\ m.mode = "code" /\ Bounds(Top, m) /\ Top.lex = m.lex
                   /\ Settles(K, Below, Tail(handler_stack), retry_stack, m) /\ m.retries = c.retries
<1>1. PICK m : Context(m) /\ Step(K, Top, c, m) /\ Fits(K, Below, m, Bottom) /\ Built(<<Top>>) /\ Built(Below) /\ Context(c)
  BY TopAt
<1>2. Top.scope \in Nat /\ Built(Top.inner.frames)
  BY <1>1, BoundaryFrame DEF Boundaries
<1>3. m.mode = "code" /\ Opens(Top, c, m) /\ c.retries = m.retries /\ Bounds(Top, m) /\ Top.lex = m.lex
  BY <1>1, StepHandle
<1>4. c.scopes = Ids(handler_stack) /\ c.retries = retry_stack
  BY DEF Settles
<1>5. handler_stack # <<>> /\ handler_stack[1].id = Top.scope /\ m.scopes = Ids(Tail(handler_stack))
  BY <1>1, <1>2, <1>3, <1>4, ScopeCloses
<1>6. Settles(K, Below, Tail(handler_stack), retry_stack, m)
  BY <1>1, <1>3, <1>4, <1>5 DEF Settles
<1> QED BY <1>1, <1>2, <1>3, <1>5, <1>6

\* A boundary that is left.
LEMMA LeaveHandlerPlaced ==
  ASSUME MachineInv, Here, LeaveHandler PROVE Here'
<1> DEFINE K == KeptOf(arena)
<1>0. /\ stack # <<>> /\ Top.k = "Handle" /\ UNCHANGED <<retry_stack, arena>> /\ stack' = Below
      /\ signal.k = "Return" \/ signal.k = "Finish" \/ (signal.k \in {"Value", "Resume"} /\ Top.inner.frames = <<>>)
  BY DEF LeaveHandler
<1>1. PICK c : Settles(K, stack, handler_stack, retry_stack, c) /\ (signal.k = "Resume" => c.mode # "answer" /\ ResumeOK(c.lex))
  BY <1>0 DEF Here, Placed
<1>2. PICK m : /\ Context(m) /\ Step(K, Top, c, m) /\ m.mode = "code" /\ Settles(K, Below, Tail(handler_stack), retry_stack, m)
               /\ Built(<<Top>>) /\ Context(c)
  BY <1>0, <1>1, BoundaryTop
<1>3. handler_stack # <<>> /\ handler_stack[1].id = Top.scope
  BY <1>0, <1>1, BoundaryTop
<1>4. handler_stack' = Tail(handler_stack) /\ signal' = IF signal.k = "Finish" THEN Sig("Value") ELSE signal
  BY <1>3 DEF LeaveHandler, CloseHandlerScope
<1>5. Placed(K, signal', Below, Tail(handler_stack), retry_stack)
  <2>1. CASE signal.k = "Finish"
    <3>1. Placed(K, Sig("Value"), Below, Tail(handler_stack), retry_stack)
      BY <1>2, Admits
    <3> QED BY <1>4, <2>1, <3>1
  <2>2. CASE signal.k \in {"Return", "Value"}
    <3>1. Placed(K, signal, Below, Tail(handler_stack), retry_stack)
      BY <1>2, <2>2 DEF Placed
    <3> QED BY <1>4, <2>2, <3>1
  <2>3. CASE signal.k = "Resume"
    <3>1. c.lex[1].c = "handle" /\ Tail(c.lex) = m.lex
      BY <1>0, <1>1, <1>2, <2>3, StepLex
    <3>2. c.lex \in Seq(LexEntries)
      BY <1>2 DEF Context
    <3>3. ResumeOK(m.lex)
      BY <1>1, <2>3, <3>1, <3>2, ResumeShift
    <3>4. Placed(K, signal, Below, Tail(handler_stack), retry_stack)
      BY <1>2, <2>3, <3>3 DEF Placed
    <3> QED BY <1>4, <2>3, <3>4
  <2> QED BY <1>0, <2>1, <2>2, <2>3
<1> QED BY <1>0, <1>4, <1>5, StaysHere

\* Frames on a bare boundary.
LEMMA OnBoundary ==
  ASSUME NEW K, NEW f, NEW m, NEW s, NEW d, NEW r, Built(<<f>>), f.k \in Boundaries, Bounds(f, m), Context(m), Fits(K, r, m, Bottom),
         Fits(K, s, d, Inside(f, m))
  PROVE  Fits(K, (s \o <<Owning(f, <<>>)>>) \o r, d, Bottom)
<1>1. PICK g : g = Owning(f, <<>>)
  OBVIOUS
<1>2. Built(<<g>>) /\ Step(K, g, Inside(f, m), m) /\ Context(Inside(f, m))
  BY <1>1, BareBoundary
<1>3. Built(r) /\ Built(s)
  BY FitsTypes
<1>4. Built(<<g>> \o r)
  BY <1>2, <1>3, BuiltCat
<1>5. Fits(K, <<g>> \o r, Inside(f, m), Bottom)
  BY <1>2, <1>4, FitsPush
<1>6. Fits(K, s \o (<<g>> \o r), d, Bottom)
  BY <1>5, FitsCat
<1>7. s \o (<<g>> \o r) = (s \o <<g>>) \o r
  BY <1>2, <1>3, CatFrame
<1> QED BY <1>1, <1>6, <1>7, Zenon

\* A boundary whose dispatch comes first.
LEMMA OpenBoundaryPlaced ==
  ASSUME MachineInv, Here, OpenBoundary PROVE Here'
<1> DEFINE K == KeptOf(arena)
<1>0. /\ stack # <<>> /\ Top.k = "Handle" /\ UNCHANGED <<handler_stack, retry_stack, arena>> /\ signal' = signal
      /\ stack' = (Top.inner.frames \o <<Owning(Top, <<>>)>>) \o Below /\ signal.k \in {"Value", "Resume"}
  BY DEF OpenBoundary
<1>1. PICK c : Settles(K, stack, handler_stack, retry_stack, c) /\ (signal.k = "Value" => c.mode # "tail")
               /\ (signal.k = "Resume" => c.mode # "answer" /\ ResumeOK(c.lex))
  BY <1>0 DEF Here, Placed
<1>2. PICK m : /\ Context(m) /\ Step(K, Top, c, m) /\ Fits(K, Below, m, Bottom) /\ Bounds(Top, m) /\ Built(<<Top>>) /\ Context(c)
  BY <1>0, <1>1, BoundaryTop
<1>3. PICK d : /\ Fits(K, Top.inner.frames, d, Inside(Top, m)) /\ Context(d)
               /\ (Simple(Top.inner.frames) => c = d) /\ (~Simple(Top.inner.frames) => d.mode # "tail" /\ c.mode = "answer")
               /\ d.scopes = c.scopes /\ d.retries = c.retries /\ d.lex = c.lex
  BY <1>0, <1>2, StepHandle
<1>4. Fits(K, stack', d, Bottom)
  BY <1>0, <1>2, <1>3, OnBoundary DEF Boundaries
<1>5. Settles(K, stack', handler_stack, retry_stack, d)
  BY <1>1, <1>3, <1>4 DEF Settles
<1>6. Placed(K, signal, stack', handler_stack, retry_stack)
  BY <1>0, <1>1, <1>3, <1>5 DEF Placed
<1> QED BY <1>0, <1>6, StaysHere

\* A suspended boundary that is entered again.
LEMMA ReenterPlaced ==
  ASSUME MachineInv, Here, Reenter PROVE Here'
<1> DEFINE K == KeptOf(arena)
<1>0. /\ stack # <<>> /\ Top.k = "Reenter" /\ UNCHANGED <<retry_stack, arena>> /\ signal.k = "Value"
  BY DEF Reenter, Delivers
<1>1. PICK c : Settles(K, stack, handler_stack, retry_stack, c)
  BY <1>0 DEF Here, Placed
<1>2. PICK m : /\ Context(m) /\ Step(K, Top, c, m) /\ Fits(K, Below, m, Bottom) /\ Built(<<Top>>)
               /\ Settles(K, Below, handler_stack, retry_stack, m)
  BY <1>0, <1>1, TopAt
<1>3. Bounds(Top, m) /\ \E d : Fits(K, Top.inner.frames, d, Inside(Top, m)) /\ d.mode # "tail"
  BY <1>0, <1>2 DEF Step, Rule
<1>4. PICK d : Fits(K, Top.inner.frames, d, Inside(Top, m)) /\ d.mode # "tail"
  BY <1>3
<1>5. handler_stack \in Seq(Handlers(next_handler_scope)) /\ next_handler_scope \in Nat
  BY StackTypes
<1>6. Top.scope \in Nat /\ Top.inner.scopes = ScopeOrder(Top.inner.frames) /\ Top.inner.retries = RetryOrder(Top.inner.frames)
  BY <1>0, <1>2, BoundaryFrame DEF Boundaries
<1>7. ~(handler_stack # <<>> /\ handler_stack[1].id >= Top.scope)
  <2>1. m.scopes = Ids(handler_stack)
    BY <1>2 DEF Settles
  <2>2. handler_stack # <<>> => m.scopes # <<>> /\ m.scopes[1] = handler_stack[1].id /\ handler_stack[1].id \in 0..(next_handler_scope - 1)
    BY <1>5, <2>1, IdsOf
  <2>3. m.scopes # <<>> => m.scopes[1] < Top.scope
    BY <1>3 DEF Bounds
  <2> QED BY <1>5, <1>6, <2>2, <2>3
<1>8. /\ handler_stack' = <<[id |-> Top.scope, on |-> Top.on]>> \o handler_stack
      /\ stack' = <<Owning(Top, Top.inner.frames)>> \o Below /\ signal' = signal
  BY <1>7 DEF Reenter
<1>9. PICK g : g = Owning(Top, Top.inner.frames)
  OBVIOUS
<1>10. PICK e : /\ Step(K, g, e, m) /\ Built(<<g>>) /\ Context(e) /\ e.mode # "tail" /\ e.scopes = d.scopes /\ e.retries = d.retries
  <2>1. Flat(Top.inner.frames) /\ ScopeOrder(Top.inner.frames) = <<>> /\ RetryOrder(Top.inner.frames) = <<>>
    BY <1>3, <1>6 DEF Bounds
  <2>2. Context(d) /\ d.lex \in Seq(LexEntries)
    BY <1>4, FitsTypes DEF Context
  <2>3. Context(At(d, d.lex, "answer")) /\ At(d, d.lex, "answer").mode # "tail" /\ At(d, d.lex, "answer").scopes = d.scopes
        /\ At(d, d.lex, "answer").retries = d.retries
    BY <2>2, SamePlace
  <2>4. /\ Built(<<g>>) /\ (Simple(Top.inner.frames) => Step(K, g, d, m))
        /\ (~Simple(Top.inner.frames) => Step(K, g, At(d, d.lex, "answer"), m))
    BY <1>0, <1>2, <1>3, <1>4, <1>9, <2>1, MakeBoundary DEF Boundaries
  <2> QED BY <1>4, <2>2, <2>3, <2>4
<1>11. d.scopes = <<Top.scope>> \o m.scopes /\ d.retries = m.retries
  BY <1>3, <1>4, FlatKeeps DEF Bounds, Inside, Ctx
<1>12. e.scopes = Ids(handler_stack') /\ e.retries = retry_stack
  <2>1. PICK h : h = [id |-> Top.scope, on |-> Top.on]
    OBVIOUS
  <2>2. h.id = Top.scope /\ h.id \in Nat
    BY <1>6, <2>1
  <2>3. Ids(<<h>> \o handler_stack) = <<h.id>> \o Ids(handler_stack)
    BY <1>5, <2>2, IdsOf
  <2>4. m.scopes = Ids(handler_stack) /\ m.retries = retry_stack
    BY <1>2 DEF Settles
  <2> QED BY <1>8, <1>10, <1>11, <2>1, <2>2, <2>3, <2>4, Zenon
<1>13. Settles(K, <<g>> \o Below, handler_stack', retry_stack, e)
  BY <1>2, <1>10, <1>12, Pushed
<1>15. Placed(K, signal, <<g>> \o Below, handler_stack', retry_stack)
  BY <1>0, <1>10, <1>13 DEF Placed
<1> QED BY <1>0, <1>8, <1>9, <1>15, StaysHere

\* A token leaves the arena: frames that do not name it keep their meaning.
LEMMA TokenLeaves ==
  ASSUME MachineInv, NEW t \in Owned(arena), <<"token", t>> \in Holds(SignalFrames \o stack), NEW st \in ContinuationStates, st # "ArmOwned",
         arena' = TakeOut(arena, t, st), NEW s, NEW c, NEW b, Fits(KeptOf(arena), s, c, b), <<"token", t>> \notin Holds(s)
  PROVE  Fits(KeptOf(arena'), s, c, b)
<1>1. Base(SignalFrames \o stack, arena, Names) /\ ArenaOK(arena)
  BY Carries
<1>2. Owned(arena') = Owned(arena) \ {t} /\ \A u \in Owned(arena') : Kept(arena', u) = Kept(arena, u)
  BY <1>1, TakenArena
<1>3. \A u \in Owned(arena) : Away(Kept(arena, u), {t})
  BY <1>1 DEF Base, Away
<1>4. t # NoToken
  BY <1>1, Accepts DEF NoToken
<1>5. \A u \in DOMAIN KeptOf(arena) \ {t} : u \in DOMAIN KeptOf(arena') /\ KeptOf(arena')[u] = KeptOf(arena)[u] /\ Away(KeptOf(arena)[u], {t})
  BY <1>2, <1>3 DEF KeptOf
<1>6. Away(s, {t}) /\ NoToken \notin {t}
  BY <1>4 DEF Away
<1> QED BY <1>5, <1>6, FitsMove

\* The dispatch on top, and the continuation of its arm.
LEMMA DispatchTop ==
  ASSUME MachineInv, NEW c, Settles(KeptOf(arena), stack, handler_stack, retry_stack, c), stack # <<>>, Top.k = "Dispatch",
         signal.k \notin {"Perform", "Parked"}
  PROVE  /\ Built(<<Top>>) /\ Built(Below) /\ Context(c) /\ Top.deferred \in Int /\ c.lex # <<>>
         /\ (Top.deferred # NoToken =>
               /\ Top.deferred \in Owned(arena) /\ Refusal(arena, Top.deferred, 0, "Root") = "Accepted"
               /\ <<"token", Top.deferred>> \in Holds(SignalFrames \o stack) /\ <<"token", Top.deferred>> \notin Holds(Below)
               /\ <<"token", Top.deferred>> \notin Holds(Kept(arena, Top.deferred) \o Below))
         /\ \E m : /\ Context(m) /\ Step(KeptOf(arena), Top, c, m) /\ Fits(KeptOf(arena), Below, m, Bottom) /\ m.mode = "code"
                   /\ Settles(KeptOf(arena), Below, handler_stack, retry_stack, m)
                   /\ c.mode = (IF m.on = Error THEN "tail" ELSE "code") /\ c.lex[1].c = (IF m.on = Error THEN "errorarm" ELSE "arm")
                   /\ (m.on = Error => Top.deferred = NoToken)
<1> DEFINE K == KeptOf(arena)
<1> DEFINE t == Top.deferred
<1>1. PICK m : /\ Context(m) /\ Step(K, Top, c, m) /\ Fits(K, Below, m, Bottom) /\ Settles(K, Below, handler_stack, retry_stack, m)
               /\ Built(<<Top>>) /\ Built(Below) /\ Context(c) /\ stack = <<Top>> \o Below
  BY TopAt
<1>2. m.mode = "code" /\ c.mode = (IF m.on = Error THEN "tail" ELSE "code") /\ c.lex[1].c = (IF m.on = Error THEN "errorarm" ELSE "arm")
      /\ (m.on = Error => t = NoToken) /\ c.lex # <<>>
  BY <1>1, StepDispatch
<1>3. t \in Int /\ (t # NoToken => <<"token", t>> \in Holds(<<Top>>))
  BY <1>1, DispatchFrame DEF Token
<1>4. ASSUME t # NoToken
      PROVE  /\ t \in Owned(arena) /\ Refusal(arena, t, 0, "Root") = "Accepted"
             /\ <<"token", t>> \in Holds(SignalFrames \o stack) /\ <<"token", t>> \notin Holds(Below)
             /\ <<"token", t>> \notin Holds(Kept(arena, t) \o Below)
  <2>1. t \in DOMAIN K
    BY <1>1, <1>2, <1>4 DEF Step, Rule
  <2>2. t \in Owned(arena)
    BY <2>1 DEF KeptOf
  <2>3. /\ ArenaOK(arena) /\ Base(SignalFrames \o stack, arena, Names) /\ SignalFrames \o stack = stack
    BY Carries
  <2>4. Refusal(arena, t, 0, "Root") = "Accepted" /\ Built(Kept(arena, t))
    BY <2>2, <2>3, Accepts
  <2>5. PICK w : w = stack
    OBVIOUS
  <2>6. Lin(w) /\ Holds(Kept(arena, t)) \cap Holds(w) = {} /\ w = <<Top>> \o Below
    BY <1>1, <2>2, <2>3, <2>5 DEF Base
  <2>7. Holds(<<Top>> \o Below) = Holds(<<Top>>) \cup Holds(Below) /\ (Lin(<<Top>> \o Below) => Holds(<<Top>>) \cap Holds(Below) = {})
    BY <1>1, BuiltCat
  <2>8. Holds(w) = Holds(<<Top>>) \cup Holds(Below) /\ Holds(<<Top>>) \cap Holds(Below) = {}
    BY <2>6, <2>7, Zenon
  <2>9. <<"token", t>> \in Holds(w) /\ <<"token", t>> \notin Holds(Below) /\ <<"token", t>> \notin Holds(Kept(arena, t))
    BY <1>3, <1>4, <2>6, <2>8
  <2>10. <<"token", t>> \notin Holds(Kept(arena, t) \o Below)
    BY <1>1, <2>4, <2>9, BuiltCat
  <2> QED BY <2>2, <2>3, <2>4, <2>5, <2>9, <2>10
<1> QED BY <1>1, <1>2, <1>3, <1>4

\* What the arm's continuation leads to.
LEMMA ArmContinues ==
  ASSUME NEW K, NEW f, NEW c, NEW m, Step(K, f, c, m), f.k = "Dispatch", m.on # Error, NEW r, Fits(K, r, m, Bottom), NEW hs, NEW rs,
         Settles(K, r, hs, rs, m), NEW fr, fr \in {IF f.deferred = NoToken THEN f.outer.frames ELSE K[f.deferred]}
  PROVE  \E d : Settles(K, fr \o r, hs, rs, d) /\ d.mode # "tail"
<1>1. PICK d : Fits(K, fr, d, m) /\ d.mode # "tail" /\ Flat(fr)
  BY DEF Step, Rule
<1>2. d.scopes = m.scopes /\ d.retries = m.retries
  BY <1>1, FlatKeeps
<1>3. Fits(K, fr \o r, d, Bottom)
  BY <1>1, FitsCat
<1> QED BY <1>1, <1>2, <1>3 DEF Settles

\* A value, a resume or a finish at the dispatch of an arm.
LEMMA DispatchPlaced ==
  ASSUME MachineInv, Here, ValueAtDispatch \/ ResumeAtDispatch \/ FinishAtDispatch PROVE Here'
<1> DEFINE K == KeptOf(arena)
<1> DEFINE t == Top.deferred
<1>0. /\ stack # <<>> /\ Top.k = "Dispatch" /\ UNCHANGED <<handler_stack, retry_stack>> /\ signal.k \in {"Value", "Resume", "Finish"}
  BY DEF ValueAtDispatch, ResumeAtDispatch, FinishAtDispatch, Delivers
<1>1. PICK c : /\ Settles(K, stack, handler_stack, retry_stack, c) /\ (signal.k = "Value" => c.mode # "tail")
               /\ (signal.k = "Resume" => ResumeOK(c.lex))
  BY <1>0 DEF Here, Placed
<1>2. PICK m : /\ Context(m) /\ Step(K, Top, c, m) /\ Fits(K, Below, m, Bottom) /\ m.mode = "code"
               /\ Settles(K, Below, handler_stack, retry_stack, m)
               /\ c.mode = (IF m.on = Error THEN "tail" ELSE "code") /\ c.lex[1].c = (IF m.on = Error THEN "errorarm" ELSE "arm")
               /\ Context(c) /\ Built(<<Top>>) /\ Built(Below)
  BY <1>0, <1>1, DispatchTop
<1>3. t # NoToken =>
        /\ t \in Owned(arena) /\ Refusal(arena, t, 0, "Root") = "Accepted"
        /\ <<"token", t>> \in Holds(SignalFrames \o stack) /\ <<"token", t>> \notin Holds(Below)
        /\ <<"token", t>> \notin Holds(Kept(arena, t) \o Below)
  BY <1>0, <1>1, DispatchTop
<1>4. signal.k \in {"Value", "Resume"} => m.on # Error
  <2>1. signal.k = "Resume" => c.lex[1].c \in {"arm", "handle", "loop"}
    BY <1>1, <1>2, ResumeShift DEF Context
  <2> QED BY <1>1, <1>2, <2>1
<1>5. CASE FinishAtDispatch
  <2>1. CASE t = NoToken
    <3>1. UNCHANGED <<arena, signal>> /\ stack' = Below
      BY <1>5, <2>1 DEF FinishAtDispatch
    <3>2. Placed(K, signal, Below, handler_stack, retry_stack)
      BY <1>2, <1>5 DEF Placed, FinishAtDispatch, Delivers
    <3> QED BY <1>0, <3>1, <3>2, StaysHere
  <2>2. CASE t # NoToken
    <3>1. arena' = TakeOut(arena, t, "Disposed") /\ signal' = signal /\ stack' = Below
      BY <1>3, <1>5, <2>2, TakesOut DEF FinishAtDispatch
    <3>2. Fits(KeptOf(arena'), Below, m, Bottom)
      BY <1>2, <1>3, <2>2, <3>1, TokenLeaves DEF ContinuationStates
    <3>3. Settles(KeptOf(arena'), Below, handler_stack, retry_stack, m)
      BY <1>2, <3>2 DEF Settles
    <3>4. Placed(KeptOf(arena'), signal, Below, handler_stack, retry_stack)
      BY <1>2, <1>5, <3>3 DEF Placed, FinishAtDispatch, Delivers
    <3> QED BY <1>0, <3>1, <3>4 DEF Here
  <2> QED BY <2>1, <2>2
<1>6. CASE t = NoToken /\ (ValueAtDispatch \/ ResumeAtDispatch)
  <2>1. stack' = Top.outer.frames \o Below /\ arena' = arena /\ signal.k \in {"Value", "Resume"} /\ signal'.k = "Value"
    BY <1>6 DEF ValueAtDispatch, ResumeAtDispatch, Delivers, Sig
  <2>2. PICK fr : fr = Top.outer.frames
    OBVIOUS
  <2>3. PICK d : Settles(K, fr \o Below, handler_stack, retry_stack, d) /\ d.mode # "tail"
    BY <1>0, <1>2, <1>4, <1>6, <2>1, <2>2, ArmContinues
  <2>4. Placed(K, signal', fr \o Below, handler_stack, retry_stack)
    BY <2>1, <2>3 DEF Placed
  <2> QED BY <1>0, <2>1, <2>2, <2>4, StaysHere
<1>7. CASE t # NoToken /\ ValueAtDispatch
  <2>1. signal' = Fault("arm completed")
    BY <1>3, <1>7 DEF ValueAtDispatch
  <2>2. Placed(KeptOf(arena'), signal', stack', handler_stack', retry_stack')
    BY <2>1, Ends DEF Limits
  <2> QED BY <2>2 DEF Here
<1>8. CASE t # NoToken /\ ResumeAtDispatch
  <2>1. /\ stack' = Kept(arena, t) \o Below /\ arena' = TakeOut(arena, t, "Resumed") /\ signal' = Sig("Value") /\ signal.k = "Resume"
    BY <1>3, <1>8, TakesOut DEF ResumeAtDispatch, Delivers, Kept
  <2>2. PICK fr : fr = Kept(arena, t)
    OBVIOUS
  <2>3. fr = K[t]
    BY <1>3, <1>8, <2>2 DEF KeptOf
  <2>4. PICK d : Settles(K, fr \o Below, handler_stack, retry_stack, d) /\ d.mode # "tail"
    BY <1>0, <1>2, <1>4, <1>8, <2>1, <2>3, ArmContinues
  <2>5. <<"token", t>> \notin Holds(fr \o Below) /\ Fits(K, fr \o Below, d, Bottom)
    BY <1>3, <1>8, <2>2, <2>4 DEF Settles
  <2>6. Fits(KeptOf(arena'), fr \o Below, d, Bottom)
    BY <1>3, <1>8, <2>1, <2>5, TokenLeaves DEF ContinuationStates
  <2>7. Settles(KeptOf(arena'), fr \o Below, handler_stack, retry_stack, d)
    BY <2>4, <2>6 DEF Settles
  <2>8. Placed(KeptOf(arena'), Sig("Value"), fr \o Below, handler_stack, retry_stack)
    BY <2>4, <2>7, Admits
  <2>9. Placed(KeptOf(arena'), signal', stack', handler_stack', retry_stack')
    BY <1>0, <2>1, <2>2, <2>8
  <2> QED BY <2>9 DEF Here
<1> QED BY <1>5, <1>6, <1>7, <1>8

\* Flat frames close no scope and end no attempt.
LEMMA FlatOrder ==
  ASSUME NEW K, NEW s, NEW c, NEW b, Fits(K, s, c, b), Flat(s)
  PROVE  ScopeOrder(s) = <<>> /\ RetryOrder(s) = <<>>
<1>1. c.scopes = b.scopes /\ c.retries = b.retries /\ Built(s) /\ b.scopes \in Seq(Nat) /\ b.retries \in Seq(Nat)
  BY FlatKeeps, FitsTypes DEF Context
<1>2. PICK x, y, v, w : x = ScopeOrder(s) /\ y = RetryOrder(s) /\ v = b.scopes /\ w = b.retries
  OBVIOUS
<1>3. v = x \o v /\ w = y \o w
  <2>1. c.scopes = ScopeOrder(s) \o b.scopes /\ c.retries = RetryOrder(s) \o b.retries
    BY FitsOrder
  <2> QED BY <1>1, <1>2, <2>1, Zenon
<1>4. x \in Seq(Nat) /\ y \in Seq(Nat) /\ v \in Seq(Nat) /\ w \in Seq(Nat)
  <2>1. ScopeOrder(s) \in Seq(Scoped(Holds(s))) /\ RetryOrder(s) \in Seq(Nat)
    BY <1>1, OrderCat
  <2>2. Scoped(Holds(s)) \subseteq Nat
    BY DEF Scoped
  <2>3. \A S, T : S \subseteq T => Seq(S) \subseteq Seq(T)
    OBVIOUS
  <2> QED BY <1>1, <1>2, <2>1, <2>2, <2>3
<1>5. \A p, q \in Seq(Nat) : Len(p \o q) = Len(p) + Len(q) /\ Len(p) \in Nat /\ Len(q) \in Nat
  OBVIOUS
<1>6. Len(x) = 0 /\ Len(y) = 0
  <2>1. Len(v) = Len(x) + Len(v) /\ Len(w) = Len(y) + Len(w) /\ Len(x) \in Nat /\ Len(v) \in Nat /\ Len(y) \in Nat /\ Len(w) \in Nat
    BY <1>3, <1>4, <1>5
  <2> QED BY <2>1
<1> QED BY <1>2, <1>4, <1>6

\* The first frame answers no request and ends no attempt.
LEMMA FirstShift ==
  ASSUME NEW s, Built(s), s # <<>>, NEW on, NoRetryFirst(s, on), ~(s[1].k = "Handle" /\ s[1].on = on), ~(on = Error /\ s[1].k = "Try")
  PROVE  s[1].k # "Retry" /\ NoRetryFirst(Tail(s), on)
<1>1. PICK r : r = Tail(s)
  OBVIOUS
<1>2. DOMAIN r = 1..Len(r) /\ Len(r) \in Nat /\ 1 \in DOMAIN s /\ \A i \in 1..Len(r) : s[i + 1] = r[i] /\ i + 1 \in DOMAIN s
  BY <1>1, BuiltTail, BuiltSeq
<1>3. s[1].k # "Retry"
  BY <1>2 DEF NoRetryFirst
<1>4. ASSUME NEW i \in DOMAIN r, r[i].k = "Retry"
      PROVE \E j \in 1..(i - 1) : (r[j].k = "Handle" /\ r[j].on = on) \/ (on = Error /\ r[j].k = "Try")
  <2>1. s[i + 1].k = "Retry" /\ i + 1 \in DOMAIN s
    BY <1>2, <1>4
  <2>2. PICK j \in 1..((i + 1) - 1) : (s[j].k = "Handle" /\ s[j].on = on) \/ (on = Error /\ s[j].k = "Try")
    BY <2>1 DEF NoRetryFirst
  <2>3. j # 1
    BY <2>2
  <2>4. PICK k \in Nat : k = j - 1 /\ k + 1 = j /\ k \in 1..(i - 1) /\ k \in 1..Len(r)
    BY <1>2, <2>2, <2>3
  <2>5. r[k] = s[j]
    BY <1>2, <2>4
  <2> QED BY <2>2, <2>4, <2>5
<1>5. NoRetryFirst(r, on)
  BY <1>4 DEF NoRetryFirst
<1> QED BY <1>1, <1>3, <1>5

\* The same for the end of an arm.
LEMMA TryShift ==
  ASSUME NEW s, Built(s), s # <<>>, NEW t, NoTryFirst(s, t)
  PROVE  s[1].k # "Try" /\ (~IsArm(s[1], t) => NoTryFirst(Tail(s), t))
<1>1. PICK r : r = Tail(s)
  OBVIOUS
<1>2. DOMAIN r = 1..Len(r) /\ Len(r) \in Nat /\ 1 \in DOMAIN s /\ \A i \in 1..Len(r) : s[i + 1] = r[i] /\ i + 1 \in DOMAIN s
  BY <1>1, BuiltTail, BuiltSeq
<1>3. s[1].k # "Try"
  BY <1>2 DEF NoTryFirst
<1>4. ASSUME ~IsArm(s[1], t), NEW i \in DOMAIN r, r[i].k = "Try" PROVE \E j \in 1..(i - 1) : IsArm(r[j], t)
  <2>1. s[i + 1].k = "Try" /\ i + 1 \in DOMAIN s
    BY <1>2, <1>4
  <2>2. PICK j \in 1..((i + 1) - 1) : IsArm(s[j], t)
    BY <2>1 DEF NoTryFirst
  <2>3. j # 1
    BY <1>4, <2>2
  <2>4. PICK k \in Nat : k = j - 1 /\ k + 1 = j /\ k \in 1..(i - 1) /\ k \in 1..Len(r)
    BY <1>2, <2>2, <2>3
  <2>5. r[k] = s[j]
    BY <1>2, <2>4
  <2> QED BY <2>2, <2>4, <2>5
<1>5. ~IsArm(s[1], t) => NoTryFirst(r, t)
  BY <1>4 DEF NoTryFirst
<1> QED BY <1>1, <1>3, <1>5

\* The nearest scope that handles an action is one the stack owns.
LEMMA ScopesOwned ==
  ASSUME MachineInv, NEW K, NEW c, Settles(K, stack, handler_stack, retry_stack, c), NEW i \in DOMAIN handler_stack
  PROVE  handler_stack[i].id \in ScopeIds(stack)
<1>1. handler_stack \in Seq(Handlers(next_handler_scope)) /\ Built(stack)
  BY StackTypes, Carries
<1>2. c.scopes = Ids(handler_stack)
  BY DEF Settles
<1>3. ScopeOrder(stack) \in Seq(Scoped(Holds(stack)))
  BY <1>1, OrderCat
<1>4. c.scopes = ScopeOrder(stack)
  <2>1. c.scopes = ScopeOrder(stack) \o Bottom.scopes
    BY FitsOrder DEF Settles
  <2>2. Bottom.scopes = <<>>
    BY DEF Bottom, Ctx
  <2>3. PICK q : q = ScopeOrder(stack)
    OBVIOUS
  <2>4. q \o <<>> = q
    BY <1>3, <2>3
  <2> QED BY <2>1, <2>2, <2>3, <2>4, Zenon
<1>5. Ids(handler_stack)[i] = handler_stack[i].id /\ DOMAIN Ids(handler_stack) = DOMAIN handler_stack
  BY <1>1, IdsOf
<1>6. PICK q : q = ScopeOrder(stack)
  OBVIOUS
<1>7. q \in Seq(Scoped(Holds(stack))) /\ i \in DOMAIN q /\ q[i] = handler_stack[i].id
  BY <1>2, <1>3, <1>4, <1>5, <1>6
<1>8. handler_stack[i].id \in Scoped(Holds(stack))
  BY <1>7
<1>9. <<"scope", handler_stack[i].id>> \in Holds(stack)
  BY <1>8 DEF Scoped
<1>10. PICK x : x = handler_stack[i].id
  OBVIOUS
<1>11. <<"scope", x>>[1] = "scope" /\ <<"scope", x>>[2] = x
  OBVIOUS
<1> QED BY <1>9, <1>10, <1>11 DEF ScopeIds

\* A request that nobody handles, and an error that nobody captures.
LEMMA YieldsPlaced ==
  ASSUME MachineInv, Here, ~crossed', YieldPerform \/ UnhandledError PROVE Here'
<1> DEFINE K == KeptOf(arena)
<1>0. UNCHANGED <<handler_stack, retry_stack, arena>> /\ signal.k = "Perform" /\ (UnhandledError => signal' = Sig("Unhandled") /\ stack' = stack)
  BY DEF YieldPerform, UnhandledError
<1>1. CASE YieldPerform
  <2>1. PICK c, d : /\ Settles(K, stack, handler_stack, retry_stack, c) /\ Fits(K, signal.cont, d, c) /\ d.mode # "tail" /\ Flat(signal.cont)
    BY <1>0, <1>1 DEF YieldPerform, Here, Placed, Forwarded
  <2>2. ActionHandler # "unowned"
    <3>1. PICK T : T = Handling(signal.on)
      OBVIOUS
    <3>2. T \subseteq DOMAIN handler_stack /\ T \in SUBSET Nat
      BY <3>1, StackTypes DEF Handling
    <3>3. T # {} => Min(T) \in DOMAIN handler_stack
      BY <3>2, LeastOf
    <3>4. T # {} => handler_stack[Min(T)].id \in ScopeIds(stack)
      BY <2>1, <3>3, ScopesOwned
    <3> QED BY <3>1, <3>4 DEF ActionHandler
  <2>3. signal' = Sig("Host") /\ stack' = signal.cont \o stack
    BY <1>1, <2>2 DEF YieldPerform, ActionHandler
  <2>4. d.scopes = c.scopes /\ d.retries = c.retries
    BY <2>1, FlatKeeps
  <2>5. Fits(K, signal.cont \o stack, d, Bottom)
    BY <2>1, FitsCat DEF Settles
  <2>6. Settles(K, signal.cont \o stack, handler_stack, retry_stack, d)
    BY <2>1, <2>4, <2>5 DEF Settles
  <2>7. Placed(K, Sig("Host"), signal.cont \o stack, handler_stack, retry_stack)
    BY <2>1, <2>6, Admits
  <2> QED BY <1>0, <2>3, <2>7, StaysHere
<1>2. CASE UnhandledError
  <2>1. PICK L, c : /\ Settles(L, stack, handler_stack, retry_stack, c) /\ (L = K \/ \E t : TransferOK(c.lex, t))
    BY <1>0, <1>2 DEF UnhandledError, Here, Placed, Raised, Stranded
  <2>2. c = Bottom
    BY <1>2, <2>1, FitsTypes DEF UnhandledError, Settles
  <2>3. L = K
    BY <2>1, <2>2 DEF TransferOK, Bottom, Ctx
  <2>4. Placed(K, Sig("Unhandled"), stack, handler_stack, retry_stack)
    BY <2>1, <2>3, Admits
  <2> QED BY <1>0, <1>2, <2>4, StaysHere
<1> QED BY <1>1, <1>2

\* The way to the arm of a token leads over loops only.
LEMMA TransferShift ==
  ASSUME NEW l \in Seq(LexEntries), NEW t, TransferOK(l, t)
  PROVE  /\ l # <<>> /\ (l[1].c = "loop" \/ (l[1].c = "arm" /\ l[1].tok = t)) /\ (l[1].c = "loop" => TransferOK(Tail(l), t))
<1>1. PICK j \in DOMAIN l : l[j].c = "arm" /\ l[j].tok = t /\ \A i \in 1..(j - 1) : l[i].c = "loop"
  BY DEF TransferOK
<1>2. DOMAIN l = 1..Len(l) /\ Len(l) \in Nat /\ l # <<>>
  BY <1>1
<1>3. l[1].c = "loop" \/ (l[1].c = "arm" /\ l[1].tok = t)
  <2>1. CASE j = 1
    BY <1>1, <2>1
  <2>2. CASE j # 1
    <3>1. 1 \in 1..(j - 1)
      BY <1>2, <2>2
    <3> QED BY <1>1, <3>1
  <2> QED BY <2>1, <2>2
<1>4. ASSUME l[1].c = "loop" PROVE TransferOK(Tail(l), t)
  <2>1. PICK r : r = Tail(l)
    OBVIOUS
  <2>2. Len(r) = Len(l) - 1 /\ DOMAIN r = 1..Len(r) /\ \A i \in 1..Len(r) : r[i] = l[i + 1]
    BY <1>2, <2>1
  <2>3. j # 1
    BY <1>1, <1>4
  <2>4. PICK k \in Nat : k = j - 1 /\ k \in 1..Len(r) /\ k + 1 = j
    BY <1>2, <2>2, <2>3
  <2>5. r[k].c = "arm" /\ r[k].tok = t
    BY <1>1, <2>2, <2>4
  <2>6. ASSUME NEW i \in 1..(k - 1) PROVE r[i].c = "loop"
    <3>1. i \in 1..Len(r) /\ i + 1 \in 1..(j - 1)
      BY <1>2, <2>2, <2>4
    <3> QED BY <1>1, <2>2, <3>1
  <2>7. TransferOK(r, t)
    BY <2>2, <2>4, <2>5, <2>6 DEF TransferOK
  <2> QED BY <2>1, <2>7
<1> QED BY <1>2, <1>3, <1>4

\* One frame on the way to the arm of token t.
LEMMA ArmBelow ==
  ASSUME NEW K, NEW f, NEW c, NEW m, NEW t, Step(K, f, c, m), Built(<<f>>), Context(m), Context(c), c.mode # "answer", TransferOK(c.lex, t)
  PROVE  /\ (~IsArm(f, t) => f.k \in {"Next", "Loop", "Try"} /\ TransferOK(m.lex, t))
         /\ (IsArm(f, t) => f.k \in {"Dispatch", "Handle"} /\ (f.k = "Dispatch" => m.on # Error) /\ (f.k = "Handle" => f.on # Error))
         /\ (f.k = "Handle" => IsArm(f, t) /\ Simple(f.inner.frames) /\ f.inner.frames # <<>>)
<1>1. c.lex \in Seq(LexEntries)
  BY DEF Context
<1>2. (c.lex[1].c = "loop" \/ (c.lex[1].c = "arm" /\ c.lex[1].tok = t)) /\ (c.lex[1].c = "loop" => TransferOK(Tail(c.lex), t)) /\ c.lex # <<>>
  BY <1>1, TransferShift
<1>3. /\ f.k # "Reenter" /\ (f.k \in {"Next", "Try"} => c.lex = m.lex) /\ (f.k = "Loop" => Tail(c.lex) = m.lex /\ c.lex[1].c = "loop")
      /\ f.k # "Retry"
  BY <1>2, StepLex
<1>4. f.k # "Call"
  <2>1. f.k = "Call" => c.lex = <<>>
    BY StepKinds DEF At, Ctx
  <2> QED BY <1>2, <2>1
<1>5. ASSUME f.k = "Dispatch" PROVE f.deferred = t /\ m.on # Error
  BY <1>2, <1>5, StepDispatch
<1>6. ASSUME f.k = "Handle" PROVE IsArm(f, t) /\ f.on # Error /\ Simple(f.inner.frames) /\ f.inner.frames # <<>>
  <2>1. f.inner.frames # <<>>
    BY <1>2, <1>6, StepLex
  <2>2. Simple(f.inner.frames)
    BY <1>6, StepHandle
  <2>3. PICK g : g = f.inner.frames[1] /\ g.k = "Dispatch" /\ Step(K, g, c, Inside(f, m)) /\ Context(Inside(f, m))
    BY <1>6, <2>1, <2>2, StepOwned
  <2>4. g.deferred = t /\ Inside(f, m).on # Error
    BY <1>2, <2>3, StepDispatch
  <2>5. f.on # Error
    BY <2>4 DEF Inside, Ctx
  <2> QED BY <1>6, <2>1, <2>2, <2>3, <2>4, <2>5 DEF IsArm, Simple
<1>7. f.k \in Kinds
  BY BuiltFrame DEF Shape
<1> QED BY <1>2, <1>3, <1>4, <1>5, <1>6, <1>7 DEF IsArm, Kinds

\* The frame that ends an arm names its token.
LEMMA ArmNames ==
  ASSUME NEW f, NEW t, Built(<<f>>), IsArm(f, t), t # NoToken PROVE <<"token", t>> \in Holds(<<f>>)
<1>1. CASE f.k = "Dispatch"
  BY <1>1, DispatchFrame DEF IsArm, Token
<1>2. CASE f.k = "Handle"
  <2>1. Built(f.inner.frames) /\ Holds(<<f>>) = {<<"scope", f.scope>>} \cup Holds(f.inner.frames)
    BY <1>2, BoundaryFrame DEF Boundaries
  <2>2. PICK q : q = f.inner.frames
    OBVIOUS
  <2>3. q # <<>> /\ q[1].k = "Dispatch" /\ q[1].deferred = t /\ Built(q)
    BY <1>2, <2>1, <2>2 DEF IsArm
  <2>4. PICK g, r : g = q[1] /\ r = Tail(q)
    OBVIOUS
  <2>5. Built(<<g>>) /\ Built(r) /\ q = <<g>> \o r
    BY <2>3, <2>4, BuiltTail
  <2>6. Holds(<<g>> \o r) = Holds(<<g>>) \cup Holds(r)
    BY <2>5, BuiltCat
  <2>7. <<"token", t>> \in Holds(<<g>>)
    BY <2>3, <2>4, <2>5, DispatchFrame DEF Token
  <2>8. Holds(q) = Holds(<<g>>) \cup Holds(r)
    BY <2>5, <2>6, Zenon
  <2> QED BY <2>1, <2>2, <2>7, <2>8
<1> QED BY <1>1, <1>2 DEF IsArm

\* Past the frame that ended the arm, nothing names its token.
LEMMA PastArm ==
  ASSUME MachineInv, stack # <<>>, NEW t, t # NoToken, IsArm(Top, t), NEW fr, NEW m, NEW b,
         Fits(With(KeptOf(arena), t, fr), Below, m, b)
  PROVE  Fits(KeptOf(arena), Below, m, b)
<1>1. PICK M : M = SignalFrames \o stack
  OBVIOUS
<1>2. Base(M, arena, Names) /\ Built(SignalFrames) /\ Built(stack)
  BY <1>1, Carries
<1>3. Built(<<Top>>) /\ Built(Below) /\ stack = <<Top>> \o Below
  BY TopBelow
<1>4. <<"token", t>> \in Holds(<<Top>>)
  BY <1>3, ArmNames
<1>5. Lin(stack) /\ Holds(M) = Holds(SignalFrames) \cup Holds(stack)
  <2>1. Holds(SignalFrames \o stack) = Holds(SignalFrames) \cup Holds(stack) /\ (Lin(SignalFrames \o stack) => Lin(stack))
    BY <1>2, BuiltCat
  <2> QED BY <1>1, <1>2, <2>1 DEF Base
<1>6. Holds(stack) = Holds(<<Top>>) \cup Holds(Below) /\ Holds(<<Top>>) \cap Holds(Below) = {}
  <2>1. Holds(<<Top>> \o Below) = Holds(<<Top>>) \cup Holds(Below) /\ (Lin(<<Top>> \o Below) => Holds(<<Top>>) \cap Holds(Below) = {})
    BY <1>3, BuiltCat
  <2> QED BY <1>3, <1>5, <2>1, Zenon
<1>7. Away(Below, {t}) /\ NoToken \notin {t}
  BY <1>4, <1>6 DEF Away
<1>8. \A u \in Owned(arena) : Away(Kept(arena, u), {t})
  BY <1>2, <1>4, <1>5, <1>6 DEF Base, Away
<1>9. PICK K, L : K = KeptOf(arena) /\ L = With(K, t, fr)
  OBVIOUS
<1>10. \A u \in DOMAIN L \ {t} : u \in DOMAIN K /\ K[u] = L[u] /\ Away(L[u], {t})
  BY <1>8, <1>9 DEF With, KeptOf
<1>11. Fits(L, Below, m, b)
  BY <1>9
<1>12. Fits(K, Below, m, b)
  BY <1>7, <1>10, <1>11, FitsMove
<1> QED BY <1>9, <1>12

\* An error passes a frame of the arm whose continuation was parked.
LEMMA StrandedBelow ==
  ASSUME MachineInv, stack # <<>>, NEW hs, NEW rs, NEW t, NEW fr, Stranded(KeptOf(arena), stack, hs, rs, t, fr)
  PROVE  /\ Top.k \in {"Next", "Loop", "Dispatch", "Handle"} /\ Built(<<Top>>)
         /\ \E c, m : /\ Settles(With(KeptOf(arena), t, fr), stack, hs, rs, c) /\ Step(With(KeptOf(arena), t, fr), Top, c, m) /\ Context(m)
                      /\ Fits(With(KeptOf(arena), t, fr), Below, m, Bottom)
                      /\ (Top.k = "Handle" => IsArm(Top, t) /\ Top.on # Error)
                      /\ (IsArm(Top, t) => Fits(KeptOf(arena), Below, m, Bottom))
                      /\ (~IsArm(Top, t) => Stranded(KeptOf(arena), Below, hs, rs, t, fr))
<1>1. PICK L : L = With(KeptOf(arena), t, fr)
  OBVIOUS
<1>2. PICK c : Settles(L, stack, hs, rs, c) /\ c.mode # "answer" /\ TransferOK(c.lex, t)
  BY <1>1 DEF Stranded
<1>3. PICK m : /\ Context(m) /\ Step(L, Top, c, m) /\ Fits(L, Below, m, Bottom) /\ m.mode # "answer" /\ Built(<<Top>>) /\ Context(c)
               /\ (Top.k \notin {"Handle", "Retry"} => Settles(L, Below, hs, rs, m))
  BY <1>2, TopAt
<1>4. t # NoToken /\ NoTryFirst(stack, t) /\ Built(stack)
  BY Carries DEF Stranded
<1>5. Top.k # "Try" /\ (~IsArm(Top, t) => NoTryFirst(Below, t))
  BY <1>4, TryShift DEF Top, Below
<1>6. /\ (~IsArm(Top, t) => Top.k \in {"Next", "Loop", "Try"} /\ TransferOK(m.lex, t))
      /\ (IsArm(Top, t) => Top.k \in {"Dispatch", "Handle"})
      /\ (Top.k = "Handle" => IsArm(Top, t) /\ Top.on # Error)
  BY <1>2, <1>3, ArmBelow
<1>7. IsArm(Top, t) => Fits(KeptOf(arena), Below, m, Bottom)
  BY <1>1, <1>3, <1>4, PastArm
<1>8. ~IsArm(Top, t) => Stranded(KeptOf(arena), Below, hs, rs, t, fr)
  BY <1>1, <1>3, <1>4, <1>5, <1>6 DEF Stranded
<1> QED BY <1>1, <1>2, <1>3, <1>5, <1>6, <1>7, <1>8

\* One frame.
LEMMA FitsOne ==
  ASSUME NEW K, NEW f, NEW c, NEW m, Step(K, f, c, m), Built(<<f>>), Context(c), Context(m) PROVE Fits(K, <<f>>, c, m)
<1>1. Fits(K, <<>>, m, m)
  BY FitsNil
<1>2. <<f>> \o <<>> = <<f>>
  OBVIOUS
<1>3. Built(<<f>> \o <<>>)
  BY <1>2
<1>4. Fits(K, <<f>> \o <<>>, c, m)
  BY <1>1, <1>3, FitsPush
<1> QED BY <1>2, <1>4

\* The frames of two sequences together.
LEMMA CatKinds ==
  ASSUME NEW s, Built(s), NEW r, Built(r)
  PROVE  /\ (Flat(s) /\ Flat(r) => Flat(s \o r))
         /\ \A k : (\A i \in DOMAIN s : s[i].k # k) /\ (\A i \in DOMAIN r : r[i].k # k) => \A i \in DOMAIN (s \o r) : (s \o r)[i].k # k
         /\ (ScopeOrder(s) = <<>> /\ ScopeOrder(r) = <<>> => ScopeOrder(s \o r) = <<>>)
         /\ (RetryOrder(s) = <<>> /\ RetryOrder(r) = <<>> => RetryOrder(s \o r) = <<>>)
<1>1. PICK W : s \in Seq(W) /\ r \in Seq(W)
  BY BuiltTogether
<1>2. PICK u : u = s \o r
  OBVIOUS
<1>3. \A i \in DOMAIN u : (\E j \in DOMAIN s : u[i] = s[j]) \/ (\E j \in DOMAIN r : u[i] = r[j])
  <2> SUFFICES ASSUME NEW i \in DOMAIN u PROVE (\E j \in DOMAIN s : u[i] = s[j]) \/ (\E j \in DOMAIN r : u[i] = r[j])
    OBVIOUS
  <2>1. /\ DOMAIN s = 1..Len(s) /\ DOMAIN r = 1..Len(r) /\ DOMAIN (s \o r) = 1..(Len(s) + Len(r))
        /\ \A n \in 1..(Len(s) + Len(r)) :
             \/ n \in 1..Len(s) /\ (s \o r)[n] = s[n]
             \/ n - Len(s) \in 1..Len(r) /\ n = Len(s) + (n - Len(s)) /\ (s \o r)[n] = r[n - Len(s)]
    BY <1>1, Cat
  <2>2. \/ i \in DOMAIN s /\ u[i] = s[i]
        \/ i - Len(s) \in DOMAIN r /\ u[i] = r[i - Len(s)]
    BY <1>2, <2>1
  <2> QED BY <2>2
<1>4. ScopeOrder(u) = ScopeOrder(s) \o ScopeOrder(r) /\ RetryOrder(u) = RetryOrder(s) \o RetryOrder(r)
  BY <1>2, OrderCat
<1>5. <<>> \o <<>> = <<>>
  OBVIOUS
<1>6. Flat(s) /\ Flat(r) => Flat(u)
  BY <1>3 DEF Flat
<1>7. \A k : (\A i \in DOMAIN s : s[i].k # k) /\ (\A i \in DOMAIN r : r[i].k # k) => \A i \in DOMAIN u : u[i].k # k
  BY <1>3
<1>8. (ScopeOrder(s) = <<>> /\ ScopeOrder(r) = <<>> => ScopeOrder(u) = <<>>) /\ (RetryOrder(s) = <<>> /\ RetryOrder(r) = <<>> => RetryOrder(u) = <<>>)
  BY <1>4, <1>5, Zenon
<1> QED BY <1>2, <1>6, <1>7, <1>8

\* One frame by itself.
LEMMA OneKind ==
  ASSUME NEW f, Built(<<f>>)
  PROVE  /\ (f.k \notin {"Handle", "Retry"} => Flat(<<f>>)) /\ \A k : f.k # k => \A i \in DOMAIN <<f>> : <<f>>[i].k # k
         /\ (FrameScopes(f) = <<>> => ScopeOrder(<<f>>) = <<>>) /\ (FrameRetries(f) = <<>> => RetryOrder(<<f>>) = <<>>)
<1>1. DOMAIN <<f>> = {1} /\ <<f>>[1] = f
  OBVIOUS
<1>2. ScopeOrder(<<f>>) = FrameScopes(f) /\ RetryOrder(<<f>>) = FrameRetries(f)
  BY OrderOne
<1> QED BY <1>1, <1>2 DEF Flat

\* A request passes a frame that is no boundary.
LEMMA ForwardPlaced ==
  ASSUME MachineInv, Here, PerformAtFrame, signal.on # Error PROVE Here'
<1> DEFINE K == KeptOf(arena)
<1>0. /\ signal.k = "Perform" /\ stack # <<>> /\ UNCHANGED <<handler_stack, retry_stack, arena>> /\ Captures = {} /\ Top.k # "Handle"
      /\ ActionHandler = "found" /\ stack' = Below /\ signal' = [signal EXCEPT !.cont = @ \o <<Top>>]
  BY DEF PerformAtFrame, Propagates, Captures
<1>1. PICK s, on : s = signal.cont /\ on = signal.on
  OBVIOUS
<1>2. Forwarded(K, on, s, stack, handler_stack, retry_stack)
  BY <1>0, <1>1 DEF Here, Placed
<1>3. PICK c, d : Settles(K, stack, handler_stack, retry_stack, c) /\ c.mode # "answer" /\ Fits(K, s, d, c) /\ d.mode # "tail" /\ Flat(s)
  BY <1>2 DEF Forwarded
<1>4. \E i \in DOMAIN handler_stack : handler_stack[i].on = on
  BY <1>0, <1>1 DEF ActionHandler, Handling
<1>5. NoRetryFirst(stack, on)
  BY <1>2, <1>4 DEF Forwarded
<1>6. Built(stack) /\ Built(s)
  BY <1>0, <1>1, Carries
<1>7. Top.k # "Retry" /\ NoRetryFirst(Below, on)
  BY <1>0, <1>1, <1>5, <1>6, FirstShift DEF Top, Below
<1>8. PICK m : /\ Context(m) /\ Step(K, Top, c, m) /\ m.mode # "answer" /\ Built(<<Top>>) /\ Context(c)
               /\ Settles(K, Below, handler_stack, retry_stack, m)
  BY <1>0, <1>3, <1>7, TopAt
<1>9. Fits(K, s \o <<Top>>, d, m)
  <2>1. Fits(K, <<Top>>, c, m)
    BY <1>8, FitsOne
  <2> QED BY <1>3, <2>1, FitsCat
<1>10. Flat(s \o <<Top>>)
  <2>1. Flat(<<Top>>)
    BY <1>0, <1>7, <1>8, OneKind
  <2> QED BY <1>3, <1>6, <1>8, <2>1, CatKinds
<1>11. Forwarded(K, on, s \o <<Top>>, Below, handler_stack, retry_stack)
  BY <1>3, <1>7, <1>8, <1>9, <1>10 DEF Forwarded
<1>12. Placed(K, Perform(on, s \o <<Top>>), Below, handler_stack, retry_stack)
  BY <1>1, <1>11 DEF Placed, Perform
<1>13. signal' = Perform(on, s \o <<Top>>)
  <2>1. signal = Perform(on, s)
    BY <1>0, <1>1, Carries
  <2>2. \A q : [signal EXCEPT !.cont = q] = Perform(on, q)
    BY <2>1 DEF Perform
  <2>3. signal' = [signal EXCEPT !.cont = s \o <<Top>>]
    BY <1>0, <1>1, Zenon
  <2> QED BY <2>2, <2>3, Zenon
<1> QED BY <1>0, <1>12, <1>13, StaysHere

\* An error passes a frame, or is captured by a `?`.
LEMMA RaisePlaced ==
  ASSUME MachineInv, Here, PerformAtFrame, signal.on = Error PROVE Here'
<1> DEFINE K == KeptOf(arena)
<1>1. PICK s : s = signal.cont
  OBVIOUS
<1>2. /\ signal.k = "Perform" /\ stack # <<>> /\ UNCHANGED <<handler_stack, retry_stack, arena>> /\ Raised(K, s, stack, handler_stack, retry_stack)
  BY <1>1 DEF PerformAtFrame, Propagates, Here, Placed
<1>3. Captures = {}
  BY <1>1, <1>2 DEF Captures, Raised
<1>0. /\ Top.k # "Handle" /\ stack' = Below
      /\ signal' = IF Top.k = "Try" THEN Sig("Value") ELSE [signal EXCEPT !.cont = @ \o <<Top>>]
  BY <1>3 DEF PerformAtFrame
<1>4. /\ ScopeOrder(s) = <<>> /\ RetryOrder(s) = <<>> /\ (\A i \in DOMAIN s : s[i].k # "Try") /\ NoRetryFirst(stack, Error)
      /\ Built(stack) /\ Built(s) /\ Built(<<Top>>)
  BY <1>1, <1>2, Carries, TopBelow DEF Raised
<1>5. CASE Top.k = "Try"
  <2>1. PICK c : Settles(K, stack, handler_stack, retry_stack, c)
    BY <1>2, <1>5, StrandedBelow DEF Raised
  <2>2. PICK m : Step(K, Top, c, m) /\ Settles(K, Below, handler_stack, retry_stack, m)
    BY <1>2, <1>5, <2>1, TopAt
  <2>3. m.mode = "code"
    BY <1>5, <2>2, StepKinds
  <2>4. Placed(K, Sig("Value"), Below, handler_stack, retry_stack)
    BY <2>2, <2>3, Admits
  <2> QED BY <1>0, <1>2, <1>5, <2>4, StaysHere
<1>6. CASE Top.k # "Try"
  <2>1. Top.k # "Retry" /\ NoRetryFirst(Below, Error)
    BY <1>0, <1>2, <1>4, <1>6, FirstShift DEF Top, Below
  <2>2. PICK L, c, m : /\ Step(L, Top, c, m) /\ Context(m)
                       /\ \/ Settles(K, Below, handler_stack, retry_stack, m)
                          \/ \E t, fr : Stranded(K, Below, handler_stack, retry_stack, t, fr) /\ \A u \in DOMAIN K : u # t
    <3>1. CASE \E c : Settles(K, stack, handler_stack, retry_stack, c)
      <4>1. PICK c : Settles(K, stack, handler_stack, retry_stack, c)
        BY <3>1
      <4>2. PICK m : Context(m) /\ Step(K, Top, c, m) /\ Settles(K, Below, handler_stack, retry_stack, m)
        BY <1>0, <1>2, <2>1, <4>1, TopAt
      <4> QED BY <4>2
    <3>2. CASE \E t, fr : Stranded(K, stack, handler_stack, retry_stack, t, fr) /\ \A u \in DOMAIN K : u # t
      <4>1. PICK t, fr : Stranded(K, stack, handler_stack, retry_stack, t, fr) /\ \A u \in DOMAIN K : u # t
        BY <3>2
      <4>2. PICK L : L = With(K, t, fr)
        OBVIOUS
      <4>3. PICK c, m : /\ Settles(L, stack, handler_stack, retry_stack, c) /\ Step(L, Top, c, m) /\ Context(m)
                        /\ (IsArm(Top, t) => Fits(K, Below, m, Bottom))
                        /\ (~IsArm(Top, t) => Stranded(K, Below, handler_stack, retry_stack, t, fr))
        BY <1>2, <4>1, <4>2, StrandedBelow
      <4>4. m.scopes = c.scopes /\ m.retries = c.retries
        BY <1>0, <2>1, <4>3, StepFlat
      <4>5. IsArm(Top, t) => Settles(K, Below, handler_stack, retry_stack, m)
        BY <4>3, <4>4 DEF Settles
      <4> QED BY <4>1, <4>3, <4>5
    <3> QED BY <1>2, <3>1, <3>2 DEF Raised
  <2>3. FrameScopes(Top) = <<>> /\ FrameRetries(Top) = <<>>
    BY <1>0, <1>4, <2>1, <2>2, StepOrder
  <2>4. PICK q : q = s \o <<Top>>
    OBVIOUS
  <2>5. ScopeOrder(q) = <<>> /\ RetryOrder(q) = <<>> /\ (\A i \in DOMAIN q : q[i].k # "Try")
    <3>1. ScopeOrder(<<Top>>) = <<>> /\ RetryOrder(<<Top>>) = <<>> /\ (\A i \in DOMAIN <<Top>> : <<Top>>[i].k # "Try")
      BY <1>4, <1>6, <2>3, OneKind
    <3> QED BY <1>4, <2>4, <3>1, CatKinds
  <2>6. Raised(K, q, Below, handler_stack, retry_stack)
    BY <2>1, <2>2, <2>5 DEF Raised
  <2>7. Placed(K, Perform(Error, q), Below, handler_stack, retry_stack)
    BY <2>6 DEF Placed, Perform
  <2>8. signal' = Perform(Error, q)
    <3>1. signal = Perform(Error, s)
      BY <1>1, <1>2, Carries
    <3>2. \A x : [signal EXCEPT !.cont = x] = Perform(Error, x)
      BY <3>1 DEF Perform
    <3>3. signal' = [signal EXCEPT !.cont = q]
      BY <1>0, <1>1, <1>6, <2>4, Zenon
    <3> QED BY <3>2, <3>3, Zenon
  <2> QED BY <1>0, <1>2, <2>7, <2>8, StaysHere
<1> QED BY <1>5, <1>6

\* The task's scopes and attempts inside boundary f of context m.
Within(f, m, hs, rs) == Ids(hs) = <<f.scope>> \o m.scopes /\ rs = m.retries

\* The arm of boundary f with token t may go on with q, or with what t stands for.
Answers(K, f, m, q, t) ==
  /\ Built(q) /\ ScopeOrder(q) = <<>> /\ RetryOrder(q) = <<>> /\ (f.on = Error => t = NoToken)
  /\ (f.on # Error /\ t = NoToken => Flat(q) /\ \E d : Fits(K, q, d, Inside(f, m)) /\ d.mode # "tail")
  /\ (f.on # Error /\ t # NoToken => t \in DOMAIN K /\ Flat(K[t]) /\ \E d : Fits(K, K[t], d, Inside(f, m)) /\ d.mode # "tail")
Starts(K, f, q, t, r, hs, rs) ==
  \E e : Settles(K, <<Owning(f, <<HandlerDispatch(Link(q), t)>>)>> \o r, hs, rs, e) /\ e.mode # "answer" /\ e.lex = EnterArm(t, f.on, f.lex)

\* An arm that starts under its boundary.
LEMMA ArmStarts ==
  ASSUME NEW K, NEW f, NEW m, NEW q, NEW t \in Int, NEW r, NEW hs, NEW rs, Built(<<f>>), f.k = "Handle", Bounds(f, m), Context(m),
         Fits(K, r, m, Bottom), Within(f, m, hs, rs),
         Answers(K, f, m, q, t)
  PROVE  Starts(K, f, q, t, r, hs, rs)
<1>0. Ids(hs) = <<f.scope>> \o m.scopes /\ rs = m.retries
  BY DEF Within
<1>20. /\ Built(q) /\ ScopeOrder(q) = <<>> /\ RetryOrder(q) = <<>> /\ (f.on = Error => t = NoToken)
       /\ (f.on # Error /\ t = NoToken => Flat(q) /\ \E d : Fits(K, q, d, Inside(f, m)) /\ d.mode # "tail")
       /\ (f.on # Error /\ t # NoToken => t \in DOMAIN K /\ Flat(K[t]) /\ \E d : Fits(K, K[t], d, Inside(f, m)) /\ d.mode # "tail")
  BY DEF Answers
<1>1. PICK g, b : g = HandlerDispatch(Link(q), t) /\ b = Inside(f, m)
  OBVIOUS
<1>2. /\ Built(<<g>>) /\ g.k = "Dispatch" /\ g.outer.frames = q /\ g.deferred = t
      /\ g.outer.scopes = ScopeOrder(q) /\ g.outer.retries = RetryOrder(q)
  BY <1>1, <1>20, Dispatches
<1>3. Context(b) /\ b.mode = "code" /\ b.retries = m.retries /\ b.lex = Enter("handle", m.lex) /\ b.on = f.on
  BY <1>1, BareBoundary DEF Boundaries
<1>4. b.lex # <<>> /\ b.lex[1].c = "handle" /\ Tail(b.lex) = m.lex
  BY <1>3, LexTop DEF Context
<1>5. PICK e : e = InArm(g, b)
  OBVIOUS
<1>6. Context(e)
  BY <1>2, <1>3, <1>4, <1>5, <1>20, Contexts
<1>7. e.lex = EnterArm(t, f.on, f.lex) /\ e.mode # "answer" /\ e.scopes = b.scopes /\ e.retries = m.retries
  <2>1. f.lex = m.lex
    BY DEF Bounds
  <2>2. e.lex = EnterArm(g.deferred, b.on, Tail(b.lex)) /\ e.mode # "answer" /\ e.scopes = b.scopes /\ e.retries = b.retries
    BY <1>5 DEF InArm, At, Ctx
  <2> QED BY <1>2, <1>3, <1>4, <2>1, <2>2
<1>8. Step(K, g, e, b)
  BY <1>1, <1>2, <1>3, <1>4, <1>5, <1>20 DEF Step, Rule
<1>9. Fits(K, <<g>>, e, b)
  BY <1>2, <1>3, <1>6, <1>8, FitsOne
<1>10. Flat(<<g>>) /\ ScopeOrder(<<g>>) = <<>> /\ RetryOrder(<<g>>) = <<>> /\ Simple(<<g>>)
  <2>1. FrameScopes(g) = <<>> /\ FrameRetries(g) = <<>>
    BY <1>2, <1>20 DEF FrameScopes, FrameRetries, Nested
  <2>2. Len(<<g>>) = 1 /\ <<g>>[1] = g
    OBVIOUS
  <2> QED BY <1>2, <2>1, <2>2, OneKind DEF Simple
<1>11. PICK O : O = Owning(f, <<g>>)
  OBVIOUS
<1>12. Built(<<O>>) /\ Step(K, O, e, m)
  BY <1>1, <1>9, <1>10, <1>11, MakeBoundary DEF Boundaries
<1>13. e.scopes = Ids(hs)
  <2>1. b.scopes = <<f.scope>> \o m.scopes
    BY <1>1 DEF Inside, Ctx
  <2> QED BY <1>0, <1>7, <2>1
<1>14. Settles(K, <<O>> \o r, hs, rs, e)
  BY <1>0, <1>6, <1>7, <1>12, <1>13, Pushed
<1> QED BY <1>1, <1>7, <1>11, <1>14 DEF Starts

\* A request at a boundary: what is between it and the request.
LEMMA RequestAt ==
  ASSUME MachineInv, signal.k = "Perform", stack # <<>>, Top.k = "Handle", NEW on, NEW s, s \in {signal.cont},
         Forwarded(KeptOf(arena), on, s, stack, handler_stack, retry_stack)
  PROVE  \E c, m, d : /\ Settles(KeptOf(arena), stack, handler_stack, retry_stack, c) /\ Context(m) /\ Step(KeptOf(arena), Top, c, m)
                      /\ Fits(KeptOf(arena), Below, m, Bottom)
                      /\ Fits(KeptOf(arena), s \o Top.inner.frames, d, Inside(Top, m)) /\ d.mode # "tail" /\ Flat(s \o Top.inner.frames)
<1> DEFINE K == KeptOf(arena)
<1>1. PICK c, d : Settles(K, stack, handler_stack, retry_stack, c) /\ c.mode # "answer" /\ Fits(K, s, d, c) /\ d.mode # "tail" /\ Flat(s)
  BY DEF Forwarded
<1>2. PICK m : /\ Context(m) /\ Step(K, Top, c, m) /\ Bounds(Top, m) /\ Built(Top.inner.frames) /\ Fits(K, Below, m, Bottom)
  BY <1>1, BoundaryTop
<1>3. Fits(K, Top.inner.frames, c, Inside(Top, m))
  <2>1. PICK e : /\ Fits(K, Top.inner.frames, e, Inside(Top, m)) /\ (Simple(Top.inner.frames) => c = e) /\ (~Simple(Top.inner.frames) => c.mode = "answer")
    BY <1>2, StepHandle
  <2> QED BY <1>1, <2>1
<1>4. Fits(K, s \o Top.inner.frames, d, Inside(Top, m))
  BY <1>1, <1>3, FitsCat
<1>5. Flat(Top.inner.frames) /\ Built(s)
  BY <1>1, <1>2, FitsTypes DEF Bounds
<1>6. Flat(s \o Top.inner.frames)
  BY <1>1, <1>2, <1>5, CatKinds
<1> QED BY <1>1, <1>2, <1>4, <1>6

\* An error at a boundary.
LEMMA RaiseAt ==
  ASSUME MachineInv, signal.k = "Perform", stack # <<>>, Top.k = "Handle", NEW s, s \in {signal.cont},
         Raised(KeptOf(arena), s, stack, handler_stack, retry_stack)
  PROVE  /\ ScopeOrder(s \o Top.inner.frames) = <<>> /\ RetryOrder(s \o Top.inner.frames) = <<>>
         /\ handler_stack # <<>> /\ handler_stack[1].id = Top.scope
         /\ \E m : Settles(KeptOf(arena), Below, Tail(handler_stack), retry_stack, m)
         /\ (Top.on = Error => \E c, m : /\ Settles(KeptOf(arena), stack, handler_stack, retry_stack, c) /\ Context(m) /\ Step(KeptOf(arena), Top, c, m)
                                     /\ Fits(KeptOf(arena), Below, m, Bottom))
<1> DEFINE K == KeptOf(arena)
<1>1. Built(s) /\ Built(<<Top>>)
  BY Carries, TopBelow
<1>2. PICK L, c : /\ Settles(L, stack, handler_stack, retry_stack, c)
                  /\ \/ L = K
                     \/ /\ Top.on # Error
                        /\ \E n : Step(L, Top, c, n) /\ Context(n) /\ Fits(K, Below, n, Bottom)
  <2>1. CASE \E c : Settles(K, stack, handler_stack, retry_stack, c)
    BY <2>1
  <2>2. CASE \E t, fr : Stranded(K, stack, handler_stack, retry_stack, t, fr)
    <3>1. PICK t, fr : Stranded(K, stack, handler_stack, retry_stack, t, fr)
      BY <2>2
    <3>2. PICK L : L = With(K, t, fr)
      OBVIOUS
    <3>3. PICK c, m : /\ Settles(L, stack, handler_stack, retry_stack, c) /\ Step(L, Top, c, m) /\ Context(m)
                      /\ (Top.k = "Handle" => IsArm(Top, t) /\ Top.on # Error) /\ (IsArm(Top, t) => Fits(K, Below, m, Bottom))
      BY <3>1, <3>2, StrandedBelow
    <3> QED BY <3>3
  <2> QED BY <2>1, <2>2 DEF Raised
<1>3. PICK m : /\ Context(m) /\ Step(L, Top, c, m) /\ Bounds(Top, m) /\ Fits(L, Below, m, Bottom) /\ Built(Top.inner.frames)
               /\ Settles(L, Below, Tail(handler_stack), retry_stack, m)
  BY <1>2, BoundaryTop
<1>4. handler_stack # <<>> /\ handler_stack[1].id = Top.scope
  BY <1>2, BoundaryTop
<1>5. ScopeOrder(s) = <<>> /\ RetryOrder(s) = <<>> /\ ScopeOrder(Top.inner.frames) = <<>> /\ RetryOrder(Top.inner.frames) = <<>>
  BY <1>1, <1>3, BoundaryFrame DEF Raised, Bounds, Boundaries
<1>6. ScopeOrder(s \o Top.inner.frames) = <<>> /\ RetryOrder(s \o Top.inner.frames) = <<>>
  BY <1>1, <1>3, <1>5, CatKinds
<1>7. \E n : Settles(K, Below, Tail(handler_stack), retry_stack, n)
  <2>1. CASE L = K
    BY <1>3, <2>1
  <2>2. CASE L # K
    <3>1. PICK n : Step(L, Top, c, n) /\ Context(n) /\ Fits(K, Below, n, Bottom)
      BY <1>2, <2>2
    <3>2. Opens(Top, c, n) /\ c.retries = n.retries
      BY <3>1, StepHandle
    <3>3. Top.scope \in Nat
      BY <1>1, BoundaryFrame DEF Boundaries
    <3>4. c.scopes = Ids(handler_stack) /\ c.retries = retry_stack
      BY <1>2 DEF Settles
    <3>5. n.scopes = Ids(Tail(handler_stack))
      BY <3>1, <3>2, <3>3, <3>4, ScopeCloses
    <3> QED BY <3>1, <3>2, <3>4, <3>5 DEF Settles
  <2> QED BY <2>1, <2>2
<1>8. Top.on = Error => L = K
  BY <1>2
<1> QED BY <1>2, <1>3, <1>4, <1>6, <1>7, <1>8

\* A boundary on top of the stack, in a context that settles.
LEMMA BoundaryAt ==
  ASSUME MachineInv, NEW K, NEW c, NEW m, Settles(K, stack, handler_stack, retry_stack, c), Context(m), Step(K, Top, c, m), Top.k = "Handle",
         Built(<<Top>>)
  PROVE  /\ Bounds(Top, m) /\ Within(Top, m, handler_stack, retry_stack) /\ retry_stack = m.retries /\ m.mode = "code"
         /\ handler_stack # <<>> /\ handler_stack[1].id = Top.scope /\ m.scopes = Ids(Tail(handler_stack))
<1>1. Bounds(Top, m) /\ Opens(Top, c, m) /\ c.retries = m.retries /\ m.mode = "code"
  BY StepHandle
<1>2. c.scopes = Ids(handler_stack) /\ c.retries = retry_stack
  BY DEF Settles
<1>3. Top.scope \in Nat
  BY BoundaryFrame DEF Boundaries
<1>4. handler_stack # <<>> /\ handler_stack[1].id = Top.scope /\ m.scopes = Ids(Tail(handler_stack))
  BY <1>1, <1>2, <1>3, ScopeCloses
<1>5. Within(Top, m, handler_stack, retry_stack)
  BY <1>1, <1>2, Zenon DEF Opens, Within
<1> QED BY <1>1, <1>2, <1>4, <1>5

\* A request reaches the boundary that handles it.
LEMMA DispatchHandlerPlaced ==
  ASSUME MachineInv, Here, DispatchHandler PROVE Here'
<1> DEFINE K == KeptOf(arena)
           M == KeptOf(arena')
<1>1. PICK s, f, r : s = signal.cont /\ f = Top /\ r = Below
  OBVIOUS
<1>2. PICK outer, t : outer = s \o f.inner.frames /\ t = (IF f.binder THEN arena.next ELSE NoToken)
  OBVIOUS
<1>3. PICK inside : inside = (IF f.binder THEN <<>> ELSE outer)
  OBVIOUS
<1>4. /\ signal.k = "Perform" /\ stack # <<>> /\ f.k = "Handle" /\ f.on = signal.on
      /\ Built(s) /\ Built(<<f>>) /\ Built(outer) /\ Lin(outer) /\ Built(inside) /\ Built(r) /\ t \in Int /\ f.binder \in BOOLEAN
      /\ SignalFrames \o stack = (s \o <<f>>) \o r /\ Holds(outer) \subseteq Holds(s \o <<f>>) /\ Built(s \o <<f>>)
      /\ arena' = (IF f.binder THEN Allocate(arena, 0, "Root", outer) ELSE arena)
  BY <1>1, <1>2, <1>3, DispatchParts
<1>5. stack' = <<Owning(f, <<HandlerDispatch(Link(inside), t)>>)>> \o r /\ signal' = Code(EnterArm(t, f.on, f.lex))
  BY <1>1, <1>2, <1>3, DispatchParts
<1>6. handler_stack' = handler_stack /\ retry_stack' = retry_stack
  BY DEF DispatchHandler
<1>7. /\ (f.on # Error => Forwarded(K, f.on, s, stack, handler_stack, retry_stack))
      /\ (f.on = Error => Raised(K, s, stack, handler_stack, retry_stack))
  BY <1>1, <1>4 DEF Here, Placed
<1>8. PICK c, m : /\ Settles(K, stack, handler_stack, retry_stack, c) /\ Context(m) /\ Step(K, f, c, m) /\ Fits(K, r, m, Bottom)
                  /\ ScopeOrder(outer) = <<>> /\ RetryOrder(outer) = <<>>
                  /\ (f.on # Error => Flat(outer) /\ \E d : Fits(K, outer, d, Inside(f, m)) /\ d.mode # "tail")
  <2>1. CASE f.on # Error
    <3>1. PICK c, m, d : /\ Settles(K, stack, handler_stack, retry_stack, c) /\ Context(m) /\ Step(K, f, c, m) /\ Fits(K, r, m, Bottom)
                         /\ Fits(K, outer, d, Inside(f, m)) /\ d.mode # "tail" /\ Flat(outer)
      BY <1>1, <1>2, <1>4, <1>7, <2>1, RequestAt
    <3>2. ScopeOrder(outer) = <<>> /\ RetryOrder(outer) = <<>>
      BY <3>1, FlatOrder
    <3> QED BY <3>1, <3>2
  <2>2. CASE f.on = Error
    <3>1. Raised(K, s, stack, handler_stack, retry_stack)
      BY <1>7, <2>2
    <3>2. /\ ScopeOrder(outer) = <<>> /\ RetryOrder(outer) = <<>>
          /\ \E c, m : Settles(K, stack, handler_stack, retry_stack, c) /\ Context(m) /\ Step(K, f, c, m) /\ Fits(K, r, m, Bottom)
      BY <1>1, <1>2, <1>4, <2>2, <3>1, RaiseAt
    <3> QED BY <2>2, <3>2
  <2> QED BY <2>1, <2>2
<1>9. Bounds(f, m) /\ Within(f, m, handler_stack, retry_stack)
  BY <1>1, <1>4, <1>8, BoundaryAt
<1>10. ScopeOrder(inside) = <<>> /\ RetryOrder(inside) = <<>> /\ (f.on = Error => t = NoToken /\ ~f.binder)
  <2>1. f.on = Error => ~f.binder
    BY <1>4, BoundaryFrame DEF Boundaries
  <2> QED BY <1>2, <1>3, <1>8, <2>1, OrderNil
<1>11. PICK e : Settles(M, stack', handler_stack, retry_stack, e) /\ e.mode # "answer" /\ e.lex = EnterArm(t, f.on, f.lex)
  <2>1. CASE ~f.binder
    <3>1. arena' = arena /\ t = NoToken /\ inside = outer
      BY <1>2, <1>3, <1>4, <2>1
    <3>2. M = K
      BY <3>1 DEF KeptOf
    <3>3. f.on # Error => Flat(inside) /\ \E d : Fits(K, inside, d, Inside(f, m)) /\ d.mode # "tail"
      BY <1>8, <3>1
    <3>4. PICK e : /\ Settles(K, <<Owning(f, <<HandlerDispatch(Link(inside), t)>>)>> \o r, handler_stack, retry_stack, e)
                   /\ e.mode # "answer" /\ e.lex = EnterArm(t, f.on, f.lex)
      <4>1. Answers(K, f, m, inside, t)
        BY <1>4, <1>10, <3>1, <3>3 DEF Answers
      <4>2. Starts(K, f, inside, t, r, handler_stack, retry_stack)
        <5> HIDE DEF K
        <5> QED BY <1>4, <1>8, <1>9, <4>1, ArmStarts
      <4> QED BY <4>2 DEF Starts
    <3> QED BY <1>5, <3>2, <3>4
  <2>2. CASE f.binder
    <3>1. arena' = Allocate(arena, 0, "Root", outer) /\ t = arena.next /\ inside = <<>> /\ f.on # Error
      BY <1>2, <1>3, <1>4, <1>10, <2>2
    <3>2. Base(SignalFrames \o stack, arena, Names) /\ ArenaOK(arena)
      BY Carries
    <3>3. /\ arena.next \notin Owned(arena) /\ Owned(arena') = Owned(arena) \cup {arena.next} /\ Kept(arena', arena.next) = outer
          /\ \A u \in Owned(arena) : Kept(arena', u) = Kept(arena, u)
      BY <3>1, <3>2 DEF Allocate, ArenaOK, Owned, Kept
    <3>4. /\ \A u \in DOMAIN K : u \in DOMAIN M /\ M[u] = K[u]
          /\ t \in DOMAIN M /\ M[t] = outer /\ t # NoToken
      BY <3>1, <3>2, <3>3 DEF KeptOf, ArenaOK, NoToken
    <3>5. PICK d : Fits(K, outer, d, Inside(f, m)) /\ d.mode # "tail" /\ Flat(outer)
      BY <1>8, <3>1
    <3>6. Fits(M, outer, d, Inside(f, m)) /\ Fits(M, r, m, Bottom)
      BY <1>8, <3>4, <3>5, FitsGrow
    <3>7. Flat(M[t]) /\ \E g : Fits(M, M[t], g, Inside(f, m)) /\ g.mode # "tail"
      BY <3>4, <3>5, <3>6
    <3>8. PICK e : /\ Settles(M, <<Owning(f, <<HandlerDispatch(Link(inside), t)>>)>> \o r, handler_stack, retry_stack, e)
                   /\ e.mode # "answer" /\ e.lex = EnterArm(t, f.on, f.lex)
      <4>1. Answers(M, f, m, inside, t)
        BY <1>4, <1>10, <3>4, <3>7 DEF Answers
      <4>2. Starts(M, f, inside, t, r, handler_stack, retry_stack)
        <5> HIDE DEF M
        <5> QED BY <1>4, <1>8, <1>9, <3>6, <4>1, ArmStarts
      <4> QED BY <4>2 DEF Starts
    <3> QED BY <1>5, <3>8
  <2> QED BY <1>4, <2>1, <2>2
<1>12. Placed(M, signal', stack', handler_stack', retry_stack')
  <2>1. Placed(M, Code(e.lex), stack', handler_stack, retry_stack)
    <3> HIDE DEF M
    <3> QED BY <1>11, Admits
  <2> QED BY <1>5, <1>6, <1>11, <2>1
<1> QED BY <1>12 DEF Here

\* A request passes a boundary that does not handle it.
LEMMA SuspendHandlerPlaced ==
  ASSUME MachineInv, Here, SuspendHandler PROVE Here'
<1> DEFINE K == KeptOf(arena)
<1>1. PICK s, f, r : s = signal.cont /\ f = Top /\ r = Below
  OBVIOUS
<1>2. PICK q, on, S : q = s \o f.inner.frames /\ on = signal.on /\ S = Suspended(f, q)
  OBVIOUS
<1>3. /\ signal.k = "Perform" /\ stack # <<>> /\ f.k = "Handle" /\ f.on # on
      /\ UNCHANGED <<retry_stack, arena>> /\ stack' = r
  BY <1>1, <1>2 DEF SuspendHandler, Propagates
<1>4. /\ Built(s) /\ Built(<<f>>) /\ Built(r) /\ Lin(s \o <<f>>)
  BY <1>1, <1>3, PerformParts
<1>5. Built(q) /\ <<"scope", f.scope>> \notin Holds(q)
  BY <1>2, <1>3, <1>4, SuspendUnder DEF Boundaries
<1>6. Occurrences(q, f.scope) = 0
  BY <1>5, NoOccurrence
<1>7. /\ (on # Error => Forwarded(K, on, s, stack, handler_stack, retry_stack))
      /\ (on = Error => Raised(K, s, stack, handler_stack, retry_stack))
  BY <1>1, <1>2, <1>3 DEF Here, Placed
<1>8. stack[1] = f /\ Tail(stack) = r /\ stack = <<f>> \o r /\ Built(stack)
  BY <1>1, <1>3, Carries, TopBelow DEF Top, Below
<1>9. /\ Built(<<S>>) /\ S.k = "Reenter" /\ S.inner.scopes = ScopeOrder(q) /\ S.inner.retries = RetryOrder(q)
  BY <1>2, <1>3, <1>4, <1>5, Suspends DEF Boundaries
<1>10. CASE on # Error
  <2>1. PICK c, m, d : /\ Settles(K, stack, handler_stack, retry_stack, c) /\ Context(m) /\ Step(K, f, c, m) /\ Fits(K, r, m, Bottom)
                       /\ Fits(K, q, d, Inside(f, m)) /\ d.mode # "tail" /\ Flat(q)
    BY <1>1, <1>2, <1>3, <1>7, <1>10, RequestAt
  <2>2. /\ Bounds(f, m) /\ retry_stack = m.retries /\ m.mode = "code"
        /\ handler_stack # <<>> /\ handler_stack[1].id = f.scope /\ m.scopes = Ids(Tail(handler_stack))
    BY <1>1, <1>3, <1>4, <2>1, BoundaryAt
  <2>3. ScopeOrder(q) = <<>> /\ RetryOrder(q) = <<>>
    BY <2>1, FlatOrder
  <2>4. PICK e : e = At(m, m.lex, "answer")
    OBVIOUS
  <2>5. Step(K, S, e, m)
    BY <1>2, <1>3, <1>4, <2>1, <2>2, <2>3, <2>4, MakeBoundary DEF Boundaries
  <2>6. Context(e) /\ e.mode = "answer"
    BY <2>1, <2>4, SamePlace DEF Context
  <2>7. Fits(K, <<S>>, e, m)
    BY <1>9, <2>1, <2>5, <2>6, FitsOne
  <2>8. Flat(<<S>>)
    BY <1>9, OneKind
  <2>9. Settles(K, r, Tail(handler_stack), retry_stack, m)
    BY <2>1, <2>2 DEF Settles
  <2>10. (\E i \in DOMAIN Tail(handler_stack) : Tail(handler_stack)[i].on = on) => NoRetryFirst(r, on)
    <3>1. (\E i \in DOMAIN Tail(handler_stack) : Tail(handler_stack)[i].on = on) => \E i \in DOMAIN handler_stack : handler_stack[i].on = on
      <4>1. handler_stack \in Seq(Handlers(next_handler_scope))
        BY StackTypes
      <4> QED BY <2>2, <4>1
    <3>2. (\E i \in DOMAIN handler_stack : handler_stack[i].on = on) => NoRetryFirst(stack, on)
      BY <1>7, <1>10 DEF Forwarded
    <3>3. NoRetryFirst(stack, on) => NoRetryFirst(r, on)
      BY <1>3, <1>8, <1>10, FirstShift
    <3> QED BY <3>1, <3>2, <3>3
  <2>11. Forwarded(K, on, <<S>>, r, Tail(handler_stack), retry_stack)
    BY <2>2, <2>6, <2>7, <2>8, <2>9, <2>10 DEF Forwarded
  <2>12. signal' = Perform(on, <<S>>) /\ handler_stack' = Tail(handler_stack)
    <3>1. CloseHandlerScope(f.scope, [signal EXCEPT !.cont = <<S>>])
      BY <1>1, <1>2, <1>6 DEF SuspendHandler
    <3>2. signal = Perform(on, s)
      BY <1>1, <1>2, <1>3, Carries
    <3>3. [signal EXCEPT !.cont = <<S>>] = Perform(on, <<S>>)
      BY <3>2 DEF Perform
    <3> QED BY <2>2, <3>1, <3>3 DEF CloseHandlerScope
  <2>13. Placed(K, Perform(on, <<S>>), r, Tail(handler_stack), retry_stack)
    BY <1>10, <2>11 DEF Placed, Perform
  <2> QED BY <1>3, <2>12, <2>13, StaysHere
<1>11. CASE on = Error
  <2>0. Raised(K, s, stack, handler_stack, retry_stack)
    BY <1>7, <1>11
  <2>1. /\ ScopeOrder(q) = <<>> /\ RetryOrder(q) = <<>> /\ handler_stack # <<>> /\ handler_stack[1].id = f.scope
        /\ \E m : Settles(K, r, Tail(handler_stack), retry_stack, m)
    BY <1>1, <1>2, <1>3, <2>0, RaiseAt
  <2>2. FrameScopes(S) = <<>> /\ FrameRetries(S) = <<>>
    BY <1>9, <2>1 DEF FrameScopes, FrameRetries, Nested
  <2>3. ScopeOrder(<<S>>) = <<>> /\ RetryOrder(<<S>>) = <<>> /\ \A i \in DOMAIN <<S>> : <<S>>[i].k # "Try"
    BY <1>9, <2>2, OneKind
  <2>4. NoRetryFirst(r, Error)
    <3>1. NoRetryFirst(stack, Error)
      BY <2>0 DEF Raised
    <3> QED BY <1>3, <1>8, <1>11, <3>1, FirstShift
  <2>5. Raised(K, <<S>>, r, Tail(handler_stack), retry_stack)
    BY <2>1, <2>3, <2>4 DEF Raised
  <2>6. signal' = Perform(on, <<S>>) /\ handler_stack' = Tail(handler_stack)
    <3>1. CloseHandlerScope(f.scope, [signal EXCEPT !.cont = <<S>>])
      BY <1>1, <1>2, <1>6 DEF SuspendHandler
    <3>2. signal = Perform(on, s)
      BY <1>1, <1>2, <1>3, Carries
    <3>3. [signal EXCEPT !.cont = <<S>>] = Perform(on, <<S>>)
      BY <3>2 DEF Perform
    <3> QED BY <2>1, <3>1, <3>3 DEF CloseHandlerScope
  <2>7. Placed(K, Perform(on, <<S>>), r, Tail(handler_stack), retry_stack)
    BY <1>11, <2>5 DEF Placed, Perform
  <2> QED BY <1>3, <2>6, <2>7, StaysHere
<1> QED BY <1>10, <1>11

\* The frames s are u on top of r.
Splits(s, u, r) == s = u \o r

\* From context c on top of s, the arm of token t ends at the first frame of r,
\* and nothing before it opens a scope or starts an attempt.
Reaches(M, s, c, t, u, r, e) ==
  /\ Splits(s, u, r) /\ Built(u) /\ Built(r) /\ r # <<>> /\ IsArm(r[1], t)
  /\ (\A i \in DOMAIN u : u[i].k \in {"Next", "Loop", "Try"})
  /\ Fits(M, r, e, Bottom) /\ Context(e) /\ e.mode # "answer" /\ TransferOK(e.lex, t)
  /\ e.scopes = c.scopes /\ e.retries = c.retries

\* One more frame on the way.
LEMMA ReachesOver ==
  ASSUME NEW M, NEW f, NEW s, NEW c, NEW m, NEW t, NEW u, NEW r, NEW e, Reaches(M, s, m, t, u, r, e), Built(<<f>>),
         f.k \in {"Next", "Loop", "Try"}, c.scopes = m.scopes, c.retries = m.retries
  PROVE  Reaches(M, <<f>> \o s, c, t, <<f>> \o u, r, e)
<1>1. Built(u) /\ Built(r) /\ Splits(s, u, r)
  BY DEF Reaches
<1>2. Splits(<<f>> \o s, <<f>> \o u, r)
  <2>1. (<<f>> \o u) \o r = <<f>> \o (u \o r)
    BY <1>1, CatAssoc
  <2> QED BY <1>1, <2>1 DEF Splits
<1>3. Built(<<f>> \o u)
  BY <1>1, BuiltCat
<1>4. \A i \in DOMAIN (<<f>> \o u) : (<<f>> \o u)[i].k \in {"Next", "Loop", "Try"}
  <2>1. PICK W : <<f>> \in Seq(W) /\ u \in Seq(W)
    BY <1>1, BuiltTogether
  <2>2. \A i \in DOMAIN u : u[i].k \in {"Next", "Loop", "Try"}
    BY DEF Reaches
  <2>3. \A i \in DOMAIN <<f>> : <<f>>[i].k \in {"Next", "Loop", "Try"}
    OBVIOUS
  <2>4. DOMAIN (<<f>> \o u) = 1..(Len(<<f>>) + Len(u)) /\ DOMAIN <<f>> = 1..Len(<<f>>) /\ DOMAIN u = 1..Len(u)
        /\ \A i \in 1..(Len(<<f>>) + Len(u)) :
              \/ i \in 1..Len(<<f>>) /\ (<<f>> \o u)[i] = <<f>>[i]
              \/ i - Len(<<f>>) \in 1..Len(u) /\ (<<f>> \o u)[i] = u[i - Len(<<f>>)]
    BY <2>1, Cat
  <2> QED BY <2>2, <2>3, <2>4
<1> QED BY <1>1, <1>2, <1>3, <1>4 DEF Reaches

\* A context from which a transfer of token t is allowed is above the arm of t.
LEMMA Descent ==
  ASSUME NEW M, NEW s, NEW c, NEW t, Fits(M, s, c, Bottom), c.mode # "answer", TransferOK(c.lex, t)
  PROVE  \E u, r, e : Reaches(M, s, c, t, u, r, e)
<1>1. PICK G : G = {i \in Nat : \A q, d : Fits(M, q, d, Bottom) /\ d.mode # "answer" /\ TransferOK(d.lex, t) /\ Len(q) = i
                                   => \E u, r, e : Reaches(M, q, d, t, u, r, e)}
  OBVIOUS
<1>2. 0 \in G
  <2> SUFFICES ASSUME NEW q, NEW d, Fits(M, q, d, Bottom), TransferOK(d.lex, t), Len(q) = 0 PROVE FALSE
    BY <1>1
  <2>1. q = <<>>
    BY FitsTypes DEF Built
  <2>2. d = Bottom /\ Context(d)
    BY <2>1, FitsTypes
  <2>3. d.lex = <<>> /\ d.lex \in Seq(LexEntries)
    BY <2>2 DEF Bottom, Ctx, Context
  <2> QED BY <2>3, TransferShift
<1>3. ASSUME NEW i \in Nat, i # 0, i - 1 \in G PROVE i \in G
  <2> SUFFICES ASSUME NEW q, NEW d, Fits(M, q, d, Bottom), d.mode # "answer", TransferOK(d.lex, t), Len(q) = i
               PROVE  \E u, r, e : Reaches(M, q, d, t, u, r, e)
    BY <1>1
  <2>1. Built(q) /\ q # <<>> /\ Context(d)
    BY <1>3, FitsTypes
  <2>2. PICK f, p : f = q[1] /\ p = Tail(q)
    OBVIOUS
  <2>3. Len(p) = i - 1 /\ Built(<<f>>) /\ Built(p) /\ q = <<f>> \o p
    BY <2>1, <2>2, BuiltTail
  <2>4. PICK m : Step(M, f, d, m) /\ Fits(M, p, m, Bottom) /\ Context(m)
    BY <2>1, <2>2, FitsPop
  <2>5. CASE IsArm(f, t)
    <3>1. Splits(q, <<>>, q) /\ Built(<<>>) /\ \A j \in DOMAIN <<>> : <<>>[j].k \in {"Next", "Loop", "Try"}
      BY <2>1, NilCat, BuiltNil DEF Splits
    <3>2. Reaches(M, q, d, t, <<>>, q, d)
      BY <2>1, <2>2, <2>5, <3>1 DEF Reaches
    <3> QED BY <3>2
  <2>6. CASE ~IsArm(f, t)
    <3>1. f.k \in {"Next", "Loop", "Try"} /\ TransferOK(m.lex, t) /\ m.mode # "answer"
      BY <2>1, <2>3, <2>4, <2>6, ArmBelow, StepKinds
    <3>2. PICK u, r, e : Reaches(M, p, m, t, u, r, e)
      BY <1>1, <1>3, <2>3, <2>4, <3>1
    <3>3. d.scopes = m.scopes /\ d.retries = m.retries
      BY <2>4, <3>1, StepFlat
    <3>4. Reaches(M, <<f>> \o p, d, t, <<f>> \o u, r, e)
      BY <2>3, <3>1, <3>2, <3>3, ReachesOver
    <3> QED BY <2>3, <3>4
  <2> QED BY <2>5, <2>6
<1>4. Len(s) \in Nat
  BY FitsTypes, BuiltSeq
<1>5. Len(s) \in G
  BY <1>2, <1>3, <1>4, Climb
<1> QED BY <1>1, <1>5

\* What the arm of a token goes on with.
LEMMA ArmKeeps ==
  ASSUME NEW M, NEW g, NEW e, NEW b, NEW t, Step(M, g, e, b), g.k = "Dispatch", g.deferred = t, t # NoToken, b.on # Error
  PROVE  /\ t \in DOMAIN M /\ Flat(M[t])
         /\ \E d : Fits(M, M[t], d, b) /\ d.mode # "tail" /\ d.scopes = e.scopes /\ d.retries = e.retries
<1>1. t \in DOMAIN M /\ Flat(M[t]) /\ \E d : Fits(M, M[t], d, b) /\ d.mode # "tail"
  BY DEF Step, Rule
<1>2. PICK d : Fits(M, M[t], d, b) /\ d.mode # "tail"
  BY <1>1
<1>3. d.scopes = b.scopes /\ d.retries = b.retries
  BY <1>1, <1>2, FlatKeeps
<1>4. e.scopes = b.scopes /\ e.retries = b.retries
  BY StepFlat
<1> QED BY <1>1, <1>2, <1>3, <1>4

\* The boundary that stays when its arm hands its continuation on.
Keeping(f) == IF f.k = "Handle" THEN <<Owning(f, <<>>)>> ELSE <<>>
Resumes(M, t, f, q, c) ==
  \E d : Fits(M, (M[t] \o Keeping(f)) \o q, d, Bottom) /\ d.mode # "tail" /\ d.scopes = c.scopes /\ d.retries = c.retries

\* The continuation of token t fits in the place of its arm.
LEMMA TransferFits ==
  ASSUME NEW M, NEW s, NEW c, NEW t, NEW u, NEW r, NEW e, Reaches(M, s, c, t, u, r, e), t # NoToken, NEW f, f \in {r[1]}, NEW q, q \in {Tail(r)}
  PROVE  /\ t \in DOMAIN M /\ Flat(M[t]) /\ ScopeOrder(M[t]) = <<>> /\ RetryOrder(M[t]) = <<>>
         /\ Resumes(M, t, f, q, c)
<1>1. /\ Built(r) /\ r # <<>> /\ IsArm(f, t) /\ Fits(M, r, e, Bottom) /\ Context(e) /\ e.mode # "answer" /\ TransferOK(e.lex, t)
      /\ e.scopes = c.scopes /\ e.retries = c.retries
  BY DEF Reaches
<1>2. Built(<<f>>) /\ Built(q)
  BY <1>1, BuiltTail
<1>3. PICK m : Step(M, f, e, m) /\ Fits(M, q, m, Bottom) /\ Context(m)
  BY <1>1, FitsPop
<1>4. /\ f.k \in {"Dispatch", "Handle"} /\ (f.k = "Dispatch" => m.on # Error) /\ (f.k = "Handle" => f.on # Error)
      /\ (f.k = "Handle" => Simple(f.inner.frames) /\ f.inner.frames # <<>>)
  BY <1>1, <1>2, <1>3, ArmBelow
<1>5. CASE f.k = "Dispatch"
  <2>1. f.deferred = t
    BY <1>1, <1>5 DEF IsArm
  <2>2. PICK d : Fits(M, M[t], d, m) /\ d.mode # "tail" /\ d.scopes = e.scopes /\ d.retries = e.retries /\ t \in DOMAIN M /\ Flat(M[t])
    BY <1>3, <1>4, <1>5, <2>1, ArmKeeps
  <2>3. Fits(M, M[t] \o q, d, Bottom)
    BY <1>3, <2>2, FitsCat
  <2>4. Built(M[t])
    BY <2>2, FitsTypes
  <2>5. Keeping(f) = <<>> /\ M[t] \o <<>> = M[t]
    BY <1>5, <2>4, NilCat DEF Keeping
  <2>6. ScopeOrder(M[t]) = <<>> /\ RetryOrder(M[t]) = <<>>
    BY <2>2, FlatOrder
  <2> QED BY <1>1, <2>2, <2>3, <2>5, <2>6 DEF Resumes
<1>6. CASE f.k = "Handle"
  <2>1. PICK g : /\ f.inner.frames = <<g>> /\ g = f.inner.frames[1] /\ g.k = "Dispatch" /\ Built(<<g>>)
                 /\ Step(M, g, e, Inside(f, m)) /\ Context(Inside(f, m))
    BY <1>2, <1>3, <1>4, <1>6, StepOwned
  <2>2. g.deferred = t
    BY <1>1, <1>6, <2>1 DEF IsArm
  <2>3. Bounds(f, m)
    BY <1>3, <1>6, StepHandle
  <2>4. Inside(f, m).on # Error
    BY <1>4, <1>6 DEF Inside, Ctx
  <2>5. PICK d : Fits(M, M[t], d, Inside(f, m)) /\ d.mode # "tail" /\ d.scopes = e.scopes /\ d.retries = e.retries /\ t \in DOMAIN M /\ Flat(M[t])
    BY <2>1, <2>2, <2>4, ArmKeeps
  <2>6. Fits(M, (M[t] \o <<Owning(f, <<>>)>>) \o q, d, Bottom)
    BY <1>2, <1>3, <1>6, <2>3, <2>5, OnBoundary DEF Boundaries
  <2>7. Keeping(f) = <<Owning(f, <<>>)>>
    BY <1>6 DEF Keeping
  <2>8. ScopeOrder(M[t]) = <<>> /\ RetryOrder(M[t]) = <<>>
    BY <2>5, FlatOrder
  <2> QED BY <1>1, <2>5, <2>6, <2>7, <2>8 DEF Resumes
<1> QED BY <1>4, <1>5, <1>6

\* The token of the nearest arm, when no boundary or attempt is left on the way.
LEMMA LexTransfer ==
  ASSUME NEW lex \in Seq(LexEntries), NEW t, ArmToken(lex) = t, t # NoToken, Left(lex, Arms) \cap {"handle", "retry"} = {}
  PROVE  TransferOK(lex, t)
<1>1. PICK A : A = {i \in DOMAIN lex : lex[i].c \in Arms}
  OBVIOUS
<1>2. A # {} /\ lex[Min(A)].tok = t
  BY <1>1 DEF ArmToken
<1>3. A \in SUBSET Nat
  BY <1>1
<1>4. Min(A) \in A /\ \A y \in A : Min(A) <= y
  BY <1>2, <1>3, LeastOf
<1>5. PICK j \in Nat : j = Min(A)
  BY <1>3, <1>4
<1>6. j \in DOMAIN lex /\ lex[j] \in LexEntries /\ lex[j].c = "arm" /\ lex[j].tok = t
  BY <1>1, <1>2, <1>4, <1>5 DEF LexEntries, Arms
<1>7. ASSUME NEW i \in 1..(j - 1) PROVE lex[i].c = "loop"
  <2>1. i \in DOMAIN lex /\ lex[i] \in LexEntries /\ \A n \in 1..i : n \in DOMAIN lex /\ n \notin A
    BY <1>4, <1>5, <1>6
  <2>2. \A n \in 1..i : lex[n].c \notin Arms
    BY <1>1, <2>1
  <2>3. lex[i].c \in Left(lex, Arms)
    BY <2>1, <2>2 DEF Left
  <2>4. lex[i].c \notin Arms
    BY <2>2
  <2>5. lex[i].c \in {"handle", "retry", "loop", "arm", "errorarm"}
    BY <2>1 DEF LexEntries
  <2> QED BY <2>3, <2>4, <2>5 DEF Arms
<1> QED BY <1>6, <1>7 DEF TransferOK

\* transfer_from finds the frame at which the arm ends.
LEMMA ArmFound ==
  ASSUME NEW M, NEW c, NEW t, NEW u, NEW r, NEW e, Reaches(M, stack, c, t, u, r, e), NEW f, f \in {r[1]}, NEW q, q \in {Tail(r)},
         NEW n, n \in {Len(u) + 1}
  PROVE  /\ DispatchAt(t) # {} /\ Min(DispatchAt(t)) = n /\ n \in 1..Len(stack) /\ stack[n] = f /\ IsArm(f, t)
         /\ SubSeq(stack, n + 1, Len(stack)) = q
         /\ Built(u) /\ Built(<<f>>) /\ Built(q) /\ Splits(stack, u, <<f>> \o q)
<1>0. f = r[1] /\ q = Tail(r) /\ n = Len(u) + 1
  OBVIOUS
<1>1. /\ Splits(stack, u, r) /\ Built(u) /\ Built(r) /\ r # <<>> /\ IsArm(f, t)
      /\ (\A i \in DOMAIN u : u[i].k \in {"Next", "Loop", "Try"})
  BY DEF Reaches
<1>2. PICK W : u \in Seq(W) /\ r \in Seq(W)
  BY <1>1, BuiltTogether
<1>3. /\ u \o r \in Seq(W) /\ DOMAIN u = 1..Len(u) /\ Len(u) \in Nat /\ Len(r) \in Nat /\ Len(u \o r) = Len(u) + Len(r)
      /\ \A i \in 1..Len(u) : (u \o r)[i] = u[i]
      /\ \A i \in 1..Len(r) : (u \o r)[Len(u) + i] = r[i]
  BY <1>2, Cat
<1>4. /\ stack \in Seq(W) /\ Len(stack) = Len(u) + Len(r) /\ DOMAIN stack = 1..Len(stack)
      /\ \A i \in 1..Len(u) : stack[i] = u[i]
      /\ \A i \in 1..Len(r) : stack[Len(u) + i] = r[i]
  BY <1>1, <1>3 DEF Splits
<1>5. /\ Len(r) = Len(q) + 1 /\ Len(q) \in Nat /\ q \in Seq(W) /\ r = <<f>> \o q /\ Built(<<f>>) /\ Built(q)
      /\ \A i \in 1..Len(q) : r[i + 1] = q[i]
  <2>1. Len(r) = Len(Tail(r)) + 1 /\ Len(Tail(r)) \in Nat /\ Tail(r) \in Seq(W) /\ \A i \in 1..Len(Tail(r)) : r[i + 1] = Tail(r)[i]
    BY <1>1, <1>2, Uncons
  <2>2. r = <<r[1]>> \o Tail(r) /\ Built(<<r[1]>>) /\ Built(Tail(r))
    BY <1>1, BuiltTail
  <2> QED BY <1>0, <2>1, <2>2, Zenon
<1>6. n \in Nat /\ n \in 1..Len(stack) /\ stack[n] = f
  BY <1>3, <1>4, <1>5
<1>7. DispatchAt(t) = {i \in DOMAIN stack : IsArm(stack[i], t)}
  BY DEF DispatchAt, IsArm
<1>8. n \in DispatchAt(t)
  BY <1>1, <1>4, <1>6, <1>7
<1>9. \A i \in DispatchAt(t) : n <= i
  <2> SUFFICES ASSUME NEW i \in DispatchAt(t), ~(n <= i) PROVE FALSE
    OBVIOUS
  <2>1. i \in 1..Len(u) /\ IsArm(stack[i], t)
    BY <1>3, <1>4, <1>6, <1>7
  <2>2. stack[i].k \in {"Next", "Loop", "Try"}
    BY <1>1, <1>3, <1>4, <2>1
  <2> QED BY <2>1, <2>2 DEF IsArm
<1>10. DispatchAt(t) \in SUBSET Nat
  BY <1>4, <1>7
<1>11. Min(DispatchAt(t)) = n
  <2>1. PICK j : j = Min(DispatchAt(t))
    OBVIOUS
  <2>2. j \in DispatchAt(t) /\ j <= n
    BY <1>8, <1>10, <2>1, LeastOf
  <2>3. n <= j /\ j \in Nat
    BY <1>9, <1>10, <2>2
  <2> QED BY <1>6, <2>1, <2>2, <2>3
<1>12. SubSeq(stack, n + 1, Len(stack)) = q
  <2>1. PICK v : v = SubSeq(stack, n + 1, Len(stack))
    OBVIOUS
  <2>2. v \in Seq(W) /\ Len(v) = Len(stack) - n /\ \A i \in 1..(Len(stack) - n) : v[i] = stack[n + i]
    BY <1>4, <1>6, <2>1, Cut
  <2>3. Len(v) = Len(q)
    BY <1>0, <1>3, <1>4, <1>5, <2>2
  <2>4. \A i \in 1..Len(q) : v[i] = q[i]
    <3> SUFFICES ASSUME NEW i \in 1..Len(q) PROVE v[i] = q[i]
      OBVIOUS
    <3>1. i + 1 \in 1..Len(r) /\ n + i = Len(u) + (i + 1) /\ i \in 1..(Len(stack) - n)
      BY <1>0, <1>3, <1>4, <1>5
    <3>2. v[i] = stack[n + i] /\ stack[Len(u) + (i + 1)] = r[i + 1] /\ r[i + 1] = q[i]
      BY <1>4, <1>5, <2>2, <3>1
    <3> QED BY <3>1, <3>2
  <2>5. v = q
    BY <1>5, <2>2, <2>3, <2>4
  <2> QED BY <2>1, <2>5
<1>13. Splits(stack, u, <<f>> \o q)
  BY <1>1, <1>5
<1> QED BY <1>1, <1>5, <1>6, <1>8, <1>11, <1>12, <1>13

\* The token of an arm is nowhere but at the arm's end.
LEMMA TransferAway ==
  ASSUME MachineInv, NEW t, t # NoToken, NEW u, NEW f, NEW q, Built(u), Built(<<f>>), Built(q), Splits(stack, u, <<f>> \o q), IsArm(f, t)
  PROVE  /\ <<"token", t>> \in Holds(SignalFrames \o stack) /\ <<"token", t>> \notin Holds(SignalFrames)
         /\ Built(Keeping(f)) /\ <<"token", t>> \notin Holds(Keeping(f)) /\ <<"token", t>> \notin Holds(q)
         /\ \A v : Built(v) /\ <<"token", t>> \notin Holds(v) => /\ Built((v \o Keeping(f)) \o q)
                                                               /\ <<"token", t>> \notin Holds((v \o Keeping(f)) \o q)
<1>1. <<"token", t>> \in Holds(<<f>>)
  BY ArmNames
<1>2. PICK b : b = <<f>> \o q
  OBVIOUS
<1>3. Built(b) /\ Holds(b) = Holds(<<f>>) \cup Holds(q) /\ (Lin(b) => Holds(<<f>>) \cap Holds(q) = {})
  BY <1>2, BuiltCat
<1>4. stack = u \o b
  BY <1>2 DEF Splits
<1>5. Holds(stack) = Holds(u) \cup Holds(b) /\ (Lin(stack) => Lin(b))
  BY <1>3, <1>4, BuiltCat
<1>6. Built(SignalFrames) /\ Built(stack) /\ Lin(SignalFrames \o stack)
  BY Carries DEF Base
<1>7. Holds(SignalFrames \o stack) = Holds(SignalFrames) \cup Holds(stack) /\ Lin(stack) /\ Holds(SignalFrames) \cap Holds(stack) = {}
  BY <1>6, BuiltCat
<1>8. Built(Keeping(f)) /\ <<"token", t>> \notin Holds(Keeping(f))
  <2>1. CASE f.k = "Handle"
    <3>1. Built(<<Owning(f, <<>>)>>) /\ Holds(<<Owning(f, <<>>)>>) = {<<"scope", f.scope>>} \cup Holds(<<>>)
      BY <2>1, BuiltNil, Owns DEF Boundaries
    <3>2. <<"token", t>> # <<"scope", f.scope>>
      OBVIOUS
    <3> QED BY <2>1, <3>1, <3>2, HoldsNil DEF Keeping
  <2>2. CASE f.k # "Handle"
    BY <2>2, BuiltNil, HoldsNil DEF Keeping
  <2> QED BY <2>1, <2>2
<1>9. <<"token", t>> \notin Holds(q)
  BY <1>1, <1>3, <1>5, <1>7
<1>10. ASSUME NEW v, Built(v), <<"token", t>> \notin Holds(v)
       PROVE  Built((v \o Keeping(f)) \o q) /\ <<"token", t>> \notin Holds((v \o Keeping(f)) \o q)
  <2>1. Built(v \o Keeping(f)) /\ Holds(v \o Keeping(f)) = Holds(v) \cup Holds(Keeping(f))
    BY <1>8, <1>10, BuiltCat
  <2>2. Built((v \o Keeping(f)) \o q) /\ Holds((v \o Keeping(f)) \o q) = Holds(v \o Keeping(f)) \cup Holds(q)
    BY <2>1, BuiltCat
  <2> QED BY <1>8, <1>9, <1>10, <2>1, <2>2
<1> QED BY <1>1, <1>3, <1>5, <1>7, <1>8, <1>9, <1>10

\* What a transfer leaves on the stack.
LEMMA TransferIs ==
  ASSUME NEW t, NEW frames, TransferFrom(t, frames), DispatchAt(t) # {}, NEW n, n \in {Min(DispatchAt(t))}, NEW f, f \in {stack[n]},
         NEW q, q \in {SubSeq(stack, n + 1, Len(stack))}
  PROVE  stack' = (frames \o Keeping(f)) \o q /\ signal' = Sig("Value")
  BY DEF TransferFrom, Keeping

\* An arm that may transfer its continuation.
LEMMA MayDescend ==
  ASSUME MachineInv, Here, ~crossed', signal.k = "Code", MayTransfer, NEW t, t \in {ArmToken(signal.lex)}
  PROVE  \E c, u, r, e : /\ Settles(KeptOf(arena), stack, handler_stack, retry_stack, c) /\ c.mode # "answer" /\ TransferOK(c.lex, t)
                         /\ Reaches(KeptOf(arena), stack, c, t, u, r, e) /\ t # NoToken
<1>1. PICK c : Settles(KeptOf(arena), stack, handler_stack, retry_stack, c) /\ Context(c) /\ c.mode \in {"code", "tail"} /\ c.lex = signal.lex
  BY CodeAt
<1>2. t # NoToken /\ Left(signal.lex, Arms) \cap {"handle", "retry"} = {}
  BY DEF MayTransfer, Crosses
<1>3. TransferOK(c.lex, t)
  BY <1>1, <1>2, LexTransfer DEF Context
<1>4. Fits(KeptOf(arena), stack, c, Bottom)
  BY <1>1 DEF Settles
<1>5. \E u, r, e : Reaches(KeptOf(arena), stack, c, t, u, r, e)
  BY <1>1, <1>3, <1>4, Descent
<1> QED BY <1>1, <1>2, <1>3, <1>5

\* An arm requeues its continuation.
LEMMA RequeuePlaced ==
  ASSUME MachineInv, Here, ~crossed', EvalRequeue PROVE Here'
<1> DEFINE K == KeptOf(arena)
<1>1. PICK t : t = ArmToken(signal.lex)
  OBVIOUS
<1>2. signal.k = "Code" /\ MayTransfer /\ UNCHANGED <<handler_stack, retry_stack>>
  BY DEF EvalRequeue, Evaluates
<1>3. PICK c, u, r, e : /\ Settles(K, stack, handler_stack, retry_stack, c) /\ Reaches(K, stack, c, t, u, r, e) /\ t # NoToken
  BY <1>1, <1>2, MayDescend
<1>4. PICK f, q, n : f = r[1] /\ q = Tail(r) /\ n = Len(u) + 1
  OBVIOUS
<1>5. t \in DOMAIN K /\ Resumes(K, t, f, q, c)
  <2> HIDE DEF K
  <2> QED BY <1>3, <1>4, TransferFits
<1>6. t \in Owned(arena) /\ K[t] = Kept(arena, t) /\ ArenaOK(arena)
  BY <1>5, Carries DEF KeptOf
<1>7. Refusal(arena, t, 0, "Root") = "Accepted" /\ Built(Kept(arena, t))
  BY <1>6, Accepts
<1>8. arena' = TakeOut(arena, t, "ReadyOwned") /\ TransferFrom(t, Kept(arena, t))
  BY <1>1, <1>7, TakesOut DEF EvalRequeue, Kept
<1>9. /\ DispatchAt(t) # {} /\ Min(DispatchAt(t)) = n /\ stack[n] = f /\ IsArm(f, t) /\ SubSeq(stack, n + 1, Len(stack)) = q
      /\ Built(u) /\ Built(<<f>>) /\ Built(q) /\ Splits(stack, u, <<f>> \o q)
  BY <1>3, <1>4, ArmFound
<1>10. stack' = (Kept(arena, t) \o Keeping(f)) \o q /\ signal' = Sig("Value")
  BY <1>8, <1>9, TransferIs
<1>11. <<"token", t>> \in Holds(SignalFrames \o stack) /\ <<"token", t>> \notin Holds(Kept(arena, t))
  <2>1. <<"token", t>> \in Holds(SignalFrames \o stack)
    BY <1>3, <1>9, TransferAway
  <2> QED BY <1>6, <2>1, Carries DEF Base
<1>12. <<"token", t>> \notin Holds(stack')
  BY <1>3, <1>7, <1>9, <1>10, <1>11, TransferAway
<1>13. PICK d : Fits(K, stack', d, Bottom) /\ d.mode # "tail" /\ d.scopes = c.scopes /\ d.retries = c.retries
  BY <1>5, <1>6, <1>10 DEF Resumes
<1>14. Fits(KeptOf(arena'), stack', d, Bottom)
  BY <1>6, <1>8, <1>11, <1>12, <1>13, TokenLeaves, TakesOut
<1>15. Settles(KeptOf(arena'), stack', handler_stack, retry_stack, d)
  BY <1>3, <1>13, <1>14 DEF Settles
<1>16. Placed(KeptOf(arena'), Sig("Value"), stack', handler_stack, retry_stack)
  BY <1>13, <1>15, Admits
<1> QED BY <1>2, <1>10, <1>16 DEF Here

\* The arm whose continuation is parked is on the stack as before.
LEMMA ParkPlaced ==
  ASSUME MachineInv, Here, ~crossed', EvalPark PROVE Here'
<1> DEFINE K == KeptOf(arena)
           L == KeptOf(arena')
<1>1. PICK t : t = ArmToken(signal.lex)
  OBVIOUS
<1>2. signal.k = "Code" /\ MayTransfer /\ UNCHANGED <<stack, handler_stack, retry_stack>>
  BY DEF EvalPark, Evaluates
<1>3. PICK c, u, r, e : /\ Settles(K, stack, handler_stack, retry_stack, c) /\ c.mode # "answer" /\ TransferOK(c.lex, t)
                        /\ Reaches(K, stack, c, t, u, r, e) /\ t # NoToken
  BY <1>1, <1>2, MayDescend
<1>4. PICK f, q, n : f = r[1] /\ q = Tail(r) /\ n = Len(u) + 1
  OBVIOUS
<1>5. t \in DOMAIN K /\ ScopeOrder(K[t]) = <<>> /\ RetryOrder(K[t]) = <<>>
  <2> HIDE DEF K
  <2> QED BY <1>3, <1>4, TransferFits
<1>6. t \in Owned(arena) /\ K[t] = Kept(arena, t) /\ ArenaOK(arena)
  BY <1>5, Carries DEF KeptOf
<1>7. Refusal(arena, t, 0, "Root") = "Accepted"
  BY <1>6, Accepts
<1>8. arena' = TakeOut(arena, t, "WaitingOn") /\ signal' = [k |-> "Parked", tok |-> t, cont |-> Kept(arena, t)]
  BY <1>1, <1>7, TakesOut DEF EvalPark, Kept
<1>9. /\ DispatchAt(t) # {} /\ Min(DispatchAt(t)) = n /\ n \in 1..Len(stack) /\ stack[n] = f /\ IsArm(f, t)
  BY <1>3, <1>4, ArmFound
<1>10. NoTryFirst(stack, t)
  <2> SUFFICES ASSUME NEW i \in DOMAIN stack, stack[i].k = "Try" PROVE \E j \in 1..(i - 1) : IsArm(stack[j], t)
    BY DEF NoTryFirst
  <2>1. PICK W : stack \in Seq(W) /\ DOMAIN stack = 1..Len(stack) /\ Len(stack) \in Nat
    BY Carries, BuiltSeq
  <2>2. ArmFrames(t) = SubSeq(stack, 1, n)
    BY <1>9 DEF ArmFrames
  <2>3. \A j \in 1..n : SubSeq(stack, 1, n)[j] = stack[j] /\ j \in DOMAIN SubSeq(stack, 1, n)
    BY <1>9, <2>1
  <2>4. \A j \in 1..n : stack[j].k # "Try"
    BY <1>1, <1>2, <2>2, <2>3 DEF MayTransfer, Range
  <2>5. n \in 1..(i - 1)
    BY <1>9, <2>1, <2>4
  <2> QED BY <1>9, <2>5
<1>11. Owned(arena') = Owned(arena) \ {t} /\ \A v \in Owned(arena') : Kept(arena', v) = Kept(arena, v)
  BY <1>6, <1>8, TakenArena, TakesOut
<1>12. \A v \in DOMAIN K : v \in DOMAIN With(L, t, K[t]) /\ With(L, t, K[t])[v] = K[v]
  BY <1>6, <1>11 DEF With, KeptOf
<1>13. Fits(With(L, t, K[t]), stack, c, Bottom)
  <2>1. Fits(K, stack, c, Bottom)
    BY <1>3 DEF Settles
  <2> QED BY <1>12, <2>1, FitsGrow
<1>14. Settles(With(L, t, K[t]), stack, handler_stack, retry_stack, c)
  BY <1>3, <1>13 DEF Settles
<1>15. Stranded(L, stack, handler_stack, retry_stack, t, K[t])
  BY <1>3, <1>10, <1>14 DEF Stranded
<1>16. \A v \in DOMAIN L : v # t
  BY <1>11 DEF KeptOf
<1>17. Placed(L, [k |-> "Parked", tok |-> t, cont |-> K[t]], stack, handler_stack, retry_stack)
  BY <1>5, <1>15, <1>16 DEF Placed
<1> QED BY <1>2, <1>6, <1>8, <1>17 DEF Here

\* The awaited task completes: the parked continuation takes the place of its arm.
LEMMA UnparkCompletedPlaced ==
  ASSUME MachineInv, Here, UnparkCompleted PROVE Here'
<1>1. PICK t, fr, K, M : t = signal.tok /\ fr = signal.cont /\ K = KeptOf(arena) /\ M = With(K, t, fr)
  OBVIOUS
<1>2. signal.k = "Parked" /\ TransferFrom(t, fr) /\ UNCHANGED <<arena, handler_stack, retry_stack>>
  BY <1>1 DEF UnparkCompleted
<1>3. Stranded(K, stack, handler_stack, retry_stack, t, fr) /\ \A v \in DOMAIN K : v # t
  BY <1>1, <1>2 DEF Here, Placed
<1>4. PICK c : Settles(M, stack, handler_stack, retry_stack, c) /\ c.mode # "answer" /\ TransferOK(c.lex, t) /\ t # NoToken
  BY <1>1, <1>3 DEF Stranded
<1>5. Fits(M, stack, c, Bottom)
  BY <1>4 DEF Settles
<1>6. PICK u, r, e : Reaches(M, stack, c, t, u, r, e)
  BY <1>4, <1>5, Descent
<1>7. PICK f, q, n : f = r[1] /\ q = Tail(r) /\ n = Len(u) + 1
  OBVIOUS
<1>8. Resumes(M, t, f, q, c)
  BY <1>4, <1>6, <1>7, TransferFits
<1>9. M[t] = fr
  BY <1>1 DEF With
<1>10. /\ DispatchAt(t) # {} /\ Min(DispatchAt(t)) = n /\ stack[n] = f /\ IsArm(f, t) /\ SubSeq(stack, n + 1, Len(stack)) = q
       /\ Built(u) /\ Built(<<f>>) /\ Built(q) /\ Splits(stack, u, <<f>> \o q)
  BY <1>6, <1>7, ArmFound
<1>11. stack' = (fr \o Keeping(f)) \o q /\ signal' = Sig("Value")
  BY <1>2, <1>10, TransferIs
<1>12. SignalFrames = fr /\ Built(fr)
  BY <1>1, <1>2, Carries
<1>13. <<"token", t>> \in Holds(SignalFrames \o stack) /\ <<"token", t>> \notin Holds(fr)
  BY <1>4, <1>10, <1>12, TransferAway
<1>14. <<"token", t>> \notin Holds(stack')
  BY <1>4, <1>10, <1>11, <1>12, <1>13, TransferAway
<1>15. \A v \in Owned(arena) : Away(Kept(arena, v), {t})
  BY <1>13, Carries DEF Base, Away
<1>16. \A v \in DOMAIN M \ {t} : v \in DOMAIN K /\ K[v] = M[v] /\ Away(M[v], {t})
  BY <1>1, <1>15 DEF With, KeptOf
<1>17. Away(stack', {t}) /\ NoToken \notin {t}
  BY <1>4, <1>14 DEF Away
<1>18. PICK d : Fits(M, stack', d, Bottom) /\ d.mode # "tail" /\ d.scopes = c.scopes /\ d.retries = c.retries
  BY <1>8, <1>9, <1>11 DEF Resumes
<1>19. Fits(K, stack', d, Bottom)
  BY <1>16, <1>17, <1>18, FitsMove
<1>20. Settles(K, stack', handler_stack, retry_stack, d)
  BY <1>4, <1>18, <1>19 DEF Settles
<1>21. Placed(K, Sig("Value"), stack', handler_stack, retry_stack)
  BY <1>18, <1>20, Admits
<1> QED BY <1>1, <1>2, <1>11, <1>21, StaysHere

\* The awaited task raises: the error starts where the arm waits.
LEMMA UnparkRaisedPlaced ==
  ASSUME MachineInv, Here, ~crossed', UnparkRaised PROVE Here'
<1>1. PICK t, fr, K : t = signal.tok /\ fr = signal.cont /\ K = KeptOf(arena)
  OBVIOUS
<1>2. /\ signal.k = "Parked" /\ UNCHANGED <<arena, stack, handler_stack, retry_stack>> /\ signal' = Perform(Error, fr)
      /\ ~LeavesRetry(Error) /\ ~(\E f \in Range(fr) : f.k = "Try")
  BY <1>1 DEF UnparkRaised
<1>3. /\ Stranded(K, stack, handler_stack, retry_stack, t, fr) /\ (\A v \in DOMAIN K : v # t)
      /\ ScopeOrder(fr) = <<>> /\ RetryOrder(fr) = <<>>
  BY <1>1, <1>2 DEF Here, Placed
<1>4. NoRetryFirst(stack, Error)
  BY <1>2 DEF LeavesRetry, NoRetryFirst
<1>5. \A i \in DOMAIN fr : fr[i].k # "Try"
  BY <1>2 DEF Range
<1>6. Raised(K, fr, stack, handler_stack, retry_stack)
  BY <1>3, <1>4, <1>5 DEF Raised
<1>7. Placed(K, Perform(Error, fr), stack, handler_stack, retry_stack)
  BY <1>6 DEF Placed, Perform
<1> QED BY <1>1, <1>2, <1>7, StaysHere

\* The frames below frame n, as a stack of their own.
LEMMA FitsAt ==
  ASSUME NEW K, NEW s, NEW c, NEW b, Fits(K, s, c, b), NEW n \in 1..Len(s), NEW q, q \in {SubSeq(s, n + 1, Len(s))}, NEW f, f \in {s[n]}
  PROVE  /\ Built(<<f>>) /\ Built(q)
         /\ \E m, e : Fits(K, SubSeq(s, 1, n - 1), c, m) /\ Step(K, f, m, e) /\ Fits(K, q, e, b) /\ Context(e)
<1>1. Built(s)
  BY FitsTypes
<1>2. PICK W : s \in Seq(W) /\ Len(s) \in Nat
  BY <1>1, BuiltSeq
<1>3. n \in Nat /\ n - 1 \in 0..Len(s) /\ (n - 1) + 1 = n /\ n \in 0..Len(s)
  BY <1>2
<1>4. PICK r : r = SubSeq(s, n, Len(s))
  OBVIOUS
<1>5. PICK m : Fits(K, SubSeq(s, 1, n - 1), c, m) /\ Fits(K, r, m, b)
  <2>1. \E m : Fits(K, SubSeq(s, 1, n - 1), c, m) /\ Fits(K, SubSeq(s, (n - 1) + 1, Len(s)), m, b)
    BY <1>3, FitsCut
  <2> QED BY <1>3, <1>4, <2>1
<1>6. r \in Seq(W) /\ Len(r) = Len(s) - (n - 1) /\ \A i \in 1..(Len(s) - (n - 1)) : r[i] = s[(n - 1) + i]
  <2>1. /\ SubSeq(s, (n - 1) + 1, Len(s)) \in Seq(W) /\ Len(SubSeq(s, (n - 1) + 1, Len(s))) = Len(s) - (n - 1)
        /\ \A i \in 1..(Len(s) - (n - 1)) : SubSeq(s, (n - 1) + 1, Len(s))[i] = s[(n - 1) + i]
    BY <1>2, <1>3, Cut
  <2> QED BY <1>3, <1>4, <2>1
<1>7. q \in Seq(W) /\ Len(q) = Len(s) - n /\ \A i \in 1..(Len(s) - n) : q[i] = s[n + i]
  <2>1. /\ SubSeq(s, n + 1, Len(s)) \in Seq(W) /\ Len(SubSeq(s, n + 1, Len(s))) = Len(s) - n
        /\ \A i \in 1..(Len(s) - n) : SubSeq(s, n + 1, Len(s))[i] = s[n + i]
    BY <1>2, <1>3, Cut
  <2>2. q = SubSeq(s, n + 1, Len(s))
    OBVIOUS
  <2> QED BY <2>1, <2>2, Zenon
<1>8. r # <<>> /\ r[1] = f
  <2>1. 1 \in 1..(Len(s) - (n - 1)) /\ (n - 1) + 1 = n
    BY <1>2, <1>3
  <2> QED BY <1>6, <2>1
<1>9. Tail(r) = q
  <2>0. PICK v : v = Tail(r)
    OBVIOUS
  <2>1. v \in Seq(W) /\ Len(r) = Len(v) + 1 /\ Len(v) \in Nat /\ \A i \in 1..Len(v) : r[i + 1] = v[i]
    BY <1>6, <1>8, <2>0, Uncons
  <2>2. Len(v) = Len(q)
    <3>1. PICK x, y, z, w : x = Len(s) /\ y = Len(r) /\ z = Len(q) /\ w = Len(v)
      OBVIOUS
    <3>2. x \in Nat /\ n \in Nat /\ w \in Nat /\ y = x - (n - 1) /\ z = x - n /\ y = w + 1
      BY <1>2, <1>3, <1>6, <1>7, <2>1, <3>1
    <3>3. w = z
      BY <3>2
    <3> QED BY <3>1, <3>3
  <2>3. ASSUME NEW i \in 1..Len(q) PROVE v[i] = q[i]
    <3>1. i \in 1..(Len(s) - n) /\ i + 1 \in 1..(Len(s) - (n - 1)) /\ (n - 1) + (i + 1) = n + i
      BY <1>2, <1>3, <1>7, <2>3
    <3>2. q[i] = s[n + i] /\ r[i + 1] = s[(n - 1) + (i + 1)] /\ r[i + 1] = v[i]
      BY <1>6, <1>7, <2>1, <2>2, <2>3, <3>1
    <3> QED BY <3>1, <3>2
  <2>4. v = q
    <3>1. q \in Seq(W) /\ v \in Seq(W) /\ Len(q) = Len(v) /\ \A i \in 1..Len(q) : q[i] = v[i]
      BY <1>7, <2>1, <2>2, <2>3
    <3> QED BY <3>1, SeqEqual
  <2> QED BY <2>0, <2>4
<1>10. PICK e : Context(e) /\ Step(K, f, m, e) /\ Fits(K, q, e, b)
  BY <1>5, <1>8, <1>9, FitsPop
<1>11. Built(<<f>>) /\ Built(q)
  <2>1. Built(r)
    BY <1>5, FitsTypes
  <2> QED BY <1>8, <1>9, <2>1, BuiltTail
<1> QED BY <1>5, <1>10, <1>11

\* The Host's failure ends the attempt it is in, and starts the next.
LEMMA HostFailsPlaced ==
  ASSUME MachineInv, Here, ~crossed', HostFails PROVE Here'
<1> DEFINE K == KeptOf(arena)
<1>1. signal.k = "Host" /\ ~FailureLeavesHandler /\ UNCHANGED <<handler_stack, arena>>
  BY DEF HostFails, Crosses
<1>2. PICK c : Settles(K, stack, handler_stack, retry_stack, c)
  BY <1>1 DEF Here, Placed
<1>3. CASE RetryFrames = {}
  <2>1. signal' = Fault("host")
    BY <1>3 DEF HostFails
  <2>2. Placed(K, Fault("host"), stack', handler_stack', retry_stack')
    BY Ends DEF Limits
  <2> QED BY <1>1, <2>1, <2>2, StaysHere
<1>4. CASE RetryFrames # {}
  <2>1. PICK W : stack \in Seq(W) /\ DOMAIN stack = 1..Len(stack) /\ Len(stack) \in Nat
    BY Carries, BuiltSeq
  <2>2. RetryFrames \in SUBSET Nat
    BY <2>1 DEF RetryFrames
  <2>3. PICK at : at = Min(RetryFrames)
    OBVIOUS
  <2>4. at \in RetryFrames /\ \A y \in RetryFrames : at <= y
    BY <1>4, <2>2, <2>3, LeastOf
  <2>5. at \in 1..Len(stack) /\ stack[at].k = "Retry" /\ at \in Nat
    BY <2>1, <2>4 DEF RetryFrames
  <2>6. PICK q, f : q = SubSeq(stack, at + 1, Len(stack)) /\ f = stack[at]
    OBVIOUS
  <2>7. Fits(K, stack, c, Bottom) /\ c.scopes = Ids(handler_stack) /\ c.retries = retry_stack
    BY <1>2 DEF Settles
  <2>8. PICK m, e : Fits(K, SubSeq(stack, 1, at - 1), c, m) /\ Step(K, f, m, e) /\ Fits(K, q, e, Bottom) /\ Context(e) /\ Built(<<f>>)
    BY <2>5, <2>6, <2>7, FitsAt
  <2>9. Flat(SubSeq(stack, 1, at - 1))
    <3>1. /\ \A i \in 1..(at - 1) : SubSeq(stack, 1, at - 1)[i] = stack[i] /\ i \in DOMAIN stack /\ i \notin RetryFrames /\ i \in 1..at
          /\ DOMAIN SubSeq(stack, 1, at - 1) = 1..(at - 1)
      BY <2>1, <2>4, <2>5
    <3>2. \A i \in 1..(at - 1) : stack[i].k # "Retry" /\ stack[i].k # "Handle"
      BY <1>1, <1>4, <2>3, <3>1 DEF RetryFrames, FailureLeavesHandler
    <3> QED BY <3>1, <3>2 DEF Flat
  <2>10. m.scopes = Ids(handler_stack) /\ m.retries = retry_stack
    BY <2>7, <2>8, <2>9, FlatKeeps
  <2>11. /\ e.scopes = Ids(handler_stack) /\ e.retries = PopRetry(f.id) /\ f.lex = e.lex /\ e.mode # "answer"
         /\ f.next \in Nat /\ f.lex \in Seq(LexEntries)
    BY <2>5, <2>6, <2>8, <2>10, AttemptEnds
  <2>12. IF f.next >= Attempts THEN signal' = Fault("retry exhausted") ELSE StartAttempt(f.next, f.lex, q, PopRetry(f.id))
    BY <1>4, <2>3, <2>6 DEF HostFails
  <2>13. CASE f.next >= Attempts
    <3>1. Placed(K, Fault("retry exhausted"), stack', handler_stack', retry_stack')
      BY Ends DEF Limits
    <3> QED BY <1>1, <2>12, <2>13, <3>1, StaysHere
  <2>14. CASE ~(f.next >= Attempts)
    <3>1. StartAttempt(f.next, f.lex, q, PopRetry(f.id)) /\ handler_stack' = handler_stack
      BY <1>1, <2>12, <2>14
    <3>2. Placed(K, signal', stack', handler_stack', retry_stack')
      <4> HIDE DEF K
      <4> QED BY <2>8, <2>11, <3>1, AttemptPlaced
    <3> QED BY <1>1, <3>2, StaysHere
  <2> QED BY <2>13, <2>14
<1> QED BY <1>3, <1>4

\* Where frames settle, the dynamic stacks are what an unwinding closes.
LEMMA SettledOrders ==
  ASSUME NEW K, NEW s, NEW hs, NEW rs, NEW c, Settles(K, s, hs, rs, c)
  PROVE  Ids(hs) = ScopeOrder(s) /\ rs = RetryOrder(s) /\ Built(s)
<1>1. Fits(K, s, c, Bottom) /\ c.scopes = Ids(hs) /\ c.retries = rs
  BY DEF Settles
<1>2. Built(s)
  BY <1>1, FitsTypes
<1>3. c.scopes = ScopeOrder(s) \o Bottom.scopes /\ c.retries = RetryOrder(s) \o Bottom.retries
  BY <1>1, FitsOrder
<1>4. Bottom.scopes = <<>> /\ Bottom.retries = <<>>
  BY DEF Bottom, Ctx
<1>5. ScopeOrder(s) \in Seq(Scoped(Holds(s))) /\ RetryOrder(s) \in Seq(Nat)
  BY <1>2, OrderCat
<1>6. ScopeOrder(s) \o <<>> = ScopeOrder(s) /\ RetryOrder(s) \o <<>> = RetryOrder(s)
  <2>1. \A S : \A v \in Seq(S) : v \o <<>> = v
    OBVIOUS
  <2> QED BY <1>5, <2>1
<1> QED BY <1>1, <1>2, <1>3, <1>4, <1>6, Zenon

\* The arena of the machine is one that a restore accepts.
LEMMA ArenaValid ==
  ASSUME NEW A, ArenaOK(A) PROVE ValidArena(A)
<1>1. \A s : Built(s) => s # NoFrames
  <2> SUFFICES ASSUME NEW s, Built(s), s = NoFrames PROVE FALSE
    OBVIOUS
  <2>1. \A i \in 1..Len(s) : s[i].k \in Kinds
    BY BuiltSeq
  <2> QED BY <2>1 DEF NoFrames, Kinds
<1>2. \A i \in DOMAIN A.entries : i < A.next
  BY DEF ArenaOK
<1> QED BY <1>1, <1>2 DEF ArenaOK, ValidArena

\* A checkpoint is accepted, and what it saves is the place it is made at.
LEMMA CheckpointPlaced ==
  ASSUME MachineInv, Here, RecordCheckpoint
  PROVE  /\ Here' /\ saved' # NoCheckpoint
         /\ Placed(KeptOf(saved'.arena), Sig("Value"), saved'.stack, saved'.handler_stack, saved'.retry_stack)
<1> DEFINE K == KeptOf(arena)
<1>1. signal.k = "Checkpoint" /\ UNCHANGED <<stack, handler_stack, retry_stack, arena>>
  BY DEF RecordCheckpoint
<1>2. PICK c : Settles(K, stack, handler_stack, retry_stack, c) /\ c.mode # "tail"
  BY <1>1 DEF Here, Placed
<1>3. ValidTopology
  BY <1>2, SettledOrders DEF ValidTopology, Ids
<1>4. ValidArena(arena)
  BY Carries, ArenaValid
<1>5. signal' = Sig("Value") /\ saved'.arena = arena /\ saved'.stack = stack /\ saved'.handler_stack = handler_stack
      /\ saved'.retry_stack = retry_stack /\ saved' # NoCheckpoint
  BY <1>3, <1>4 DEF RecordCheckpoint, NoCheckpoint
<1>6. Placed(K, Sig("Value"), stack, handler_stack, retry_stack)
  BY <1>2, Admits
<1> QED BY <1>1, <1>5, <1>6, StaysHere

\* The run goes on at the place of its last checkpoint.
LEMMA CrashPlaced ==
  ASSUME TopologyInv, CrashAndResume, ~crossed' PROVE Here'
<1>1. Placed(KeptOf(saved.arena), Sig("Value"), saved.stack, saved.handler_stack, saved.retry_stack)
  BY DEF TopologyInv, CrashAndResume
<1>2. /\ signal' = Sig("Value") /\ stack' = saved.stack /\ handler_stack' = saved.handler_stack
      /\ retry_stack' = saved.retry_stack /\ arena' = saved.arena
  BY DEF CrashAndResume
<1> QED BY <1>1, <1>2 DEF Here

\* A step from a place leads to a place, if it crosses no boundary.
LEMMA StepPlaced ==
  ASSUME TopologyInv, Next, ~crossed', ~crossed, ~CrashAndResume PROVE Here'
<1>1. MachineInv /\ Here
  BY DEF TopologyInv
<1>2. CASE EvalValue \/ ExecuteBlock \/ EvalTry \/ EvalCall \/ EvalReturn \/ EvalLoop \/ EvalRetry \/ EvalHost \/ EvalCheckpoint
  BY <1>1, <1>2, SignalsPlaced, PushesPlaced, RetryPlaced
<1>3. CASE EvalRequeue \/ EvalPark
  BY <1>1, <1>3, RequeuePlaced, ParkPlaced
<1>4. CASE \E on \in Actions \cup {Error}, b \in Binders : EvalHandle(on, b)
  BY <1>1, <1>4, HandlePlaced
<1>5. CASE \E on \in Actions \cup {Error} : EvalPerform(on)
  BY <1>1, <1>5, PerformsPlaced
<1>6. CASE \/ \E exit \in {"resume", "finish"} : EvalArmExit(exit)
           \/ \E k \in {"Break", "Continue"} : EvalLoopControl(k)
  BY <1>1, <1>6, ExitsPlaced
<1>7. CASE Complete \/ LeaveCall \/ ContinueBlock \/ OpenBoundary \/ LeaveHandler \/ Reenter
  BY <1>1, <1>7, SignalsPlaced, LeavesPlaced, OpenBoundaryPlaced, LeaveHandlerPlaced, ReenterPlaced
<1>8. CASE ValueAtDispatch \/ ResumeAtDispatch \/ FinishAtDispatch \/ FinishRetryAttempt
  BY <1>1, <1>8, DispatchPlaced, FinishRetryPlaced
<1>9. CASE ContinueLoop \/ BreakLoop \/ LoopControlEscapes \/ Propagate
  BY <1>1, <1>9, LoopPlaced, LeavesPlaced, EscapePlaced, PropagatePlaced
<1>10. CASE YieldPerform \/ UnhandledError
  BY <1>1, <1>10, YieldsPlaced
<1>11. CASE PerformAtFrame
  BY <1>1, <1>11, ForwardPlaced, RaisePlaced
<1>12. CASE DispatchHandler \/ SuspendHandler
  BY <1>1, <1>12, DispatchHandlerPlaced, SuspendHandlerPlaced
<1>13. CASE UnparkCompleted \/ UnparkRaised
  BY <1>1, <1>13, UnparkCompletedPlaced, UnparkRaisedPlaced
<1>14. CASE HostCompletes \/ HostRaises \/ HostFails
  BY <1>1, <1>14, SignalsPlaced, PerformsPlaced, HostFailsPlaced
<1>15. CASE RecordCheckpoint
  BY <1>1, <1>15, CheckpointPlaced
<1>16. CASE Ended
  BY <1>1, <1>16 DEF Ended, vars, Here
<1> QED BY <1>2, <1>3, <1>4, <1>5, <1>6, <1>7, <1>8, <1>9, <1>10, <1>11, <1>12, <1>13, <1>14, <1>15, <1>16 DEF Next

\* Only a restart forgets that an exit crossed a boundary, and only a checkpoint
\* replaces the saved state.
LEMMA HistoryStep ==
  ASSUME Next, crossed \in BOOLEAN
  PROVE  (CrashAndResume \/ (~crossed' => ~crossed)) /\ (RecordCheckpoint \/ saved' = saved)
<1>1. CASE EvalValue \/ ExecuteBlock \/ EvalTry \/ EvalCall \/ EvalReturn \/ EvalLoop \/ EvalRetry \/ EvalHost \/ EvalCheckpoint
  BY <1>1 DEF EvalValue, ExecuteBlock, EvalTry, EvalCall, EvalReturn, EvalLoop, EvalRetry, EvalHost, EvalCheckpoint, quiet, history
<1>2. CASE EvalRequeue \/ EvalPark
  BY <1>2 DEF EvalRequeue, EvalPark, MayTransfer, Crosses, history
<1>3. ASSUME NEW on, NEW b, EvalHandle(on, b) PROVE (~crossed' => ~crossed) /\ saved' = saved
  BY <1>3 DEF EvalHandle, quiet, history
<1>4. ASSUME NEW on, EvalPerform(on) PROVE (~crossed' => ~crossed) /\ saved' = saved
  BY <1>4 DEF EvalPerform, Crosses, history
<1>5. ASSUME NEW exit, EvalArmExit(exit) PROVE (~crossed' => ~crossed) /\ saved' = saved
  BY <1>5 DEF EvalArmExit, Crosses, history
<1>6. ASSUME NEW k, EvalLoopControl(k) PROVE (~crossed' => ~crossed) /\ saved' = saved
  BY <1>6 DEF EvalLoopControl, Crosses, history
<1>7. CASE Complete \/ LeaveCall \/ ContinueBlock \/ OpenBoundary \/ LeaveHandler \/ Reenter
  BY <1>7 DEF Complete, LeaveCall, ContinueBlock, OpenBoundary, LeaveHandler, Reenter, quiet, history
<1>8. CASE ValueAtDispatch \/ ResumeAtDispatch \/ FinishAtDispatch \/ FinishRetryAttempt \/ ContinueLoop \/ BreakLoop \/ LoopControlEscapes
  BY <1>8 DEF ValueAtDispatch, ResumeAtDispatch, FinishAtDispatch, FinishRetryAttempt, ContinueLoop, BreakLoop, LoopControlEscapes, quiet, history
<1>9. CASE Propagate
  BY <1>9 DEF Propagate, PassOn, quiet, history
<1>10. CASE YieldPerform \/ UnhandledError \/ PerformAtFrame \/ DispatchHandler \/ SuspendHandler
  BY <1>10 DEF YieldPerform, UnhandledError, PerformAtFrame, DispatchHandler, SuspendHandler, quiet, history
<1>11. CASE UnparkCompleted \/ UnparkRaised
  BY <1>11 DEF UnparkCompleted, UnparkRaised, quiet, history
<1>12. CASE HostCompletes \/ HostRaises \/ HostFails
  BY <1>12 DEF HostCompletes, HostRaises, HostFails, Crosses, quiet, history
<1>13. CASE RecordCheckpoint
  BY <1>13 DEF RecordCheckpoint
<1>14. CASE CrashAndResume
  BY <1>14 DEF CrashAndResume
<1>15. CASE Ended
  BY <1>15 DEF Ended, vars
<1> QED BY <1>1, <1>2, <1>3, <1>4, <1>5, <1>6, <1>7, <1>8, <1>9, <1>10, <1>11, <1>12, <1>13, <1>14, <1>15 DEF Next

\* The machine starts outside everything.
LEMMA InitTopology == Init => TopologyInv
<1> SUFFICES ASSUME Init PROVE TopologyInv
  OBVIOUS
<1>1. MachineInv
  BY InitMachine
<1>2. Context(Bottom)
  BY DEF Context, Bottom, Ctx
<1>3. stack = <<>> /\ signal = Code(<<>>) /\ handler_stack = <<>> /\ retry_stack = <<>> /\ saved = NoCheckpoint
  BY DEF Init
<1>4. Fits(KeptOf(arena), stack, Bottom, Bottom)
  BY <1>2, <1>3, FitsNil
<1>5. Bottom.scopes = Ids(handler_stack) /\ Bottom.retries = retry_stack /\ Bottom.mode # "answer" /\ Bottom.lex = <<>>
  BY <1>3 DEF Bottom, Ctx, Ids
<1>6. Settles(KeptOf(arena), stack, handler_stack, retry_stack, Bottom)
  BY <1>4, <1>5 DEF Settles
<1>7. Here
  BY <1>3, <1>5, <1>6, Admits DEF Here
<1> QED BY <1>1, <1>3, <1>7 DEF TopologyInv

\* Every step preserves the places.
LEMMA TopologyStep == TopologyInv /\ [Next]_vars => TopologyInv'
<1> SUFFICES ASSUME TopologyInv, [Next]_vars PROVE TopologyInv'
  OBVIOUS
<1>1. MachineInv' /\ crossed \in BOOLEAN /\ MachineInv
  BY MachineStep, StackTypes DEF TopologyInv
<1>2. CASE UNCHANGED vars
  BY <1>1, <1>2 DEF TopologyInv, Here, vars
<1>3. CASE Next
  <2>1. ~crossed' => Here'
    <3> SUFFICES ASSUME ~crossed' PROVE Here'
      OBVIOUS
    <3>1. CASE CrashAndResume
      BY <3>1, CrashPlaced
    <3>2. CASE ~CrashAndResume
      BY <1>1, <1>3, <3>2, HistoryStep, StepPlaced
    <3> QED BY <3>1, <3>2
  <2>2. saved' # NoCheckpoint /\ ~saved'.crossed =>
          Placed(KeptOf(saved'.arena), Sig("Value"), saved'.stack, saved'.handler_stack, saved'.retry_stack)
    <3>1. CASE RecordCheckpoint /\ ~crossed
      BY <1>1, <3>1, CheckpointPlaced DEF TopologyInv
    <3>2. CASE RecordCheckpoint /\ crossed
      <4>1. saved' = saved \/ saved'.crossed = crossed
        <5>1. CASE ValidTopology /\ ValidArena(arena)
          <6>1. \E st, hs, rs, ar, nh, nr, rn, fu :
                   saved' = [stack |-> st, handler_stack |-> hs, retry_stack |-> rs, arena |-> ar, next_handler_scope |-> nh,
                             next_retry |-> nr, ran |-> rn, crossed |-> crossed, fuel |-> fu]
            BY <3>2, <5>1, Zenon DEF RecordCheckpoint
          <6> QED BY <6>1
        <5>2. CASE ~(ValidTopology /\ ValidArena(arena))
          BY <3>2, <5>2 DEF RecordCheckpoint
        <5> QED BY <5>1, <5>2
      <4> QED BY <3>2, <4>1 DEF TopologyInv
    <3>3. CASE saved' = saved
      BY <3>3 DEF TopologyInv
    <3> QED BY <1>1, <1>3, <3>1, <3>2, <3>3, HistoryStep
  <2> QED BY <1>1, <2>1, <2>2 DEF TopologyInv
<1> QED BY <1>2, <1>3

\* In every place the dynamic stacks are those of the frames.
LEMMA PlacedOrders ==
  ASSUME TopologyInv PROVE TopologyPreserved
<1> SUFFICES ASSUME signal.k # "Fault", ~crossed
             PROVE  Ids(handler_stack) = ScopeOrder(stack) /\ retry_stack = RetryOrder(SignalFrames \o stack)
  BY DEF TopologyPreserved, Ids
<1>1. MachineInv /\ Here
  BY DEF TopologyInv
<1>2. SignalOK(signal)
  BY <1>1 DEF MachineInv, Types
<1>3. CASE signal.k \notin {"Perform", "Parked"}
  <2>1. signal.k \in PlainKinds \cup {"Code"}
    BY <1>2, <1>3 DEF SignalOK, Plain
  <2>2. \E c : Settles(KeptOf(arena), stack, handler_stack, retry_stack, c)
    BY <1>1, <2>1 DEF PlainKinds, Here, Placed
  <2>3. SignalFrames \o stack = stack
    BY <1>1, <1>3, Carries
  <2> QED BY <2>2, <2>3, SettledOrders
<1>4. CASE signal.k \in {"Perform", "Parked"}
  <2>1. PICK s : s = signal.cont
    OBVIOUS
  <2>2. SignalFrames = s /\ Built(s) /\ Built(stack)
    BY <1>1, <1>4, <2>1, Carries
  <2>3. RetryOrder(s) = <<>> /\ \E M, c : Settles(M, stack, handler_stack, retry_stack, c)
    <3>1. CASE signal.k = "Perform" /\ signal.on # Error
      <4>1. Forwarded(KeptOf(arena), signal.on, s, stack, handler_stack, retry_stack)
        BY <1>1, <2>1, <3>1 DEF Here, Placed
      <4>2. PICK c, d : Settles(KeptOf(arena), stack, handler_stack, retry_stack, c) /\ Fits(KeptOf(arena), s, d, c) /\ Flat(s)
        BY <4>1 DEF Forwarded
      <4> QED BY <4>2, FlatOrder
    <3>2. CASE signal.k = "Perform" /\ signal.on = Error
      <4>1. Raised(KeptOf(arena), s, stack, handler_stack, retry_stack)
        BY <1>1, <2>1, <3>2 DEF Here, Placed
      <4> QED BY <4>1 DEF Raised, Stranded
    <3>3. CASE signal.k = "Parked"
      <4>1. RetryOrder(s) = <<>> /\ Stranded(KeptOf(arena), stack, handler_stack, retry_stack, signal.tok, s)
        BY <1>1, <2>1, <3>3 DEF Here, Placed
      <4> QED BY <4>1 DEF Stranded
    <3> QED BY <1>4, <3>1, <3>2, <3>3
  <2>4. RetryOrder(s \o stack) = RetryOrder(s) \o RetryOrder(stack) /\ RetryOrder(stack) \in Seq(Nat)
    BY <2>2, OrderCat
  <2>5. <<>> \o RetryOrder(stack) = RetryOrder(stack)
    BY <2>4
  <2>6. RetryOrder(SignalFrames \o stack) = RetryOrder(stack)
    BY <2>2, <2>3, <2>4, <2>5, Zenon
  <2> QED BY <2>3, <2>6, SettledOrders
<1> QED BY <1>3, <1>4

\* The invariant of places: until an exit crosses a boundary, what the signal
\* finds below it is a stack that the rules of the source allow there.
THEOREM Topology == Spec => []TopologyInv
  BY InitTopology, TopologyStep, PTL DEF Spec

\* Until an exit named in Crosses is made, the dynamic handler scopes are exactly
\* the boundaries the stack still has to unwind and the retry stack exactly its
\* attempts, whatever the program, its depth and its crashes: what
\* validate_checkpoint asks of continue_handle_signal, perform and resume.
THEOREM TopologyHolds == Spec => []TopologyPreserved
  BY Topology, PlacedOrders, PTL

\* Until such an exit is made, a run ends in a fault only at a limit, by the Host,
\* or by an arm that ends without its continuation: none of the machine's own
\* consistency errors (close_handler_scope, reenter_handler, transfer_from,
\* consume, record_checkpoint) is ever reported.
THEOREM NoInternalFaults == Spec => []NoInternalFault
<1>1. TopologyInv => NoInternalFault
  BY DEF TopologyInv, Here, Placed, NoInternalFault, Limits
<1> QED BY <1>1, Topology, PTL
=============================================================================
