----------------------- MODULE ResidualMonitorProofs -----------------------
(***************************************************************************)
(* The residual monitor, for every set of guards, every program and every  *)
(* ceiling.                                                                *)
(*                                                                         *)
(* A frame may hold captured frames, which may hold others: the frames of  *)
(* a stack are those of some set that is closed under going into captured  *)
(* ones, in which each frame has the shape of its kind.  Every scope and   *)
(* attempt then has one owner.                                             *)
(***************************************************************************)
EXTENDS ResidualMonitor, QueueProofs, FiniteSetTheorems

-----------------------------------------------------------------------------
(***************************************************************************)
(* Frames                                                                  *)
(***************************************************************************)
\* The scopes that saw each attempt.
Viewers(at) == [a \in DOMAIN at |-> DOMAIN at[a].version]
Views == Viewers(attempts)

\* Frame f, above g, owns nothing that g owns, and no scope that saw an attempt
\* of g.
Over(f, g, vw) ==
  /\ f.owns \cap g.owns = {} /\ f.tags \cap g.tags = {}
  /\ \A a \in g.tags : vw[a] \cap f.owns = {}

\* It is so for all frames; the head is the topmost one.
Apart(frames, vw) == \A i, j \in DOMAIN frames : i < j => Over(frames[i], frames[j], vw)

\* The frame under an arm is the handle it belongs to.
Linked(frames) ==
  \A i \in DOMAIN frames : i + 1 \in DOMAIN frames /\ frames[i].k = "arm" => frames[i + 1].k = "handle"

\* What a frame of each kind owns.
Shape(f, vw) ==
  /\ DOMAIN f = {"k", "id", "saved", "owns", "tags"} /\ f.tags \subseteq DOMAIN vw
  /\ f.k \in {"scope", "outcome", "handle", "try", "arm"}
  /\ f.k = "scope" => f.owns = {f.id} /\ f.tags = {}
  /\ f.k = "outcome" => f.owns = {} /\ f.tags = {f.id}
  /\ f.k \in {"handle", "try"} => f.owns = {} /\ f.tags = {}
  /\ f.k = "arm" =>
       /\ f.owns = Owned(f.saved) /\ f.tags = Tags(f.saved)
       /\ f.saved # <<>> /\ f.saved[1].k = "outcome"
       /\ Apart(f.saved, vw) /\ Linked(f.saved)

\* W is closed under going into captured frames.
Closed(W, vw) == \A f \in W : Shape(f, vw) /\ f.saved \in Seq(W)

\* What the theorems say of a sequence of frames.
WellBuilt(frames, vw) ==
  /\ \E W : Closed(W, vw) /\ frames \in Seq(W)
  /\ Apart(frames, vw) /\ Linked(frames)

\* Two sequences of frames, one on the other.
LEMMA ConcatFrames ==
  ASSUME NEW W, NEW f \in Seq(W), NEW g \in Seq(W)
  PROVE  /\ f \o g \in Seq(W)
         /\ Owned(f \o g) = Owned(f) \cup Owned(g)
         /\ Tags(f \o g) = Tags(f) \cup Tags(g)
         /\ Mirror(f \o g) = Mirror(f) \cup Mirror(g)
<1>1. PICK n \in Nat, m \in Nat : n = Len(f) /\ m = Len(g)
  OBVIOUS
<1>2. PICK h : h = f \o g
  OBVIOUS
<1>3. /\ h \in Seq(W) /\ DOMAIN h = 1..(n + m) /\ DOMAIN f = 1..n /\ DOMAIN g = 1..m
      /\ \A i \in 1..n : h[i] = f[i]
      /\ \A i \in 1..m : h[n + i] = g[i]
  BY <1>1, <1>2
<1>4. /\ \A i \in 1..n : i \in 1..(n + m)
      /\ \A i \in 1..m : n + i \in 1..(n + m)
      /\ \A i \in 1..(n + m) : i \in 1..n \/ (i - n \in 1..m /\ n + (i - n) = i)
  BY <1>1
<1>5. \A i \in 1..(n + m) : (i \in 1..n /\ h[i] = f[i]) \/ (i - n \in 1..m /\ h[i] = g[i - n])
  BY <1>3, <1>4
<1>6. Owned(h) = Owned(f) \cup Owned(g)
  <2>1. \A x \in Owned(h) : x \in Owned(f) \cup Owned(g)
    BY <1>3, <1>5 DEF Owned
  <2>2. \A x \in Owned(f) : x \in Owned(h)
    BY <1>3, <1>4 DEF Owned
  <2>3. \A x \in Owned(g) : x \in Owned(h)
    BY <1>3, <1>4 DEF Owned
  <2> QED BY <2>1, <2>2, <2>3
<1>7. Tags(h) = Tags(f) \cup Tags(g)
  <2>1. \A x \in Tags(h) : x \in Tags(f) \cup Tags(g)
    BY <1>3, <1>5 DEF Tags
  <2>2. \A x \in Tags(f) : x \in Tags(h)
    BY <1>3, <1>4 DEF Tags
  <2>3. \A x \in Tags(g) : x \in Tags(h)
    BY <1>3, <1>4 DEF Tags
  <2> QED BY <2>1, <2>2, <2>3
<1>8. Mirror(h) = Mirror(f) \cup Mirror(g)
  <2>1. \A x \in Mirror(h) : x \in Mirror(f) \cup Mirror(g)
    <3> SUFFICES ASSUME NEW x \in Mirror(h) PROVE x \in Mirror(f) \cup Mirror(g)
      OBVIOUS
    <3>1. PICK i \in 1..(n + m) : h[i].k = "scope" /\ x = h[i].id
      BY <1>3 DEF Mirror
    <3> QED BY <1>3, <1>5, <3>1 DEF Mirror
  <2>2. \A x \in Mirror(f) : x \in Mirror(h)
    BY <1>3, <1>4 DEF Mirror
  <2>3. \A x \in Mirror(g) : x \in Mirror(h)
    <3> SUFFICES ASSUME NEW x \in Mirror(g) PROVE x \in Mirror(h)
      OBVIOUS
    <3>1. PICK i \in 1..m : g[i].k = "scope" /\ x = g[i].id
      BY <1>3 DEF Mirror
    <3>2. n + i \in DOMAIN h /\ h[n + i].k = "scope" /\ h[n + i].id = x
      BY <1>3, <1>4, <3>1
    <3> QED BY <3>2 DEF Mirror
  <2> QED BY <2>1, <2>2, <2>3
<1> QED BY <1>2, <1>3, <1>6, <1>7, <1>8

\* They own different things, and the lower one starts with a handle where the
\* upper one ends with an arm.
Fits(f, g, vw) ==
  /\ Owned(f) \cap Owned(g) = {} /\ Tags(f) \cap Tags(g) = {}
  /\ \A a \in Tags(g) : vw[a] \cap Owned(f) = {}
  /\ f # <<>> /\ g # <<>> /\ f[Len(f)].k = "arm" => g[1].k = "handle"

\* Then they make one well-built sequence, and conversely.
LEMMA ConcatBuilt ==
  ASSUME NEW vw, NEW W, NEW f \in Seq(W), NEW g \in Seq(W)
  PROVE  Apart(f \o g, vw) /\ Linked(f \o g) <=>
           Apart(f, vw) /\ Linked(f) /\ Apart(g, vw) /\ Linked(g) /\ Fits(f, g, vw)
<1>1. PICK n \in Nat, m \in Nat : n = Len(f) /\ m = Len(g)
  OBVIOUS
<1>2. PICK h : h = f \o g
  OBVIOUS
<1>3. /\ DOMAIN h = 1..(n + m) /\ DOMAIN f = 1..n /\ DOMAIN g = 1..m
      /\ \A i \in 1..n : h[i] = f[i]
      /\ \A i \in 1..m : h[n + i] = g[i]
      /\ (f = <<>> <=> n = 0) /\ (g = <<>> <=> m = 0)
  BY <1>1, <1>2
<1>4. /\ \A i \in 1..n : i \in 1..(n + m)
      /\ \A i \in 1..m : n + i \in 1..(n + m)
      /\ \A i \in 1..(n + m) : i \in 1..n \/ (i - n \in 1..m /\ n + (i - n) = i)
  BY <1>1
<1>5. \A i \in 1..(n + m) : (i \in 1..n /\ h[i] = f[i]) \/ (i - n \in 1..m /\ h[i] = g[i - n])
  BY <1>3, <1>4
<1>6. ASSUME Apart(h, vw), Linked(h) PROVE Apart(f, vw) /\ Linked(f) /\ Apart(g, vw) /\ Linked(g) /\ Fits(f, g, vw)
  <2>1. Apart(f, vw)
    BY <1>3, <1>4, <1>6 DEF Apart
  <2>2. Apart(g, vw)
    <3> SUFFICES ASSUME NEW i \in 1..m, NEW j \in 1..m, i < j PROVE Over(g[i], g[j], vw)
      BY <1>3 DEF Apart
    <3>1. n + i < n + j
      BY <1>1
    <3> QED BY <1>3, <1>4, <1>6, <3>1 DEF Apart
  <2>3. Linked(f)
    BY <1>3, <1>4, <1>6 DEF Linked
  <2>4. Linked(g)
    <3> SUFFICES ASSUME NEW i \in 1..m, i + 1 \in 1..m, g[i].k = "arm" PROVE g[i + 1].k = "handle"
      BY <1>3 DEF Linked
    <3>1. (n + i) + 1 = n + (i + 1) /\ n + i \in DOMAIN h /\ n + (i + 1) \in DOMAIN h
      BY <1>1, <1>3
    <3>2. h[n + i] = g[i] /\ h[n + (i + 1)] = g[i + 1]
      BY <1>3
    <3> QED BY <1>6, <3>1, <3>2 DEF Linked
  <2>5. \A i \in 1..n, j \in 1..m : Over(f[i], g[j], vw)
    <3> SUFFICES ASSUME NEW i \in 1..n, NEW j \in 1..m PROVE Over(f[i], g[j], vw)
      OBVIOUS
    <3>1. i < n + j
      BY <1>1
    <3> QED BY <1>3, <1>4, <1>6, <3>1 DEF Apart
  <2>6. Owned(f) \cap Owned(g) = {} /\ Tags(f) \cap Tags(g) = {}
    <3>1. \A i \in 1..n, j \in 1..m : f[i].owns \cap g[j].owns = {} /\ f[i].tags \cap g[j].tags = {}
      BY <2>5 DEF Over
    <3> QED BY <1>3, <3>1 DEF Owned, Tags
  <2>8. \A a \in Tags(g) : vw[a] \cap Owned(f) = {}
    <3> SUFFICES ASSUME NEW j \in 1..m, NEW a \in g[j].tags PROVE vw[a] \cap Owned(f) = {}
      BY <1>3 DEF Tags
    <3>1. \A i \in 1..n : vw[a] \cap f[i].owns = {}
      BY <2>5 DEF Over
    <3> QED BY <1>3, <3>1 DEF Owned
  <2>7. ASSUME n # 0, m # 0, f[n].k = "arm" PROVE g[1].k = "handle"
    <3>1. n \in 1..n /\ 1 \in 1..m /\ n \in 1..(n + m) /\ n + 1 \in 1..(n + m)
      BY <1>1, <2>7
    <3>2. h[n] = f[n] /\ h[n + 1] = g[1]
      BY <1>3, <3>1
    <3> QED BY <1>3, <1>6, <2>7, <3>1, <3>2 DEF Linked
  <2> QED BY <1>1, <1>3, <2>1, <2>2, <2>3, <2>4, <2>6, <2>7, <2>8 DEF Fits
<1>7. ASSUME Apart(f, vw), Linked(f), Apart(g, vw), Linked(g), Fits(f, g, vw) PROVE Apart(h, vw) /\ Linked(h)
  <2>1. \A i \in 1..n, j \in 1..m : Over(f[i], g[j], vw)
    <3>1. /\ \A i \in 1..n : \A x \in f[i].owns : x \in Owned(f)
          /\ \A i \in 1..m : \A x \in g[i].owns : x \in Owned(g)
      BY <1>3 DEF Owned
    <3>2. /\ \A i \in 1..n : \A x \in f[i].tags : x \in Tags(f)
          /\ \A i \in 1..m : \A x \in g[i].tags : x \in Tags(g)
      BY <1>3 DEF Tags
    <3>3. \A i \in 1..n, j \in 1..m : f[i].owns \cap g[j].owns = {} /\ f[i].tags \cap g[j].tags = {}
      BY <1>7, <3>1, <3>2 DEF Fits
    <3>4. \A i \in 1..n, j \in 1..m : \A a \in g[j].tags : vw[a] \cap f[i].owns = {}
      BY <1>7, <3>1, <3>2 DEF Fits
    <3> QED BY <3>3, <3>4 DEF Over
  <2>2. ASSUME NEW i \in 1..(n + m), NEW j \in 1..(n + m), i < j PROVE Over(h[i], h[j], vw)
    <3>1. CASE i \in 1..n /\ j \in 1..n
      BY <1>3, <1>7, <2>2, <3>1 DEF Apart
    <3>2. CASE i \in 1..n /\ j \notin 1..n
      BY <1>5, <2>1, <3>2, <1>3
    <3>3. CASE i \notin 1..n /\ j \in 1..n
      BY <1>1, <2>2, <3>3
    <3>4. CASE i \notin 1..n /\ j \notin 1..n
      <4>1. PICK a, b \in 1..m : a = i - n /\ b = j - n /\ h[i] = g[a] /\ h[j] = g[b]
        BY <1>5, <3>4
      <4>2. a < b
        BY <1>1, <2>2, <4>1
      <4>3. a \in DOMAIN g /\ b \in DOMAIN g
        BY <1>3
      <4>4. Over(g[a], g[b], vw)
        BY <1>7, <4>2, <4>3 DEF Apart
      <4> QED BY <4>1, <4>4
    <3> QED BY <3>1, <3>2, <3>3, <3>4
  <2>3. ASSUME NEW i \in 1..(n + m), i + 1 \in 1..(n + m), h[i].k = "arm" PROVE h[i + 1].k = "handle"
    <3>1. CASE i + 1 \in 1..n
      <4>1. i \in 1..n
        BY <1>1, <3>1
      <4> QED BY <1>3, <1>7, <2>3, <3>1, <4>1 DEF Linked
    <3>2. CASE i = n
      <4>1. n # 0 /\ m # 0 /\ n \in 1..n /\ 1 \in 1..m
        BY <1>1, <2>3, <3>2
      <4>2. h[i] = f[n] /\ h[i + 1] = g[1]
        BY <1>3, <3>2, <4>1
      <4> QED BY <1>1, <1>3, <1>7, <2>3, <4>1, <4>2 DEF Fits
    <3>3. CASE i > n
      <4>1. i - n \in 1..m /\ (i - n) + 1 \in 1..m /\ n + (i - n) = i /\ n + ((i - n) + 1) = i + 1
        BY <1>1, <2>3, <3>3
      <4>2. h[i] = g[i - n] /\ h[i + 1] = g[(i - n) + 1]
        BY <1>3, <4>1
      <4> QED BY <1>3, <1>7, <2>3, <4>1, <4>2 DEF Linked
    <3>4. i + 1 \in 1..n \/ i = n \/ i > n
      BY <1>1, <2>3
    <3> QED BY <3>1, <3>2, <3>3, <3>4
  <2> QED BY <1>3, <2>2, <2>3 DEF Apart, Linked
<1> QED BY <1>2, <1>6, <1>7

\* One frame.
LEMMA OneFrame ==
  ASSUME NEW vw, NEW f
  PROVE  /\ Owned(<<f>>) = f.owns /\ Tags(<<f>>) = f.tags
         /\ Mirror(<<f>>) = (IF f.k = "scope" THEN {f.id} ELSE {})
         /\ Apart(<<f>>, vw) /\ Linked(<<f>>)
<1>1. PICK s : s = <<f>>
  OBVIOUS
<1>2. DOMAIN s = {1} /\ s[1] = f
  BY <1>1
<1>3. Owned(s) = f.owns /\ Tags(s) = f.tags /\ Apart(s, vw)
  BY <1>2 DEF Owned, Tags, Apart
<1>4. Linked(s)
  BY <1>2 DEF Linked
<1>5. Mirror(s) = IF f.k = "scope" THEN {f.id} ELSE {}
  BY <1>2 DEF Mirror
<1> QED BY <1>1, <1>3, <1>4, <1>5

\* No frame.
LEMMA NoFrame ==
  ASSUME NEW vw
  PROVE  Owned(<<>>) = {} /\ Tags(<<>>) = {} /\ Mirror(<<>>) = {} /\ Apart(<<>>, vw) /\ Linked(<<>>)
  BY DEF Owned, Tags, Mirror, Apart, Linked

\* A sequence parts at every entry.
LEMMA Cut ==
  ASSUME NEW W, NEW st \in Seq(W), NEW i \in 1..Len(st)
  PROVE  /\ SubSeq(st, 1, i - 1) \in Seq(W) /\ <<st[i]>> \in Seq(W) /\ SubSeq(st, i + 1, Len(st)) \in Seq(W)
         /\ st = SubSeq(st, 1, i - 1) \o (<<st[i]>> \o SubSeq(st, i + 1, Len(st)))
         /\ Len(SubSeq(st, 1, i - 1)) = i - 1
         /\ \A j \in 1..(i - 1) : SubSeq(st, 1, i - 1)[j] = st[j]
<1>1. PICK n \in Nat : n = Len(st)
  OBVIOUS
<1>2. /\ i \in Int /\ i - 1 \in Int /\ i + 1 \in Int /\ n \in Int /\ 1 \in Int
      /\ i \in 1..n /\ n \in i..n /\ 1 \in 1..(n + 1) /\ i - 1 \in (1 - 1)..n /\ n \in (i - 1)..n
      /\ (i - 1) + 1 = i
  BY <1>1
<1>3. \A j \in 1..n : st[j] \in W
  BY <1>1
<1>4. (\A j \in 1..(i - 1) : st[j] \in W) /\ (\A j \in (i + 1)..n : st[j] \in W)
  BY <1>2, <1>3
<1>5. /\ SubSeq(st, 1, i - 1) \in Seq(W)
      /\ Len(SubSeq(st, 1, i - 1)) = IF 1 <= i - 1 THEN (i - 1) - 1 + 1 ELSE 0
      /\ \A j \in 1..((i - 1) - 1 + 1) : SubSeq(st, 1, i - 1)[j] = st[1 + j - 1]
  BY <1>2, <1>4, SubSeqProperties
<1>6. SubSeq(st, i + 1, n) \in Seq(W)
  BY <1>2, <1>4, SubSeqProperties
<1>7. SubSeq(st, 1, i - 1) \o SubSeq(st, (i - 1) + 1, n) = SubSeq(st, 1, n)
  BY <1>1, <1>2, ConcatAdjacentSubSeq
<1>8. SubSeq(st, i, n) = <<st[i]>> \o SubSeq(st, i + 1, n)
  BY <1>1, <1>2, SubSeqRecursiveFirst
<1>9. SubSeq(st, 1, n) = st
  BY <1>1, SubSeqFull
<1>10. <<st[i]>> \in Seq(W)
  BY <1>2, <1>3
<1>11. Len(SubSeq(st, 1, i - 1)) = i - 1
  BY <1>2, <1>5
<1>12. \A j \in 1..(i - 1) : SubSeq(st, 1, i - 1)[j] = st[j]
  <2> TAKE j \in 1..(i - 1)
  <2>1. j \in 1..((i - 1) - 1 + 1) /\ 1 + j - 1 = j
    BY <1>2
  <2> QED BY <1>5, <2>1
<1>13. st = SubSeq(st, 1, i - 1) \o (<<st[i]>> \o SubSeq(st, i + 1, n))
  BY <1>2, <1>7, <1>8, <1>9
<1> QED BY <1>1, <1>5, <1>6, <1>10, <1>11, <1>12, <1>13

\* So does a stack.
LEMMA Parts ==
  ASSUME NEW W, stack \in Seq(W), NEW i \in 1..Len(stack)
  PROVE  /\ Above(i) \in Seq(W) /\ <<stack[i]>> \in Seq(W) /\ Below(i) \in Seq(W)
         /\ stack = Above(i) \o (<<stack[i]>> \o Below(i))
         /\ Len(Above(i)) = i - 1
         /\ \A j \in 1..(i - 1) : Above(i)[j] = stack[j]
<1>1. PICK st : st = stack
  OBVIOUS
<1>2. st \in Seq(W) /\ i \in 1..Len(st) /\ Above(i) = SubSeq(st, 1, i - 1) /\ Below(i) = SubSeq(st, i + 1, Len(st))
  BY <1>1, Zenon DEF Above, Below
<1>3. /\ SubSeq(st, 1, i - 1) \in Seq(W) /\ <<st[i]>> \in Seq(W) /\ SubSeq(st, i + 1, Len(st)) \in Seq(W)
      /\ st = SubSeq(st, 1, i - 1) \o (<<st[i]>> \o SubSeq(st, i + 1, Len(st)))
      /\ Len(SubSeq(st, 1, i - 1)) = i - 1
      /\ \A j \in 1..(i - 1) : SubSeq(st, 1, i - 1)[j] = st[j]
  BY <1>2, Cut
<1> QED BY <1>1, <1>2, <1>3, Zenon

-----------------------------------------------------------------------------
\* The lowest frame is no arm.
Bottom(frames) == frames # <<>> => frames[Len(frames)].k # "arm"

\* The lowest frame of two sequences is that of the lower one.
LEMMA ConcatBottom ==
  ASSUME NEW W, NEW f \in Seq(W), NEW g \in Seq(W), g # <<>>
  PROVE  Bottom(f \o g) <=> Bottom(g)
<1>1. PICK n \in Nat, m \in Nat : n = Len(f) /\ m = Len(g)
  OBVIOUS
<1>2. m # 0
  BY <1>1
<1>3. PICK h : h = f \o g
  OBVIOUS
<1>4. Len(h) = n + m /\ h[n + m] = g[m] /\ h # <<>>
  BY <1>1, <1>2, <1>3
<1> QED BY <1>1, <1>3, <1>4 DEF Bottom

\* A frame without captured ones that may go on top.
MayTop(f, st, vw) ==
  /\ WellBuilt(st, vw) /\ Shape(f, vw) /\ f.saved = <<>> /\ f.k # "arm"
  /\ f.owns \cap Owned(st) = {} /\ f.tags \cap Tags(st) = {}
  /\ \A a \in Tags(st) : vw[a] \cap f.owns = {}

\* It goes on top.
LEMMA Pushed ==
  ASSUME NEW vw, NEW st, NEW f, MayTop(f, st, vw)
  PROVE  /\ WellBuilt(<<f>> \o st, vw)
         /\ Owned(<<f>> \o st) = f.owns \cup Owned(st) /\ Tags(<<f>> \o st) = f.tags \cup Tags(st)
         /\ Bottom(st) => Bottom(<<f>> \o st)
         /\ (<<f>> \o st) # <<>> /\ (<<f>> \o st)[1] = f
<1> USE DEF MayTop
<1>1. PICK W : Closed(W, vw) /\ st \in Seq(W)
  BY DEF WellBuilt
<1>2. PICK V : V = W \cup {f}
  OBVIOUS
<1>3. st \in Seq(V) /\ <<f>> \in Seq(V) /\ f \in V /\ <<>> \in Seq(V)
  BY <1>1, <1>2
<1>4. Closed(V, vw)
  <2> SUFFICES ASSUME NEW x \in V PROVE Shape(x, vw) /\ x.saved \in Seq(V)
    BY DEF Closed
  <2>1. CASE x = f
    BY <1>3, <2>1
  <2>2. CASE x \in W
    <3>1. Shape(x, vw) /\ x.saved \in Seq(W)
      BY <1>1, <2>2 DEF Closed
    <3> QED BY <1>2, <3>1
  <2> QED BY <1>2, <2>1, <2>2
<1>5. PICK one : one = <<f>>
  OBVIOUS
<1>6. /\ one \in Seq(V) /\ Len(one) = 1 /\ one[1] = f /\ one # <<>>
      /\ Owned(one) = f.owns /\ Tags(one) = f.tags /\ Apart(one, vw) /\ Linked(one)
  BY <1>3, <1>5, OneFrame
<1>7. Fits(one, st, vw)
  BY <1>6 DEF Fits
<1>8. one \o st \in Seq(V) /\ Owned(one \o st) = f.owns \cup Owned(st) /\ Tags(one \o st) = f.tags \cup Tags(st)
  BY <1>3, <1>6, ConcatFrames
<1>9. Apart(one \o st, vw) /\ Linked(one \o st)
  BY <1>3, <1>6, <1>7, ConcatBuilt DEF WellBuilt
<1>10. (one \o st) # <<>> /\ (one \o st)[1] = f
  BY <1>3, <1>6
<1>11. Bottom(st) => Bottom(one \o st)
  <2>1. CASE st = <<>>
    <3>1. one \o st = one
      BY <1>3, <1>6, <2>1
    <3> QED BY <1>6, <3>1 DEF Bottom
  <2>2. CASE st # <<>>
    BY <1>3, <1>6, <2>2, ConcatBottom
  <2> QED BY <2>1, <2>2
<1>12. WellBuilt(one \o st, vw)
  BY <1>4, <1>8, <1>9 DEF WellBuilt
<1> QED BY <1>5, <1>8, <1>10, <1>11, <1>12

\* What lies above and below a frame of a well-built sequence.
Sections(st, u, f, l, vw) ==
  /\ WellBuilt(u, vw) /\ WellBuilt(l, vw) /\ Shape(f, vw)
  /\ Owned(st) = Owned(u) \cup f.owns \cup Owned(l)
  /\ Tags(st) = Tags(u) \cup f.tags \cup Tags(l)
  /\ Owned(u) \cap f.owns = {} /\ Owned(u) \cap Owned(l) = {} /\ f.owns \cap Owned(l) = {}
  /\ Tags(u) \cap f.tags = {} /\ Tags(u) \cap Tags(l) = {} /\ f.tags \cap Tags(l) = {}
  /\ \A a \in Tags(l) : vw[a] \cap Owned(u) = {} /\ vw[a] \cap f.owns = {}
  /\ Bottom(st) => Bottom(l)
  /\ Mirror(st) = Mirror(u) \cup Mirror(<<f>>) \cup Mirror(l)

\* A well-built sequence consists of such sections.
LEMMA Sectioned ==
  ASSUME NEW vw, NEW W, Closed(W, vw), NEW u \in Seq(W), NEW f \in W, NEW l \in Seq(W),
         NEW st, st = u \o (<<f>> \o l), Apart(st, vw), Linked(st)
  PROVE  Sections(st, u, f, l, vw) /\ (l # <<>> /\ f.k = "arm" => l[1].k = "handle")
<1>0. PICK one : one = <<f>>
  OBVIOUS
<1>2. /\ one \in Seq(W) /\ Len(one) = 1 /\ one[1] = f /\ one # <<>>
      /\ Owned(one) = f.owns /\ Tags(one) = f.tags
  <2>1. one \in Seq(W) /\ Len(one) = 1 /\ one[1] = f /\ one # <<>>
    BY <1>0
  <2>2. Owned(one) = f.owns /\ Tags(one) = f.tags
    BY <1>0, OneFrame, Zenon
  <2> QED BY <2>1, <2>2
<1>13. /\ one \o l \in Seq(W) /\ Owned(one \o l) = f.owns \cup Owned(l) /\ Tags(one \o l) = f.tags \cup Tags(l)
       /\ Mirror(one \o l) = Mirror(one) \cup Mirror(l)
  BY <1>2, ConcatFrames
<1>1. PICK c : one = <<f>> /\ c = one \o l
  BY <1>0
<1>3. /\ c \in Seq(W) /\ Owned(c) = f.owns \cup Owned(l) /\ Tags(c) = f.tags \cup Tags(l)
      /\ Mirror(c) = Mirror(one) \cup Mirror(l)
  BY <1>1, <1>13, Zenon
<1>4. st = u \o c
  BY <1>1
<1>5. /\ Owned(st) = Owned(u) \cup Owned(c) /\ Tags(st) = Tags(u) \cup Tags(c)
      /\ Mirror(st) = Mirror(u) \cup Mirror(c)
  <2>1. /\ Owned(u \o c) = Owned(u) \cup Owned(c) /\ Tags(u \o c) = Tags(u) \cup Tags(c)
        /\ Mirror(u \o c) = Mirror(u) \cup Mirror(c)
    BY <1>3, ConcatFrames
  <2> QED BY <1>4, <2>1, Zenon
<1>6. Apart(u, vw) /\ Linked(u) /\ Apart(c, vw) /\ Linked(c) /\ Fits(u, c, vw)
  BY <1>3, <1>4, ConcatBuilt
<1>7. Apart(l, vw) /\ Linked(l) /\ Fits(one, l, vw)
  BY <1>1, <1>2, <1>6, ConcatBuilt
<1>8. Owned(u) \cap Owned(c) = {} /\ Tags(u) \cap Tags(c) = {} /\ \A a \in Tags(c) : vw[a] \cap Owned(u) = {}
  BY <1>6 DEF Fits
<1>9. f.owns \cap Owned(l) = {} /\ f.tags \cap Tags(l) = {} /\ \A a \in Tags(l) : vw[a] \cap f.owns = {}
  BY <1>2, <1>7 DEF Fits
<1>10. Bottom(st) => Bottom(l)
  <2> SUFFICES ASSUME l # <<>>, Bottom(st) PROVE Bottom(l)
    BY DEF Bottom
  <2>1. c # <<>>
    BY <1>1, <1>2
  <2>2. Bottom(c)
    BY <1>3, <1>4, <2>1, ConcatBottom
  <2> QED BY <1>1, <1>2, <2>2, ConcatBottom
<1>11. WellBuilt(u, vw) /\ WellBuilt(l, vw) /\ Shape(f, vw)
  BY <1>6, <1>7 DEF WellBuilt, Closed
<1>12. l # <<>> /\ f.k = "arm" => l[1].k = "handle"
  BY <1>2, <1>7 DEF Fits
<1> QED BY <1>1, <1>3, <1>5, <1>8, <1>9, <1>10, <1>11, <1>12 DEF Sections

\* The stack at one of its frames.
LEMMA StackSections ==
  ASSUME NEW vw, WellBuilt(stack, vw), NEW i \in 1..Len(stack)
  PROVE  /\ Sections(stack, Above(i), stack[i], Below(i), vw)
         /\ Below(i) # <<>> /\ stack[i].k = "arm" => Below(i)[1].k = "handle"
<1>1. PICK W : Closed(W, vw) /\ stack \in Seq(W)
  BY DEF WellBuilt
<1>2. /\ Above(i) \in Seq(W) /\ Below(i) \in Seq(W)
      /\ stack = Above(i) \o (<<stack[i]>> \o Below(i))
  BY <1>1, Parts
<1>3. stack[i] \in W
  BY <1>1
<1>4. Apart(stack, vw) /\ Linked(stack)
  BY DEF WellBuilt
<1> QED BY <1>1, <1>2, <1>3, <1>4, Sectioned

\* A scope on the stack is owned.
LEMMA MirrorOwned == ASSUME NEW vw, NEW st, WellBuilt(st, vw) PROVE Mirror(st) \subseteq Owned(st)
<1>1. PICK W : Closed(W, vw) /\ st \in Seq(W)
  BY DEF WellBuilt
<1>2. \A i \in DOMAIN st : st[i] \in W
  BY <1>1
<1>3. \A i \in DOMAIN st : st[i].k = "scope" => st[i].owns = {st[i].id}
  BY <1>1, <1>2 DEF Closed, Shape
<1> QED BY <1>3 DEF Mirror, Owned

\* The empty stack.
LEMMA EmptyStack ==
  ASSUME NEW vw
  PROVE  WellBuilt(<<>>, vw) /\ Bottom(<<>>) /\ Owned(<<>>) = {} /\ Tags(<<>>) = {}
<1>1. Closed({}, vw) /\ <<>> \in Seq({})
  BY DEF Closed
<1> QED BY <1>1, NoFrame DEF WellBuilt, Bottom

\* The top frame and the others.
LEMMA HeadSections ==
  ASSUME NEW vw, NEW W, Closed(W, vw), NEW st \in Seq(W), st # <<>>, Apart(st, vw), Linked(st)
  PROVE  /\ st[1] \in W /\ Tail(st) \in Seq(W) /\ WellBuilt(Tail(st), vw) /\ Shape(st[1], vw)
         /\ Owned(st) = st[1].owns \cup Owned(Tail(st)) /\ Tags(st) = st[1].tags \cup Tags(Tail(st))
         /\ st[1].owns \cap Owned(Tail(st)) = {} /\ st[1].tags \cap Tags(Tail(st)) = {}
         /\ \A a \in Tags(Tail(st)) : vw[a] \cap st[1].owns = {}
         /\ Bottom(st) => Bottom(Tail(st))
         /\ Tail(st) # <<>> /\ st[1].k = "arm" => Tail(st)[1].k = "handle"
<1>1. 1 \in 1..Len(st) /\ 1 - 1 < 1
  OBVIOUS
<1>2. PICK l : l = SubSeq(st, 1 + 1, Len(st))
  OBVIOUS
<1>3. l = Tail(st)
  BY <1>2, TailIsSubSeq
<1>4. PICK u : u = SubSeq(st, 1, 1 - 1)
  OBVIOUS
<1>5. u = <<>>
  BY <1>1, <1>4, SubSeqEmpty
<1>6. u \in Seq(W) /\ l \in Seq(W) /\ st = u \o (<<st[1]>> \o l)
  BY <1>1, <1>2, <1>4, Cut
<1>7. st[1] \in W
  BY <1>1
<1>8. Sections(st, u, st[1], l, vw) /\ (l # <<>> /\ st[1].k = "arm" => l[1].k = "handle")
  BY <1>6, <1>7, Sectioned
<1>9. Sections(st, <<>>, st[1], l, vw)
  BY <1>5, <1>8, Zenon
<1>10. /\ WellBuilt(l, vw) /\ Shape(st[1], vw)
       /\ Owned(st) = st[1].owns \cup Owned(l) /\ Tags(st) = st[1].tags \cup Tags(l)
       /\ st[1].owns \cap Owned(l) = {} /\ st[1].tags \cap Tags(l) = {}
       /\ \A a \in Tags(l) : vw[a] \cap st[1].owns = {}
       /\ Bottom(st) => Bottom(l)
  BY <1>9, NoFrame DEF Sections
<1> QED BY <1>3, <1>6, <1>7, <1>8, <1>10, Zenon

\* Two frames on others.
LEMMA PairConcat ==
  ASSUME NEW S, NEW x \in S, NEW y \in S, NEW l \in Seq(S) PROVE <<x>> \o (<<y>> \o l) = <<x, y>> \o l
<1>1. <<x>> \in Seq(S) /\ <<y>> \in Seq(S)
  OBVIOUS
<1>2. <<x>> \o (<<y>> \o l) = (<<x>> \o <<y>>) \o l
  BY <1>1, ConcatAssociative, SMTT(60)
<1>3. Append(<<x>>, y) = <<x>> \o <<y>>
  BY <1>1, AppendIsConcat
<1>4. Append(<<x>>, y) = <<x, y>>
  <2>1. PICK p, q : p = Append(<<x>>, y) /\ q = <<x, y>>
    OBVIOUS
  <2>2. p \in Seq(S) /\ Len(p) = 2 /\ p[1] = x /\ p[2] = y
    BY <1>1, <2>1
  <2>3. q \in Seq(S) /\ Len(q) = 2 /\ q[1] = x /\ q[2] = y
    BY <2>1
  <2>4. \A i \in 1..2 : p[i] = q[i]
    BY <2>2, <2>3
  <2> QED BY <2>1, <2>2, <2>3, <2>4, SeqEqual
<1> QED BY <1>2, <1>3, <1>4

\* The frames above a handle go into an arm.
LEMMA Captured ==
  ASSUME NEW vw, NEW W, Closed(W, vw), NEW u \in Seq(W), NEW c \in Seq(W), u # <<>>, u[1].k = "outcome",
         c # <<>>, c[1].k = "handle", Apart(u \o c, vw), Linked(u \o c), NEW f, f = ArmFrame(u)
  PROVE  /\ WellBuilt(<<f>> \o c, vw)
         /\ Owned(<<f>> \o c) = Owned(u \o c) /\ Tags(<<f>> \o c) = Tags(u \o c)
         /\ Bottom(u \o c) => Bottom(<<f>> \o c)
<1>1. /\ Apart(u, vw) /\ Linked(u) /\ Apart(c, vw) /\ Linked(c) /\ Fits(u, c, vw)
      /\ Owned(u \o c) = Owned(u) \cup Owned(c) /\ Tags(u \o c) = Tags(u) \cup Tags(c)
  BY ConcatBuilt, ConcatFrames
<1>2. /\ DOMAIN f = {"k", "id", "saved", "owns", "tags"}
      /\ f.k = "arm" /\ f.saved = u /\ f.owns = Owned(u) /\ f.tags = Tags(u)
  BY DEF ArmFrame, Leaf
<1>3. Shape(f, vw)
  <2>1. \A i \in DOMAIN u : u[i].tags \subseteq DOMAIN vw
    BY DEF Closed, Shape
  <2>2. Tags(u) \subseteq DOMAIN vw
    BY <2>1 DEF Tags
  <2> QED BY <1>1, <1>2, <2>2 DEF Shape
<1>4. PICK V : V = W \cup {f}
  OBVIOUS
<1>5. \A q : q \in Seq(W) => q \in Seq(V)
  BY <1>4
<1>6. Closed(V, vw)
  <2> SUFFICES ASSUME NEW x \in V PROVE Shape(x, vw) /\ x.saved \in Seq(V)
    BY DEF Closed
  <2>1. CASE x = f
    BY <1>2, <1>3, <1>5, <2>1
  <2>2. CASE x \in W
    BY <1>5, <2>2 DEF Closed
  <2> QED BY <1>4, <2>1, <2>2
<1>7. PICK one : one = <<f>>
  OBVIOUS
<1>8. /\ one \in Seq(V) /\ Len(one) = 1 /\ one[1] = f /\ one # <<>>
      /\ Owned(one) = f.owns /\ Tags(one) = f.tags /\ Apart(one, vw) /\ Linked(one)
  <2>1. one \in Seq(V) /\ Len(one) = 1 /\ one[1] = f /\ one # <<>>
    BY <1>4, <1>7
  <2> QED BY <1>7, <2>1, OneFrame, Zenon
<1>9. c \in Seq(V)
  BY <1>5
<1>10. Fits(one, c, vw)
  BY <1>1, <1>2, <1>8 DEF Fits
<1>11. Apart(one \o c, vw) /\ Linked(one \o c)
  BY <1>1, <1>8, <1>9, <1>10, ConcatBuilt
<1>12. one \o c \in Seq(V) /\ Owned(one \o c) = f.owns \cup Owned(c) /\ Tags(one \o c) = f.tags \cup Tags(c)
  BY <1>8, <1>9, ConcatFrames
<1>13. Bottom(u \o c) => Bottom(one \o c)
  BY <1>8, <1>9, ConcatBottom
<1>14. WellBuilt(one \o c, vw)
  BY <1>6, <1>11, <1>12 DEF WellBuilt
<1> QED BY <1>1, <1>2, <1>7, <1>12, <1>13, <1>14

\* An attempt more changes nothing for the others.
LEMMA Extended ==
  ASSUME NEW vw, NEW vx, DOMAIN vw \subseteq DOMAIN vx, \A a \in DOMAIN vw : vx[a] = vw[a], NEW st, WellBuilt(st, vw)
  PROVE  WellBuilt(st, vx)
<1>1. PICK W : Closed(W, vw) /\ st \in Seq(W)
  BY DEF WellBuilt
<1>2. ASSUME NEW q \in Seq(W), Apart(q, vw) PROVE Apart(q, vx)
  <2>1. \A i \in DOMAIN q : q[i].tags \subseteq DOMAIN vw
    BY <1>1 DEF Closed, Shape
  <2> QED BY <1>2, <2>1 DEF Apart, Over
<1>3. ASSUME NEW f \in W PROVE Shape(f, vx)
  <2>1. Shape(f, vw) /\ f.saved \in Seq(W)
    BY <1>1 DEF Closed
  <2>2. f.k = "arm" => Apart(f.saved, vx)
    BY <1>2, <2>1 DEF Shape
  <2> QED BY <2>1, <2>2 DEF Shape
<1>4. Closed(W, vx)
  BY <1>1, <1>3 DEF Closed
<1> QED BY <1>1, <1>2, <1>4 DEF WellBuilt

-----------------------------------------------------------------------------
(***************************************************************************)
(* Exits                                                                   *)
(***************************************************************************)
ExitKinds == {"Return", "ErrorPropagation", "Abort", "Cancellation", "Fault"}

ScopeStates ==
  [guard : Guards, version : Nat, last : Nat, pending : SUBSET Nat, exit : ExitKinds \cup {"none"},
   accepted : [Actions -> [at : Nat, current : BOOLEAN]]]

\* Every scope that has exited was recorded, once.
Counted(sc, ex) ==
  /\ sc \in Seq(ScopeStates) /\ ex \in Seq(Nat) /\ Len(ex) = Len(sc)
  /\ \A s \in 1..Len(sc) : ex[s] = IF sc[s].exit = "none" THEN 0 ELSE 1

\* A list of exits of active scopes, and the scopes in it.
Exits == [scope : Active, kind : ExitKinds]
Ended(list) == {list[i].scope : i \in DOMAIN list}

\* s has exited, and nothing else has changed.
HasExited(s) ==
  \E kind \in ExitKinds : scopes'[s] = [scopes[s] EXCEPT !.exit = kind]

\* What SettleScopes does to scopes.
LEMMA Settles ==
  ASSUME Counted(scopes, exits), NEW list \in Seq(Exits), SettleScopes(list)
  PROVE  /\ Counted(scopes', exits') /\ Len(scopes') = Len(scopes)
         /\ \A s \in 1..Len(scopes) : IF s \in Ended(list) THEN HasExited(s) ELSE scopes'[s] = scopes[s]
         /\ Ended(list) \subseteq Active
<1>1. PICK n \in Nat : n = Len(scopes) /\ n = Len(exits) /\ DOMAIN scopes = 1..n /\ DOMAIN exits = 1..n
  BY DEF Counted
<1>2. PICK sc : sc = scopes
  OBVIOUS
<1>3. PICK recs : recs = ExitRecords(list)
  OBVIOUS
<1>4. /\ scopes' = [s \in DOMAIN scopes |->
                     IF s \in Ended(list)
                     THEN [scopes[s] EXCEPT !.exit = (CHOOSE r \in Range(recs) : r.scope = s).kind]
                     ELSE scopes[s]]
      /\ exits' = [s \in DOMAIN exits |-> exits[s] + (IF s \in Ended(list) THEN 1 ELSE 0)]
  <2>1. scopes' = [s \in DOMAIN scopes |->
                     IF s \in Ended(list)
                     THEN [scopes[s] EXCEPT !.exit = (CHOOSE r \in Range(ExitRecords(list)) : r.scope = s).kind]
                     ELSE scopes[s]]
    BY DEF SettleScopes, Ended
  <2>2. exits' = [s \in DOMAIN exits |-> exits[s] + (IF s \in Ended(list) THEN 1 ELSE 0)]
    BY Zenon DEF SettleScopes, Ended
  <2> QED BY <1>3, <2>1, <2>2
<1>5. \A i \in DOMAIN list : list[i].scope \in Active /\ list[i].kind \in ExitKinds
  <2>1. \A i \in DOMAIN list : list[i] \in Exits
    OBVIOUS
  <2> QED BY <2>1 DEF Exits
<1>6. DOMAIN recs = DOMAIN list /\ \A i \in DOMAIN list : recs[i].scope = list[i].scope /\ recs[i].kind = list[i].kind
  BY <1>3 DEF ExitRecords
<1>7. ASSUME NEW s \in 1..n, s \in Ended(list) PROVE HasExited(s) /\ exits'[s] = exits[s] + 1
  <2>1. PICK i \in DOMAIN list : list[i].scope = s
    BY <1>7 DEF Ended
  <2>2. recs[i] \in Range(recs) /\ recs[i].scope = s
    BY <1>6, <2>1 DEF Range
  <2>3. PICK r : r = CHOOSE q \in Range(recs) : q.scope = s
    OBVIOUS
  <2>4. r \in Range(recs)
    BY <2>2, <2>3
  <2>5. r.kind \in ExitKinds
    BY <1>5, <1>6, <2>4 DEF Range
  <2>6. scopes'[s] = [scopes[s] EXCEPT !.exit = r.kind]
    BY <1>1, <1>4, <1>7, <2>3
  <2> QED BY <1>1, <1>4, <1>7, <2>5, <2>6 DEF HasExited
<1>8. ASSUME NEW s \in 1..n, s \notin Ended(list) PROVE scopes'[s] = scopes[s] /\ exits'[s] = exits[s]
  <2>1. exits[s] \in Nat
    BY <1>1 DEF Counted
  <2> QED BY <1>1, <1>4, <1>8, <2>1
<1>9. Ended(list) \subseteq Active
  BY <1>5 DEF Ended
<1>10. ASSUME NEW s \in 1..n
       PROVE  scopes'[s] \in ScopeStates /\ exits'[s] \in Nat /\ exits'[s] = IF scopes'[s].exit = "none" THEN 0 ELSE 1
  <2>1. scopes[s] \in ScopeStates /\ exits[s] \in Nat /\ exits[s] = IF scopes[s].exit = "none" THEN 0 ELSE 1
    BY <1>1 DEF Counted
  <2>2. CASE s \notin Ended(list)
    BY <1>8, <2>1, <2>2
  <2>3. CASE s \in Ended(list)
    <3>1. scopes[s].exit = "none"
      BY <1>9, <2>3 DEF Active
    <3>2. PICK kind \in ExitKinds : scopes'[s] = [scopes[s] EXCEPT !.exit = kind]
      BY <1>7, <2>3 DEF HasExited
    <3>3. scopes'[s] \in ScopeStates /\ scopes'[s].exit = kind
      BY <2>1, <3>2 DEF ScopeStates
    <3>4. kind # "none"
      BY DEF ExitKinds
    <3> QED BY <1>7, <2>1, <2>3, <3>1, <3>3, <3>4
  <2> QED BY <2>2, <2>3
<1>11. DOMAIN scopes' = 1..n /\ DOMAIN exits' = 1..n /\ scopes' = [s \in 1..n |-> scopes'[s]] /\ exits' = [s \in 1..n |-> exits'[s]]
  BY <1>1, <1>4
<1>12. scopes' \in Seq(ScopeStates) /\ Len(scopes') = n /\ exits' \in Seq(Nat) /\ Len(exits') = n
  <2>1. scopes' \in [1..n -> ScopeStates] /\ exits' \in [1..n -> Nat]
    BY <1>10, <1>11
  <2> QED BY <2>1, IsASeq, LenProperties
<1> QED BY <1>1, <1>7, <1>8, <1>9, <1>10, <1>12 DEF Counted

\* Lists of exits one after the other.
LEMMA ConcatExits ==
  ASSUME NEW p \in Seq(Exits), NEW q \in Seq(Exits)
  PROVE  p \o q \in Seq(Exits) /\ Ended(p \o q) = Ended(p) \cup Ended(q)
<1>1. PICK n \in Nat, m \in Nat : n = Len(p) /\ m = Len(q)
  OBVIOUS
<1>2. PICK h : h = p \o q
  OBVIOUS
<1>3. /\ h \in Seq(Exits) /\ DOMAIN h = 1..(n + m) /\ DOMAIN p = 1..n /\ DOMAIN q = 1..m
      /\ \A i \in 1..n : h[i] = p[i]
      /\ \A i \in 1..m : h[n + i] = q[i]
  BY <1>1, <1>2
<1>4. /\ \A i \in 1..n : i \in 1..(n + m)
      /\ \A i \in 1..m : n + i \in 1..(n + m)
      /\ \A i \in 1..(n + m) : i \in 1..n \/ (i - n \in 1..m /\ n + (i - n) = i)
  BY <1>1
<1>5. \A i \in 1..(n + m) : (i \in 1..n /\ h[i] = p[i]) \/ (i - n \in 1..m /\ h[i] = q[i - n])
  BY <1>3, <1>4
<1>6. \A x \in Ended(h) : x \in Ended(p) \cup Ended(q)
  BY <1>3, <1>5 DEF Ended
<1>7. \A x \in Ended(p) : x \in Ended(h)
  BY <1>3, <1>4 DEF Ended
<1>8. \A x \in Ended(q) : x \in Ended(h)
  <2> SUFFICES ASSUME NEW i \in 1..m PROVE q[i].scope \in Ended(h)
    BY <1>3 DEF Ended
  <2>1. n + i \in DOMAIN h /\ h[n + i].scope = q[i].scope
    BY <1>3, <1>4
  <2> QED BY <2>1 DEF Ended
<1> QED BY <1>2, <1>3, <1>6, <1>7, <1>8

\* Listed lists the scopes it is given.
LEMMA ListedExits ==
  ASSUME scopes \in Seq(ScopeStates), NEW set \in SUBSET Active, NEW kind \in ExitKinds
  PROVE  Listed(set, kind) \in Seq(Exits) /\ Ended(Listed(set, kind)) = set
<1>1. PICK n \in Nat : n = Len(scopes) /\ Active \subseteq 1..n
  BY DEF Active
<1>2. PICK all : all = [s \in 1..n |-> s]
  OBVIOUS
<1>3. all \in Seq(1..n) /\ Len(all) = n
  <2>1. all \in [1..n -> 1..n]
    BY <1>2
  <2> QED BY <2>1, IsASeq, LenProperties
<1>4. PICK order : order = Retain(all, set)
  OBVIOUS
<1>5. order \in Seq((1..n) \cap set) /\ Entries(order) = Entries(all) \cap set
  BY <1>3, <1>4, RetainEntries
<1>6. Entries(all) = 1..n
  BY <1>2, <1>3 DEF Entries
<1>7. PICK m \in Nat : m = Len(order) /\ DOMAIN order = 1..m
  BY <1>5
<1>8. PICK l : l = Listed(set, kind)
  OBVIOUS
<1>9. l = [i \in 1..m |-> [scope |-> order[i], kind |-> kind]]
  BY <1>1, <1>2, <1>4, <1>7, <1>8 DEF Listed
<1>10. \A i \in 1..m : order[i] \in set
  BY <1>5, <1>7
<1>11. l \in [1..m -> Exits]
  BY <1>9, <1>10 DEF Exits
<1>12. l \in Seq(Exits)
  BY <1>11, IsASeq
<1>13. DOMAIN l = 1..m /\ \A i \in 1..m : l[i].scope = order[i]
  BY <1>9
<1>14. Ended(l) = Entries(order)
  BY <1>7, <1>13 DEF Ended, Entries
<1>15. Entries(order) = set
  BY <1>1, <1>5, <1>6
<1> QED BY <1>8, <1>12, <1>14, <1>15

\* Abandoned scopes, and the others.
LEMMA AbandonExits ==
  ASSUME scopes \in Seq(ScopeStates), NEW set
  PROVE  Abandon(set) \in Seq(Exits) /\ Ended(Abandon(set)) = set \cap Active
<1>1. "Abort" \in ExitKinds /\ set \cap Active \in SUBSET Active
  BY DEF ExitKinds
<1> QED BY <1>1, ListedExits DEF Abandon

\* The order does not matter.
LEMMA ReverseExits ==
  ASSUME NEW l \in Seq(Exits) PROVE Reverse(l) \in Seq(Exits) /\ Ended(Reverse(l)) = Ended(l)
<1>1. PICK n \in Nat : n = Len(l) /\ DOMAIN l = 1..n
  OBVIOUS
<1>2. PICK r : r = Reverse(l)
  OBVIOUS
<1>3. r = [i \in 1..n |-> l[(n - i) + 1]]
  BY <1>1, <1>2 DEF Reverse
<1>4. \A i \in 1..n : (n - i) + 1 \in 1..n /\ (n - ((n - i) + 1)) + 1 = i
  BY <1>1
<1>5. r \in [1..n -> Exits]
  BY <1>1, <1>3, <1>4
<1>6. r \in Seq(Exits) /\ DOMAIN r = 1..n
  BY <1>5, IsASeq
<1>7. \A x \in Ended(r) : x \in Ended(l)
  BY <1>1, <1>3, <1>4, <1>6 DEF Ended
<1>8. \A i \in 1..n : \E j \in 1..n : r[j] = l[i]
  <2> TAKE i \in 1..n
  <2>1. PICK j \in 1..n : j = (n - i) + 1 /\ (n - j) + 1 = i
    BY <1>4
  <2>2. r[j] = l[i]
    BY <1>3, <2>1
  <2> QED BY <2>2
<1>9. \A x \in Ended(l) : x \in Ended(r)
  <2> SUFFICES ASSUME NEW i \in 1..n PROVE l[i].scope \in Ended(r)
    BY <1>1 DEF Ended
  <2>1. PICK j \in 1..n : r[j] = l[i]
    BY <1>8
  <2> QED BY <1>6, <2>1 DEF Ended
<1> QED BY <1>2, <1>6, <1>7, <1>9

-----------------------------------------------------------------------------
(***************************************************************************)
(* Who owns what                                                           *)
(***************************************************************************)
Versions == UNION {[S -> Nat] : S \in SUBSET Nat}

TagStates ==
  [action : Actions, at : Nat, trusted : {"unknown", "yes", "no"}, version : Versions,
   dispatched : BOOLEAN, completed : BOOLEAN]

\* What frames own exists.
Whole(st, sc, at, ex) ==
  /\ Counted(sc, ex) /\ at \in Seq(TagStates)
  /\ WellBuilt(st, Viewers(at)) /\ Owned(st) \subseteq 1..Len(sc) /\ Tags(st) \subseteq 1..Len(at)
  /\ \A a \in 1..Len(at) : DOMAIN at[a].version \subseteq 1..Len(sc)

\* The frames own exactly the active scopes, and the scopes that saw an attempt
\* stay as long as the attempt does.
Kept(st, sc, at) ==
  /\ Bottom(st) /\ Owned(st) = {s \in 1..Len(sc) : sc[s].exit = "none"}
  /\ \A a \in Tags(st) : Viewers(at)[a] \subseteq Owned(st)

Alive == ctl.m \in {"run", "dispatch", "host"}

\* The attempt that is dispatched or awaited has its correlation on top.
AtAction ==
  ctl.m \in {"dispatch", "host"} =>
    /\ ctl.a \in 1..Len(attempts) /\ stack # <<>>
    /\ stack[1].k = "outcome" /\ stack[1].id = ctl.a

Saved ==
  saved # NoCheckpoint =>
    /\ Whole(saved.stack, saved.scopes, saved.attempts, saved.exits)
    /\ Kept(saved.stack, saved.scopes, saved.attempts) /\ saved.cursor \in Nat

FrameInv ==
  /\ cursor \in Nat /\ ctl.m \in {"run", "dispatch", "host", "ending", "ended"}
  /\ Whole(stack, scopes, attempts, exits)
  /\ Alive => Kept(stack, scopes, attempts)
  /\ AtAction
  /\ ctl.m = "ended" => Active = {}
  /\ Saved

\* Nothing is active and nothing is on the stack.
LEMMA InitFrames == Init => FrameInv
<1> SUFFICES ASSUME Init PROVE FrameInv
  OBVIOUS
<1>1. WellBuilt(<<>>, Viewers(<<>>)) /\ Bottom(<<>>)
  BY EmptyStack
<1>2. Counted(<<>>, <<>>)
  BY DEF Counted
<1>3. Whole(<<>>, <<>>, <<>>, <<>>)
  BY <1>1, <1>2, NoFrame DEF Whole, Views
<1>4. Kept(<<>>, <<>>, <<>>)
  BY <1>1, NoFrame DEF Kept, Views
<1>5. ctl.m = "run" /\ saved = NoCheckpoint
  BY DEF Init, Running
<1> QED BY <1>3, <1>4, <1>5 DEF Init, FrameInv, AtAction, Saved

\* What is active.
LEMMA ActiveScopes ==
  ASSUME Counted(scopes, exits) PROVE Active = {s \in 1..Len(scopes) : scopes[s].exit = "none"}
  BY DEF Counted, Active

\* Scopes that change without an exit.
LEMMA SameExits ==
  ASSUME Counted(scopes, exits), scopes' = [s \in DOMAIN scopes |-> scopes'[s]],
         \A s \in 1..Len(scopes) : scopes'[s] \in ScopeStates /\ scopes'[s].exit = scopes[s].exit
  PROVE  /\ Counted(scopes', exits) /\ Len(scopes') = Len(scopes)
         /\ \A st, at : Kept(st, scopes, at) => Kept(st, scopes', at)
<1>1. PICK n \in Nat : n = Len(scopes) /\ DOMAIN scopes = 1..n
  BY DEF Counted
<1>2. scopes' \in [1..n -> ScopeStates]
  BY <1>1
<1>3. scopes' \in Seq(ScopeStates) /\ Len(scopes') = n
  BY <1>2, IsASeq, LenProperties
<1>4. Counted(scopes', exits)
  BY <1>1, <1>3 DEF Counted
<1>5. {s \in 1..Len(scopes) : scopes[s].exit = "none"} = {s \in 1..Len(scopes') : scopes'[s].exit = "none"}
  BY <1>1, <1>3
<1> QED BY <1>1, <1>3, <1>4, <1>5 DEF Kept, Views

\* A sequence with one more entry.
LEMMA Appended ==
  ASSUME NEW S, NEW q \in Seq(S), NEW x \in S
  PROVE  /\ Append(q, x) \in Seq(S) /\ Len(Append(q, x)) = Len(q) + 1
         /\ Append(q, x)[Len(q) + 1] = x /\ \A i \in 1..Len(q) : Append(q, x)[i] = q[i]
  OBVIOUS

\* A callable with a specification is called.
LEMMA ActivateFrames == ASSUME FrameInv, NEW guard \in Guards, Activate(guard)
  PROVE  FrameInv' /\ Tags(stack') \subseteq Tags(stack)
<1>1. /\ ctl = Running /\ ctl.m = "run"
      /\ UNCHANGED <<attempts, cursor, saved>>
  BY DEF Activate, Spend, KeepRun, Running
<1>2. CASE Cardinality(Active) >= MaxActive
  <2>1. ctl' = Ending("Failed", "ceiling") /\ UNCHANGED <<scopes, stack, exits>>
    BY <1>2 DEF Activate
  <2>2. ctl'.m = "ending"
    BY <2>1 DEF Ending
  <2> QED BY <1>1, <2>1, <2>2 DEF FrameInv, AtAction, Alive, Saved
<1>3. CASE ~(Cardinality(Active) >= MaxActive)
  <2>1. /\ scopes' = Append(scopes, NewScope(guard)) /\ exits' = Append(exits, 0)
        /\ stack' = <<ScopeFrame(Len(scopes) + 1)>> \o stack /\ ctl' = ctl
    BY <1>3 DEF Activate
  <2>2. PICK n \in Nat : n = Len(scopes) /\ n = Len(exits)
    BY DEF FrameInv, Whole, Counted, Views
  <2>3. PICK new : new = NewScope(guard)
    OBVIOUS
  <2>4. new \in ScopeStates /\ new.exit = "none"
    BY <2>3 DEF NewScope, ScopeStates
  <2>5. /\ scopes' \in Seq(ScopeStates) /\ Len(scopes') = n + 1 /\ scopes'[n + 1] = new
        /\ \A i \in 1..n : scopes'[i] = scopes[i]
    BY <2>1, <2>2, <2>3, <2>4, Appended DEF FrameInv, Whole, Counted, Views
  <2>6. /\ exits' \in Seq(Nat) /\ Len(exits') = n + 1 /\ exits'[n + 1] = 0
        /\ \A i \in 1..n : exits'[i] = exits[i]
    BY <2>1, <2>2, Appended DEF FrameInv, Whole, Counted, Views
  <2>7. 1..(n + 1) = 1..n \cup {n + 1} /\ n + 1 \notin 1..n
    BY <2>2
  <2>8. Counted(scopes', exits')
    BY <2>2, <2>4, <2>5, <2>6, <2>7 DEF FrameInv, Whole, Counted, Views
  <2>9. PICK f : f = ScopeFrame(n + 1)
    OBVIOUS
  <2>10. Shape(f, Views) /\ f.saved = <<>> /\ f.k # "arm" /\ f.owns = {n + 1} /\ f.tags = {}
    BY <2>9 DEF ScopeFrame, Leaf, Shape
  <2>11. WellBuilt(stack, Views) /\ Owned(stack) \subseteq 1..n /\ Kept(stack, scopes, attempts)
    BY <1>1, <2>2 DEF FrameInv, Whole, Alive, Views
  <2>12. /\ f.owns \cap Owned(stack) = {} /\ f.tags \cap Tags(stack) = {}
         /\ \A a \in Tags(stack) : Views[a] \cap f.owns = {}
    BY <2>7, <2>10, <2>11 DEF Kept, Views
  <2>13. /\ WellBuilt(stack', Views) /\ Owned(stack') = {n + 1} \cup Owned(stack) /\ Tags(stack') = Tags(stack)
         /\ Bottom(stack) => Bottom(stack')
    <3>0. MayTop(f, stack, Views)
      BY <2>10, <2>11, <2>12 DEF MayTop
    <3>1. /\ WellBuilt(<<f>> \o stack, Views) /\ Owned(<<f>> \o stack) = f.owns \cup Owned(stack)
          /\ Tags(<<f>> \o stack) = f.tags \cup Tags(stack)
          /\ Bottom(stack) => Bottom(<<f>> \o stack)
      BY <3>0, Pushed
    <3>2. stack' = <<f>> \o stack
      BY <2>1, <2>2, <2>9
    <3>3. /\ WellBuilt(stack', Views) /\ Owned(stack') = f.owns \cup Owned(stack)
          /\ Tags(stack') = f.tags \cup Tags(stack)
          /\ Bottom(stack) => Bottom(stack')
      BY <3>1, <3>2, Zenon
    <3> QED BY <2>10, <3>3
  <2>14. Whole(stack', scopes', attempts', exits')
    BY <1>1, <2>2, <2>5, <2>7, <2>8, <2>11, <2>13 DEF FrameInv, Whole, Views
  <2>15. {s \in 1..Len(scopes') : scopes'[s].exit = "none"} = {s \in 1..n : scopes[s].exit = "none"} \cup {n + 1}
    BY <2>4, <2>5, <2>7
  <2>16. Kept(stack', scopes', attempts')
    BY <1>1, <2>2, <2>11, <2>13, <2>15 DEF Kept
  <2> QED BY <1>1, <2>1, <2>13, <2>14, <2>16 DEF FrameInv, AtAction, Saved
<1> QED BY <1>2, <1>3

\* A frame without owners, or none, is put on or taken off.
LEMMA EnterFrames == ASSUME FrameInv, NEW k \in {"handle", "try"}, Enter(k)
  PROVE  FrameInv' /\ Tags(stack') \subseteq Tags(stack)
<1>1. /\ ctl = Running /\ ctl.m = "run" /\ UNCHANGED <<ctl, attempts, cursor, saved, scopes, exits>>
      /\ stack' = <<Leaf(k)>> \o stack
  BY DEF Enter, Spend, KeepRun, KeepScopes, Running
<1>2. PICK f : f = Leaf(k)
  OBVIOUS
<1>3. Shape(f, Views) /\ f.saved = <<>> /\ f.k # "arm" /\ f.owns = {} /\ f.tags = {}
  BY <1>2 DEF Leaf, Shape
<1>4. WellBuilt(stack, Views) /\ Kept(stack, scopes, attempts)
  BY <1>1 DEF FrameInv, Whole, Alive, Views
<1>5. /\ WellBuilt(<<f>> \o stack, Views) /\ Owned(<<f>> \o stack) = f.owns \cup Owned(stack)
      /\ Tags(<<f>> \o stack) = f.tags \cup Tags(stack)
      /\ Bottom(stack) => Bottom(<<f>> \o stack)
  <2>1. /\ f.owns \cap Owned(stack) = {} /\ f.tags \cap Tags(stack) = {}
        /\ \A a \in Tags(stack) : Views[a] \cap f.owns = {}
    BY <1>3
  <2>2. MayTop(f, stack, Views)
    BY <1>3, <1>4, <2>1 DEF MayTop
  <2> QED BY <2>2, Pushed
<1>6. WellBuilt(stack', Views) /\ Owned(stack') = Owned(stack) /\ Tags(stack') = Tags(stack) /\ Bottom(stack')
  <2>1. /\ WellBuilt(stack', Views) /\ Owned(stack') = f.owns \cup Owned(stack)
        /\ Tags(stack') = f.tags \cup Tags(stack)
        /\ Bottom(stack) => Bottom(stack')
    BY <1>1, <1>2, <1>5, Zenon
  <2> QED BY <1>3, <1>4, <2>1 DEF Kept, Views
<1>7. Whole(stack', scopes', attempts', exits')
  BY <1>1, <1>6 DEF FrameInv, Whole, Views
<1>8. Kept(stack', scopes', attempts')
  BY <1>1, <1>4, <1>6 DEF Kept, Views
<1>9. Active' = Active
  BY <1>1 DEF Active
<1> QED BY <1>1, <1>6, <1>7, <1>8, <1>9 DEF FrameInv, AtAction, Saved, Alive

\* The stack from its second frame on.
LEMMA TailIsBelow == ASSUME WellBuilt(stack, Views), stack # <<>> PROVE Tail(stack) = Below(1) /\ 1 \in 1..Len(stack)
<1>1. PICK W, st : st = stack /\ st \in Seq(W)
  BY DEF WellBuilt
<1>2. Tail(st) = SubSeq(st, 2, Len(st)) /\ 1 \in 1..Len(st)
  BY <1>1, TailIsSubSeq
<1>3. 1 + 1 = 2
  OBVIOUS
<1> QED BY <1>1, <1>2, <1>3 DEF Below

\* The body of a handle or a `?` ends.
LEMMA LeaveFrames == ASSUME FrameInv, Leave PROVE FrameInv' /\ Tags(stack') \subseteq Tags(stack)
<1>1. /\ ctl = Running /\ ctl.m = "run" /\ UNCHANGED <<ctl, attempts, cursor, saved, scopes, exits>>
      /\ stack # <<>> /\ stack[1].k \in {"handle", "try"} /\ stack' = Tail(stack)
  BY DEF Leave, KeepRun, KeepScopes, Running
<1>2. WellBuilt(stack, Views) /\ Kept(stack, scopes, attempts)
  BY <1>1 DEF FrameInv, Whole, Alive, Views
<1>3. Tail(stack) = Below(1) /\ Sections(stack, Above(1), stack[1], Below(1), Views)
  BY <1>1, <1>2, TailIsBelow, StackSections
<1>4. Above(1) = <<>>
  <2>1. 1 - 1 < 1
    OBVIOUS
  <2> QED BY <2>1, SubSeqEmpty DEF Above
<1>5. stack[1].owns = {} /\ stack[1].tags = {}
  BY <1>1, <1>3 DEF Sections, Shape
<1>6. /\ WellBuilt(stack', Views) /\ Owned(stack') = Owned(stack) /\ Tags(stack') = Tags(stack) /\ Bottom(stack')
  BY <1>1, <1>2, <1>3, <1>4, <1>5, NoFrame DEF Sections, Kept, Views
<1>7. Whole(stack', scopes', attempts', exits')
  BY <1>1, <1>6 DEF FrameInv, Whole, Views
<1>8. Kept(stack', scopes', attempts')
  BY <1>1, <1>2, <1>6 DEF Kept, Views
<1>9. Active' = Active
  BY <1>1 DEF Active
<1> QED BY <1>1, <1>6, <1>7, <1>8, <1>9 DEF FrameInv, AtAction, Saved, Alive

\* An exit of the run: it is no longer alive, whatever else stays.
LEMMA EndingState == ASSUME NEW o, NEW w PROVE Ending(o, w).m = "ending" /\ Ending(o, w).why = w /\ Ending(o, w).outcome = o
  BY DEF Ending

\* An attempt: observe_residual_attempt.
LEMMA PerformFrames == ASSUME FrameInv, NEW x \in Actions, Perform(x)
  PROVE  FrameInv' /\ Tags(stack') \subseteq Tags(stack) \cup {Len(attempts) + 1}
<1> DEFINE seen == Mirror(stack)
           tag == [action |-> x, at |-> cursor + 1, trusted |-> "unknown",
                   version |-> [s \in seen |-> scopes[s].version + 1],
                   dispatched |-> FALSE, completed |-> FALSE]
<1>1. PICK n \in Nat, a \in Nat : n = Len(scopes) /\ a = Len(attempts) + 1 /\ a - 1 = Len(attempts)
  BY DEF FrameInv, Whole, Counted, Views
<1>2. /\ ctl = Running /\ ctl.m = "run" /\ saved' = saved /\ cursor' = cursor + 1 /\ exits' = exits
      /\ attempts' = Append(attempts, tag)
  BY DEF Perform, Spend, KeepRun, Running
<1>3. WellBuilt(stack, Views) /\ Kept(stack, scopes, attempts) /\ Owned(stack) \subseteq 1..n /\ Tags(stack) \subseteq 1..(a - 1)
  BY <1>1, <1>2 DEF FrameInv, Whole, Alive, Views
<1>4. seen \subseteq 1..n
  BY <1>3, MirrorOwned
<1>5. \A s \in 1..n : scopes[s] \in ScopeStates
  BY <1>1 DEF FrameInv, Whole, Counted, Views
<1>6. tag \in TagStates /\ DOMAIN tag.version \subseteq 1..n
  <2>1. \A s \in seen : scopes[s].version + 1 \in Nat
    BY <1>4, <1>5 DEF ScopeStates
  <2>2. PICK v : v = [s \in seen |-> scopes[s].version + 1]
    OBVIOUS
  <2>3. v \in [seen -> Nat] /\ seen \in SUBSET Nat
    BY <1>4, <2>1, <2>2
  <2>4. v \in Versions /\ DOMAIN v = seen
    BY <2>3 DEF Versions
  <2>5. cursor + 1 \in Nat
    BY DEF FrameInv
  <2> QED BY <1>4, <2>2, <2>4, <2>5 DEF TagStates
<1> HIDE DEF tag
<1>7. /\ attempts' \in Seq(TagStates) /\ Len(attempts') = a /\ attempts'[a] = tag
      /\ \A b \in 1..(a - 1) : attempts'[b] = attempts[b]
  <2>1. attempts \in Seq(TagStates)
    BY DEF FrameInv, Whole, Views
  <2> QED BY <1>1, <1>2, <1>6, <2>1, Appended
<1>8. 1..a = 1..(a - 1) \cup {a} /\ a \notin 1..(a - 1) /\ a \in 1..a
  BY <1>1
<1>9. \A b \in 1..a : DOMAIN attempts'[b].version \subseteq 1..n
  BY <1>1, <1>6, <1>7, <1>8 DEF FrameInv, Whole, Views
<1>10. cursor' \in Nat
  BY <1>2 DEF FrameInv
<1>14. /\ \A b \in 1..(a - 1) : Viewers(attempts')[b] = Viewers(attempts)[b]
       /\ Viewers(attempts')[a] = seen
       /\ DOMAIN Viewers(attempts) = 1..(a - 1) /\ DOMAIN Viewers(attempts') = 1..a
  <2>1. DOMAIN attempts = 1..(a - 1) /\ DOMAIN attempts' = 1..a
    BY <1>1, <1>7 DEF FrameInv, Whole
  <2>2. DOMAIN tag.version = seen
    BY DEF tag
  <2> QED BY <1>7, <1>8, <2>1, <2>2 DEF Viewers
<1>15. WellBuilt(stack, Viewers(attempts'))
  <2>1. PICK vw, vx : vw = Viewers(attempts) /\ vx = Viewers(attempts')
    OBVIOUS
  <2>2. DOMAIN vw \subseteq DOMAIN vx /\ \A b \in DOMAIN vw : vx[b] = vw[b]
    BY <1>8, <1>14, <2>1
  <2> QED BY <1>3, <2>1, <2>2, Extended DEF Views
<1>11. \/ (\E w : ctl' = Ending("Failed", w)) /\ UNCHANGED <<scopes, stack>>
       \/ /\ scopes' = [s \in DOMAIN scopes |-> IF s \in seen THEN Committed(s, a) ELSE scopes[s]]
          /\ stack' = <<OutcomeFrame(a)>> \o stack
          /\ ctl' = [m |-> "dispatch", a |-> a]
  BY <1>1 DEF Perform
<1> HIDE DEF seen
<1>12. CASE (\E w : ctl' = Ending("Failed", w)) /\ UNCHANGED <<scopes, stack>>
  <2>1. ctl'.m = "ending"
    BY <1>12, EndingState
  <2>2. Whole(stack', scopes', attempts', exits')
    <3>1. Tags(stack) \subseteq 1..a
      BY <1>3, <1>8
    <3> QED BY <1>1, <1>2, <1>3, <1>7, <1>9, <1>12, <1>15, <3>1 DEF FrameInv, Whole
  <2> QED BY <1>2, <1>10, <1>12, <2>1, <2>2 DEF FrameInv, AtAction, Alive, Saved
<1>13. CASE /\ scopes' = [s \in DOMAIN scopes |-> IF s \in seen THEN Committed(s, a) ELSE scopes[s]]
            /\ stack' = <<OutcomeFrame(a)>> \o stack
            /\ ctl' = [m |-> "dispatch", a |-> a]
  <2>1. DOMAIN scopes = 1..n
    BY <1>1 DEF FrameInv, Whole, Counted, Views
  <2>2. ASSUME NEW s \in 1..n PROVE scopes'[s] \in ScopeStates /\ scopes'[s].exit = scopes[s].exit
    <3>1. CASE s \notin seen
      BY <1>5, <1>13, <2>1, <3>1
    <3>2. CASE s \in seen
      <4>1. PICK r : r = scopes[s] /\ r \in ScopeStates
        BY <1>5
      <4>2. PICK c \in Nat : c = cursor + 1
        BY DEF FrameInv
      <4>3. scopes'[s] = [r EXCEPT !.version = @ + 1, !.last = c, !.pending = @ \cup {a}]
        BY <1>13, <2>1, <3>2, <4>1, <4>2 DEF Committed
      <4>4. PICK v : v = r.version + 1
        OBVIOUS
      <4>5. PICK p : p = r.pending \cup {a}
        OBVIOUS
      <4>6. v \in Nat /\ p \in SUBSET Nat
        BY <4>1, <4>4, <4>5 DEF ScopeStates
      <4>7. PICK q : q = scopes'[s]
        OBVIOUS
      <4>8. q = [r EXCEPT !.version = v, !.last = c, !.pending = p]
        BY <4>3, <4>4, <4>5, <4>7
      <4>9. q \in ScopeStates /\ q.exit = r.exit
        BY <4>1, <4>2, <4>6, <4>8 DEF ScopeStates
      <4> QED BY <4>1, <4>7, <4>9
    <3> QED BY <3>1, <3>2
  <2>3. /\ Counted(scopes', exits) /\ Len(scopes') = n /\ Kept(stack, scopes', attempts)
    <3>1. Counted(scopes, exits)
      BY DEF FrameInv, Whole, Views
    <3>2. scopes' = [s \in DOMAIN scopes |-> scopes'[s]]
      BY <1>13
    <3> QED BY <1>1, <1>3, <2>2, <3>1, <3>2, SameExits
  <2>4. PICK f : f = OutcomeFrame(a)
    OBVIOUS
  <2>14. PICK vx : vx = Viewers(attempts')
    OBVIOUS
  <2>5. Shape(f, vx) /\ f.saved = <<>> /\ f.k = "outcome" /\ f.id = a /\ f.owns = {} /\ f.tags = {a}
    BY <1>8, <1>14, <2>4, <2>14 DEF OutcomeFrame, Leaf, Shape
  <2>6. /\ f.owns \cap Owned(stack) = {} /\ f.tags \cap Tags(stack) = {}
        /\ \A b \in Tags(stack) : vx[b] \cap f.owns = {}
    BY <1>3, <1>8, <2>5
  <2>7. /\ WellBuilt(<<f>> \o stack, vx) /\ Owned(<<f>> \o stack) = f.owns \cup Owned(stack)
        /\ Tags(<<f>> \o stack) = f.tags \cup Tags(stack)
        /\ Bottom(stack) => Bottom(<<f>> \o stack)
        /\ (<<f>> \o stack) # <<>> /\ (<<f>> \o stack)[1] = f
    <3>1. WellBuilt(stack, vx)
      BY <1>15, <2>14
    <3>2. PICK st : st = stack
      OBVIOUS
    <3>3. /\ WellBuilt(st, vx) /\ Shape(f, vx) /\ f.saved = <<>> /\ f.k # "arm"
          /\ f.owns \cap Owned(st) = {} /\ f.tags \cap Tags(st) = {}
          /\ \A b \in Tags(st) : vx[b] \cap f.owns = {}
      BY <2>5, <2>6, <3>1, <3>2, Zenon
    <3>4. /\ WellBuilt(<<f>> \o st, vx) /\ Owned(<<f>> \o st) = f.owns \cup Owned(st)
          /\ Tags(<<f>> \o st) = f.tags \cup Tags(st)
          /\ Bottom(st) => Bottom(<<f>> \o st)
          /\ (<<f>> \o st) # <<>> /\ (<<f>> \o st)[1] = f
      <4>1. MayTop(f, st, vx)
        BY <3>3 DEF MayTop
      <4> QED BY <4>1, Pushed
    <3> QED BY <3>2, <3>4, Zenon
  <2>8. /\ WellBuilt(stack', vx) /\ Owned(stack') = f.owns \cup Owned(stack)
        /\ Tags(stack') = f.tags \cup Tags(stack)
        /\ Bottom(stack) => Bottom(stack')
        /\ stack' # <<>> /\ stack'[1] = f
    <3>1. stack' = <<f>> \o stack
      BY <1>13, <2>4
    <3> QED BY <2>7, <3>1, Zenon
  <2>9. Owned(stack') = Owned(stack) /\ Tags(stack') \subseteq 1..a
    BY <1>3, <1>8, <2>5, <2>8
  <2>10. Whole(stack', scopes', attempts', exits')
    BY <1>2, <1>3, <1>7, <1>9, <2>3, <2>8, <2>9, <2>14 DEF Whole
  <2>11. Kept(stack', scopes', attempts')
    <3>1. \A b \in Tags(stack') : Viewers(attempts')[b] \subseteq Owned(stack)
      <4>1. seen \subseteq Owned(stack)
        BY <1>3, MirrorOwned DEF seen
      <4>2. \A b \in Tags(stack) : Viewers(attempts)[b] \subseteq Owned(stack)
        BY <1>3 DEF Kept
      <4> QED BY <1>3, <1>14, <2>5, <2>8, <4>1, <4>2
    <3> QED BY <2>3, <2>8, <2>9, <3>1 DEF Kept
  <2>12. AtAction'
    BY <1>7, <1>8, <1>13, <2>5, <2>8 DEF AtAction
  <2>13. ctl'.m = "dispatch"
    BY <1>13
  <2> QED BY <1>1, <1>2, <1>10, <2>5, <2>8, <2>10, <2>11, <2>12, <2>13 DEF FrameInv, Saved
<1> QED BY <1>11, <1>12, <1>13

\* One attempt changes, not the scopes that saw it.
LEMMA Retagged ==
  ASSUME NEW at \in Seq(TagStates), NEW a \in 1..Len(at), NEW t \in TagStates, t.version = at[a].version,
         NEW at2, at2 = [at EXCEPT ![a] = t]
  PROVE  /\ at2 \in Seq(TagStates) /\ Len(at2) = Len(at) /\ at2[a] = t
         /\ \A b \in 1..Len(at) : b # a => at2[b] = at[b]
         /\ \A b \in 1..Len(at) : at2[b].version = at[b].version
<1>1. PICK n \in Nat : n = Len(at) /\ DOMAIN at = 1..n
  OBVIOUS
<1>2. at2 \in [1..n -> TagStates]
  BY <1>1
<1>3. at2 \in Seq(TagStates) /\ Len(at2) = n
  BY <1>2, IsASeq, LenProperties
<1>4. at2[a] = t /\ \A b \in 1..n : b # a => at2[b] = at[b]
  BY <1>1
<1>5. \A b \in 1..n : at2[b].version = at[b].version
  BY <1>1, <1>4
<1> QED BY <1>1, <1>3, <1>4, <1>5

\* A permit is consumed.
LEMMA DispatchFrames ==
  ASSUME FrameInv, NEW next, NEW frames, Dispatch(next, frames),
         next = Running \/ next = [m |-> "host", a |-> ctl.a],
         WellBuilt(frames, Views), Owned(frames) = Owned(stack), Tags(frames) = Tags(stack),
         Bottom(stack) => Bottom(frames),
         next.m = "host" => frames = stack
  PROVE  FrameInv' /\ Tags(stack') \subseteq Tags(stack)
<1>1. /\ ctl.m = "dispatch" /\ attempts' = [attempts EXCEPT ![ctl.a].dispatched = TRUE]
      /\ UNCHANGED <<cursor, scopes, exits, saved>>
  BY DEF Dispatch, KeepScopes, KeepRun
<1>2. PICK at, a : at = attempts /\ a = ctl.a
  OBVIOUS
<1>3. at \in Seq(TagStates) /\ a \in 1..Len(at)
  BY <1>1, <1>2 DEF FrameInv, Whole, AtAction, Views
<1>4. PICK t : t = [at[a] EXCEPT !.dispatched = TRUE]
  OBVIOUS
<1>5. t \in TagStates /\ t.version = at[a].version
  <2>1. PICK r : r = at[a] /\ r \in TagStates
    BY <1>3
  <2> QED BY <1>4, <2>1 DEF TagStates
<1>6. PICK at2 : at2 = attempts'
  OBVIOUS
<1>7. at2 = [at EXCEPT ![a] = t]
  BY <1>1, <1>2, <1>3, <1>4, <1>6
<1>8. /\ at2 \in Seq(TagStates) /\ Len(at2) = Len(at) /\ Viewers(at2) = Viewers(at)
      /\ \A b \in 1..Len(at) : at2[b].version = at[b].version
  <2>1. /\ at2 \in Seq(TagStates) /\ Len(at2) = Len(at)
        /\ \A b \in 1..Len(at) : at2[b].version = at[b].version
    BY <1>3, <1>5, <1>7, Retagged
  <2>2. Viewers(at2) = Viewers(at)
    BY <1>3, <2>1 DEF Viewers
  <2> QED BY <2>1, <2>2
<1>9. \A st : Whole(st, scopes, attempts, exits) => Whole(st, scopes', attempts', exits')
  BY <1>1, <1>2, <1>6, <1>8 DEF Whole, Views
<1>10. \/ ctl' = next /\ stack' = frames
       \/ ctl' = Ending("Failed", "permit") /\ stack' = stack
  BY DEF Dispatch
<1>11. CASE ctl' = Ending("Failed", "permit") /\ stack' = stack
  <2>1. ctl'.m = "ending"
    BY <1>11, EndingState
  <2>2. Whole(stack', scopes', attempts', exits')
    BY <1>9, <1>11 DEF FrameInv
  <2> QED BY <1>1, <1>11, <2>1, <2>2 DEF FrameInv, AtAction, Alive, Saved
<1>12. CASE ctl' = next /\ stack' = frames
  <2>1. Whole(frames, scopes, attempts, exits)
    BY DEF FrameInv, Whole, Views
  <2>2. Whole(stack', scopes', attempts', exits')
    BY <1>9, <1>12, <2>1
  <2>3. Kept(stack', scopes', attempts')
    <3>1. Viewers(attempts') = Viewers(attempts)
      BY <1>2, <1>6, <1>8
    <3> QED BY <1>1, <1>12, <3>1 DEF FrameInv, Kept, Alive
  <2>4. next.m \in {"run", "host"} /\ (next.m = "host" => next.a = ctl.a)
    BY DEF Running
  <2>5. AtAction'
    BY <1>1, <1>2, <1>6, <1>8, <1>12, <2>4 DEF FrameInv, AtAction
  <2> QED BY <1>1, <1>12, <2>2, <2>3, <2>4, <2>5 DEF FrameInv, Saved
<1> QED BY <1>10, <1>11, <1>12

\* An attempt goes to the Host: no frame changes.
LEMMA DispatchHostFrames == ASSUME FrameInv, DispatchHost PROVE FrameInv' /\ Tags(stack') \subseteq Tags(stack)
<1>1. PICK next : next = [m |-> "host", a |-> ctl.a]
  OBVIOUS
<1>2. Dispatch(next, stack)
  BY <1>1 DEF DispatchHost
<1>3. WellBuilt(stack, Views)
  BY DEF FrameInv, Whole, Views
<1> QED BY <1>1, <1>2, <1>3, DispatchFrames

\* An attempt goes to an arm, which captures the frames above its handle.
LEMMA DispatchArmFrames == ASSUME FrameInv, DispatchArm PROVE FrameInv' /\ Tags(stack') \subseteq Tags(stack)
<1>1. PICK i \in Positions("handle") : Dispatch(Running, <<ArmFrame(Above(i)), stack[i]>> \o Below(i))
  BY DEF DispatchArm
<1>2. ctl.m = "dispatch"
  BY <1>1 DEF Dispatch
<1>3. WellBuilt(stack, Views) /\ stack # <<>> /\ stack[1].k = "outcome"
  BY <1>2 DEF FrameInv, Whole, AtAction, Views
<1>4. PICK W : Closed(W, Views) /\ stack \in Seq(W) /\ Apart(stack, Views) /\ Linked(stack)
  BY <1>3 DEF WellBuilt
<1>5. i \in 1..Len(stack) /\ stack[i].k = "handle" /\ i # 1
  BY <1>1, <1>3, <1>4 DEF Positions
<1>6. PICK u, l : u = Above(i) /\ l = Below(i)
  OBVIOUS
<1>7. PICK one : one = <<stack[i]>>
  OBVIOUS
<1>8. PICK f : f = ArmFrame(u)
  OBVIOUS
<1>9. /\ u \in Seq(W) /\ one \in Seq(W) /\ l \in Seq(W) /\ stack = u \o (one \o l) /\ Len(u) = i - 1
      /\ \A j \in 1..(i - 1) : u[j] = stack[j]
  <2>1. /\ Above(i) \in Seq(W) /\ <<stack[i]>> \in Seq(W) /\ Below(i) \in Seq(W)
        /\ stack = Above(i) \o (<<stack[i]>> \o Below(i))
        /\ Len(Above(i)) = i - 1
        /\ \A j \in 1..(i - 1) : Above(i)[j] = stack[j]
    BY <1>4, <1>5, Parts
  <2> QED BY <1>6, <1>7, <2>1, Zenon
<1>10. i - 1 # 0 /\ 1 \in 1..(i - 1)
  BY <1>4, <1>5
<1>11. u # <<>> /\ u[1].k = "outcome"
  BY <1>3, <1>9, <1>10
<1>12. PICK c : c = one \o l
  OBVIOUS
<1>13. c \in Seq(W) /\ c # <<>> /\ c[1].k = "handle"
  <2>1. Len(one) = 1 /\ one[1] = stack[i]
    BY <1>7
  <2> QED BY <1>5, <1>9, <1>12, <2>1
<1>14. stack = u \o c
  BY <1>9, <1>12
<1>15. Apart(u \o c, Views) /\ Linked(u \o c)
  BY <1>4, <1>14, Zenon
<1>16. /\ WellBuilt(<<f>> \o c, Views)
       /\ Owned(<<f>> \o c) = Owned(u \o c) /\ Tags(<<f>> \o c) = Tags(u \o c)
       /\ Bottom(u \o c) => Bottom(<<f>> \o c)
  BY <1>4, <1>8, <1>9, <1>11, <1>13, <1>15, Captured
<1>17. PICK g : g = <<f>> \o c
  OBVIOUS
<1>18. /\ WellBuilt(g, Views) /\ Owned(g) = Owned(stack) /\ Tags(g) = Tags(stack)
       /\ Bottom(stack) => Bottom(g)
  BY <1>14, <1>16, <1>17, Zenon
<1>19. g = <<f, stack[i]>> \o l
  <2>1. PICK y : y = stack[i] /\ y \in W
    BY <1>4, <1>5
  <2>2. PICK V : V = W \cup {f}
    OBVIOUS
  <2>3. f \in V /\ y \in V /\ l \in Seq(V)
    <3>1. l \in Seq(W) /\ W \subseteq V
      BY <1>9, <2>2
    <3>2. l \in Seq(V)
      BY <3>1
    <3> QED BY <2>1, <2>2, <3>2
  <2>4. <<f>> \o (<<y>> \o l) = <<f, y>> \o l
    BY <2>3, PairConcat
  <2> QED BY <1>7, <1>12, <1>17, <2>1, <2>4
<1>20. Dispatch(Running, g)
  BY <1>1, <1>6, <1>8, <1>19
<1>21. Running.m # "host"
  BY DEF Running
<1>22. PICK next : next = Running
  OBVIOUS
<1> QED BY <1>18, <1>20, <1>21, <1>22, DispatchFrames

\* A value reaches the correlation of an attempt.
LEMMA CompleteFrames ==
  ASSUME FrameInv, Alive, NEW a \in 1..Len(attempts), NEW tag \in TagStates, tag.version = attempts[a].version,
         NEW v, NEW real, NEW frames, Complete(a, tag, v, real, frames),
         WellBuilt(frames, Views), Owned(frames) = Owned(stack), Tags(frames) \subseteq Tags(stack) \ {a},
         Bottom(stack) => Bottom(frames)
  PROVE  FrameInv' /\ (ctl'.m = "run" => Tags(stack') \subseteq Tags(stack) \ {a})
<1>1. /\ cursor' = cursor + 1 /\ attempts' = [attempts EXCEPT ![a] = [tag EXCEPT !.completed = TRUE]]
      /\ UNCHANGED <<exits, saved>>
  BY DEF Complete, KeepRun
<1>2. PICK at : at = attempts
  OBVIOUS
<1>3. at \in Seq(TagStates) /\ a \in 1..Len(at)
  BY <1>2 DEF FrameInv, Whole, Views
<1>4. PICK t : t = [tag EXCEPT !.completed = TRUE]
  OBVIOUS
<1>5. t \in TagStates /\ t.version = at[a].version
  BY <1>2, <1>4 DEF TagStates
<1>6. PICK at2 : at2 = attempts'
  OBVIOUS
<1>7. at2 = [at EXCEPT ![a] = t]
  BY <1>1, <1>2, <1>4, <1>6
<1>8. /\ at2 \in Seq(TagStates) /\ Len(at2) = Len(at) /\ Viewers(at2) = Viewers(at)
      /\ \A b \in 1..Len(at) : at2[b].version = at[b].version
  <2>1. /\ at2 \in Seq(TagStates) /\ Len(at2) = Len(at)
        /\ \A b \in 1..Len(at) : at2[b].version = at[b].version
    BY <1>3, <1>5, <1>7, Retagged
  <2>2. Viewers(at2) = Viewers(at)
    BY <1>3, <2>1 DEF Viewers
  <2> QED BY <2>1, <2>2
<1>9. PICK n \in Nat : n = Len(scopes) /\ DOMAIN scopes = 1..n
  BY DEF FrameInv, Whole, Counted, Views
<1>10. ASSUME NEW st, WellBuilt(st, Views), Owned(st) = Owned(stack), Tags(st) \subseteq Tags(stack),
              Counted(scopes', exits), Len(scopes') = n
       PROVE  Whole(st, scopes', attempts', exits')
  BY <1>1, <1>2, <1>6, <1>8, <1>9, <1>10 DEF FrameInv, Whole, Views
<1>11. cursor' \in Nat /\ cursor + 1 \in Nat
  BY <1>1 DEF FrameInv
<1>12. \/ ctl' = Ending("Failed", "monitor") /\ UNCHANGED <<scopes, stack>>
       \/ \E open : /\ scopes' = [s \in DOMAIN scopes |-> IF s \in open THEN Settled(s, a, tag, v) ELSE scopes[s]]
                    /\ ctl' = Running /\ stack' = frames
  BY DEF Complete
<1>13. CASE ctl' = Ending("Failed", "monitor") /\ UNCHANGED <<scopes, stack>>
  <2>1. ctl'.m = "ending"
    BY <1>13, EndingState
  <2>2. WellBuilt(stack, Views) /\ Counted(scopes', exits) /\ Len(scopes') = n
    BY <1>9, <1>13 DEF FrameInv, Whole, Views
  <2>3. Whole(stack', scopes', attempts', exits')
    BY <1>10, <1>13, <2>2
  <2> QED BY <1>1, <1>11, <2>1, <2>3 DEF FrameInv, AtAction, Alive, Saved
<1>14. ASSUME NEW open,
              scopes' = [s \in DOMAIN scopes |-> IF s \in open THEN Settled(s, a, tag, v) ELSE scopes[s]],
              ctl' = Running, stack' = frames
       PROVE  FrameInv' /\ Tags(stack') \subseteq Tags(stack) \ {a}
  <2>2. ASSUME NEW s \in 1..n PROVE scopes'[s] \in ScopeStates /\ scopes'[s].exit = scopes[s].exit
    <3>0. scopes[s] \in ScopeStates
      BY <1>9 DEF FrameInv, Whole, Counted, Views
    <3>1. CASE s \notin open
      BY <1>9, <1>14, <3>0, <3>1
    <3>2. CASE s \in open
      <4>1. PICK r : r = scopes[s] /\ r \in ScopeStates
        BY <3>0
      <4>2. PICK c \in Nat : c = cursor + 1
        BY <1>11
      <4>3. PICK x : x = tag.action /\ x \in Actions
        BY DEF TagStates
      <4>4. PICK e : e = IF OutcomeStatus(tag, v) = "Accepted" THEN [at |-> c, current |-> TRUE] ELSE r.accepted[x]
        OBVIOUS
      <4>5. PICK acc : acc = [r.accepted EXCEPT ![x] = e]
        OBVIOUS
      <4>6. PICK w : w = r.version + 1
        OBVIOUS
      <4>7. PICK p : p = r.pending \ {a}
        OBVIOUS
      <4>8. r.accepted \in [Actions -> [at : Nat, current : BOOLEAN]] /\ w \in Nat /\ p \in SUBSET Nat
        BY <4>1, <4>6, <4>7 DEF ScopeStates
      <4>9. e \in [at : Nat, current : BOOLEAN]
        BY <4>3, <4>4, <4>8
      <4>10. acc \in [Actions -> [at : Nat, current : BOOLEAN]]
        BY <4>5, <4>8, <4>9
      <4>11. scopes'[s] = [r EXCEPT !.version = w, !.last = c, !.pending = p, !.accepted = acc]
        BY <1>9, <1>14, <3>2, <4>1, <4>2, <4>3, <4>4, <4>5, <4>6, <4>7 DEF Settled
      <4>12. PICK q : q = scopes'[s]
        OBVIOUS
      <4>13. q = [r EXCEPT !.version = w, !.last = c, !.pending = p, !.accepted = acc]
        BY <4>11, <4>12
      <4>14. q \in ScopeStates /\ q.exit = r.exit
        BY <4>1, <4>2, <4>8, <4>10, <4>13 DEF ScopeStates
      <4> QED BY <4>1, <4>12, <4>14
    <3> QED BY <3>1, <3>2
  <2>3. /\ Counted(scopes', exits) /\ Len(scopes') = n /\ Kept(stack, scopes', attempts)
    <3>1. Counted(scopes, exits) /\ Kept(stack, scopes, attempts)
      BY DEF FrameInv, Whole, Views
    <3>2. scopes' = [s \in DOMAIN scopes |-> scopes'[s]]
      BY <1>14
    <3> QED BY <1>9, <2>2, <3>1, <3>2, SameExits
  <2>4. Whole(stack', scopes', attempts', exits')
    BY <1>10, <1>14, <2>3
  <2>5. Kept(stack', scopes', attempts')
    <3>1. Viewers(attempts') = Viewers(attempts)
      BY <1>2, <1>6, <1>8
    <3> QED BY <1>14, <2>3, <3>1 DEF Kept
  <2>6. ctl'.m = "run"
    BY <1>14 DEF Running
  <2> QED BY <1>1, <1>11, <1>14, <2>4, <2>5, <2>6 DEF FrameInv, AtAction, Saved
<1>15. CASE ctl' = Running
  BY <1>12, <1>14, <1>15 DEF Running, Ending
<1> QED BY <1>12, <1>13, <1>15, EndingState

\* The Host's answer takes the outcome frame of its attempt away.
LEMMA HostAnswersFrames == ASSUME FrameInv, NEW v \in BOOLEAN, HostAnswers(v)
  PROVE  FrameInv' /\ (ctl'.m = "run" => Tags(stack') \subseteq Tags(stack) \ {ctl.a})
<1>1. PICK tag : tag = attempts[ctl.a]
  OBVIOUS
<1>2. PICK decided : decided = IF tag.action = Approval
                               THEN [tag EXCEPT !.trusted = IF v THEN "yes" ELSE "no"] ELSE tag
  OBVIOUS
<1>3. ctl.m = "host" /\ Complete(ctl.a, decided, v, v, Tail(stack))
  BY <1>1, <1>2 DEF HostAnswers
<1>4. /\ ctl.a \in 1..Len(attempts) /\ stack # <<>> /\ stack[1].k = "outcome" /\ Alive /\ WellBuilt(stack, Views)
  BY <1>3 DEF FrameInv, Whole, AtAction, Alive, Views
<1>5. tag \in TagStates
  BY <1>1, <1>4 DEF FrameInv, Whole, Views
<1>6. decided \in TagStates /\ decided.version = tag.version
  BY <1>2, <1>5 DEF TagStates
<1>7. PICK W : Closed(W, Views) /\ stack \in Seq(W) /\ Apart(stack, Views) /\ Linked(stack)
  BY <1>4 DEF WellBuilt
<1>8. PICK st : st = stack
  OBVIOUS
<1>9. /\ WellBuilt(Tail(st), Views) /\ Shape(st[1], Views)
      /\ Owned(st) = st[1].owns \cup Owned(Tail(st)) /\ Tags(st) = st[1].tags \cup Tags(Tail(st))
      /\ st[1].tags \cap Tags(Tail(st)) = {}
      /\ Bottom(st) => Bottom(Tail(st))
  BY <1>4, <1>7, <1>8, HeadSections
<1>10. st[1].owns = {} /\ st[1].tags = {ctl.a}
  BY <1>3, <1>4, <1>8, <1>9 DEF Shape, FrameInv, AtAction
<1>11. PICK g : g = Tail(st)
  OBVIOUS
<1>12. /\ WellBuilt(g, Views) /\ Owned(g) = Owned(st) /\ Tags(g) \subseteq Tags(st) \ {ctl.a}
       /\ Bottom(st) => Bottom(g)
  BY <1>9, <1>10, <1>11
<1>13. /\ WellBuilt(g, Views) /\ Owned(g) = Owned(stack) /\ Tags(g) \subseteq Tags(stack) \ {ctl.a}
       /\ Bottom(stack) => Bottom(g)
  BY <1>8, <1>12, Zenon
<1>14. PICK a : a = ctl.a
  OBVIOUS
<1>15. Complete(a, decided, v, v, g)
  BY <1>3, <1>8, <1>11, <1>14, Zenon
<1> QED BY <1>1, <1>4, <1>6, <1>13, <1>14, <1>15, CompleteFrames

\* A resumption puts the captured frames back, without the outcome frame.
LEMMA ResumeFrames == ASSUME FrameInv, NEW v \in BOOLEAN, Resume(v)
  PROVE  /\ FrameInv' /\ stack[1].saved[1].id \in Tags(stack)
         /\ ctl'.m = "run" => Tags(stack') \subseteq Tags(stack) \ {stack[1].saved[1].id}
<1>1. PICK st, back : st = stack /\ back = stack[1].saved
  OBVIOUS
<1>2. PICK a, tag : a = back[1].id /\ tag = attempts[a]
  OBVIOUS
<1>3. /\ ctl = Running /\ st # <<>> /\ st[1].k = "arm"
      /\ Complete(a, tag, v, tag.action # Approval, Tail(back) \o Tail(st))
  BY <1>1, <1>2 DEF Resume
<1>4. Alive /\ WellBuilt(st, Views) /\ Bottom(st) /\ Tags(st) \subseteq 1..Len(attempts)
  BY <1>1, <1>3 DEF FrameInv, Whole, Kept, Alive, Running, Views
<1>5. PICK W : Closed(W, Views) /\ st \in Seq(W) /\ Apart(st, Views) /\ Linked(st)
  BY <1>4 DEF WellBuilt
<1>6. /\ st[1] \in W /\ Tail(st) \in Seq(W) /\ WellBuilt(Tail(st), Views) /\ Shape(st[1], Views)
      /\ Owned(st) = st[1].owns \cup Owned(Tail(st)) /\ Tags(st) = st[1].tags \cup Tags(Tail(st))
      /\ st[1].owns \cap Owned(Tail(st)) = {} /\ st[1].tags \cap Tags(Tail(st)) = {}
      /\ \A b \in Tags(Tail(st)) : Views[b] \cap st[1].owns = {}
      /\ Bottom(st) => Bottom(Tail(st))
      /\ Tail(st) # <<>> /\ st[1].k = "arm" => Tail(st)[1].k = "handle"
  BY <1>3, <1>5, HeadSections
<1>7. PICK l, p : l = Tail(st) /\ p = Tail(back)
  OBVIOUS
<1>8. l # <<>>
  <2>1. CASE Len(st) = 1
    BY <1>1, <1>3, <1>4, <2>1 DEF Bottom
  <2>2. CASE Len(st) # 1
    <3>1. Len(Tail(st)) = Len(st) - 1 /\ Len(st) \in Nat
      BY <1>3, <1>5, HeadTailProperties
    <3>2. Len(l) # 0
      BY <1>7, <2>2, <3>1
    <3> QED BY <3>2
  <2> QED BY <2>1, <2>2
<1>9. /\ back \in Seq(W) /\ back # <<>> /\ back[1].k = "outcome" /\ Apart(back, Views) /\ Linked(back)
      /\ st[1].owns = Owned(back) /\ st[1].tags = Tags(back)
  BY <1>1, <1>3, <1>5, <1>6 DEF Shape, Closed
<1>10. /\ back[1] \in W /\ Tail(back) \in Seq(W) /\ WellBuilt(Tail(back), Views) /\ Shape(back[1], Views)
       /\ Owned(back) = back[1].owns \cup Owned(Tail(back)) /\ Tags(back) = back[1].tags \cup Tags(Tail(back))
       /\ back[1].tags \cap Tags(Tail(back)) = {}
  BY <1>5, <1>9, HeadSections
<1>11. back[1].owns = {} /\ back[1].tags = {a}
  BY <1>2, <1>9, <1>10 DEF Shape
<1>12. a \in 1..Len(attempts)
  BY <1>4, <1>6, <1>9, <1>10, <1>11
<1>13. tag \in TagStates /\ tag.version = attempts[a].version
  BY <1>2, <1>12 DEF FrameInv, Whole, Views
<1>14. /\ p \in Seq(W) /\ l \in Seq(W) /\ Apart(p, Views) /\ Linked(p) /\ Apart(l, Views) /\ Linked(l)
       /\ Owned(st) = Owned(p) \cup Owned(l) /\ Tags(st) = {a} \cup Tags(p) \cup Tags(l)
       /\ Owned(p) \cap Owned(l) = {} /\ Tags(p) \cap Tags(l) = {}
       /\ a \notin Tags(p) \cup Tags(l) /\ \A b \in Tags(l) : Views[b] \cap Owned(p) = {}
       /\ l[1].k = "handle"
  BY <1>3, <1>6, <1>7, <1>8, <1>9, <1>10, <1>11 DEF WellBuilt
<1>15. Bottom(l)
  BY <1>4, <1>6, <1>7
<1>16. Fits(p, l, Views)
  BY <1>14 DEF Fits
<1>17. PICK g : g = p \o l
  OBVIOUS
<1>18. /\ p \o l \in Seq(W) /\ Owned(p \o l) = Owned(p) \cup Owned(l) /\ Tags(p \o l) = Tags(p) \cup Tags(l)
       /\ Apart(p \o l, Views) /\ Linked(p \o l) /\ Bottom(p \o l)
  BY <1>8, <1>14, <1>15, <1>16, ConcatFrames, ConcatBuilt, ConcatBottom
<1>19. WellBuilt(g, Views) /\ Owned(g) = Owned(st) /\ Tags(g) \subseteq Tags(st) \ {a} /\ Bottom(g)
  BY <1>5, <1>14, <1>17, <1>18 DEF WellBuilt
<1>20. WellBuilt(g, Views) /\ Owned(g) = Owned(stack) /\ Tags(g) \subseteq Tags(stack) \ {a} /\ Bottom(g)
  BY <1>1, <1>19, Zenon
<1>21. PICK real : real = (tag.action # Approval)
  OBVIOUS
<1>22. Complete(a, tag, v, real, g)
  BY <1>3, <1>7, <1>17, <1>21, Zenon
<1>23. a \in Tags(stack)
  BY <1>1, <1>14
<1>24. FrameInv' /\ (ctl'.m = "run" => Tags(stack') \subseteq Tags(stack) \ {a})
  BY <1>4, <1>12, <1>13, <1>20, <1>22, CompleteFrames
<1> QED BY <1>1, <1>2, <1>23, <1>24, Zenon

-----------------------------------------------------------------------------
\* Scopes exit and so does what owned them.
LEMMA SettleFrames ==
  ASSUME FrameInv, Alive, NEW list \in Seq(Exits), SettleScopes(list), UNCHANGED <<attempts, cursor, saved>>,
         WellBuilt(stack', Views), Owned(stack') = Owned(stack) \ Ended(list), Tags(stack') \subseteq Tags(stack),
         \A a \in Tags(stack') : Views[a] \cap Ended(list) = {},
         Bottom(stack'), ctl'.m \in {"run", "ending"}
  PROVE  FrameInv'
<1>1. Counted(scopes, exits)
  BY DEF FrameInv, Whole, Views
<1>2. /\ Counted(scopes', exits') /\ Len(scopes') = Len(scopes)
      /\ \A s \in 1..Len(scopes) : IF s \in Ended(list) THEN HasExited(s) ELSE scopes'[s] = scopes[s]
  BY <1>1, Settles
<1>3. \A s \in 1..Len(scopes) : HasExited(s) => scopes'[s].exit # "none"
  <2> SUFFICES ASSUME NEW s \in 1..Len(scopes), NEW kind \in ExitKinds, scopes'[s] = [scopes[s] EXCEPT !.exit = kind]
               PROVE  scopes'[s].exit # "none"
    BY DEF HasExited
  <2>1. scopes[s] \in ScopeStates
    BY <1>1 DEF Counted
  <2>2. scopes'[s].exit = kind
    BY <2>1 DEF ScopeStates
  <2> QED BY <2>2 DEF ExitKinds
<1>4. {s \in 1..Len(scopes') : scopes'[s].exit = "none"} = {s \in 1..Len(scopes) : scopes[s].exit = "none"} \ Ended(list)
  BY <1>2, <1>3
<1>5. Kept(stack', scopes', attempts')
  <2>1. \A a \in Tags(stack') : Views[a] \subseteq Owned(stack) \ Ended(list)
    BY DEF FrameInv, Kept, Views
  <2> QED BY <1>4, <2>1 DEF FrameInv, Kept, Views
<1>6. Whole(stack', scopes', attempts', exits')
  BY <1>2 DEF FrameInv, Whole, Views
<1> QED BY <1>5, <1>6 DEF FrameInv, AtAction, Saved

\* An arm gives up what it captured.
LEMMA FinishArmFrames == ASSUME FrameInv, FinishArm PROVE FrameInv' /\ Tags(stack') \subseteq Tags(stack)
<1>1. /\ ctl = Running /\ ctl' = ctl /\ stack # <<>> /\ stack[1].k = "arm" /\ stack' = SubSeq(stack, 3, Len(stack))
      /\ SettleScopes(Abandon(stack[1].owns)) /\ UNCHANGED <<attempts, cursor, saved>>
  BY DEF FinishArm, KeepRun
<1>2. ctl.m = "run" /\ Alive
  BY <1>1 DEF Running, Alive
<1>3. /\ WellBuilt(stack, Views) /\ Bottom(stack) /\ Counted(scopes, exits) /\ scopes \in Seq(ScopeStates)
      /\ Owned(stack) = Active
  BY <1>2, ActiveScopes DEF FrameInv, Whole, Kept, Counted, Views
<1>4. PICK W : Closed(W, Views) /\ stack \in Seq(W) /\ Apart(stack, Views) /\ Linked(stack)
  BY <1>3 DEF WellBuilt
<1>5. PICK n \in Nat : n = Len(stack) /\ n # 0 /\ DOMAIN stack = 1..n
  BY <1>1, <1>4
<1>6. n # 1
  BY <1>1, <1>3, <1>5 DEF Bottom
<1>7. 1 \in 1..n /\ 2 \in 1..n /\ 1 + 1 = 2 /\ 2 + 1 = 3 /\ 2 - 1 = 1 /\ 1 \in 1..(2 - 1)
  BY <1>5, <1>6
<1>8. stack[2].k = "handle"
  BY <1>1, <1>4, <1>5, <1>7 DEF Linked
<1>9. /\ Above(2) \in Seq(W) /\ Len(Above(2)) = 2 - 1 /\ \A j \in 1..(2 - 1) : Above(2)[j] = stack[j]
  BY <1>4, <1>5, <1>7, Parts
<1>10. Sections(stack, Above(2), stack[2], Below(2), Views)
  BY <1>3, <1>5, <1>7, StackSections
<1>11. Below(2) = stack'
  BY <1>1, <1>7 DEF Below
<1>12. Owned(Above(2)) = stack[1].owns
  <2>1. PICK u : u = Above(2)
    OBVIOUS
  <2>2. DOMAIN u = {1} /\ u[1] = stack[1]
    BY <1>7, <1>9, <2>1
  <2>3. Owned(u) = stack[1].owns
    BY <2>2 DEF Owned
  <2> QED BY <2>1, <2>3
<1>13. stack[2].owns = {} /\ stack[2].tags = {}
  BY <1>8, <1>10 DEF Sections, Shape
<1>14. /\ WellBuilt(Below(2), Views) /\ Owned(stack) = stack[1].owns \cup Owned(Below(2)) /\ Tags(Below(2)) \subseteq Tags(stack)
       /\ stack[1].owns \cap Owned(Below(2)) = {} /\ Bottom(Below(2))
       /\ \A a \in Tags(Below(2)) : Views[a] \cap stack[1].owns = {}
  BY <1>3, <1>10, <1>12, <1>13 DEF Sections
<1>15. PICK own : own = stack[1].owns
  OBVIOUS
<1>16. PICK list : list = Abandon(own)
  OBVIOUS
<1>17. list \in Seq(Exits) /\ Ended(list) = own \cap Active
  BY <1>3, <1>16, AbandonExits
<1>18. /\ WellBuilt(stack', Views) /\ Owned(stack') = Owned(stack) \ Ended(list) /\ Tags(stack') \subseteq Tags(stack)
       /\ Bottom(stack') /\ \A a \in Tags(stack') : Views[a] \cap Ended(list) = {}
  BY <1>3, <1>11, <1>14, <1>15, <1>17
<1>19. SettleScopes(list)
  BY <1>1, <1>15, <1>16, Zenon
<1> QED BY <1>1, <1>2, <1>17, <1>18, <1>19, SettleFrames

\* What an error leaves behind: all scopes exit.
LEMMA UnwoundExits ==
  ASSUME NEW frames, WellBuilt(frames, Views), Owned(frames) \subseteq Active, scopes \in Seq(ScopeStates)
  PROVE  Unwound(frames) \in Seq(Exits) /\ Ended(Unwound(frames)) = Owned(frames)
<1>1. PICK W : Closed(W, Views) /\ frames \in Seq(W)
  BY DEF WellBuilt
<1>2. PICK S : S = {f \in Range(frames) : f.k = "scope"}
  OBVIOUS
<1>3. PICK left : left = Retain(frames, S)
  OBVIOUS
<1>4. left \in Seq(W \cap S) /\ Entries(left) = Entries(frames) \cap S
  BY <1>1, <1>3, RetainEntries
<1>5. PICK m \in Nat : m = Len(left) /\ DOMAIN left = 1..m
  BY <1>4
<1>6. PICK p : p = [i \in DOMAIN left |-> [scope |-> left[i].id, kind |-> "ErrorPropagation"]]
  OBVIOUS
<1>7. {left[i].id : i \in 1..m} = Mirror(frames)
  <2>1. Entries(frames) = Range(frames)
    BY <1>1 DEF Entries, Range
  <2>2. Entries(left) = S
    BY <1>2, <1>4, <2>1
  <2>3. \A i \in 1..m : left[i] \in S
    BY <1>5, <2>2 DEF Entries
  <2>4. \A i \in 1..m : left[i].id \in Mirror(frames)
    BY <1>2, <2>3 DEF Mirror, Range
  <2>5. \A i \in DOMAIN frames : frames[i].k = "scope" => \E j \in 1..m : left[j] = frames[i]
    BY <1>2, <1>5, <2>2 DEF Entries, Range
  <2>6. \A x \in Mirror(frames) : \E j \in 1..m : left[j].id = x
    BY <2>5 DEF Mirror
  <2> QED BY <2>4, <2>6
<1>8. Mirror(frames) \subseteq Owned(frames)
  BY MirrorOwned
<1>9. p \in [1..m -> Exits]
  <2>1. \A i \in 1..m : left[i].id \in Active
    BY <1>7, <1>8
  <2>2. "ErrorPropagation" \in ExitKinds
    BY DEF ExitKinds
  <2> QED BY <1>5, <1>6, <2>1, <2>2 DEF Exits
<1>10. p \in Seq(Exits)
  BY <1>9, IsASeq
<1>11. Ended(p) = Mirror(frames)
  <2>1. DOMAIN p = 1..m /\ \A i \in 1..m : p[i].scope = left[i].id
    BY <1>5, <1>6
  <2>2. Ended(p) = {left[i].id : i \in 1..m}
    BY <2>1 DEF Ended
  <2> QED BY <1>7, <2>2
<1>12. PICK q : q = Abandon(CapturedIn(frames))
  OBVIOUS
<1>13. q \in Seq(Exits) /\ Ended(q) = CapturedIn(frames) \cap Active
  BY <1>12, AbandonExits
<1>14. Unwound(frames) = p \o q
  BY <1>2, <1>3, <1>6, <1>12 DEF Unwound
<1>15. p \o q \in Seq(Exits) /\ Ended(p \o q) = Ended(p) \cup Ended(q)
  BY <1>10, <1>13, ConcatExits
<1>16. Mirror(frames) \cup (CapturedIn(frames) \cap Active) = Owned(frames)
  BY <1>8 DEF CapturedIn
<1> QED BY <1>11, <1>13, <1>14, <1>15, <1>16, Zenon

\* The topmost frame of a kind.
LEMMA Topmost ==
  ASSUME WellBuilt(stack, Views), NEW k, Positions(k) # {}
  PROVE  /\ Min(Positions(k)) \in 1..Len(stack) /\ stack[Min(Positions(k))].k = k
         /\ \A j \in 1..(Min(Positions(k)) - 1) : stack[j].k # k
<1>1. PICK n \in Nat : n = Len(stack) /\ DOMAIN stack = 1..n
  BY DEF WellBuilt
<1>2. PICK P : P = Positions(k)
  OBVIOUS
<1>3. P = {i \in 1..n : stack[i].k = k}
  BY <1>1, <1>2 DEF Positions
<1>4. P \in SUBSET Nat /\ P # {}
  BY <1>2, <1>3
<1>5. \E x \in P : \A y \in P : x <= y
  BY <1>4, LeastNat
<1>6. PICK x : x = Min(P)
  OBVIOUS
<1>7. x \in P /\ \A y \in P : x <= y
  BY <1>5, <1>6 DEF Min
<1>8. ASSUME NEW j \in 1..(x - 1) PROVE stack[j].k # k
  <2>1. x \in 1..n /\ j \in 1..n /\ ~(x <= j)
    BY <1>1, <1>3, <1>7
  <2> QED BY <1>3, <1>7, <2>1
<1> QED BY <1>1, <1>2, <1>3, <1>6, <1>7, <1>8

\* A typed error.
LEMMA UnwindFrames == ASSUME FrameInv, Alive, Unwind PROVE FrameInv' /\ Tags(stack') \subseteq Tags(stack)
<1>1. PICK tries, frames : /\ tries = Positions("try")
                           /\ frames = IF tries = {} THEN stack ELSE Above(Min(tries))
  OBVIOUS
<1>2. /\ SettleScopes(Unwound(frames))
      /\ stack' = IF tries = {} THEN <<>> ELSE Below(Min(tries))
      /\ ctl' = IF tries = {} THEN Ending("Failed", "unhandled") ELSE Running
      /\ UNCHANGED <<attempts, cursor, saved>>
  BY <1>1 DEF Unwind, KeepRun
<1>3. ctl'.m \in {"run", "ending"}
  BY <1>2 DEF Ending, Running
<1>4. /\ WellBuilt(stack, Views) /\ Bottom(stack) /\ Counted(scopes, exits) /\ scopes \in Seq(ScopeStates)
      /\ Owned(stack) = Active
  BY ActiveScopes DEF FrameInv, Whole, Kept, Counted, Views
<1>5. /\ WellBuilt(frames, Views) /\ Owned(frames) \subseteq Active
      /\ WellBuilt(stack', Views) /\ Owned(stack') = Owned(stack) \ Owned(frames)
      /\ Tags(stack') \subseteq Tags(stack) /\ Bottom(stack')
      /\ \A a \in Tags(stack') : Views[a] \cap Owned(frames) = {}
  <2>1. CASE tries = {}
    <3>1. frames = stack /\ stack' = <<>>
      BY <1>1, <1>2, <2>1
    <3>2. Owned(stack') = {} /\ Tags(stack') = {} /\ WellBuilt(stack', Views) /\ Bottom(stack')
      BY <3>1, EmptyStack, Zenon
    <3> QED BY <1>4, <3>1, <3>2
  <2>2. CASE tries # {}
    <3>1. PICK i : i = Min(tries)
      OBVIOUS
    <3>2. i \in 1..Len(stack) /\ stack[i].k = "try"
      BY <1>1, <1>4, <2>2, <3>1, Topmost
    <3>3. Sections(stack, Above(i), stack[i], Below(i), Views)
      BY <1>4, <3>2, StackSections
    <3>4. stack[i].owns = {} /\ stack[i].tags = {}
      BY <3>2, <3>3 DEF Sections, Shape
    <3>5. frames = Above(i) /\ stack' = Below(i)
      BY <1>1, <1>2, <2>2, <3>1
    <3> QED BY <1>4, <3>3, <3>4, <3>5 DEF Sections
  <2> QED BY <2>1, <2>2
<1>6. PICK list : list = Unwound(frames)
  OBVIOUS
<1>7. list \in Seq(Exits) /\ Ended(list) = Owned(frames)
  BY <1>4, <1>5, <1>6, UnwoundExits
<1>8. Owned(stack') = Owned(stack) \ Ended(list) /\ \A a \in Tags(stack') : Views[a] \cap Ended(list) = {}
  BY <1>5, <1>7
<1> QED BY <1>2, <1>3, <1>5, <1>6, <1>7, <1>8, SettleFrames

\* A step that ends the run and touches nothing else.
LEMMA EndsFrames ==
  ASSUME FrameInv, UNCHANGED <<stack, scopes, attempts, exits, cursor, saved>>, ctl'.m = "ending" PROVE FrameInv'
  BY DEF FrameInv, AtAction, Alive, Saved

\* A failure of the Host ends the run or unwinds.
LEMMA HostFailsFrames == ASSUME FrameInv, HostFails PROVE FrameInv' /\ Tags(stack') \subseteq Tags(stack)
<1>1. ctl.m = "host" /\ Alive
  BY DEF HostFails, Alive
<1>2. CASE attempts[ctl.a].action = Approval
  <2>1. UNCHANGED <<stack, scopes, attempts, exits, cursor, saved>> /\ ctl' = Ending("Failed", "host")
    BY <1>2 DEF HostFails, KeepScopes, KeepRun
  <2> QED BY <2>1, EndingState, EndsFrames
<1>3. CASE attempts[ctl.a].action # Approval
  <2>1. Unwind
    BY <1>3 DEF HostFails
  <2> QED BY <1>1, <2>1, UnwindFrames
<1> QED BY <1>2, <1>3

\* A cancellation changes no frame.
LEMMA CancelFrames == ASSUME FrameInv, Cancel PROVE FrameInv'
<1>1. UNCHANGED <<stack, scopes, attempts, exits, cursor, saved>> /\ ctl' = Ending("Cancelled", "none")
  BY DEF Cancel, KeepScopes, KeepRun
<1> QED BY <1>1, EndingState, EndsFrames

\* The innermost scope returns.
LEMMA ReturnFrames == ASSUME FrameInv, Return PROVE FrameInv' /\ Tags(stack') \subseteq Tags(stack)
<1>1. PICK i, s : i = Min(Positions("scope")) /\ s = stack[i].id
  OBVIOUS
<1>2. PICK p, q : /\ p = Abandon(CapturedIn(Above(i)))
                  /\ q = <<[scope |-> s, kind |-> "Return"]>>
  OBVIOUS
<1>3. /\ ctl = Running /\ Positions("scope") # {} /\ SettleScopes(p \o q) /\ stack' = Below(i)
      /\ UNCHANGED <<attempts, cursor, saved>>
  BY <1>1, <1>2 DEF Return, KeepRun
<1>4. ctl'.m \in {"run", "ending"} /\ Alive
  <2>1. ctl' = Running \/ ctl' = Ending("Failed", "incomplete")
    BY DEF Return
  <2> QED BY <1>3, <2>1 DEF Ending, Running, Alive
<1>5. /\ WellBuilt(stack, Views) /\ Bottom(stack) /\ Counted(scopes, exits) /\ scopes \in Seq(ScopeStates)
      /\ Owned(stack) = Active
  BY <1>4, ActiveScopes DEF FrameInv, Whole, Kept, Counted, Views
<1>6. i \in 1..Len(stack) /\ stack[i].k = "scope" /\ \A j \in 1..(i - 1) : stack[j].k # "scope"
  BY <1>1, <1>3, <1>5, Topmost
<1>7. Sections(stack, Above(i), stack[i], Below(i), Views)
  BY <1>5, <1>6, StackSections
<1>8. stack[i].owns = {s} /\ stack[i].tags = {}
  BY <1>1, <1>6, <1>7 DEF Sections, Shape
<1>9. Mirror(Above(i)) = {}
  <2>1. PICK W : Closed(W, Views) /\ stack \in Seq(W)
    BY <1>5 DEF WellBuilt
  <2>2. Above(i) \in Seq(W) /\ Len(Above(i)) = i - 1 /\ \A j \in 1..(i - 1) : Above(i)[j] = stack[j]
    BY <1>6, <2>1, Parts
  <2>3. PICK u : u = Above(i)
    OBVIOUS
  <2>4. DOMAIN u = 1..(i - 1) /\ \A j \in DOMAIN u : u[j].k # "scope"
    BY <1>6, <2>2, <2>3
  <2>5. Mirror(u) = {}
    BY <2>4 DEF Mirror
  <2> QED BY <2>3, <2>5
<1>10. PICK own : own = Owned(Above(i))
  OBVIOUS
<1>11. p = Abandon(own)
  BY <1>2, <1>9, <1>10 DEF CapturedIn
<1>12. p \in Seq(Exits) /\ Ended(p) = own \cap Active
  BY <1>5, <1>11, AbandonExits
<1>13. s \in Active
  BY <1>5, <1>7, <1>8 DEF Sections
<1>14. q \in Seq(Exits) /\ Ended(q) = {s}
  <2>1. PICK e : e = [scope |-> s, kind |-> "Return"]
    OBVIOUS
  <2>2. e \in Exits /\ e.scope = s
    BY <1>13, <2>1 DEF Exits, ExitKinds
  <2>3. q = <<e>>
    BY <1>2, <2>1
  <2>4. q \in Seq(Exits) /\ DOMAIN q = {1} /\ q[1] = e
    BY <2>2, <2>3
  <2> QED BY <2>2, <2>4 DEF Ended
<1>15. PICK list : list = p \o q
  OBVIOUS
<1>16. list \in Seq(Exits) /\ Ended(list) = Ended(p) \cup Ended(q)
  BY <1>12, <1>14, <1>15, ConcatExits
<1>17. /\ WellBuilt(Below(i), Views) /\ Owned(Below(i)) = Owned(stack) \ Ended(list)
       /\ Tags(Below(i)) \subseteq Tags(stack) /\ Bottom(Below(i))
       /\ \A a \in Tags(Below(i)) : Views[a] \cap Ended(list) = {}
  BY <1>5, <1>7, <1>8, <1>10, <1>12, <1>14, <1>16 DEF Sections
<1>18. /\ WellBuilt(stack', Views) /\ Owned(stack') = Owned(stack) \ Ended(list)
       /\ Tags(stack') \subseteq Tags(stack) /\ Bottom(stack')
       /\ \A a \in Tags(stack') : Views[a] \cap Ended(list) = {}
  BY <1>3, <1>17, Zenon
<1>19. SettleScopes(list)
  BY <1>3, <1>15, Zenon
<1> QED BY <1>3, <1>4, <1>16, <1>18, <1>19, SettleFrames

\* The entry returns.
LEMMA EndBodyFrames == ASSUME FrameInv, EndBody PROVE FrameInv' /\ Tags(stack') \subseteq Tags(stack)
<1>1. PICK own : own = Owned(stack)
  OBVIOUS
<1>2. PICK list : list = Abandon(own)
  OBVIOUS
<1>3. /\ ctl = Running /\ SettleScopes(list) /\ stack' = <<>> /\ ctl' = Ending("Completed", "none")
      /\ UNCHANGED <<attempts, cursor, saved>>
  BY <1>1, <1>2 DEF EndBody, KeepRun
<1>4. ctl'.m = "ending" /\ Alive
  BY <1>3 DEF Ending, Running, Alive
<1>5. scopes \in Seq(ScopeStates) /\ Owned(stack) = Active
  BY <1>4, ActiveScopes DEF FrameInv, Whole, Kept, Counted, Views
<1>6. list \in Seq(Exits) /\ Ended(list) = own \cap Active
  BY <1>2, <1>5, AbandonExits
<1>7. WellBuilt(stack', Views) /\ Bottom(stack') /\ Owned(stack') = {} /\ Tags(stack') = {}
  BY <1>3, EmptyStack, Zenon
<1>8. Owned(stack') = Owned(stack) \ Ended(list) /\ Tags(stack') \subseteq Tags(stack)
  BY <1>1, <1>5, <1>6, <1>7
<1> QED BY <1>3, <1>4, <1>6, <1>7, <1>8, SettleFrames

\* The run is over: every scope that is left exits.
LEMMA FinishFrames == ASSUME FrameInv, Finish PROVE FrameInv'
<1>1. ctl.m = "ending" /\ stack' = <<>> /\ UNCHANGED <<attempts, cursor, saved>>
  BY DEF Finish, KeepRun
<1>2. Counted(scopes, exits) /\ scopes \in Seq(ScopeStates)
  BY DEF FrameInv, Whole, Counted, Views
<1>3. PICK act : act = Active
  OBVIOUS
<1>4. \E list \in Seq(Exits) : SettleScopes(list) /\ Ended(list) = act /\ ctl'.m = "ended"
  <2>1. CASE role = "root"
    <3>1. PICK kind : kind = ExitKind(ctl.outcome)
      OBVIOUS
    <3>2. kind \in ExitKinds
      BY <3>1 DEF ExitKind, ExitKinds
    <3>3. PICK l : l = Listed(Active, kind)
      OBVIOUS
    <3>4. l \in Seq(Exits) /\ Ended(l) = Active
      BY <1>2, <3>2, <3>3, ListedExits
    <3>5. PICK list : list = Reverse(l)
      OBVIOUS
    <3>6. list \in Seq(Exits) /\ Ended(list) = Active
      BY <3>4, <3>5, ReverseExits
    <3>7. list = FinishActive(ExitKind(ctl.outcome))
      BY <3>1, <3>3, <3>5 DEF FinishActive
    <3>8. SettleScopes(FinishActive(ExitKind(ctl.outcome))) /\ ctl'.m = "ended"
      BY <2>1 DEF Finish
    <3> QED BY <1>3, <3>6, <3>7, <3>8, Zenon
  <2>2. CASE role # "root"
    <3>1. PICK list : list = Abandon(act)
      OBVIOUS
    <3>2. list \in Seq(Exits) /\ Ended(list) = act
      BY <1>2, <1>3, <3>1, AbandonExits
    <3>3. SettleScopes(Abandon(Active)) /\ ctl'.m = "ended"
      BY <2>2 DEF Finish
    <3> QED BY <1>3, <3>1, <3>2, <3>3, Zenon
  <2> QED BY <2>1, <2>2
<1>5. PICK list \in Seq(Exits) : SettleScopes(list) /\ Ended(list) = act /\ ctl'.m = "ended"
  BY <1>4
<1>6. /\ Counted(scopes', exits') /\ Len(scopes') = Len(scopes)
      /\ \A s \in 1..Len(scopes) : IF s \in Ended(list) THEN HasExited(s) ELSE scopes'[s] = scopes[s]
  BY <1>2, <1>5, Settles
<1>7. \A s \in 1..Len(scopes) : scopes'[s].exit # "none"
  <2> SUFFICES ASSUME NEW s \in 1..Len(scopes) PROVE scopes'[s].exit # "none"
    OBVIOUS
  <2>0. scopes[s] \in ScopeStates
    BY <1>2
  <2>1. CASE s \in Ended(list)
    <3>1. PICK kind \in ExitKinds : scopes'[s] = [scopes[s] EXCEPT !.exit = kind]
      BY <1>6, <2>1 DEF HasExited
    <3>2. scopes'[s].exit = kind
      BY <2>0, <3>1 DEF ScopeStates
    <3> QED BY <3>2 DEF ExitKinds
  <2>2. CASE s \notin Ended(list)
    BY <1>2, <1>3, <1>5, <1>6, <2>2, ActiveScopes
  <2> QED BY <2>1, <2>2
<1>8. Active' = {}
  <2>1. DOMAIN scopes' = 1..Len(scopes)
    BY <1>6 DEF Counted
  <2> QED BY <1>7, <2>1 DEF Active
<1>9. WellBuilt(stack', Views) /\ Owned(stack') = {} /\ Tags(stack') = {}
  BY <1>1, EmptyStack, Zenon
<1>10. Whole(stack', scopes', attempts', exits')
  BY <1>1, <1>6, <1>9 DEF FrameInv, Whole, Views
<1> QED BY <1>1, <1>5, <1>8, <1>10 DEF FrameInv, AtAction, Alive, Saved

\* A checkpoint.
LEMMA CheckpointFrames == ASSUME FrameInv, Checkpoint PROVE FrameInv'
<1>1. /\ ctl = Running /\ UNCHANGED <<stack, scopes, attempts, exits, cursor>>
      /\ saved' = [Document EXCEPT !.fuel = fuel - 1]
  BY DEF Checkpoint, Spend, KeepScopes
<1>2. /\ saved'.stack = stack /\ saved'.scopes = scopes /\ saved'.attempts = attempts
      /\ saved'.exits = exits /\ saved'.cursor = cursor
  BY <1>1 DEF Document
<1>3. Alive /\ ctl.m = "run"
  BY <1>1 DEF Running, Alive
<1>4. Saved'
  BY <1>2, <1>3 DEF FrameInv, Saved
<1>5. ctl'.m \in {"run", "ending"}
  BY DEF Checkpoint, Running, Ending
<1> QED BY <1>1, <1>3, <1>4, <1>5 DEF FrameInv, AtAction, Alive

\* A new process resumes the last checkpoint.
LEMMA RestartFrames == ASSUME FrameInv, Restart PROVE FrameInv'
<1>1. /\ saved # NoCheckpoint /\ stack' = saved.stack /\ exits' = saved.exits /\ saved' = saved
      /\ scopes' = [s \in DOMAIN saved.scopes |-> RestoredScope(saved.scopes[s])]
      /\ attempts' = [a \in DOMAIN saved.attempts |-> RestoredAttempt(saved.attempts[a])]
      /\ cursor' = RestoredCursor(saved)
      /\ ctl' = IF DocumentAccepted(saved) THEN Running ELSE Ending("Failed", "checkpoint")
  BY DEF Restart
<1>2. ctl'.m \in {"run", "ending"}
  BY <1>1 DEF Running, Ending
<1>3. PICK st, sc, at, ex : st = saved.stack /\ sc = saved.scopes /\ at = saved.attempts /\ ex = saved.exits
  OBVIOUS
<1>4. Whole(st, sc, at, ex) /\ Kept(st, sc, at) /\ saved.cursor \in Nat
  BY <1>1, <1>3 DEF FrameInv, Saved
<1>5. cursor' \in Nat
  <2>1. PICK c \in Nat : c = saved.cursor
    BY <1>4
  <2>2. c \in {0, c} /\ \A y \in {0, c} : c >= y
    OBVIOUS
  <2>3. PICK x : x = Max({0, c})
    OBVIOUS
  <2>4. x \in {0, c}
    BY <2>2, <2>3 DEF Max
  <2> QED BY <1>1, <2>1, <2>3, <2>4 DEF RestoredCursor
<1>6. PICK n \in Nat : n = Len(sc) /\ DOMAIN sc = 1..n /\ \A s \in 1..n : sc[s] \in ScopeStates
  BY <1>4 DEF Whole, Counted, Views
<1>7. ASSUME NEW s \in 1..n PROVE scopes'[s] \in ScopeStates /\ scopes'[s].exit = sc[s].exit
  <2>1. PICK r : r = sc[s] /\ r \in ScopeStates
    BY <1>6
  <2>2. PICK acc : acc = [x \in Actions |-> [at |-> r.accepted[x].at, current |-> r.accepted[x].at # 0 /\ x # Approval]]
    OBVIOUS
  <2>3. acc \in [Actions -> [at : Nat, current : BOOLEAN]]
    <3>1. \A x \in Actions : r.accepted[x] \in [at : Nat, current : BOOLEAN]
      BY <2>1 DEF ScopeStates
    <3>2. \A x \in Actions : r.accepted[x].at \in Nat
      BY <3>1
    <3> QED BY <2>2, <3>2
  <2>4. PICK q : q = scopes'[s]
    OBVIOUS
  <2>5. q = [r EXCEPT !.accepted = acc]
    BY <1>1, <1>3, <1>6, <2>1, <2>2, <2>4 DEF RestoredScope
  <2>6. q \in ScopeStates /\ q.exit = r.exit
    BY <2>1, <2>3, <2>5 DEF ScopeStates
  <2> QED BY <2>1, <2>4, <2>6
<1>8. scopes' \in Seq(ScopeStates) /\ Len(scopes') = n
  <2>1. scopes' \in [1..n -> ScopeStates]
    BY <1>1, <1>3, <1>6, <1>7
  <2> QED BY <2>1, IsASeq, LenProperties
<1>9. Counted(scopes', exits')
  BY <1>1, <1>3, <1>4, <1>6, <1>7, <1>8 DEF Whole, Counted, Views
<1>10. PICK m \in Nat : m = Len(at) /\ DOMAIN at = 1..m /\ \A a \in 1..m : at[a] \in TagStates
  BY <1>4 DEF Whole, Views
<1>11. ASSUME NEW a \in 1..m PROVE attempts'[a] \in TagStates /\ attempts'[a].version = at[a].version
  <2>1. PICK r : r = at[a] /\ r \in TagStates
    BY <1>10
  <2>2. PICK q : q = attempts'[a]
    OBVIOUS
  <2>3. q = [r EXCEPT !.trusted = "unknown"]
    BY <1>1, <1>3, <1>10, <2>1, <2>2 DEF RestoredAttempt
  <2>4. q \in TagStates /\ q.version = r.version
    BY <2>1, <2>3 DEF TagStates
  <2> QED BY <2>1, <2>2, <2>4
<1>12. attempts' \in Seq(TagStates) /\ Len(attempts') = m
  <2>1. attempts' \in [1..m -> TagStates]
    BY <1>1, <1>3, <1>10, <1>11
  <2> QED BY <2>1, IsASeq, LenProperties
<1>15. Viewers(attempts') = Viewers(at)
  BY <1>10, <1>11, <1>12 DEF Viewers
<1>13. Whole(stack', scopes', attempts', exits')
  BY <1>1, <1>3, <1>4, <1>6, <1>8, <1>9, <1>10, <1>11, <1>12, <1>15 DEF Whole
<1>14. Kept(stack', scopes', attempts')
  <2>1. {s \in 1..Len(scopes') : scopes'[s].exit = "none"} = {s \in 1..Len(sc) : sc[s].exit = "none"}
    BY <1>6, <1>7, <1>8
  <2> QED BY <1>1, <1>3, <1>4, <1>15, <2>1 DEF Kept
<1> QED BY <1>1, <1>2, <1>5, <1>13, <1>14 DEF FrameInv, AtAction, Saved

\* Every step keeps the frames in order.
LEMMA NextFrames == FrameInv /\ [Next]_vars => FrameInv'
<1> SUFFICES ASSUME FrameInv, [Next]_vars PROVE FrameInv'
  OBVIOUS
<1>1. CASE UNCHANGED vars
  BY <1>1 DEF vars, FrameInv, AtAction, Alive, Saved, Active
<1>2. CASE Raise
  BY <1>2, UnwindFrames DEF Raise, Spend, Running, Alive
<1>3. CASE Next /\ ~Raise
  BY <1>3, ActivateFrames, EnterFrames, LeaveFrames, PerformFrames, DispatchArmFrames, DispatchHostFrames,
     HostAnswersFrames, ResumeFrames, HostFailsFrames, FinishArmFrames, ReturnFrames, EndBodyFrames,
     CancelFrames, FinishFrames, CheckpointFrames, RestartFrames
     DEF Next
<1> QED BY <1>1, <1>2, <1>3

\* What FrameInv says of exits.
LEMMA FramesSettle == FrameInv => SettledOnce
<1> SUFFICES ASSUME FrameInv PROVE SettledOnce
  OBVIOUS
<1>1. /\ Counted(scopes, exits) /\ DOMAIN exits = 1..Len(scopes)
      /\ ctl.m = "ended" => \A s \in 1..Len(scopes) : scopes[s].exit # "none"
  <2>1. Counted(scopes, exits) /\ (ctl.m = "ended" => Active = {})
    BY DEF FrameInv, Whole
  <2>2. DOMAIN exits = 1..Len(scopes)
    BY <2>1 DEF Counted
  <2>3. Active = {s \in 1..Len(scopes) : scopes[s].exit = "none"}
    BY <2>1, ActiveScopes
  <2> QED BY <2>1, <2>2, <2>3
<1>2. \A s \in 1..Len(scopes) : exits[s] <= 1 /\ (scopes[s].exit # "none" => exits[s] = 1)
  BY <1>1 DEF Counted
<1> QED BY <1>1, <1>2 DEF SettledOnce

\* Every scope of a run is recorded to have exited exactly once when the run is
\* over and never twice, whatever ended it and however its owners were captured,
\* resumed, dropped or restored (ResidualRunLog::record and Drop).
THEOREM ExitsSettledOnce == Spec => []SettledOnce
<1>1. Spec => []FrameInv
  BY InitFrames, NextFrames, PTL DEF Spec
<1> QED BY <1>1, FramesSettle, PTL

-----------------------------------------------------------------------------
(***************************************************************************)
(* Guards                                                                  *)
(*                                                                         *)
(* What a scope holds as evidence took place.  An approval is evidence     *)
(* only as long as it is current, and then it was given in this run.       *)
(***************************************************************************)
Witness(dn, s, x, run) ==
  \E e \in dn : e.scope = s /\ e.action = x /\ (x = Approval => e.run = run)

Proved(sc, dn, run) ==
  \A s \in 1..Len(sc) : \A x \in Actions :
    LET e == sc[s].accepted[x]
    IN e.at # 0 /\ (x = Approval => e.current) => Witness(dn, s, x, run)

\* Of a checkpoint: approvals in it are history.
ProvedBefore(sc, dn) ==
  \A s \in 1..Len(sc) : \A x \in Actions \ {Approval} :
    sc[s].accepted[x].at # 0 => \E e \in dn : e.scope = s /\ e.action = x

\* The target that is about to be dispatched has all its guards.
Guarded ==
  ctl.m = "dispatch" /\ attempts[ctl.a].action = Target =>
    \A s \in DOMAIN attempts[ctl.a].version : Witness(done, s, scopes[s].guard, restarts)

\* The Host has not decided an attempt that is still on the stack.
Undecided == Alive => \A a \in Tags(stack) : attempts[a].trusted = "unknown"

GuardInv ==
  /\ Proved(scopes, done, restarts)
  /\ saved # NoCheckpoint => ProvedBefore(saved.scopes, saved.done)
  /\ Undecided
  /\ Guarded

\* Scopes keep their evidence.
Lasting ==
  /\ Len(scopes') = Len(scopes)
  /\ \A s \in 1..Len(scopes) :
        /\ scopes'[s].accepted = scopes[s].accepted /\ scopes'[s].guard = scopes[s].guard
        /\ scopes'[s].version = scopes[s].version /\ scopes'[s].last = scopes[s].last
        /\ scopes'[s].pending = scopes[s].pending

\* Nothing is known when nothing has happened.
LEMMA InitGuards == Init => GuardInv
<1> SUFFICES ASSUME Init PROVE GuardInv
  OBVIOUS
<1>1. Proved(<<>>, done, restarts)
  BY DEF Proved
<1>2. Tags(stack) = {} /\ ctl.m = "run"
  BY NoFrame DEF Init, Running
<1> QED BY <1>1, <1>2 DEF Init, GuardInv, Undecided, Guarded

\* An exit takes no evidence away.
LEMMA SettlingLasts == ASSUME FrameInv, NEW list, SettleScopes(list) PROVE Lasting
<1>1. PICK n \in Nat : n = Len(scopes) /\ DOMAIN scopes = 1..n /\ \A s \in 1..n : scopes[s] \in ScopeStates
  BY DEF FrameInv, Whole, Counted
<1>2. PICK ended, k : scopes' = [s \in DOMAIN scopes |-> IF s \in ended THEN [scopes[s] EXCEPT !.exit = k[s]] ELSE scopes[s]]
  <2>1. PICK ended : ended = {list[i].scope : i \in DOMAIN list}
    OBVIOUS
  <2>2. PICK recs : recs = ExitRecords(list)
    OBVIOUS
  <2>3. PICK k : k = [s \in DOMAIN scopes |-> (CHOOSE r \in Range(recs) : r.scope = s).kind]
    OBVIOUS
  <2>4. scopes' = [s \in DOMAIN scopes |->
                     IF s \in ended
                     THEN [scopes[s] EXCEPT !.exit = (CHOOSE r \in Range(recs) : r.scope = s).kind]
                     ELSE scopes[s]]
    BY <2>1, <2>2 DEF SettleScopes
  <2>5. scopes' = [s \in DOMAIN scopes |-> IF s \in ended THEN [scopes[s] EXCEPT !.exit = k[s]] ELSE scopes[s]]
    <3>1. \A s \in DOMAIN scopes : k[s] = (CHOOSE r \in Range(recs) : r.scope = s).kind
      BY <2>3
    <3> QED BY <2>4, <3>1
  <2> QED BY <2>5
<1>3. ASSUME NEW s \in 1..n
      PROVE  /\ scopes'[s].accepted = scopes[s].accepted /\ scopes'[s].guard = scopes[s].guard
             /\ scopes'[s].version = scopes[s].version /\ scopes'[s].last = scopes[s].last
             /\ scopes'[s].pending = scopes[s].pending
  <2>1. PICK r : r = scopes[s] /\ r \in ScopeStates
    BY <1>1
  <2>2. PICK q : q = scopes'[s]
    OBVIOUS
  <2>3. q = r \/ q = [r EXCEPT !.exit = k[s]]
    BY <1>1, <1>2, <2>1, <2>2
  <2>4. /\ q.accepted = r.accepted /\ q.guard = r.guard /\ q.version = r.version /\ q.last = r.last
        /\ q.pending = r.pending
    BY <2>1, <2>3 DEF ScopeStates
  <2> QED BY <2>1, <2>2, <2>4
<1>4. scopes' = [s \in 1..n |-> scopes'[s]]
  BY <1>1, <1>2
<1>5. Len(scopes') = n
  BY <1>4, LenProperties
<1> QED BY <1>1, <1>3, <1>5 DEF Lasting

\* A step that gives no evidence and starts no attempt.
LEMMA GuardsKept ==
  ASSUME GuardInv, Lasting, UNCHANGED <<attempts, done, restarts, saved>>,
         Alive' => Alive /\ Tags(stack') \subseteq Tags(stack), ctl'.m # "dispatch"
  PROVE  GuardInv'
<1>1. Proved(scopes', done', restarts')
  BY DEF GuardInv, Proved, Lasting
<1>2. Undecided'
  BY DEF GuardInv, Undecided
<1>3. Guarded'
  BY DEF Guarded
<1> QED BY <1>1, <1>2, <1>3 DEF GuardInv

\* The same scopes.
LEMMA SameLasts == ASSUME scopes' = scopes PROVE Lasting
  BY DEF Lasting

\* A new scope has no evidence.
LEMMA ActivateGuards == ASSUME FrameInv, GuardInv, NEW guard \in Guards, Activate(guard) PROVE GuardInv'
<1>1. ctl.m = "run" /\ UNCHANGED <<attempts, done, restarts, saved>> /\ Tags(stack') \subseteq Tags(stack)
  BY ActivateFrames DEF Activate, Spend, KeepRun, Running
<1>2. CASE Cardinality(Active) >= MaxActive
  <2>1. ctl' = Ending("Failed", "ceiling") /\ scopes' = scopes
    BY <1>2 DEF Activate
  <2>2. Alive' => Alive
    BY <2>1, EndingState DEF Alive
  <2> QED BY <1>1, <2>1, <2>2, EndingState, SameLasts, GuardsKept
<1>3. CASE ~(Cardinality(Active) >= MaxActive)
  <2>1. scopes' = Append(scopes, NewScope(guard)) /\ ctl' = ctl
    BY <1>3 DEF Activate
  <2>2. PICK n \in Nat : n = Len(scopes) /\ scopes \in Seq(ScopeStates)
    BY DEF FrameInv, Whole, Counted
  <2>3. PICK new : new = NewScope(guard)
    OBVIOUS
  <2>4. new \in ScopeStates
    BY <2>3 DEF NewScope, ScopeStates
  <2>5. \A x \in Actions : new.accepted[x].at = 0
    BY <2>3 DEF NewScope
  <2>6. Len(scopes') = n + 1 /\ scopes'[n + 1] = new /\ \A s \in 1..n : scopes'[s] = scopes[s]
    BY <2>1, <2>2, <2>3, <2>4, Appended
  <2>7. 1..(n + 1) = 1..n \cup {n + 1}
    BY <2>2
  <2>8. Proved(scopes', done', restarts')
    BY <1>1, <2>2, <2>5, <2>6, <2>7 DEF GuardInv, Proved
  <2>9. Undecided' /\ Guarded'
    BY <1>1, <2>1 DEF GuardInv, Undecided, Guarded, Alive
  <2> QED BY <1>1, <2>8, <2>9 DEF GuardInv
<1> QED BY <1>2, <1>3

\* An attempt at the target passes the monitor with evidence of every guard.
LEMMA PerformGuards == ASSUME FrameInv, GuardInv, NEW x \in Actions, Perform(x) PROVE GuardInv'
<1> DEFINE seen == Mirror(stack)
           tag == [action |-> x, at |-> cursor + 1, trusted |-> "unknown",
                   version |-> [s \in seen |-> scopes[s].version + 1],
                   dispatched |-> FALSE, completed |-> FALSE]
<1>1. PICK a : a = Len(attempts) + 1
  OBVIOUS
<1>2. /\ ctl = Running /\ ctl.m = "run" /\ UNCHANGED <<done, restarts, saved>>
      /\ attempts' = Append(attempts, tag)
      /\ Tags(stack') \subseteq Tags(stack) \cup {a} /\ Tags(stack) \subseteq 1..Len(attempts)
  BY <1>1, PerformFrames DEF Perform, Spend, KeepRun, Running, FrameInv, Whole
<1>3. /\ attempts'[a] = tag /\ \A b \in 1..Len(attempts) : attempts'[b] = attempts[b]
  <2>1. attempts \in Seq(TagStates)
    BY DEF FrameInv, Whole
  <2> HIDE DEF tag
  <2> QED BY <1>1, <1>2, <2>1
<1>4. tag.trusted = "unknown" /\ tag.action = x /\ DOMAIN tag.version = seen
  OBVIOUS
<1>5. seen \subseteq Owned(stack) /\ seen \subseteq 1..Len(scopes)
  BY MirrorOwned DEF FrameInv, Whole
<1>6. \/ (\E w : ctl' = Ending("Failed", w)) /\ UNCHANGED <<scopes, stack>>
      \/ /\ scopes' = [s \in DOMAIN scopes |-> IF s \in seen THEN Committed(s, a) ELSE scopes[s]]
         /\ ctl' = [m |-> "dispatch", a |-> a]
         /\ \A s \in seen : Permits(s, x)
  BY <1>1 DEF Perform
<1> HIDE DEF tag
<1>7. Undecided'
  BY <1>2, <1>3, <1>4 DEF GuardInv, Undecided, Alive
<1>8. CASE (\E w : ctl' = Ending("Failed", w)) /\ UNCHANGED <<scopes, stack>>
  <2>1. ctl'.m = "ending"
    BY <1>8, EndingState
  <2> QED BY <1>2, <1>7, <1>8, <2>1 DEF GuardInv, Proved, Guarded
<1>9. CASE /\ scopes' = [s \in DOMAIN scopes |-> IF s \in seen THEN Committed(s, a) ELSE scopes[s]]
           /\ ctl' = [m |-> "dispatch", a |-> a]
           /\ \A s \in seen : Permits(s, x)
  <2>1. PICK n \in Nat : n = Len(scopes) /\ DOMAIN scopes = 1..n /\ \A s \in 1..n : scopes[s] \in ScopeStates
    BY DEF FrameInv, Whole, Counted
  <2>2. ASSUME NEW s \in 1..n PROVE scopes'[s].accepted = scopes[s].accepted /\ scopes'[s].guard = scopes[s].guard
    <3>1. PICK r : r = scopes[s] /\ r \in ScopeStates
      BY <2>1
    <3>2. PICK q : q = scopes'[s]
      OBVIOUS
    <3>3. q = r \/ q = [r EXCEPT !.version = @ + 1, !.last = cursor + 1, !.pending = @ \cup {a}]
      BY <1>9, <2>1, <3>1, <3>2 DEF Committed
    <3>4. q.accepted = r.accepted /\ q.guard = r.guard
      BY <3>1, <3>3 DEF ScopeStates
    <3> QED BY <3>1, <3>2, <3>4
  <2>3. Len(scopes') = n
    <3>1. scopes' = [s \in 1..n |-> scopes'[s]]
      BY <1>9, <2>1
    <3> QED BY <3>1, LenProperties
  <2>4. Proved(scopes', done', restarts')
    BY <1>2, <2>1, <2>2, <2>3 DEF GuardInv, Proved
  <2>5. ASSUME x = Target, NEW s \in seen PROVE Witness(done', s, scopes'[s].guard, restarts')
    <3>1. s \in 1..n /\ scopes[s] \in ScopeStates /\ Permits(s, x)
      BY <1>5, <1>9, <2>1
    <3>2. PICK g \in Guards : g = scopes[s].guard
      BY <3>1 DEF ScopeStates
    <3>3. scopes[s].accepted[g].current /\ scopes[s].accepted[g].at # 0
      BY <2>5, <3>1, <3>2 DEF Permits
    <3>4. Witness(done, s, g, restarts)
      BY <2>1, <3>1, <3>3 DEF GuardInv, Proved, Actions
    <3> QED BY <1>2, <2>2, <3>1, <3>2, <3>4
  <2>6. Guarded'
    BY <1>3, <1>4, <1>9, <2>5 DEF Guarded
  <2> QED BY <1>2, <1>7, <2>4, <2>6 DEF GuardInv
<1> QED BY <1>6, <1>8, <1>9

\* The use of a permit.
LEMMA DispatchGuards ==
  ASSUME FrameInv, GuardInv, NEW next, NEW frames, Dispatch(next, frames), next.m \in {"run", "host"},
         Tags(stack') \subseteq Tags(stack)
  PROVE  GuardInv'
<1>1. /\ ctl.m = "dispatch" /\ attempts' = [attempts EXCEPT ![ctl.a].dispatched = TRUE]
      /\ UNCHANGED <<scopes, done, restarts, saved>>
      /\ ctl' = next \/ ctl' = Ending("Failed", "permit")
  BY DEF Dispatch, KeepScopes, KeepRun
<1>2. ctl'.m # "dispatch" /\ Alive
  BY <1>1, EndingState DEF Alive
<1>3. \A b \in 1..Len(attempts) : attempts'[b].trusted = attempts[b].trusted
  <2> SUFFICES ASSUME NEW b \in 1..Len(attempts) PROVE attempts'[b].trusted = attempts[b].trusted
    OBVIOUS
  <2>1. PICK r : r = attempts[b] /\ r \in TagStates
    BY DEF FrameInv, Whole
  <2>2. b \in DOMAIN attempts
    BY DEF FrameInv, Whole
  <2>3. PICK q : q = attempts'[b]
    OBVIOUS
  <2>4. q = r \/ q = [r EXCEPT !.dispatched = TRUE]
    BY <1>1, <2>1, <2>2, <2>3
  <2>5. q.trusted = r.trusted
    BY <2>1, <2>4 DEF TagStates
  <2> QED BY <2>1, <2>3, <2>5
<1>4. Undecided'
  <2>1. Tags(stack) \subseteq 1..Len(attempts)
    BY DEF FrameInv, Whole
  <2> QED BY <1>2, <1>3, <2>1 DEF GuardInv, Undecided
<1> QED BY <1>1, <1>2, <1>4 DEF GuardInv, Guarded, Proved

\* An outcome that counts as accepted is that of an action that took place.
LEMMA CompleteGuards ==
  ASSUME FrameInv, GuardInv, Alive, NEW a \in 1..Len(attempts), NEW tag \in TagStates, NEW v \in BOOLEAN, NEW real,
         NEW frames, Complete(a, tag, v, real, frames), OutcomeStatus(tag, v) = "Accepted" => real,
         ctl'.m = "run" => Tags(stack') \subseteq Tags(stack) \ {a}
  PROVE  GuardInv'
<1>1. PICK open : open = DOMAIN tag.version \cap Active
  OBVIOUS
<1>2. /\ attempts' = [attempts EXCEPT ![a] = [tag EXCEPT !.completed = TRUE]]
      /\ done' = done \cup (IF real THEN [scope : open, action : {tag.action}, run : {restarts}] ELSE {})
      /\ UNCHANGED <<restarts, saved>>
      /\ \/ ctl' = Ending("Failed", "monitor") /\ scopes' = scopes
         \/ /\ scopes' = [s \in DOMAIN scopes |-> IF s \in open THEN Settled(s, a, tag, v) ELSE scopes[s]]
            /\ ctl' = Running
  BY <1>1 DEF Complete, KeepRun
<1>3. ctl'.m # "dispatch" /\ (Alive' => ctl'.m = "run")
  BY <1>2, EndingState DEF Running, Alive
<1>4. Undecided'
  <2>1. \A b \in 1..Len(attempts) : b # a => attempts'[b] = attempts[b]
    BY <1>2 DEF FrameInv, Whole
  <2>2. Tags(stack) \subseteq 1..Len(attempts)
    BY DEF FrameInv, Whole
  <2> QED BY <1>3, <2>1, <2>2 DEF GuardInv, Undecided
<1>5. \A s, x : Witness(done, s, x, restarts) => Witness(done', s, x, restarts')
  BY <1>2 DEF Witness
<1>6. PICK n \in Nat : n = Len(scopes) /\ DOMAIN scopes = 1..n /\ \A s \in 1..n : scopes[s] \in ScopeStates
  BY DEF FrameInv, Whole, Counted
<1>7. Proved(scopes', done', restarts')
  <2>1. CASE scopes' = scopes
    BY <1>5, <2>1 DEF GuardInv, Proved
  <2>2. CASE scopes' = [s \in DOMAIN scopes |-> IF s \in open THEN Settled(s, a, tag, v) ELSE scopes[s]]
    <3>1. Len(scopes') = n
      <4>1. scopes' = [s \in 1..n |-> scopes'[s]]
        BY <1>6, <2>2
      <4> QED BY <4>1, LenProperties
    <3>2. SUFFICES ASSUME NEW s \in 1..n, NEW x \in Actions, NEW e, e = scopes'[s].accepted[x],
                          e.at # 0, x = Approval => e.current
                   PROVE  Witness(done', s, x, restarts')
      BY <3>1 DEF Proved
    <3>3. PICK r : r = scopes[s] /\ r \in ScopeStates
      BY <1>6
    <3>4. CASE e = r.accepted[x]
      <4>1. Witness(done, s, x, restarts)
        BY <1>6, <3>2, <3>3, <3>4 DEF GuardInv, Proved
      <4> QED BY <1>5, <4>1
    <3>5. CASE e # r.accepted[x]
      <4>1. s \in open /\ scopes'[s] = Settled(s, a, tag, v)
        BY <1>6, <2>2, <3>2, <3>3, <3>5
      <4>2. PICK acc : acc = [r.accepted EXCEPT ![tag.action] = IF OutcomeStatus(tag, v) = "Accepted"
                                                                 THEN [at |-> cursor + 1, current |-> TRUE] ELSE @]
        OBVIOUS
      <4>3. PICK q : q = scopes'[s]
        OBVIOUS
      <4>4. q = [r EXCEPT !.version = @ + 1, !.last = cursor + 1, !.pending = @ \ {a}, !.accepted = acc]
        BY <3>3, <4>1, <4>2, <4>3 DEF Settled
      <4>5. q.accepted = acc
        BY <3>3, <4>4 DEF ScopeStates
      <4>6. r.accepted \in [Actions -> [at : Nat, current : BOOLEAN]]
        BY <3>3 DEF ScopeStates
      <4>7. x = tag.action /\ OutcomeStatus(tag, v) = "Accepted"
        BY <3>2, <3>5, <4>2, <4>3, <4>5, <4>6
      <4>8. PICK d : d = [scope |-> s, action |-> x, run |-> restarts]
        OBVIOUS
      <4>9. d \in done' /\ d.scope = s /\ d.action = x /\ d.run = restarts
        BY <1>2, <4>1, <4>7, <4>8
      <4> QED BY <1>2, <4>9 DEF Witness
    <3> QED BY <3>4, <3>5
  <2> QED BY <1>2, <2>1, <2>2
<1> QED BY <1>2, <1>3, <1>4, <1>7 DEF GuardInv, Guarded

\* The Host's decision on an approval is what the answer says.
LEMMA HostAnswersGuards == ASSUME FrameInv, GuardInv, NEW v \in BOOLEAN, HostAnswers(v) PROVE GuardInv'
<1>1. PICK tag : tag = attempts[ctl.a]
  OBVIOUS
<1>2. PICK decided : decided = IF tag.action = Approval
                               THEN [tag EXCEPT !.trusted = IF v THEN "yes" ELSE "no"] ELSE tag
  OBVIOUS
<1>3. PICK a, frames : a = ctl.a /\ frames = Tail(stack)
  OBVIOUS
<1>4. /\ ctl.m = "host" /\ Complete(a, decided, v, v, frames)
      /\ tag.action # Approval => v
  BY <1>1, <1>2, <1>3 DEF HostAnswers
<1>5. Alive /\ a \in 1..Len(attempts)
  BY <1>3, <1>4 DEF FrameInv, AtAction, Alive
<1>6. tag \in TagStates
  BY <1>1, <1>3, <1>5 DEF FrameInv, Whole
<1>7. decided \in TagStates /\ decided.action = tag.action
      /\ (tag.action = Approval => decided.trusted = IF v THEN "yes" ELSE "no")
  BY <1>2, <1>6 DEF TagStates
<1>8. OutcomeStatus(decided, v) = "Accepted" => v
  BY <1>4, <1>7 DEF OutcomeStatus
<1>9. ctl'.m = "run" => Tags(stack') \subseteq Tags(stack) \ {a}
  BY <1>3, HostAnswersFrames
<1> QED BY <1>4, <1>5, <1>7, <1>8, <1>9, CompleteGuards

\* A handler that resumes with true approves nothing.
LEMMA ResumeGuards == ASSUME FrameInv, GuardInv, NEW v \in BOOLEAN, Resume(v) PROVE GuardInv'
<1>1. PICK back, a, tag : back = stack[1].saved /\ a = back[1].id /\ tag = attempts[a]
  OBVIOUS
<1>2. PICK frames, real : frames = Tail(back) \o Tail(stack) /\ real = (tag.action # Approval)
  OBVIOUS
<1>3. ctl = Running /\ Complete(a, tag, v, real, frames)
  BY <1>1, <1>2 DEF Resume
<1>4. Alive
  BY <1>3 DEF Running, Alive
<1>5. a \in Tags(stack) /\ (ctl'.m = "run" => Tags(stack') \subseteq Tags(stack) \ {a})
  BY <1>1, ResumeFrames
<1>6. a \in 1..Len(attempts) /\ tag \in TagStates /\ tag.trusted = "unknown"
  BY <1>1, <1>4, <1>5 DEF FrameInv, Whole, GuardInv, Undecided
<1>7. OutcomeStatus(tag, v) = "Accepted" => real
  BY <1>2, <1>6 DEF OutcomeStatus
<1> QED BY <1>3, <1>4, <1>5, <1>6, <1>7, CompleteGuards

\* A checkpoint saves the evidence.
LEMMA CheckpointGuards == ASSUME FrameInv, GuardInv, Checkpoint PROVE GuardInv'
<1>1. /\ ctl = Running /\ UNCHANGED <<stack, scopes, attempts, done, restarts>>
      /\ saved' = [Document EXCEPT !.fuel = fuel - 1]
  BY DEF Checkpoint, Spend, KeepScopes
<1>2. saved'.scopes = scopes /\ saved'.done = done
  BY <1>1 DEF Document
<1>3. ProvedBefore(scopes, done)
  BY DEF GuardInv, Proved, ProvedBefore, Witness
<1>4. ctl'.m \in {"run", "ending"} /\ Alive
  BY <1>1 DEF Checkpoint, Running, Ending, Alive
<1> QED BY <1>1, <1>2, <1>3, <1>4 DEF GuardInv, Undecided, Guarded, Proved

\* After a restart no approval of an earlier run is current.
LEMMA RestartGuards == ASSUME FrameInv, GuardInv, Restart PROVE GuardInv'
<1>1. PICK sc, at : sc = saved.scopes /\ at = saved.attempts
  OBVIOUS
<1>2. /\ saved # NoCheckpoint /\ stack' = saved.stack /\ saved' = saved /\ done' = saved.done
      /\ scopes' = [s \in DOMAIN sc |-> RestoredScope(sc[s])]
      /\ attempts' = [a \in DOMAIN at |-> RestoredAttempt(at[a])]
      /\ ctl' = IF DocumentAccepted(saved) THEN Running ELSE Ending("Failed", "checkpoint")
  BY <1>1 DEF Restart
<1>3. ctl'.m \in {"run", "ending"}
  BY <1>2 DEF Running, Ending
<1>4. /\ ProvedBefore(sc, saved.done) /\ sc \in Seq(ScopeStates) /\ at \in Seq(TagStates)
      /\ Tags(saved.stack) \subseteq 1..Len(at)
  BY <1>1, <1>2 DEF GuardInv, FrameInv, Saved, Whole, Counted
<1>5. PICK n \in Nat : n = Len(sc) /\ DOMAIN sc = 1..n
  BY <1>4
<1>6. Len(scopes') = n
  <2>1. scopes' = [s \in 1..n |-> scopes'[s]]
    BY <1>2, <1>5
  <2> QED BY <2>1, LenProperties
<1>7. Proved(scopes', done', restarts')
  <2> SUFFICES ASSUME NEW s \in 1..n, NEW x \in Actions, NEW e, e = scopes'[s].accepted[x],
                      e.at # 0, x = Approval => e.current
               PROVE  Witness(done', s, x, restarts')
    BY <1>6 DEF Proved
  <2>1. PICK r : r = sc[s] /\ r \in ScopeStates
    BY <1>4, <1>5
  <2>2. PICK acc : acc = [y \in Actions |-> [at |-> r.accepted[y].at, current |-> r.accepted[y].at # 0 /\ y # Approval]]
    OBVIOUS
  <2>3. PICK q : q = scopes'[s]
    OBVIOUS
  <2>4. q = [r EXCEPT !.accepted = acc]
    BY <1>2, <1>5, <2>1, <2>2, <2>3 DEF RestoredScope
  <2>5. q.accepted = acc
    BY <2>1, <2>4 DEF ScopeStates
  <2>6. e.at = r.accepted[x].at /\ e.current = (r.accepted[x].at # 0 /\ x # Approval)
    BY <2>2, <2>3, <2>5
  <2>7. x # Approval
    BY <2>6
  <2>8. \E d \in saved.done : d.scope = s /\ d.action = x
    BY <1>4, <1>5, <2>1, <2>6, <2>7 DEF ProvedBefore
  <2> QED BY <1>2, <2>7, <2>8 DEF Witness
<1>8. Undecided'
  <2>1. \A a \in 1..Len(at) : attempts'[a].trusted = "unknown"
    <3> SUFFICES ASSUME NEW a \in 1..Len(at) PROVE attempts'[a].trusted = "unknown"
      OBVIOUS
    <3>1. PICK r : r = at[a] /\ r \in TagStates /\ a \in DOMAIN at
      BY <1>4
    <3>2. PICK q : q = attempts'[a]
      OBVIOUS
    <3>3. q = [r EXCEPT !.trusted = "unknown"]
      BY <1>2, <3>1, <3>2 DEF RestoredAttempt
    <3>4. q.trusted = "unknown"
      BY <3>1, <3>3 DEF TagStates
    <3> QED BY <3>2, <3>4
  <2> QED BY <1>2, <1>4, <2>1 DEF Undecided
<1> QED BY <1>2, <1>3, <1>7, <1>8 DEF GuardInv, Guarded

\* Every step keeps evidence true.
LEMMA NextGuards == FrameInv /\ GuardInv /\ [Next]_vars => GuardInv'
<1> SUFFICES ASSUME FrameInv, GuardInv, [Next]_vars PROVE GuardInv'
  OBVIOUS
<1>1. CASE UNCHANGED vars
  BY <1>1 DEF vars, GuardInv, Proved, Undecided, Guarded, Alive
<1>2. ASSUME Lasting, UNCHANGED <<attempts, done, restarts, saved>>, Alive, ctl'.m # "dispatch",
             Tags(stack') \subseteq Tags(stack) PROVE GuardInv'
  BY <1>2, GuardsKept
<1>3. ASSUME NEW k \in {"handle", "try"}, Enter(k) PROVE GuardInv'
  BY <1>2, <1>3, EnterFrames, SameLasts DEF Enter, Spend, KeepScopes, KeepRun, Running, Alive
<1>4. CASE Leave
  BY <1>2, <1>4, LeaveFrames, SameLasts DEF Leave, KeepScopes, KeepRun, Running, Alive
<1>5. CASE DispatchArm
  <2>1. \E frames : Dispatch(Running, frames)
    BY <1>5 DEF DispatchArm
  <2>2. Running.m = "run"
    BY DEF Running
  <2> QED BY <1>5, <2>1, <2>2, DispatchArmFrames, DispatchGuards
<1>6. CASE DispatchHost
  <2>1. PICK next : next = [m |-> "host", a |-> ctl.a]
    OBVIOUS
  <2>2. Dispatch(next, stack) /\ next.m = "host"
    BY <1>6, <2>1 DEF DispatchHost
  <2>3. PICK frames : Dispatch(next, frames)
    BY <2>2
  <2> QED BY <1>6, <2>2, <2>3, DispatchHostFrames, DispatchGuards
<1>7. ASSUME Unwind, Alive, Tags(stack') \subseteq Tags(stack) PROVE GuardInv'
  <2>1. Lasting
    <3>1. \E list : SettleScopes(list)
      BY <1>7 DEF Unwind
    <3> QED BY <3>1, SettlingLasts
  <2>2. UNCHANGED <<attempts, done, restarts, saved>> /\ ctl'.m # "dispatch"
    BY <1>7 DEF Unwind, KeepRun, Running, Ending
  <2> QED BY <1>2, <1>7, <2>1, <2>2
<1>8. CASE Raise
  BY <1>7, <1>8, UnwindFrames DEF Raise, Spend, Running, Alive
<1>9. CASE HostFails
  <2>1. CASE Unwind
    BY <1>7, <1>9, <2>1, HostFailsFrames DEF HostFails, Alive
  <2>2. CASE ~Unwind
    <3>1. UNCHANGED <<scopes, attempts, done, restarts, saved>> /\ ctl' = Ending("Failed", "host") /\ Alive
      BY <1>9, <2>2 DEF HostFails, KeepScopes, KeepRun, Alive
    <3> QED BY <1>2, <1>9, <3>1, HostFailsFrames, EndingState, SameLasts
  <2> QED BY <2>1, <2>2
<1>10. CASE FinishArm
  <2>1. Lasting
    BY <1>10, SettlingLasts DEF FinishArm
  <2> QED BY <1>2, <1>10, <2>1, FinishArmFrames DEF FinishArm, KeepRun, Running, Alive
<1>11. CASE Return
  <2>1. Lasting
    <3>1. \E list : SettleScopes(list)
      BY <1>11 DEF Return
    <3> QED BY <3>1, SettlingLasts
  <2>2. ctl' = Running \/ ctl' = Ending("Failed", "incomplete")
    BY <1>11 DEF Return
  <2> QED BY <1>2, <1>11, <2>1, <2>2, ReturnFrames DEF Return, KeepRun, Running, Alive, Ending
<1>12. CASE EndBody
  <2>1. Lasting
    BY <1>12, SettlingLasts DEF EndBody
  <2> QED BY <1>2, <1>12, <2>1, EndBodyFrames DEF EndBody, KeepRun, Running, Alive, Ending
<1>13. CASE Cancel
  <2>1. UNCHANGED <<stack, scopes, attempts, done, restarts, saved>> /\ ctl' = Ending("Cancelled", "none") /\ Alive
    BY <1>13 DEF Cancel, KeepScopes, KeepRun, Alive
  <2> QED BY <1>2, <2>1, EndingState, SameLasts
<1>14. CASE Finish
  <2>1. Lasting
    <3>1. \E list : SettleScopes(list)
      BY <1>14 DEF Finish
    <3> QED BY <3>1, SettlingLasts
  <2>2. UNCHANGED <<attempts, done, restarts, saved>> /\ ctl'.m = "ended"
    BY <1>14 DEF Finish, KeepRun
  <2> QED BY <2>1, <2>2, GuardsKept DEF Alive
<1>15. CASE Next /\ ~DispatchArm /\ ~DispatchHost /\ ~Raise /\ ~HostFails /\ ~FinishArm /\ ~Return /\ ~EndBody /\ ~Cancel /\ ~Finish /\ ~Leave
  BY <1>3, <1>15, ActivateGuards, PerformGuards, HostAnswersGuards, ResumeGuards, CheckpointGuards, RestartGuards DEF Next
<1> QED BY <1>1, <1>4, <1>5, <1>6, <1>8, <1>9, <1>10, <1>11, <1>12, <1>13, <1>14, <1>15

\* `guard >> target`: a target is dispatched only after the guard of every scope
\* that encloses it has taken place inside that scope, an approval only by the
\* Host in the present run, whatever handlers resumed with and whatever a
\* checkpoint said (consume_permit, complete, ScopeEvidence::query).
THEOREM GuardsComeFirst == Spec => GuardedDispatch
<1>1. Spec => [](FrameInv /\ GuardInv)
  BY InitFrames, NextFrames, InitGuards, NextGuards, PTL DEF Spec
<1>2. FrameInv /\ GuardInv =>
        [\A a \in DOMAIN attempts \cap DOMAIN attempts' :
          (attempts[a].action = Target /\ ctl.m = "dispatch" /\ ctl.a = a /\ ctl'.m \in {"run", "host"}
             /\ restarts' = restarts) =>
            \A s \in DOMAIN attempts[a].version :
              \E e \in done : /\ e.scope = s
                              /\ e.action = scopes[s].guard
                              /\ e.action = Approval => e.run = restarts]_vars
  BY DEF GuardInv, Guarded, Witness
<1> QED BY <1>1, <1>2, PTL DEF GuardedDispatch

-----------------------------------------------------------------------------
(***************************************************************************)
(* The exit log                                                            *)
(***************************************************************************)
ExitRecs == [scope : Nat, kind : ExitKinds, result : {"Accepting", "PendingEvidence", "Incomplete"}]

\* No scope is in q twice.
Single(q) == \A i, j \in 1..Len(q) : q[i].scope = q[j].scope => i = j

\* The ring q: E are the scopes that have exited, bd those of them that failed.
RingOK(q, E, bd) ==
  /\ q \in Seq(ExitRecs) /\ Single(q) /\ Len(q) <= RecordCeiling
  /\ \A i \in 1..Len(q) : q[i].scope \in E /\ (Unsatisfied(q[i]) => q[i].scope \in Entries(bd))

\* The failures in order.
BadOK(E, bd) ==
  /\ E \in SUBSET (Nat \ {0}) /\ IsFiniteSet(E) /\ bd \in Seq(E)
  /\ \A i, j \in 1..Len(bd) : bd[i] = bd[j] => i = j

\* The counters; an exit is in the ring or was dropped, or a restart forgot it.
CountOK(l, E, bd) ==
  /\ l.unsatisfied = Len(bd) /\ l.dropped \in Nat
  /\ l.dropped + (IF Capacity = 0 THEN 0 ELSE Len(l.exits)) <= Cardinality(E)

\* The first failure; in the ring it is before the others, and only a full ring
\* has lost it.
FirstOK(q, first, bd) ==
  IF bd = <<>> THEN first = NoRecord
  ELSE /\ first \in ExitRecs /\ Unsatisfied(first) /\ first.scope = bd[1]
       /\ \A i, j \in 1..Len(q) : Unsatisfied(q[i]) /\ Unsatisfied(q[j]) /\ q[j].scope = bd[1] => j <= i
       /\ (\A i \in 1..Len(q) : Unsatisfied(q[i]) => q[i].scope # bd[1]) => Capacity = 0 \/ Len(q) = Capacity

LogOK(l, E, bd) ==
  RingOK(l.exits, E, bd) /\ BadOK(E, bd) /\ CountOK(l, E, bd) /\ FirstOK(l.exits, l.first, bd)

\* The ceiling is the capacity, but for none.
LEMMA Ceiling == RecordCeiling = IF Capacity = 0 THEN 1 ELSE Capacity
<1>1. PICK c \in Nat : c = Capacity
  BY MonitorConstants
<1>2. PICK x : x = IF c = 0 THEN 1 ELSE c
  OBVIOUS
<1>3. x \in {c, 1} /\ \A y \in {c, 1} : x >= y
  BY <1>2
<1>4. \A z \in {c, 1} : (\A y \in {c, 1} : z >= y) => z = x
  BY <1>2
<1>5. Max({c, 1}) = x
  BY <1>3, <1>4 DEF Max
<1> QED BY <1>1, <1>2, <1>5 DEF RecordCeiling

\* Ring q2 is q without its first d records, and with r.
Moved(q, q2, r, d) ==
  /\ q2 \in Seq(ExitRecs) /\ Len(q2) = (Len(q) - d) + 1 /\ Len(q2) <= Capacity /\ q2[Len(q2)] = r
  /\ d <= Len(q) /\ \A i \in 1..(Len(q) - d) : q2[i] = q[i + d]
  /\ d = 1 => Len(q) = Capacity

\* What a record does to the ring.
LEMMA RingMoves ==
  ASSUME NEW l, l.exits \in Seq(ExitRecs), Len(l.exits) <= RecordCeiling, NEW r \in ExitRecs, l.dropped \in Nat
  PROVE  \/ /\ Capacity = 0 /\ RecordExit(l, r).exits = l.exits /\ RecordExit(l, r).dropped = l.dropped + 1
         \/ /\ Capacity # 0
            /\ \E d \in {0, 1} : /\ Moved(l.exits, RecordExit(l, r).exits, r, d)
                                 /\ RecordExit(l, r).dropped = l.dropped + d
<1>1. PICK c \in Nat : c = Capacity
  BY MonitorConstants
<1>2. PICK q, q2, w : q = l.exits /\ q2 = RecordExit(l, r).exits /\ w = RecordExit(l, r).dropped
  OBVIOUS
<1>3. PICK n \in Nat : n = Len(q) /\ q \in Seq(ExitRecs)
  BY <1>2
<1>4. CASE c = 0
  BY <1>1, <1>4 DEF RecordExit
<1>5. CASE c # 0 /\ n # c
  <2>1. q2 = Append(q, r) /\ w = l.dropped
    BY <1>1, <1>2, <1>3, <1>5 DEF RecordExit
  <2>2. n < c
    BY <1>1, <1>2, <1>3, <1>5, Ceiling
  <2>3. q2 \in Seq(ExitRecs) /\ Len(q2) = n + 1 /\ q2[n + 1] = r /\ \A i \in 1..n : q2[i] = q[i]
    BY <1>3, <2>1
  <2>4. Moved(q, q2, r, 0)
    BY <1>1, <1>3, <2>2, <2>3 DEF Moved
  <2> QED BY <1>1, <1>2, <1>5, <2>1, <2>4
<1>6. CASE c # 0 /\ n = c
  <2>1. PICK u : u = Tail(q)
    OBVIOUS
  <2>2. q2 = Append(u, r) /\ w = l.dropped + 1
    BY <1>1, <1>2, <1>3, <1>6, <2>1 DEF RecordExit
  <2>3. u \in Seq(ExitRecs) /\ Len(u) = n - 1 /\ \A i \in 1..(n - 1) : u[i] = q[i + 1]
    <3>1. q # <<>>
      BY <1>3, <1>6
    <3> QED BY <1>3, <2>1, <3>1, HeadTailProperties
  <2>4. q2 \in Seq(ExitRecs) /\ Len(q2) = n /\ q2[n] = r /\ \A i \in 1..(n - 1) : q2[i] = u[i]
    <3>1. PICK k \in Nat : k = n - 1 /\ k + 1 = n
      BY <1>3, <1>6
    <3>2. q2 \in Seq(ExitRecs) /\ Len(q2) = k + 1 /\ q2[k + 1] = r /\ \A i \in 1..k : q2[i] = u[i]
      BY <2>2, <2>3, <3>1, Appended
    <3> QED BY <3>1, <3>2
  <2>5. Moved(q, q2, r, 1)
    BY <1>1, <1>3, <1>6, <2>3, <2>4 DEF Moved
  <2> QED BY <1>1, <1>2, <1>6, <2>2, <2>5
<1> QED BY <1>4, <1>5, <1>6

\* The failures after r.
Longer(bd, r) == IF Unsatisfied(r) THEN Append(bd, r.scope) ELSE bd

\* They are in order.
LEMMA BadGrows ==
  ASSUME NEW E, NEW bd, BadOK(E, bd), NEW r \in ExitRecs, r.scope # 0, r.scope \notin E
  PROVE  /\ BadOK(E \cup {r.scope}, Longer(bd, r)) /\ Cardinality(E \cup {r.scope}) = Cardinality(E) + 1
         /\ Entries(Longer(bd, r)) = Entries(bd) \cup (IF Unsatisfied(r) THEN {r.scope} ELSE {})
         /\ bd # <<>> => Longer(bd, r) # <<>> /\ Longer(bd, r)[1] = bd[1]
         /\ Len(Longer(bd, r)) = Len(bd) + (IF Unsatisfied(r) THEN 1 ELSE 0)
         /\ Cardinality(E) \in Nat
<1>1. PICK s \in Nat \ {0} : s = r.scope
  BY DEF ExitRecs
<1>2. PICK n \in Nat : n = Len(bd) /\ bd \in Seq(E) /\ E \in SUBSET (Nat \ {0}) /\ IsFiniteSet(E)
  BY DEF BadOK
<1>3. /\ IsFiniteSet(E \cup {s}) /\ Cardinality(E \cup {s}) = Cardinality(E) + 1 /\ Cardinality(E) \in Nat
  BY <1>1, <1>2, FS_AddElement, FS_CardinalityType
<1>4. PICK F : F = E \cup {s}
  OBVIOUS
<1>5. bd \in Seq(F) /\ F \in SUBSET (Nat \ {0}) /\ s \in F
  <2>1. E \subseteq F /\ F \in SUBSET (Nat \ {0}) /\ s \in F
    BY <1>1, <1>2, <1>4
  <2>2. \A q : q \in Seq(E) => q \in Seq(F)
    BY <1>4
  <2> QED BY <1>2, <2>1, <2>2
<1>6. CASE ~Unsatisfied(r)
  <2>1. Longer(bd, r) = bd
    BY <1>6 DEF Longer
  <2>2. BadOK(F, bd)
    BY <1>3, <1>4, <1>5 DEF BadOK
  <2> QED BY <1>1, <1>2, <1>3, <1>4, <1>6, <2>1, <2>2
<1>7. CASE Unsatisfied(r)
  <2>1. PICK g : g = Append(bd, s)
    OBVIOUS
  <2>2. g = Longer(bd, r)
    BY <1>1, <1>7, <2>1 DEF Longer
  <2>3. g \in Seq(F) /\ Len(g) = n + 1 /\ g[n + 1] = s /\ \A i \in 1..n : g[i] = bd[i]
    BY <1>2, <1>5, <2>1
  <2>4. 1..(n + 1) = 1..n \cup {n + 1}
    BY <1>2
  <2>5. \A i \in 1..n : bd[i] \in E /\ bd[i] # s
    BY <1>1, <1>2
  <2>6. \A i, j \in 1..(n + 1) : g[i] = g[j] => i = j
    BY <1>2, <2>3, <2>4, <2>5 DEF BadOK
  <2>7. BadOK(F, g)
    BY <1>3, <1>4, <1>5, <2>3, <2>6 DEF BadOK
  <2>8. Entries(g) = Entries(bd) \cup {s}
    BY <1>2, <2>3, <2>4 DEF Entries
  <2>9. bd # <<>> => g # <<>> /\ g[1] = bd[1]
    BY <1>2, <2>3
  <2> QED BY <1>1, <1>2, <1>3, <1>4, <1>7, <2>2, <2>3, <2>7, <2>8, <2>9
<1> QED BY <1>6, <1>7

\* The records of a ring that has moved.
LEMMA MovedRecords ==
  ASSUME NEW q, NEW q2, NEW r, NEW d \in {0, 1}, q \in Seq(ExitRecs), Moved(q, q2, r, d), NEW i \in 1..Len(q2)
  PROVE  (i = Len(q2) /\ q2[i] = r) \/ (i < Len(q2) /\ i \in 1..(Len(q) - d) /\ i + d \in 1..Len(q) /\ q2[i] = q[i + d])
<1>1. PICK n \in Nat, m \in Nat : n = Len(q) /\ m = Len(q2) /\ m = (n - d) + 1
  BY DEF Moved
<1>2. CASE i = m
  BY <1>1, <1>2 DEF Moved
<1>3. CASE i # m
  <2>1. i \in 1..(n - d) /\ i + d \in 1..n /\ i < m
    BY <1>1, <1>3
  <2> QED BY <1>1, <2>1 DEF Moved
<1> QED BY <1>2, <1>3

\* The ring after r.
LEMMA RingGrows ==
  ASSUME NEW q, NEW q2, NEW r \in ExitRecs, NEW d \in {0, 1}, NEW E, NEW bd, RingOK(q, E, bd), Moved(q, q2, r, d),
         r.scope \notin E, NEW bd2, Entries(bd2) = Entries(bd) \cup (IF Unsatisfied(r) THEN {r.scope} ELSE {}),
         Capacity # 0
  PROVE  RingOK(q2, E \cup {r.scope}, bd2)
<1>1. q \in Seq(ExitRecs) /\ q2 \in Seq(ExitRecs) /\ Len(q) \in Nat /\ Len(q2) \in Nat
  BY DEF RingOK, Moved
<1>2. Len(q2) <= RecordCeiling
  BY Ceiling DEF Moved
<1>3. \A i \in 1..Len(q2) : (i = Len(q2) /\ q2[i] = r) \/ (i < Len(q2) /\ i + d \in 1..Len(q) /\ q2[i] = q[i + d])
  BY <1>1, MovedRecords
<1>4. ASSUME NEW i \in 1..Len(q2)
      PROVE  q2[i].scope \in E \cup {r.scope} /\ (Unsatisfied(q2[i]) => q2[i].scope \in Entries(bd2))
  BY <1>3 DEF RingOK
<1>5. ASSUME NEW i \in 1..Len(q2), NEW j \in 1..Len(q2), q2[i].scope = q2[j].scope PROVE i = j
  <2>1. CASE i = Len(q2) /\ j = Len(q2)
    BY <2>1
  <2>2. CASE i = Len(q2) /\ j < Len(q2)
    BY <1>3, <1>5, <2>2 DEF RingOK
  <2>3. CASE i < Len(q2) /\ j = Len(q2)
    BY <1>3, <1>5, <2>3 DEF RingOK
  <2>4. CASE i < Len(q2) /\ j < Len(q2)
    <3>1. i + d \in 1..Len(q) /\ j + d \in 1..Len(q) /\ q[i + d].scope = q[j + d].scope
      BY <1>3, <1>5, <2>4
    <3>2. i + d = j + d
      BY <3>1 DEF RingOK, Single
    <3> QED BY <1>1, <3>2
  <2> QED BY <1>3, <2>1, <2>2, <2>3, <2>4
<1> QED BY <1>1, <1>2, <1>4, <1>5 DEF RingOK, Single

\* The first failure after r.
LEMMA FirstStays ==
  ASSUME NEW q, NEW q2, NEW r \in ExitRecs, NEW E, NEW bd, NEW first, RingOK(q, E, bd), BadOK(E, bd),
         FirstOK(q, first, bd), r.scope \notin E, r.scope # 0,
         \/ Capacity = 0 /\ q2 = q
         \/ Capacity # 0 /\ \E d \in {0, 1} : Moved(q, q2, r, d)
  PROVE  FirstOK(q2, IF Unsatisfied(r) /\ first = NoRecord THEN r ELSE first, Longer(bd, r))
<1>1. PICK n \in Nat, b \in Nat : n = Len(q) /\ b = Len(bd) /\ q \in Seq(ExitRecs) /\ bd \in Seq(E)
  BY DEF RingOK, BadOK
<1>2. /\ q2 \in Seq(ExitRecs) /\ Len(q2) \in Nat
  BY <1>1 DEF Moved
<1>3. CASE bd = <<>>
  <2>1. first = NoRecord /\ Entries(bd) = {}
    BY <1>3 DEF FirstOK, Entries
  <2>2. \A i \in 1..n : ~Unsatisfied(q[i])
    BY <1>1, <2>1 DEF RingOK
  <2>3. CASE ~Unsatisfied(r)
    BY <1>3, <2>1, <2>3 DEF Longer, FirstOK
  <2>4. CASE Unsatisfied(r)
    <3>1. PICK g : g = Longer(bd, r)
      OBVIOUS
    <3>2. g = <<r.scope>>
      BY <1>3, <2>4, <3>1 DEF Longer
    <3>3. g # <<>> /\ g[1] = r.scope
      BY <3>2
    <3>4. ASSUME NEW i \in 1..Len(q2), NEW j \in 1..Len(q2), Unsatisfied(q2[i]), Unsatisfied(q2[j]) PROVE j <= i
      <4>1. CASE Capacity = 0 /\ q2 = q
        BY <1>1, <2>2, <3>4, <4>1
      <4>2. ASSUME NEW d \in {0, 1}, Moved(q, q2, r, d) PROVE j <= i
        <5>1. i = Len(q2) /\ j = Len(q2)
          BY <1>1, <2>2, <3>4, <4>2, MovedRecords
        <5> QED BY <1>2, <5>1
      <4> QED BY <4>1, <4>2
    <3>5. Capacity # 0 => ~\A i \in 1..Len(q2) : Unsatisfied(q2[i]) => q2[i].scope # g[1]
      <4>1. ASSUME NEW d \in {0, 1}, Moved(q, q2, r, d) PROVE Len(q2) \in 1..Len(q2) /\ q2[Len(q2)] = r
        BY <1>1, <1>2, <4>1 DEF Moved
      <4> QED BY <2>4, <3>3, <4>1
    <3> QED BY <2>1, <2>4, <3>1, <3>3, <3>4, <3>5 DEF FirstOK
  <2> QED BY <2>3, <2>4
<1>4. CASE bd # <<>>
  <2>1. /\ first \in ExitRecs /\ Unsatisfied(first) /\ first.scope = bd[1]
        /\ \A i, j \in 1..n : Unsatisfied(q[i]) /\ Unsatisfied(q[j]) /\ q[j].scope = bd[1] => j <= i
        /\ (\A i \in 1..n : Unsatisfied(q[i]) => q[i].scope # bd[1]) => Capacity = 0 \/ n = Capacity
    BY <1>1, <1>4 DEF FirstOK
  <2>2. bd[1] \in E /\ bd[1] # 0 /\ bd[1] # r.scope
    BY <1>1, <1>4 DEF BadOK
  <2>3. first # NoRecord
    BY <2>1, <2>2 DEF NoRecord
  <2>4. PICK g : g = Longer(bd, r) /\ g # <<>> /\ g[1] = bd[1]
    BY <1>4, BadGrows
  <2>5. ASSUME NEW i \in 1..Len(q2), NEW j \in 1..Len(q2), Unsatisfied(q2[i]), Unsatisfied(q2[j]), q2[j].scope = bd[1]
        PROVE  j <= i
    <3>1. CASE Capacity = 0 /\ q2 = q
      BY <1>1, <2>1, <2>5, <3>1
    <3>2. ASSUME NEW d \in {0, 1}, Moved(q, q2, r, d) PROVE j <= i
      <4>1. /\ (i = Len(q2) /\ q2[i] = r) \/ (i < Len(q2) /\ i + d \in 1..n /\ q2[i] = q[i + d])
            /\ (j = Len(q2) /\ q2[j] = r) \/ (j < Len(q2) /\ j + d \in 1..n /\ q2[j] = q[j + d])
        BY <1>1, <3>2, MovedRecords
      <4>2. j < Len(q2) /\ j + d \in 1..n /\ q2[j] = q[j + d]
        BY <2>2, <2>5, <4>1
      <4>3. CASE i = Len(q2)
        BY <1>2, <4>2, <4>3
      <4>4. CASE i + d \in 1..n /\ q2[i] = q[i + d]
        <5>1. j + d <= i + d
          BY <2>1, <2>5, <4>2, <4>4
        <5> QED BY <1>2, <5>1
      <4> QED BY <4>1, <4>3, <4>4
    <3> QED BY <3>1, <3>2
  <2>6. ASSUME \A i \in 1..Len(q2) : Unsatisfied(q2[i]) => q2[i].scope # bd[1], Capacity # 0 PROVE Len(q2) = Capacity
    <3>1. PICK d \in {0, 1} : Moved(q, q2, r, d)
      BY <2>6
    <3>2. CASE d = 1
      BY <1>1, <3>1, <3>2 DEF Moved
    <3>3. CASE d = 0
      <4>1. \A i \in 1..n : i \in 1..Len(q2) /\ q2[i] = q[i]
        BY <1>1, <3>1, <3>3 DEF Moved
      <4>2. n = Capacity
        BY <2>1, <2>6, <4>1
      <4>3. Len(q2) = n + 1 /\ Len(q2) <= Capacity
        BY <1>1, <3>1, <3>3 DEF Moved
      <4> QED BY <1>1, <4>2, <4>3
    <3> QED BY <3>2, <3>3
  <2> QED BY <2>1, <2>3, <2>4, <2>5, <2>6 DEF FirstOK
<1> QED BY <1>3, <1>4

\* One record more.
LEMMA RecordStep ==
  ASSUME NEW l, NEW E, NEW bd, LogOK(l, E, bd), NEW r \in ExitRecs, r.scope \notin E, r.scope # 0
  PROVE  LogOK(RecordExit(l, r), E \cup {r.scope}, Longer(bd, r))
<1>1. PICK q, q2, k, w : q = l.exits /\ k = RecordExit(l, r) /\ q2 = k.exits /\ w = k.dropped
  OBVIOUS
<1>2. RingOK(q, E, bd) /\ BadOK(E, bd) /\ CountOK(l, E, bd) /\ FirstOK(q, l.first, bd) /\ q \in Seq(ExitRecs)
  BY <1>1 DEF LogOK, RingOK
<1>3. /\ k.unsatisfied = l.unsatisfied + (IF Unsatisfied(r) THEN 1 ELSE 0)
      /\ k.first = IF Unsatisfied(r) /\ l.first = NoRecord THEN r ELSE l.first
  BY <1>1 DEF RecordExit
<1>4. \/ Capacity = 0 /\ q2 = q /\ w = l.dropped + 1
      \/ Capacity # 0 /\ \E d \in {0, 1} : Moved(q, q2, r, d) /\ w = l.dropped + d
  BY <1>1, <1>2, RingMoves DEF RingOK, CountOK
<1>5. PICK g : /\ g = Longer(bd, r) /\ BadOK(E \cup {r.scope}, g)
               /\ Cardinality(E \cup {r.scope}) = Cardinality(E) + 1 /\ Cardinality(E) \in Nat
               /\ Entries(g) = Entries(bd) \cup (IF Unsatisfied(r) THEN {r.scope} ELSE {})
               /\ Len(g) = Len(bd) + (IF Unsatisfied(r) THEN 1 ELSE 0)
  BY <1>2, BadGrows
<1>6. FirstOK(q2, k.first, g)
  <2>1. FirstOK(q2, IF Unsatisfied(r) /\ l.first = NoRecord THEN r ELSE l.first, Longer(bd, r))
    BY <1>2, <1>4, FirstStays
  <2> QED BY <1>3, <1>5, <2>1
<1>7. RingOK(q2, E \cup {r.scope}, g)
  <2>1. CASE Capacity = 0 /\ q2 = q
    BY <1>2, <1>5, <2>1 DEF RingOK
  <2>2. ASSUME NEW d \in {0, 1}, Moved(q, q2, r, d), Capacity # 0 PROVE RingOK(q2, E \cup {r.scope}, g)
    BY <1>2, <1>5, <2>2, RingGrows
  <2> QED BY <1>4, <2>1, <2>2
<1>8. CountOK(k, E \cup {r.scope}, g)
  <2>1. k.unsatisfied = Len(g)
    BY <1>2, <1>3, <1>5 DEF CountOK
  <2>2. PICK n \in Nat, m \in Nat, c \in Nat : n = Len(q) /\ m = l.dropped /\ c = Cardinality(E)
    BY <1>2, <1>5 DEF CountOK
  <2>3. CASE Capacity = 0 /\ w = l.dropped + 1
    BY <1>1, <1>2, <1>5, <2>1, <2>2, <2>3 DEF CountOK
  <2>4. ASSUME Capacity # 0, NEW d \in {0, 1}, Moved(q, q2, r, d), w = l.dropped + d
        PROVE  CountOK(k, E \cup {r.scope}, g)
    <3>1. Len(q2) = (n - d) + 1 /\ w = m + d /\ m + n <= c
      BY <1>1, <1>2, <2>2, <2>4 DEF Moved, CountOK
    <3>2. w + Len(q2) <= c + 1 /\ w \in Nat
      BY <3>1
    <3> QED BY <1>1, <1>5, <2>1, <2>2, <2>4, <3>2 DEF CountOK
  <2> QED BY <1>4, <2>3, <2>4
<1> QED BY <1>1, <1>5, <1>6, <1>7, <1>8 DEF LogOK

\* f is the recursive function of Recorded on the first n records.
LogSteps(f, l, recs, n) ==
  f = [i \in 0..n |-> IF i = 0 THEN l ELSE RecordExit(f[i - 1], recs[i])]

\* There is such a function for every length.
LEMMA LogExists == ASSUME NEW l, NEW recs, NEW n \in Nat PROVE \E f : LogSteps(f, l, recs, n)
<1> DEFINE G == {m \in 0..n : \E f : LogSteps(f, l, recs, m)}
<1>1. 0 \in G
  <2>1. PICK f : f = [i \in 0..0 |-> l]
    OBVIOUS
  <2>2. LogSteps(f, l, recs, 0)
    BY <2>1 DEF LogSteps
  <2> QED BY <2>2
<1>2. ASSUME NEW m \in 1..n, m - 1 \in G PROVE m \in G
  <2>1. m - 1 \in Nat /\ m \in Nat /\ m # 0
    OBVIOUS
  <2>2. PICK f : LogSteps(f, l, recs, m - 1)
    BY <1>2
  <2>3. PICK last : last = RecordExit(f[m - 1], recs[m])
    OBVIOUS
  <2>4. PICK g : g = [i \in 0..m |-> IF i < m THEN f[i] ELSE last]
    OBVIOUS
  <2>5. \A i \in 0..(m - 1) : f[i] = IF i = 0 THEN l ELSE RecordExit(f[i - 1], recs[i])
    BY <2>2 DEF LogSteps
  <2>6. \A i \in 0..(m - 1) : g[i] = f[i]
    BY <2>1, <2>4
  <2>7. \A i \in 0..m : g[i] = IF i = 0 THEN l ELSE RecordExit(g[i - 1], recs[i])
    <3> SUFFICES ASSUME NEW i \in 0..m PROVE g[i] = IF i = 0 THEN l ELSE RecordExit(g[i - 1], recs[i])
      OBVIOUS
    <3>1. CASE i = m
      <4>1. g[m] = last /\ g[m - 1] = f[m - 1]
        BY <2>1, <2>4, <2>6
      <4> QED BY <2>1, <2>3, <3>1, <4>1
    <3>2. CASE i # m
      <4>1. i \in 0..(m - 1) /\ (i # 0 => i - 1 \in 0..(m - 1))
        BY <2>1, <3>2
      <4> QED BY <2>5, <2>6, <4>1
    <3> QED BY <3>1, <3>2
  <2>8. g = [i \in 0..m |-> IF i = 0 THEN l ELSE RecordExit(g[i - 1], recs[i])]
    BY <2>4, <2>7
  <2>9. LogSteps(g, l, recs, m)
    BY <2>8 DEF LogSteps
  <2> QED BY <2>9
<1>3. n \in G
  <2> HIDE DEF G
  <2> QED BY <1>1, <1>2, Climb
<1> QED BY <1>3

\* Recorded computes the last value of that function.
LEMMA RecordedRecursion ==
  ASSUME NEW l, NEW recs, Len(recs) \in Nat
  PROVE  \E f : /\ f[0] = l /\ f[Len(recs)] = Recorded(l, recs)
                /\ \A i \in 1..Len(recs) : f[i] = RecordExit(f[i - 1], recs[i])
<1>1. \E f : LogSteps(f, l, recs, Len(recs))
  BY LogExists
<1>2. PICK f : f = CHOOSE g : LogSteps(g, l, recs, Len(recs))
  OBVIOUS
<1>3. LogSteps(f, l, recs, Len(recs))
  BY <1>1, <1>2
<1>4. Recorded(l, recs) = f[Len(recs)]
  BY <1>2, Zenon DEF Recorded, LogSteps
<1>5. \A i \in 0..Len(recs) : f[i] = IF i = 0 THEN l ELSE RecordExit(f[i - 1], recs[i])
  BY <1>3 DEF LogSteps
<1>6. f[0] = l /\ \A i \in 1..Len(recs) : f[i] = RecordExit(f[i - 1], recs[i])
  BY <1>5
<1> QED BY <1>4, <1>6

\* The scopes of some records.
Names(recs) == [i \in DOMAIN recs |-> recs[i].scope]

\* One record more.
LEMMA NamesAppend ==
  ASSUME NEW X, NEW bd \in Seq(X), NEW f \in Seq(ExitRecs), NEW r \in ExitRecs,
         \A i \in 1..Len(f) : f[i].scope \in X, r.scope \in X
  PROVE  bd \o Names(Append(f, r)) = Append(bd \o Names(f), r.scope)
<1>1. PICK n \in Nat, m \in Nat : n = Len(bd) /\ m = Len(f)
  OBVIOUS
<1>2. PICK g : g = Append(f, r)
  OBVIOUS
<1>3. g \in Seq(ExitRecs) /\ Len(g) = m + 1 /\ g[m + 1] = r /\ \A i \in 1..m : g[i] = f[i]
  BY <1>1, <1>2
<1>4. PICK u, v : u = Names(f) /\ v = Names(g)
  OBVIOUS
<1>5. u \in Seq(X) /\ Len(u) = m /\ \A i \in 1..m : u[i] = f[i].scope
  <2>1. u \in [1..m -> X] /\ \A i \in 1..m : u[i] = f[i].scope
    BY <1>1, <1>4 DEF Names
  <2> QED BY <2>1, IsASeq, LenProperties
<1>6. v \in Seq(X) /\ Len(v) = m + 1 /\ v[m + 1] = r.scope /\ \A i \in 1..m : v[i] = u[i]
  <2>1. 1..(m + 1) = 1..m \cup {m + 1}
    BY <1>1
  <2>2. DOMAIN g = 1..(m + 1)
    BY <1>3
  <2>3. \A i \in 1..(m + 1) : v[i] = g[i].scope /\ v[i] \in X
    BY <1>1, <1>3, <1>4, <2>1, <2>2 DEF Names
  <2>4. v \in [1..(m + 1) -> X]
    BY <1>4, <2>2, <2>3 DEF Names
  <2>5. v \in Seq(X) /\ Len(v) = m + 1
    <3>1. m + 1 \in Nat
      BY <1>1
    <3> QED BY <2>4, <3>1, IsASeq, LenProperties
  <2> QED BY <1>3, <1>5, <2>1, <2>3, <2>5
<1>7. PICK a : a = bd \o u
  OBVIOUS
<1>14. PICK b : b = Append(a, r.scope)
  OBVIOUS
<1>15. PICK c : c = bd \o v
  OBVIOUS
<1>8. a \in Seq(X) /\ Len(a) = n + m /\ (\A i \in 1..n : a[i] = bd[i]) /\ (\A i \in 1..m : a[n + i] = u[i])
  <2>0. u \in Seq(X)
    BY <1>5
  <2>1. /\ bd \o u \in Seq(X) /\ Len(bd \o u) = Len(bd) + Len(u)
        /\ \A i \in 1..Len(bd) : (bd \o u)[i] = bd[i]
        /\ \A i \in 1..Len(u) : (bd \o u)[Len(bd) + i] = u[i]
    BY <2>0
  <2> QED BY <1>1, <1>5, <1>7, <2>1, Zenon
<1>9. b \in Seq(X) /\ Len(b) = (n + m) + 1 /\ b[(n + m) + 1] = r.scope /\ \A i \in 1..(n + m) : b[i] = a[i]
  BY <1>8, <1>14, Appended
<1>10. c \in Seq(X) /\ Len(c) = n + (m + 1) /\ (\A i \in 1..n : c[i] = bd[i]) /\ (\A i \in 1..(m + 1) : c[n + i] = v[i])
  <2>0. v \in Seq(X)
    BY <1>6
  <2>1. /\ bd \o v \in Seq(X) /\ Len(bd \o v) = Len(bd) + Len(v)
        /\ \A i \in 1..Len(bd) : (bd \o v)[i] = bd[i]
        /\ \A i \in 1..Len(v) : (bd \o v)[Len(bd) + i] = v[i]
    BY <2>0
  <2> QED BY <1>1, <1>6, <1>15, <2>1, Zenon
<1>11. Len(b) = Len(c) /\ Len(b) = (n + m) + 1
  BY <1>1, <1>9, <1>10
<1>12. ASSUME NEW i \in 1..((n + m) + 1) PROVE b[i] = c[i]
  <2>1. CASE i \in 1..n
    <3>1. i \in 1..(n + m)
      BY <1>1, <2>1
    <3> QED BY <1>8, <1>9, <1>10, <2>1, <3>1
  <2>2. CASE i > n /\ i # (n + m) + 1
    <3>1. i - n \in 1..m /\ i - n \in 1..(m + 1) /\ n + (i - n) = i /\ i \in 1..(n + m)
      BY <1>1, <2>2
    <3>2. a[n + (i - n)] = u[i - n] /\ c[n + (i - n)] = v[i - n]
      BY <1>8, <1>10, <3>1
    <3> QED BY <1>6, <1>9, <3>1, <3>2
  <2>3. CASE i = (n + m) + 1
    <3>1. n + (m + 1) = i /\ m + 1 \in 1..(m + 1)
      BY <1>1, <2>3
    <3> QED BY <1>6, <1>9, <1>10, <2>3, <3>1
  <2>4. i \in 1..n \/ (i > n /\ i # (n + m) + 1) \/ i = (n + m) + 1
    BY <1>1
  <2> QED BY <2>1, <2>2, <2>3, <2>4
<1>13. b = c
  BY <1>9, <1>10, <1>11, <1>12, SeqEqual
<1> QED BY <1>2, <1>4, <1>7, <1>13, <1>14, <1>15

\* Records of scopes that had not exited, each of another scope.
Fresh(recs, E) ==
  /\ recs \in Seq(ExitRecs) /\ Single(recs)
  /\ \A i \in 1..Len(recs) : recs[i].scope \notin E /\ recs[i].scope # 0

\* The log after them.
LEMMA RecordedLog ==
  ASSUME NEW l, NEW E, NEW bd, LogOK(l, E, bd), NEW recs, Fresh(recs, E)
  PROVE  LogOK(Recorded(l, recs), E \cup {recs[i].scope : i \in 1..Len(recs)}, bd \o Names(Failures(recs)))
<1>1. PICK n \in Nat : n = Len(recs) /\ recs \in Seq(ExitRecs)
  BY DEF Fresh
<1>2. PICK S : S = {r \in Range(recs) : Unsatisfied(r)}
  OBVIOUS
<1>3. \A i \in 1..n : recs[i] \in S <=> Unsatisfied(recs[i])
  BY <1>1, <1>2 DEF Range
<1>4. PICK f : /\ f[0] = <<>> /\ f[n] = Retain(recs, S)
               /\ \A i \in 1..n : f[i] = IF recs[i] \in S THEN Append(f[i - 1], recs[i]) ELSE f[i - 1]
  <2>1. PICK X : recs \in Seq(X)
    BY <1>1
  <2>2. \E f : /\ f[0] = <<>> /\ f[Len(recs)] = Retain(recs, S)
               /\ \A i \in 1..Len(recs) :
                    f[i] = IF recs[i] \in S THEN Append(f[i - 1], recs[i]) ELSE f[i - 1]
    BY <2>1, RetainRecursion
  <2> QED BY <1>1, <2>2
<1>5. PICK g : /\ g[0] = l /\ g[n] = Recorded(l, recs)
               /\ \A i \in 1..n : g[i] = RecordExit(g[i - 1], recs[i])
  <2>1. PICK X : recs \in Seq(X)
    BY <1>1
  <2>2. \E g : /\ g[0] = l /\ g[Len(recs)] = Recorded(l, recs)
               /\ \A i \in 1..Len(recs) : g[i] = RecordExit(g[i - 1], recs[i])
    BY <2>1, RecordedRecursion
  <2> QED BY <1>1, <2>2
<1> DEFINE Known(i) == E \cup {recs[k].scope : k \in 1..i}
           Good(u, k, K) == u \in Seq(ExitRecs) /\ (\A j \in 1..Len(u) : u[j].scope \in K) /\ LogOK(k, K, bd \o Names(u))
           G == {i \in 0..n : Good(f[i], g[i], Known(i))}
<1>6. 0 \in G
  <2>1. Known(0) = E
    OBVIOUS
  <2>2. bd \in Seq(E)
    BY DEF LogOK, BadOK
  <2>3. Names(<<>>) = <<>>
    BY DEF Names
  <2>4. bd \o <<>> = bd
    BY <2>2
  <2>5. LogOK(g[0], Known(0), bd \o Names(f[0]))
    BY <1>4, <1>5, <2>1, <2>3, <2>4
  <2>6. f[0] \in Seq(ExitRecs) /\ Len(f[0]) = 0
    BY <1>4
  <2> QED BY <1>1, <2>5, <2>6
<1>7. ASSUME NEW i \in 1..n, i - 1 \in G PROVE i \in G
  <2>1. PICK r : r = recs[i] /\ r \in ExitRecs /\ r.scope \notin E /\ r.scope # 0
    BY <1>1 DEF Fresh
  <2>2. i \in Nat /\ i - 1 \in Nat /\ 1..i = 1..(i - 1) \cup {i} /\ i \notin 1..(i - 1)
    BY <1>1
  <2>3. r.scope \notin Known(i - 1) /\ Known(i) = Known(i - 1) \cup {r.scope}
    <3>1. \A k \in 1..(i - 1) : k \in 1..n /\ k # i
      BY <1>1
    <3>2. \A k \in 1..(i - 1) : recs[k].scope # r.scope
      BY <1>1, <2>1, <3>1 DEF Fresh, Single
    <3> QED BY <2>1, <2>2, <3>2
  <2>4. PICK u, K : u = f[i - 1] /\ K = Known(i - 1)
    OBVIOUS
  <2>5. u \in Seq(ExitRecs) /\ (\A k \in 1..Len(u) : u[k].scope \in K) /\ LogOK(g[i - 1], K, bd \o Names(u))
    BY <1>7, <2>4
  <2>6. LogOK(g[i], K \cup {r.scope}, Longer(bd \o Names(u), r))
    <3>1. LogOK(RecordExit(g[i - 1], r), K \cup {r.scope}, Longer(bd \o Names(u), r))
      <4>1. PICK k, b : k = g[i - 1] /\ b = bd \o Names(u)
        OBVIOUS
      <4> QED BY <2>1, <2>3, <2>4, <2>5, <4>1, RecordStep
    <3> QED BY <1>5, <2>1, <3>1
  <2>7. CASE ~Unsatisfied(r)
    <3>1. f[i] = u /\ Longer(bd \o Names(u), r) = bd \o Names(u)
      BY <1>3, <1>4, <2>1, <2>4, <2>7 DEF Longer
    <3>2. LogOK(g[i], K \cup {r.scope}, bd \o Names(f[i]))
      BY <2>6, <3>1
    <3>3. Known(i) = K \cup {r.scope}
      BY <2>3, <2>4
    <3>4. Good(u, g[i], K \cup {r.scope})
      BY <2>5, <3>1, <3>2
    <3> HIDE DEF Known, Good
    <3>5. Good(f[i], g[i], Known(i))
      BY <3>1, <3>3, <3>4, Zenon
    <3> QED BY <1>1, <3>5
  <2>8. CASE Unsatisfied(r)
    <3>1. f[i] = Append(u, r)
      BY <1>3, <1>4, <2>1, <2>4, <2>8
    <3>2. PICK X : X = K \cup {r.scope}
      OBVIOUS
    <3>3. bd \in Seq(X)
      <4>1. bd \in Seq(E)
        BY DEF LogOK, BadOK
      <4>2. X = E \cup X
        BY <2>4, <3>2
      <4>3. \A q : q \in Seq(E) => q \in Seq(E \cup X)
        OBVIOUS
      <4> QED BY <4>1, <4>2, <4>3
    <3>4. bd \o Names(Append(u, r)) = Append(bd \o Names(u), r.scope)
      BY <2>1, <2>5, <3>2, <3>3, NamesAppend
    <3>5. LogOK(g[i], X, bd \o Names(f[i]))
      BY <2>6, <2>8, <3>1, <3>2, <3>4 DEF Longer
    <3>6. Known(i) = X
      BY <2>3, <2>4, <3>2
    <3>7. PICK v : v = Append(u, r)
      OBVIOUS
    <3>8. v \in Seq(ExitRecs) /\ \A k \in 1..Len(v) : v[k].scope \in X
      <4>1. PICK m \in Nat : m = Len(u)
        BY <2>5
      <4>2. v \in Seq(ExitRecs) /\ Len(v) = m + 1 /\ v[m + 1] = r /\ \A k \in 1..m : v[k] = u[k]
        BY <2>1, <2>5, <3>7, <4>1
      <4>3. 1..(m + 1) = 1..m \cup {m + 1}
        BY <4>1
      <4> QED BY <2>5, <3>2, <4>1, <4>2, <4>3
    <3>9. Good(v, g[i], X)
      BY <3>1, <3>5, <3>7, <3>8
    <3> HIDE DEF Known, Good
    <3>10. Good(f[i], g[i], Known(i))
      BY <3>1, <3>6, <3>7, <3>9, Zenon
    <3> QED BY <1>1, <3>10
  <2> QED BY <2>7, <2>8
<1>8. n \in G
  <2> HIDE DEF G
  <2> QED BY <1>6, <1>7, Climb
<1>9. Failures(recs) = f[n]
  BY <1>2, <1>4 DEF Failures
<1> QED BY <1>1, <1>5, <1>8, <1>9

\* A listing names each scope once.
LEMMA ListedSingle ==
  ASSUME scopes \in Seq(ScopeStates), NEW set \in SUBSET Active, NEW kind \in ExitKinds
  PROVE  Single(Listed(set, kind))
<1>1. PICK n \in Nat : n = Len(scopes)
  OBVIOUS
<1>2. PICK all : all = [s \in 1..n |-> s]
  OBVIOUS
<1>3. all \in Seq(1..n) /\ Len(all) = n
  <2>1. all \in [1..n -> 1..n]
    BY <1>2
  <2> QED BY <2>1, IsASeq, LenProperties
<1>4. PICK order : order = Retain(all, set)
  OBVIOUS
<1>5. order \in Seq((1..n) \cap set)
  BY <1>3, <1>4, RetainEntries
<1>6. PICK m \in Nat : m = Len(order) /\ DOMAIN order = 1..m
  BY <1>5
<1>7. PICK h : /\ h \in [1..m -> 1..n] /\ \A i \in 1..m : order[i] = all[h[i]]
               /\ \A i, j \in 1..m : i < j => h[i] < h[j]
  <2>1. \E h : Places(h, order, all, Len(all))
    BY <1>3, <1>4, RetainEmbeds
  <2> QED BY <1>3, <1>6, <2>1 DEF Places
<1>8. PICK l : l = Listed(set, kind)
  OBVIOUS
<1>9. l = [i \in 1..m |-> [scope |-> order[i], kind |-> kind]]
  BY <1>1, <1>2, <1>4, <1>6, <1>8 DEF Listed
<1>10. Len(l) = m /\ \A i \in 1..m : l[i].scope = h[i]
  <2>1. \A i \in 1..m : order[i] = h[i]
    BY <1>2, <1>7
  <2>2. l \in [1..m -> {[scope |-> order[i], kind |-> kind] : i \in 1..m}]
    BY <1>9
  <2> QED BY <1>9, <2>1, <2>2, LenProperties
<1>11. ASSUME NEW i \in 1..m, NEW j \in 1..m, h[i] = h[j] PROVE i = j
  <2>1. h[i] \in Nat /\ h[j] \in Nat
    BY <1>7
  <2>2. ~(i < j) /\ ~(j < i)
    BY <1>7, <1>11, <2>1
  <2> QED BY <2>2
<1> QED BY <1>8, <1>10, <1>11 DEF Single

\* So does the reversed one.
LEMMA ReverseSingle == ASSUME NEW l \in Seq(Exits), Single(l) PROVE Single(Reverse(l))
<1>1. PICK n \in Nat : n = Len(l)
  OBVIOUS
<1>2. PICK r : r = Reverse(l)
  OBVIOUS
<1>3. r = [i \in 1..n |-> l[(n - i) + 1]]
  BY <1>1, <1>2 DEF Reverse
<1>4. \A i \in 1..n : (n - i) + 1 \in 1..n
  BY <1>1
<1>5. r \in [1..n -> Exits]
  BY <1>1, <1>3, <1>4
<1>6. Len(r) = n
  BY <1>5, LenProperties
<1>7. ASSUME NEW i \in 1..n, NEW j \in 1..n, r[i].scope = r[j].scope PROVE i = j
  <2>1. (n - i) + 1 = (n - j) + 1
    BY <1>1, <1>3, <1>4, <1>7 DEF Single
  <2> QED BY <1>1, <2>1
<1> QED BY <1>2, <1>6, <1>7 DEF Single

\* Lists of different scopes.
LEMMA ConcatSingle ==
  ASSUME NEW p \in Seq(Exits), NEW q \in Seq(Exits), Single(p), Single(q), Ended(p) \cap Ended(q) = {}
  PROVE  Single(p \o q)
<1>1. PICK n \in Nat, m \in Nat : n = Len(p) /\ m = Len(q)
  OBVIOUS
<1>2. PICK g : g = p \o q
  OBVIOUS
<1>3. /\ Len(g) = n + m /\ (\A i \in 1..n : g[i] = p[i]) /\ (\A i \in 1..(n + m) : i > n => g[i] = q[i - n])
  <2>1. \A i \in 1..(n + m) : g[i] = IF i <= n THEN p[i] ELSE q[i - n]
    BY <1>1, <1>2, ConcatProperties
  <2>2. Len(g) = n + m
    BY <1>1, <1>2
  <2>3. \A i \in 1..n : i \in 1..(n + m) /\ i <= n
    BY <1>1
  <2> QED BY <1>1, <2>1, <2>2, <2>3
<1>4. \A i \in 1..(n + m) : i \in 1..n \/ (i > n /\ i - n \in 1..m)
  BY <1>1
<1>5. (\A i \in 1..n : p[i].scope \in Ended(p)) /\ (\A i \in 1..m : q[i].scope \in Ended(q))
  <2>1. DOMAIN p = 1..n /\ DOMAIN q = 1..m
    BY <1>1
  <2> QED BY <2>1 DEF Ended
<1>6. ASSUME NEW i \in 1..(n + m), NEW j \in 1..(n + m), g[i].scope = g[j].scope PROVE i = j
  <2>1. CASE i \in 1..n /\ j \in 1..n
    BY <1>1, <1>3, <1>6, <2>1 DEF Single
  <2>2. CASE i \in 1..n /\ j > n /\ j - n \in 1..m
    BY <1>3, <1>5, <1>6, <2>2
  <2>3. CASE j \in 1..n /\ i > n /\ i - n \in 1..m
    BY <1>3, <1>5, <1>6, <2>3
  <2>4. CASE i > n /\ i - n \in 1..m /\ j > n /\ j - n \in 1..m
    <3>1. i - n = j - n
      BY <1>1, <1>3, <1>6, <2>4 DEF Single
    <3> QED BY <1>1, <3>1
  <2> QED BY <1>4, <2>1, <2>2, <2>3, <2>4
<1> QED BY <1>2, <1>3, <1>6 DEF Single

\* Abandoned scopes are listed once.
LEMMA AbandonSingle == ASSUME scopes \in Seq(ScopeStates), NEW set PROVE Single(Abandon(set))
<1>1. "Abort" \in ExitKinds /\ set \cap Active \in SUBSET Active
  BY DEF ExitKinds
<1> QED BY <1>1, ListedSingle DEF Abandon

\* An error makes each scope exit once.
LEMMA UnwoundSingle ==
  ASSUME NEW frames, WellBuilt(frames, Views), Owned(frames) \subseteq Active, scopes \in Seq(ScopeStates)
  PROVE  Single(Unwound(frames))
<1>1. PICK W : Closed(W, Views) /\ frames \in Seq(W) /\ Apart(frames, Views)
  BY DEF WellBuilt
<1>2. PICK S : S = {f \in Range(frames) : f.k = "scope"}
  OBVIOUS
<1>3. PICK left : left = Retain(frames, S)
  OBVIOUS
<1>4. left \in Seq(W \cap S)
  BY <1>1, <1>3, RetainEntries
<1>5. PICK m \in Nat, n \in Nat : m = Len(left) /\ DOMAIN left = 1..m /\ n = Len(frames) /\ DOMAIN frames = 1..n
  BY <1>1, <1>4
<1>6. PICK h : /\ h \in [1..m -> 1..n] /\ \A i \in 1..m : left[i] = frames[h[i]]
               /\ \A i, j \in 1..m : i < j => h[i] < h[j]
  <2>1. \E h : Places(h, left, frames, Len(frames))
    BY <1>1, <1>3, RetainEmbeds
  <2> QED BY <1>5, <2>1 DEF Places
<1>7. PICK p : p = [i \in DOMAIN left |-> [scope |-> left[i].id, kind |-> "ErrorPropagation"]]
  OBVIOUS
<1>8. \A i \in 1..m : left[i].k = "scope" /\ left[i].owns = {left[i].id}
  BY <1>1, <1>2, <1>4, <1>5 DEF Closed, Shape
<1>9. ASSUME NEW i \in 1..m, NEW j \in 1..m, i < j PROVE left[i].id # left[j].id
  <2>1. h[i] \in 1..n /\ h[j] \in 1..n /\ h[i] < h[j]
    BY <1>6, <1>9
  <2>2. frames[h[i]].owns \cap frames[h[j]].owns = {}
    BY <1>1, <1>5, <2>1 DEF Apart, Over
  <2> QED BY <1>6, <1>8, <2>2
<1>10. \A i \in 1..m : left[i].id \in Mirror(frames)
  <2>1. \A i \in 1..m : h[i] \in DOMAIN frames /\ frames[h[i]].k = "scope" /\ frames[h[i]].id = left[i].id
    BY <1>5, <1>6, <1>8
  <2> QED BY <2>1 DEF Mirror
<1>11. p \in [1..m -> Exits] /\ \A i \in 1..m : p[i].scope = left[i].id
  <2>1. \A i \in 1..m : left[i].id \in Active
    BY <1>10, MirrorOwned
  <2>2. "ErrorPropagation" \in ExitKinds
    BY DEF ExitKinds
  <2> QED BY <1>5, <1>7, <2>1, <2>2 DEF Exits
<1>12. p \in Seq(Exits) /\ Len(p) = m /\ DOMAIN p = 1..m
  BY <1>11, IsASeq, LenProperties
<1>13. Single(p)
  <2>1. ASSUME NEW i \in 1..m, NEW j \in 1..m, left[i].id = left[j].id PROVE i = j
    <3>1. ~(i < j) /\ ~(j < i)
      BY <1>9, <2>1
    <3> QED BY <3>1
  <2> QED BY <1>11, <1>12, <2>1 DEF Single
<1>14. Ended(p) \subseteq Mirror(frames)
  BY <1>10, <1>11, <1>12 DEF Ended
<1>15. PICK q : q = Abandon(CapturedIn(frames))
  OBVIOUS
<1>16. q \in Seq(Exits) /\ Ended(q) = CapturedIn(frames) \cap Active /\ Single(q)
  BY <1>15, AbandonExits, AbandonSingle
<1>17. Ended(p) \cap Ended(q) = {}
  BY <1>14, <1>16 DEF CapturedIn
<1>18. Unwound(frames) = p \o q
  BY <1>2, <1>3, <1>7, <1>15 DEF Unwound
<1> QED BY <1>12, <1>13, <1>16, <1>17, <1>18, ConcatSingle

\* The scopes that have exited.
Exited(sc) == {s \in 1..Len(sc) : sc[s].exit # "none"}

\* Exits enter the log.
LEMMA SettledLog ==
  ASSUME FrameInv, LogOK(log, Exited(scopes), bad), NEW list \in Seq(Exits), Single(list), SettleScopes(list)
  PROVE  LogOK(log', Exited(scopes'), bad')
<1>1. Counted(scopes, exits) /\ scopes \in Seq(ScopeStates)
  BY DEF FrameInv, Whole, Counted
<1>2. PICK n \in Nat : n = Len(list) /\ DOMAIN list = 1..n /\ \A i \in 1..n : list[i] \in Exits
  OBVIOUS
<1>3. PICK recs : recs = ExitRecords(list)
  OBVIOUS
<1>4. \A i \in 1..n : list[i].scope \in Active /\ list[i].kind \in ExitKinds
  BY <1>2 DEF Exits
<1>5. DOMAIN recs = 1..n /\ \A i \in 1..n : recs[i] \in ExitRecs /\ recs[i].scope = list[i].scope
  <2>1. recs = [i \in 1..n |-> [scope |-> list[i].scope, kind |-> list[i].kind,
                                result |-> ExitResult(list[i].scope, list[i].kind)]]
    BY <1>2, <1>3 DEF ExitRecords
  <2>2. \A s, k : ExitResult(s, k) \in {"Accepting", "PendingEvidence", "Incomplete"}
    BY DEF ExitResult
  <2>3. \A s \in Active : s \in Nat
    BY <1>1 DEF Active
  <2> QED BY <1>4, <2>1, <2>2, <2>3 DEF ExitRecs
<1>6. recs \in Seq(ExitRecs) /\ Len(recs) = n
  <2>1. recs \in [1..n -> ExitRecs]
    <3>1. recs = [i \in 1..n |-> recs[i]]
      BY <1>2, <1>3 DEF ExitRecords
    <3> QED BY <1>5, <3>1
  <2> QED BY <2>1, IsASeq, LenProperties
<1>7. Fresh(recs, Exited(scopes))
  <2>1. Single(recs)
    BY <1>2, <1>5, <1>6 DEF Single
  <2>2. \A s \in Active : s \notin Exited(scopes) /\ s # 0
    BY <1>1, ActiveScopes DEF Exited
  <2> QED BY <1>4, <1>5, <1>6, <2>1, <2>2 DEF Fresh
<1>8. PICK lost : lost = Failures(recs)
  OBVIOUS
<1>9. log' = Recorded(log, recs) /\ bad' = bad \o Names(Failures(recs))
  BY <1>3 DEF SettleScopes, Names
<1>10. {recs[i].scope : i \in 1..Len(recs)} = Ended(list)
  BY <1>2, <1>5, <1>6 DEF Ended
<1>11. /\ Counted(scopes', exits') /\ Len(scopes') = Len(scopes) /\ Ended(list) \subseteq Active
       /\ \A s \in 1..Len(scopes) : IF s \in Ended(list) THEN HasExited(s) ELSE scopes'[s] = scopes[s]
  BY <1>1, Settles
<1>12. Exited(scopes') = Exited(scopes) \cup Ended(list)
  <2>1. \A s \in Ended(list) : s \in 1..Len(scopes)
    BY <1>1, <1>11, ActiveScopes
  <2>2. ASSUME NEW s \in Ended(list) PROVE scopes'[s].exit # "none"
    <3>1. PICK r : r = scopes[s] /\ r \in ScopeStates
      BY <1>1, <2>1
    <3>2. PICK q : q = scopes'[s]
      OBVIOUS
    <3>3. PICK k \in ExitKinds : q = [r EXCEPT !.exit = k]
      BY <1>11, <2>1, <3>1, <3>2 DEF HasExited
    <3>4. q.exit = k
      BY <3>1, <3>3 DEF ScopeStates
    <3> QED BY <3>2, <3>3, <3>4 DEF ExitKinds
  <2> QED BY <1>11, <2>1, <2>2 DEF Exited
<1>13. LogOK(Recorded(log, recs), Exited(scopes) \cup {recs[i].scope : i \in 1..Len(recs)}, bad \o Names(Failures(recs)))
  <2>1. PICK l, E, bd : l = log /\ E = Exited(scopes) /\ bd = bad
    OBVIOUS
  <2> QED BY <1>7, <2>1, RecordedLog
<1> QED BY <1>9, <1>10, <1>12, <1>13

\* F are the failures among the records of q, in their order.
Selected(F, q) ==
  /\ F \in Seq(ExitRecs) /\ Single(F) /\ Len(F) <= Len(q)
  /\ \A i \in 1..Len(F) : Unsatisfied(F[i]) /\ \E k \in 1..Len(q) : F[i] = q[k]
  /\ \A k \in 1..Len(q) : Unsatisfied(q[k]) => \E i \in 1..Len(F) : F[i] = q[k]
  /\ \A i, j \in 1..Len(q) : Unsatisfied(q[i]) /\ F # <<>> /\ F[1] = q[j] => j <= i

\* One sequence embedded in another is not longer.
LEMMA NotLonger ==
  ASSUME NEW m \in Nat, NEW n \in Nat, NEW h \in [1..m -> 1..n], \A i, j \in 1..m : h[i] = h[j] => i = j
  PROVE  m <= n
<1>1. IsFiniteSet(1..m) /\ IsFiniteSet(1..n) /\ Cardinality(1..m) = m /\ Cardinality(1..n) = n
  BY FS_Interval
<1>2. ASSUME n < m PROVE FALSE
  <2>1. \E x, y \in 1..m : x # y /\ h[x] = h[y]
    BY <1>1, <1>2, FS_PigeonHole
  <2> QED BY <2>1
<1> QED BY <1>2

\* Failures selects them.
LEMMA FailuresSelected ==
  ASSUME NEW q \in Seq(ExitRecs), Single(q) PROVE Selected(Failures(q), q)
<1>1. PICK n \in Nat : n = Len(q) /\ DOMAIN q = 1..n
  OBVIOUS
<1>2. PICK S : S = {r \in Range(q) : Unsatisfied(r)}
  OBVIOUS
<1>3. \A i \in 1..n : q[i] \in S <=> Unsatisfied(q[i])
  BY <1>1, <1>2 DEF Range
<1>4. PICK F : F = Retain(q, S)
  OBVIOUS
<1>5. F = Failures(q)
  BY <1>2, <1>4 DEF Failures
<1>6. F \in Seq(ExitRecs \cap S) /\ Entries(F) = Entries(q) \cap S
  BY <1>4, RetainEntries
<1>7. F \in Seq(ExitRecs)
  <2>1. \A u : u \in Seq(ExitRecs \cap S) => u \in Seq(ExitRecs)
    OBVIOUS
  <2> QED BY <1>6, <2>1
<1>8. PICK m \in Nat : m = Len(F)
  BY <1>7
<1>9. PICK h : /\ h \in [1..m -> 1..n] /\ \A i \in 1..m : F[i] = q[h[i]]
               /\ \A i, j \in 1..m : i < j => h[i] < h[j]
  <2>1. \E h : Places(h, F, q, Len(q))
    BY <1>4, RetainEmbeds
  <2> QED BY <1>1, <1>8, <2>1 DEF Places
<1>10. \A i, j \in 1..m : h[i] = h[j] => i = j
  <2> SUFFICES ASSUME NEW i \in 1..m, NEW j \in 1..m, h[i] = h[j] PROVE i = j
    OBVIOUS
  <2>1. h[i] \in Nat /\ h[j] \in Nat
    BY <1>9
  <2>2. ~(i < j) /\ ~(j < i)
    BY <1>9, <2>1
  <2> QED BY <2>2
<1>11. m <= n
  BY <1>9, <1>10, NotLonger
<1>12. \A i \in 1..m : Unsatisfied(F[i])
  <2>1. \A i \in 1..m : F[i] \in S
    BY <1>6, <1>8
  <2> QED BY <1>2, <2>1
<1>13. \A k \in 1..n : Unsatisfied(q[k]) => \E i \in 1..m : F[i] = q[k]
  <2> SUFFICES ASSUME NEW k \in 1..n, Unsatisfied(q[k]) PROVE \E i \in 1..m : F[i] = q[k]
    OBVIOUS
  <2>1. q[k] \in Entries(q) /\ q[k] \in S
    BY <1>1, <1>3 DEF Entries
  <2>2. q[k] \in Entries(F)
    BY <1>6, <2>1
  <2> QED BY <1>8, <2>2 DEF Entries
<1>14. Single(F)
  BY <1>1, <1>8, <1>9, <1>10 DEF Single
<1>15. ASSUME NEW i \in 1..n, NEW j \in 1..n, Unsatisfied(q[i]), F # <<>>, F[1] = q[j] PROVE j <= i
  <2>1. 1 \in 1..m
    BY <1>7, <1>8, <1>15
  <2>2. h[1] \in 1..n /\ q[h[1]].scope = q[j].scope
    BY <1>9, <1>15, <2>1
  <2>3. h[1] = j
    BY <1>1, <2>2 DEF Single
  <2>4. PICK k \in 1..m : F[k] = q[i]
    BY <1>13, <1>15
  <2>5. h[k] \in 1..n /\ q[h[k]].scope = q[i].scope
    BY <1>9, <2>4
  <2>6. h[k] = i
    BY <1>1, <2>5 DEF Single
  <2>7. CASE k = 1
    BY <2>3, <2>6, <2>7
  <2>8. CASE k # 1
    <3>1. 1 < k
      BY <2>8
    <3> QED BY <1>9, <2>1, <2>3, <2>6, <3>1
  <2> QED BY <2>7, <2>8
<1>16. \A i \in 1..m : \E k \in 1..n : F[i] = q[k]
  BY <1>9
<1> QED BY <1>1, <1>5, <1>7, <1>8, <1>11, <1>12, <1>13, <1>14, <1>15, <1>16 DEF Selected

\* D is a report of the failures bd: it starts with the first of them.
Report(D, E, bd) ==
  /\ D \in Seq(ExitRecs) /\ Single(D)
  /\ \A i \in 1..Len(D) : Unsatisfied(D[i]) /\ D[i].scope \in Entries(bd) /\ D[i].scope \in E
  /\ IF bd = <<>> THEN D = <<>> ELSE D # <<>> /\ D[1].scope = bd[1]

\* R is the beginning of F.
Beginning(R, F) == R \in Seq(ExitRecs) /\ Len(R) <= Len(F) /\ \A i \in 1..Len(R) : R[i] = F[i]

\* The failures in the ring are a report, but for an evicted first one; put
\* before any beginning of them it makes one.
LEMMA Reported ==
  ASSUME NEW l, NEW E, NEW bd, LogOK(l, E, bd), NEW F, F = Failures(l.exits)
  PROVE  /\ F \in Seq(ExitRecs) /\ Len(F) <= Len(l.exits)
         /\ ~Evicted(l, F) => Report(F, E, bd)
         /\ Evicted(l, F) => Capacity = 0 \/ Len(l.exits) = Capacity
         /\ \A R : Evicted(l, F) /\ Beginning(R, F) => Report(<<l.first>> \o R, E, bd)
<1>1. PICK q, first : q = l.exits /\ first = l.first
  OBVIOUS
<1>2. RingOK(q, E, bd) /\ BadOK(E, bd) /\ FirstOK(q, first, bd)
  BY <1>1 DEF LogOK
<1>3. q \in Seq(ExitRecs) /\ Single(q) /\ bd \in Seq(E) /\ E \in SUBSET (Nat \ {0})
  BY <1>2 DEF RingOK, BadOK
<1>4. Selected(F, q)
  BY <1>1, <1>3, FailuresSelected
<1>5. PICK n \in Nat, m \in Nat : n = Len(q) /\ m = Len(F) /\ DOMAIN F = 1..m /\ F \in Seq(ExitRecs)
  BY <1>3, <1>4 DEF Selected
<1>6. \A i \in 1..m : Unsatisfied(F[i]) /\ F[i].scope \in Entries(bd) /\ F[i].scope \in E
  BY <1>2, <1>4, <1>5 DEF Selected, RingOK
<1>7. Evicted(l, F) <=> first # NoRecord /\ \A i \in 1..m : F[i].scope # first.scope
  BY <1>1, <1>5 DEF Evicted
<1>8. bd # <<>> => /\ first \in ExitRecs /\ Unsatisfied(first) /\ first.scope = bd[1] /\ first # NoRecord
                   /\ bd[1] \in E /\ bd[1] \in Entries(bd)
  <2> SUFFICES ASSUME bd # <<>>
               PROVE  /\ first \in ExitRecs /\ Unsatisfied(first) /\ first.scope = bd[1] /\ first # NoRecord
                      /\ bd[1] \in E /\ bd[1] \in Entries(bd)
    OBVIOUS
  <2>1. first \in ExitRecs /\ Unsatisfied(first) /\ first.scope = bd[1]
    BY <1>2 DEF FirstOK
  <2>2. bd[1] \in E /\ bd[1] # 0 /\ 1 \in 1..Len(bd)
    BY <1>3
  <2>3. first # NoRecord
    BY <2>1, <2>2 DEF NoRecord
  <2> QED BY <2>1, <2>2, <2>3 DEF Entries
<1>9. bd = <<>> => first = NoRecord /\ Entries(bd) = {}
  BY <1>2 DEF FirstOK, Entries
<1>10. ASSUME ~Evicted(l, F) PROVE Report(F, E, bd)
  <2>1. CASE bd = <<>>
    <3>1. F = <<>>
      BY <1>5, <1>6, <1>9, <2>1
    <3> QED BY <1>4, <1>6, <2>1, <3>1 DEF Report, Selected
  <2>2. CASE bd # <<>>
    <3>1. PICK i \in 1..m : F[i].scope = bd[1]
      BY <1>7, <1>8, <1>10, <2>2
    <3>2. PICK k \in 1..n : F[i] = q[k]
      BY <1>4, <1>5 DEF Selected
    <3>3. F # <<>> /\ 1 \in 1..m
      BY <1>5, <3>1
    <3>4. PICK j \in 1..n : F[1] = q[j]
      BY <1>4, <1>5, <3>3 DEF Selected
    <3>5. Unsatisfied(q[k]) /\ Unsatisfied(q[j]) /\ q[k].scope = bd[1]
      BY <1>6, <3>1, <3>2, <3>3, <3>4
    <3>6. k <= j
      BY <1>2, <1>5, <2>2, <3>5 DEF FirstOK
    <3>7. j <= k
      BY <1>4, <1>5, <3>3, <3>4, <3>5 DEF Selected
    <3>8. F[1].scope = bd[1]
      <4>1. j = k
        BY <3>6, <3>7
      <4> QED BY <3>4, <3>5, <4>1
    <3> QED BY <1>4, <1>5, <1>6, <2>2, <3>3, <3>8 DEF Report, Selected
  <2> QED BY <2>1, <2>2
<1>11. ASSUME Evicted(l, F) PROVE Capacity = 0 \/ n = Capacity
  <2>1. bd # <<>>
    BY <1>7, <1>9, <1>11
  <2>2. \A i \in 1..n : Unsatisfied(q[i]) => q[i].scope # bd[1]
    <3> SUFFICES ASSUME NEW i \in 1..n, Unsatisfied(q[i]) PROVE q[i].scope # bd[1]
      OBVIOUS
    <3>1. PICK k \in 1..m : F[k] = q[i]
      BY <1>4, <1>5 DEF Selected
    <3>2. F[k].scope # first.scope
      BY <1>7, <1>11
    <3> QED BY <1>8, <2>1, <3>1, <3>2
  <2> QED BY <1>2, <1>5, <2>1, <2>2 DEF FirstOK
<1>12. ASSUME NEW R, Evicted(l, F), Beginning(R, F) PROVE Report(<<first>> \o R, E, bd)
  <2>1. bd # <<>>
    BY <1>7, <1>9, <1>12
  <2>2. PICK r \in ExitRecs : r = first /\ Unsatisfied(r) /\ r.scope = bd[1] /\ bd[1] \in E /\ bd[1] \in Entries(bd)
    BY <1>8, <2>1
  <2>3. PICK k \in Nat : k = Len(R) /\ R \in Seq(ExitRecs) /\ k <= m /\ \A i \in 1..k : i \in 1..m /\ R[i] = F[i]
    BY <1>5, <1>12 DEF Beginning
  <2>4. PICK D : D = <<r>> \o R
    OBVIOUS
  <2>5. /\ D \in Seq(ExitRecs) /\ Len(D) = k + 1 /\ D[1] = r
        /\ \A i \in 1..(k + 1) : i # 1 => i - 1 \in 1..k /\ D[i] = R[i - 1]
    <3>1. <<r>> \in Seq(ExitRecs) /\ Len(<<r>>) = 1 /\ <<r>>[1] = r
      BY <2>2
    <3>2. D \in Seq(ExitRecs) /\ Len(D) = 1 + k /\ \A i \in 1..(1 + k) : D[i] = IF i <= 1 THEN <<r>>[i] ELSE R[i - 1]
      BY <2>3, <2>4, <3>1, ConcatProperties
    <3>3. k + 1 = 1 + k /\ 1 \in 1..(k + 1) /\ \A i \in 1..(k + 1) : i # 1 => i - 1 \in 1..k /\ ~(i <= 1)
      BY <2>3
    <3> QED BY <3>1, <3>2, <3>3
  <2>6. \A i \in 1..(k + 1) : i # 1 => i - 1 \in 1..m /\ D[i] = F[i - 1] /\ D[i].scope # r.scope
    BY <1>7, <1>12, <2>2, <2>3, <2>5
  <2>7. ASSUME NEW i \in 1..(k + 1), NEW j \in 1..(k + 1), D[i].scope = D[j].scope PROVE i = j
    <3>1. CASE i = 1 \/ j = 1
      BY <2>5, <2>6, <2>7, <3>1
    <3>2. CASE i # 1 /\ j # 1
      <4>1. i - 1 = j - 1
        <5>1. \A x, y \in 1..m : F[x].scope = F[y].scope => x = y
          BY <1>4, <1>5 DEF Selected, Single
        <5>2. i - 1 \in 1..m /\ j - 1 \in 1..m /\ F[i - 1].scope = F[j - 1].scope
          BY <2>6, <2>7, <3>2
        <5> QED BY <5>1, <5>2
      <4> QED BY <2>3, <4>1
    <3> QED BY <3>1, <3>2
  <2>8. \A i \in 1..(k + 1) : Unsatisfied(D[i]) /\ D[i].scope \in Entries(bd) /\ D[i].scope \in E
    BY <1>6, <2>2, <2>5, <2>6
  <2>9. D # <<>>
    BY <2>3, <2>5
  <2>10. Report(D, E, bd)
    BY <2>1, <2>2, <2>5, <2>7, <2>8, <2>9 DEF Report, Single
  <2> QED BY <2>2, <2>4, <2>10
<1> QED BY <1>1, <1>4, <1>5, <1>10, <1>11, <1>12 DEF Selected

\* What the run reports.
LEMMA DiagnosticsReport == ASSUME NEW l, NEW E, NEW bd, LogOK(l, E, bd) PROVE Report(Diagnostics(l), E, bd)
<1>1. PICK F : F = Failures(l.exits)
  OBVIOUS
<1>2. Beginning(F, F) /\ (~Evicted(l, F) => Report(F, E, bd))
      /\ (\A R : Evicted(l, F) /\ Beginning(R, F) => Report(<<l.first>> \o R, E, bd))
  <2>1. /\ F \in Seq(ExitRecs) /\ (~Evicted(l, F) => Report(F, E, bd))
        /\ \A R : Evicted(l, F) /\ Beginning(R, F) => Report(<<l.first>> \o R, E, bd)
    BY <1>1, Reported, Zenon
  <2>2. Beginning(F, F)
    BY <2>1 DEF Beginning
  <2> QED BY <2>1, <2>2
<1>3. Diagnostics(l) = IF Evicted(l, F) THEN <<l.first>> \o F ELSE F
  BY <1>1 DEF Diagnostics
<1>4. CASE Evicted(l, F)
  BY <1>2, <1>3, <1>4
<1>5. CASE ~Evicted(l, F)
  BY <1>2, <1>3, <1>5
<1> QED BY <1>4, <1>5

\* A log without failures.
LEMMA NewLogOK == ASSUME NEW E, BadOK(E, <<>>) PROVE LogOK(NewLog, E, <<>>)
<1>1. Cardinality(E) \in Nat
  BY FS_CardinalityType DEF BadOK
<1>2. PICK l : l = NewLog
  OBVIOUS
<1>3. l.exits = <<>> /\ l.first = NoRecord /\ l.dropped = 0 /\ l.unsatisfied = 0
  BY <1>2 DEF NewLog
<1>4. PICK q : q = l.exits
  OBVIOUS
<1>5. q \in Seq(ExitRecs) /\ Len(q) = 0
  <2>1. q = <<>>
    BY <1>3, <1>4
  <2> QED BY <2>1
<1>6. RingOK(q, E, <<>>)
  <2>1. 0 <= RecordCeiling
    BY Ceiling, MonitorConstants
  <2> QED BY <1>5, <2>1 DEF RingOK, Single
<1>7. CountOK(l, E, <<>>)
  BY <1>1, <1>3 DEF CountOK
<1>8. FirstOK(q, l.first, <<>>)
  BY <1>3 DEF FirstOK
<1> QED BY <1>2, <1>4, <1>6, <1>7, <1>8 DEF LogOK

\* What a checkpoint saves of the log: the failures' report, not too long.
Documented(doc, E, bd) ==
  /\ doc.unsatisfied = Len(bd) /\ doc.omitted \in Nat /\ BadOK(E, bd)
  /\ Report(doc.records, E, bd) /\ Len(doc.records) <= RecordCeiling
  /\ doc.omitted + (IF Capacity = 0 THEN 0 ELSE Len(doc.records)) <= Cardinality(E)

\* LogSnapshot saves that.
LEMMA SnapshotDocuments ==
  ASSUME NEW l, NEW E, NEW bd, LogOK(l, E, bd) PROVE Documented(LogSnapshot(l), E, bd)
<1>1. PICK F : F = Failures(l.exits)
  OBVIOUS
<1>2. PICK R : R = IF Len(F) = RecordCeiling THEN Front(F) ELSE F
  OBVIOUS
<1>3. /\ F \in Seq(ExitRecs) /\ Len(F) <= Len(l.exits) /\ (~Evicted(l, F) => Report(F, E, bd))
      /\ (Evicted(l, F) => Capacity = 0 \/ Len(l.exits) = Capacity)
      /\ \A u : Evicted(l, F) /\ Beginning(u, F) => Report(<<l.first>> \o u, E, bd)
  BY <1>1, Reported, Zenon
<1>4. PICK doc : doc = LogSnapshot(l)
  OBVIOUS
<1>5. /\ doc.unsatisfied = l.unsatisfied /\ doc.omitted = l.dropped
      /\ doc.records = IF Evicted(l, F) THEN <<l.first>> \o R ELSE F
  BY <1>1, <1>2, <1>4 DEF LogSnapshot
<1>6. PICK n \in Nat, m \in Nat, c \in Nat, w \in Nat, k \in Nat :
        /\ n = Len(l.exits) /\ m = Len(F) /\ c = Capacity /\ w = l.dropped /\ k = Cardinality(E)
  <2>1. l.exits \in Seq(ExitRecs) /\ l.dropped \in Nat /\ IsFiniteSet(E)
    BY DEF LogOK, RingOK, CountOK, BadOK
  <2> QED BY <1>3, <2>1, FS_CardinalityType, MonitorConstants
<1>7. l.unsatisfied = Len(bd) /\ w + (IF c = 0 THEN 0 ELSE n) <= k /\ n <= RecordCeiling /\ BadOK(E, bd)
  BY <1>6 DEF LogOK, CountOK, RingOK
<1>8. RecordCeiling = IF c = 0 THEN 1 ELSE c
  BY <1>6, Ceiling
<1>9. CASE ~Evicted(l, F)
  <2>1. doc.records = F
    BY <1>5, <1>9
  <2>2. m <= n /\ m <= RecordCeiling /\ w + (IF c = 0 THEN 0 ELSE m) <= k
    BY <1>3, <1>6, <1>7, <1>8
  <2> QED BY <1>3, <1>4, <1>5, <1>6, <1>7, <1>9, <2>1, <2>2 DEF Documented
<1>10. CASE Evicted(l, F)
  <2>1. /\ R \in Seq(ExitRecs) /\ Len(R) = (IF m = RecordCeiling THEN m - 1 ELSE m)
        /\ \A i \in 1..Len(R) : R[i] = F[i]
    <3>1. CASE m = RecordCeiling
      <4>1. R = SubSeq(F, 1, m - 1) /\ m >= 1
        BY <1>2, <1>6, <1>8, <3>1 DEF Front
      <4>2. R \in Seq(ExitRecs) /\ Len(R) = m - 1 /\ \A i \in 1..(m - 1) : R[i] = F[i]
        BY <1>3, <1>6, <4>1
      <4> QED BY <3>1, <4>2
    <3>2. CASE m # RecordCeiling
      BY <1>2, <1>3, <1>6, <3>2
    <3> QED BY <3>1, <3>2
  <2>2. PICK j \in Nat : j = Len(R) /\ j <= m /\ j + 1 <= RecordCeiling
    BY <1>3, <1>6, <1>7, <1>8, <2>1
  <2>3. Beginning(R, F)
    BY <1>6, <2>1, <2>2 DEF Beginning
  <2>4. PICK D : D = doc.records /\ Report(D, E, bd)
    BY <1>3, <1>5, <1>10, <2>3
  <2>5. Len(D) = j + 1
    <3>1. bd # <<>>
      BY <1>10 DEF LogOK, FirstOK, Evicted
    <3>2. l.first \in ExitRecs
      BY <3>1 DEF LogOK, FirstOK
    <3>3. PICK r \in ExitRecs : r = l.first
      BY <3>2
    <3>4. D = <<r>> \o R
      BY <1>5, <1>10, <2>4, <3>3
    <3>5. Len(D) = 1 + j
      BY <2>1, <2>2, <3>4
    <3> QED BY <2>2, <3>5
  <2>6. Len(D) <= RecordCeiling /\ w + (IF c = 0 THEN 0 ELSE Len(D)) <= k
    BY <1>3, <1>6, <1>7, <1>8, <1>10, <2>2, <2>5
  <2> QED BY <1>4, <1>5, <1>6, <1>7, <2>4, <2>6 DEF Documented
<1> QED BY <1>9, <1>10

\* Restored, it is a log again.
LEMMA RestoredLogOK ==
  ASSUME NEW doc, NEW E, NEW bd, Documented(doc, E, bd) PROVE LogOK(RestoredLog(doc), E, bd)
<1>1. PICK D : D = doc.records /\ Report(D, E, bd)
  BY DEF Documented
<1>2. PICK l : l = RestoredLog(doc)
  OBVIOUS
<1>3. /\ l.unsatisfied = doc.unsatisfied /\ l.dropped = doc.omitted /\ l.exits = D
      /\ l.first = IF D = <<>> THEN NoRecord ELSE Head(D)
  BY <1>1, <1>2 DEF RestoredLog
<1>4. PICK n \in Nat : n = Len(D) /\ D \in Seq(ExitRecs)
  BY <1>1 DEF Report
<1>5. RingOK(D, E, bd)
  BY <1>1 DEF Report, RingOK, Documented
<1>6. CountOK(l, E, bd)
  BY <1>1, <1>3 DEF CountOK, Documented
<1>7. FirstOK(D, l.first, bd)
  <2>1. CASE bd = <<>>
    BY <1>1, <1>3, <2>1 DEF FirstOK, Report
  <2>2. CASE bd # <<>>
    <3>1. D # <<>> /\ D[1].scope = bd[1] /\ 1 \in 1..n
      BY <1>1, <1>4, <2>2 DEF Report
    <3>2. l.first = D[1] /\ D[1] \in ExitRecs /\ Unsatisfied(D[1])
      BY <1>1, <1>3, <1>4, <3>1 DEF Report
    <3>3. ASSUME NEW i \in 1..n, NEW j \in 1..n, D[j].scope = bd[1] PROVE j <= i
      <4>1. j = 1
        BY <1>1, <1>4, <3>1, <3>3 DEF Report, Single
      <4> QED BY <4>1
    <3> QED BY <1>4, <2>2, <3>1, <3>2, <3>3 DEF FirstOK
  <2> QED BY <2>1, <2>2
<1> QED BY <1>2, <1>3, <1>5, <1>6, <1>7 DEF LogOK, Documented

\* The log accounts for the scopes that have exited, and so does that of the
\* checkpoint for those that had; a run that is over has reported the failures.
LogInv ==
  /\ LogOK(log, Exited(scopes), bad)
  /\ saved # NoCheckpoint => Documented(saved.log, Exited(saved.scopes), saved.bad)
  /\ UnsatisfiedScopesSurface

\* What has exited is counted.
LEMMA ExitedCounted ==
  ASSUME NEW sc, NEW ex, Counted(sc, ex) PROVE Exited(sc) = {s \in 1..Len(ex) : ex[s] = 1}
  BY DEF Counted, Exited

\* Nothing has exited at first.
LEMMA InitLog == Init => LogInv
<1> SUFFICES ASSUME Init PROVE LogInv
  OBVIOUS
<1>1. PICK E : E = Exited(scopes)
  OBVIOUS
<1>2. E = {}
  BY <1>1 DEF Init, Exited
<1>3. BadOK(E, <<>>)
  BY <1>2, FS_EmptySet DEF BadOK
<1>4. LogOK(log, Exited(scopes), bad)
  BY <1>1, <1>3, NewLogOK DEF Init
<1> QED BY <1>4 DEF Init, LogInv, UnsatisfiedScopesSurface, Running

\* A step without exits.
LEMMA LogKept ==
  ASSUME FrameInv, FrameInv', LogInv, UNCHANGED <<log, bad, exits, saved>>, ctl'.m # "ended" PROVE LogInv'
<1>1. Counted(scopes, exits) /\ Counted(scopes', exits')
  BY DEF FrameInv, Whole
<1>2. PICK ex, sc, sd : ex = exits /\ sc = scopes /\ sd = scopes'
  OBVIOUS
<1>3. Counted(sc, ex) /\ Counted(sd, ex)
  BY <1>1, <1>2
<1>4. Exited(sc) = Exited(sd)
  BY <1>3, ExitedCounted
<1>5. LogOK(log', Exited(scopes'), bad')
  BY <1>2, <1>4 DEF LogInv
<1> QED BY <1>5 DEF LogInv, UnsatisfiedScopesSurface

\* A step with exits.
LEMMA LogSettled ==
  ASSUME FrameInv, LogInv, NEW list \in Seq(Exits), Single(list), SettleScopes(list), saved' = saved, ctl'.m # "ended"
  PROVE  LogInv'
<1>1. LogOK(log', Exited(scopes'), bad')
  BY SettledLog DEF LogInv
<1> QED BY <1>1 DEF LogInv, UnsatisfiedScopesSurface

\* A scope that starts has not exited.
LEMMA ActivateLog == ASSUME FrameInv, LogInv, NEW guard \in Guards, Activate(guard) PROVE LogInv'
<1>1. /\ ctl = Running /\ UNCHANGED <<log, bad, saved>>
      /\ \/ ctl' = Ending("Failed", "ceiling") /\ exits' = exits
         \/ ctl' = ctl /\ exits' = Append(exits, 0)
  BY DEF Activate, Spend, KeepRun
<1>2. ctl'.m # "ended" /\ FrameInv'
  BY <1>1, ActivateFrames DEF Running, Ending
<1>3. CASE exits' = exits
  BY <1>1, <1>2, <1>3, LogKept
<1>4. CASE exits' = Append(exits, 0)
  <2>1. Counted(scopes, exits) /\ Counted(scopes', exits') /\ exits \in Seq(Nat)
    BY <1>2 DEF FrameInv, Whole, Counted
  <2>2. PICK ex, ey, sc, sd : ex = exits /\ ey = exits' /\ sc = scopes /\ sd = scopes'
    OBVIOUS
  <2>3. PICK n \in Nat : n = Len(ex) /\ ex \in Seq(Nat)
    BY <2>1, <2>2
  <2>4. Len(ey) = n + 1 /\ ey[n + 1] = 0 /\ \A i \in 1..n : ey[i] = ex[i]
    BY <1>4, <2>2, <2>3
  <2>5. 1..(n + 1) = 1..n \cup {n + 1}
    BY <2>3
  <2>6. {s \in 1..Len(ex) : ex[s] = 1} = {s \in 1..Len(ey) : ey[s] = 1}
    BY <2>3, <2>4, <2>5
  <2>7. Exited(sc) = Exited(sd)
    <3>1. Counted(sc, ex) /\ Counted(sd, ey)
      BY <2>1, <2>2
    <3>2. Exited(sc) = {s \in 1..Len(ex) : ex[s] = 1} /\ Exited(sd) = {s \in 1..Len(ey) : ey[s] = 1}
      BY <3>1, ExitedCounted
    <3> QED BY <2>6, <3>2, Zenon
  <2>8. LogOK(log', Exited(scopes'), bad')
    BY <1>1, <2>2, <2>7 DEF LogInv
  <2> QED BY <1>1, <1>2, <2>8 DEF LogInv, UnsatisfiedScopesSurface
<1> QED BY <1>1, <1>3, <1>4

\* A typed error.
LEMMA UnwindLog == ASSUME FrameInv, Alive, LogInv, Unwind PROVE LogInv'
<1>1. PICK tries, frames : /\ tries = Positions("try")
                           /\ frames = IF tries = {} THEN stack ELSE Above(Min(tries))
  OBVIOUS
<1>2. /\ SettleScopes(Unwound(frames)) /\ saved' = saved
      /\ ctl' = IF tries = {} THEN Ending("Failed", "unhandled") ELSE Running
  BY <1>1 DEF Unwind, KeepRun
<1>3. ctl'.m # "ended"
  BY <1>2 DEF Ending, Running
<1>4. WellBuilt(stack, Views) /\ scopes \in Seq(ScopeStates) /\ Owned(stack) = Active
  BY ActiveScopes DEF FrameInv, Whole, Kept, Counted, Views
<1>5. WellBuilt(frames, Views) /\ Owned(frames) \subseteq Active
  <2>1. CASE tries = {}
    BY <1>1, <1>4, <2>1
  <2>2. CASE tries # {}
    <3>1. PICK i : i = Min(tries)
      OBVIOUS
    <3>2. i \in 1..Len(stack)
      BY <1>1, <1>4, <2>2, <3>1, Topmost
    <3>3. Sections(stack, Above(i), stack[i], Below(i), Views)
      BY <1>4, <3>2, StackSections
    <3>4. frames = Above(i)
      BY <1>1, <2>2, <3>1
    <3> QED BY <1>4, <3>3, <3>4 DEF Sections
  <2> QED BY <2>1, <2>2
<1>6. PICK list : list = Unwound(frames)
  OBVIOUS
<1>7. list \in Seq(Exits) /\ Single(list)
  BY <1>4, <1>5, <1>6, UnwoundExits, UnwoundSingle
<1> QED BY <1>2, <1>3, <1>6, <1>7, LogSettled

\* A failure of the Host.
LEMMA HostFailsLog == ASSUME FrameInv, LogInv, HostFails PROVE LogInv'
<1>1. ctl.m = "host" /\ Alive
  BY DEF HostFails, Alive
<1>2. CASE attempts[ctl.a].action = Approval
  <2>1. ctl' = Ending("Failed", "host") /\ UNCHANGED <<log, bad, exits, saved>>
    BY <1>2 DEF HostFails, KeepScopes, KeepRun
  <2>2. ctl'.m # "ended"
    BY <2>1 DEF Ending
  <2> QED BY <2>1, <2>2, HostFailsFrames, LogKept
<1>3. CASE attempts[ctl.a].action # Approval
  BY <1>1, <1>3, UnwindLog DEF HostFails
<1> QED BY <1>2, <1>3

\* An arm gives up what it captured.
LEMMA FinishArmLog == ASSUME FrameInv, LogInv, FinishArm PROVE LogInv'
<1>1. ctl' = Running /\ SettleScopes(Abandon(stack[1].owns)) /\ saved' = saved
  BY DEF FinishArm, KeepRun
<1>2. PICK own : own = stack[1].owns
  OBVIOUS
<1>3. PICK list : list = Abandon(own)
  OBVIOUS
<1>4. scopes \in Seq(ScopeStates)
  BY DEF FrameInv, Whole, Counted
<1>5. list \in Seq(Exits) /\ Single(list)
  BY <1>3, <1>4, AbandonExits, AbandonSingle
<1>6. SettleScopes(list) /\ ctl'.m # "ended"
  <2>1. SettleScopes(list)
    BY <1>1, <1>2, <1>3, Zenon
  <2> QED BY <1>1, <2>1 DEF Running
<1> QED BY <1>1, <1>5, <1>6, LogSettled

\* The entry returns.
LEMMA EndBodyLog == ASSUME FrameInv, LogInv, EndBody PROVE LogInv'
<1>1. PICK own : own = Owned(stack)
  OBVIOUS
<1>2. PICK list : list = Abandon(own)
  OBVIOUS
<1>3. SettleScopes(list) /\ ctl' = Ending("Completed", "none") /\ saved' = saved
  BY <1>1, <1>2 DEF EndBody, KeepRun
<1>4. scopes \in Seq(ScopeStates)
  BY DEF FrameInv, Whole, Counted
<1>5. list \in Seq(Exits) /\ Single(list)
  BY <1>2, <1>4, AbandonExits, AbandonSingle
<1>6. ctl'.m # "ended"
  BY <1>3 DEF Ending
<1> QED BY <1>3, <1>5, <1>6, LogSettled

\* The innermost scope returns; what it abandons does not include it.
LEMMA ReturnLog == ASSUME FrameInv, LogInv, Return PROVE LogInv'
<1>1. PICK i, s : i = Min(Positions("scope")) /\ s = stack[i].id
  OBVIOUS
<1>2. PICK p, q : /\ p = Abandon(CapturedIn(Above(i)))
                  /\ q = <<[scope |-> s, kind |-> "Return"]>>
  OBVIOUS
<1>3. ctl = Running /\ Positions("scope") # {} /\ SettleScopes(p \o q) /\ saved' = saved
  BY <1>1, <1>2 DEF Return, KeepRun
<1>4. ctl'.m # "ended" /\ Alive
  <2>1. ctl' = Running \/ ctl' = Ending("Failed", "incomplete")
    BY DEF Return
  <2> QED BY <1>3, <2>1 DEF Ending, Running, Alive
<1>5. WellBuilt(stack, Views) /\ scopes \in Seq(ScopeStates) /\ Owned(stack) = Active
  BY <1>4, ActiveScopes DEF FrameInv, Whole, Kept, Counted, Views
<1>6. i \in 1..Len(stack) /\ stack[i].k = "scope"
  BY <1>1, <1>3, <1>5, Topmost
<1>7. Sections(stack, Above(i), stack[i], Below(i), Views)
  BY <1>5, <1>6, StackSections
<1>8. stack[i].owns = {s}
  BY <1>1, <1>6, <1>7 DEF Sections, Shape
<1>9. s \in Active /\ s \notin Owned(Above(i))
  BY <1>5, <1>7, <1>8 DEF Sections
<1>10. PICK own : own = CapturedIn(Above(i)) /\ s \notin own
  BY <1>9 DEF CapturedIn
<1>11. p \in Seq(Exits) /\ Single(p) /\ Ended(p) = own \cap Active
  BY <1>2, <1>5, <1>10, AbandonExits, AbandonSingle
<1>12. q \in Seq(Exits) /\ Single(q) /\ Ended(q) = {s}
  <2>1. PICK e : e = [scope |-> s, kind |-> "Return"]
    OBVIOUS
  <2>2. e \in Exits /\ e.scope = s
    BY <1>9, <2>1 DEF Exits, ExitKinds
  <2>3. q = <<e>>
    BY <1>2, <2>1
  <2>4. q \in Seq(Exits) /\ DOMAIN q = {1} /\ q[1] = e /\ Len(q) = 1
    BY <2>2, <2>3
  <2> QED BY <2>2, <2>4 DEF Ended, Single
<1>13. PICK list : list = p \o q
  OBVIOUS
<1>14. list \in Seq(Exits) /\ Single(list)
  BY <1>10, <1>11, <1>12, <1>13, ConcatExits, ConcatSingle
<1> QED BY <1>3, <1>4, <1>13, <1>14, LogSettled

\* The run is over and reports its failures.
LEMMA FinishLog == ASSUME FrameInv, LogInv, Finish PROVE LogInv'
<1>1. scopes \in Seq(ScopeStates) /\ saved' = saved
  BY DEF FrameInv, Whole, Counted, Finish, KeepRun
<1>2. PICK E, l, bd : E = Exited(scopes') /\ l = log' /\ bd = bad'
  OBVIOUS
<1>3. LogOK(l, E, bd)
  <2>1. PICK act : act = Active
    OBVIOUS
  <2>2. \E list \in Seq(Exits) : SettleScopes(list) /\ Single(list)
    <3>1. CASE role = "root"
      <4>1. PICK kind : kind = ExitKind(ctl.outcome)
        OBVIOUS
      <4>2. kind \in ExitKinds
        BY <4>1 DEF ExitKind, ExitKinds
      <4>3. PICK u : u = Listed(Active, kind)
        OBVIOUS
      <4>4. u \in Seq(Exits) /\ Single(u)
        BY <1>1, <4>2, <4>3, ListedExits, ListedSingle
      <4>5. PICK list : list = Reverse(u)
        OBVIOUS
      <4>6. list \in Seq(Exits) /\ Single(list)
        BY <4>4, <4>5, ReverseExits, ReverseSingle
      <4>7. SettleScopes(FinishActive(ExitKind(ctl.outcome)))
        BY <3>1 DEF Finish
      <4>8. list = FinishActive(ExitKind(ctl.outcome))
        BY <4>1, <4>3, <4>5 DEF FinishActive
      <4> QED BY <4>6, <4>7, <4>8, Zenon
    <3>2. CASE role # "root"
      <4>1. PICK list : list = Abandon(act)
        OBVIOUS
      <4>2. list \in Seq(Exits) /\ Single(list)
        BY <1>1, <4>1, AbandonExits, AbandonSingle
      <4>3. SettleScopes(Abandon(Active))
        BY <3>2 DEF Finish
      <4> QED BY <2>1, <4>1, <4>2, <4>3, Zenon
    <3> QED BY <3>1, <3>2
  <2>3. PICK list \in Seq(Exits) : SettleScopes(list) /\ Single(list)
    BY <2>2
  <2> QED BY <1>2, <2>3, SettledLog DEF LogInv
<1>4. role' = role
  BY DEF Finish, KeepRun
<1>5. UnsatisfiedScopesSurface'
  <2>1. CASE role # "root"
    BY <1>4, <2>1 DEF UnsatisfiedScopesSurface
  <2>2. CASE role = "root"
    <3>1. PICK D : D = Diagnostics(l)
      OBVIOUS
    <3>2. Report(D, E, bd)
      BY <1>3, <3>1, DiagnosticsReport
    <3>3. ctl' = [m |-> "ended", why |-> ctl.why, shown |-> D,
                  outcome |-> IF ctl.outcome = "Completed" /\ D # <<>> THEN "Failed" ELSE ctl.outcome]
      BY <1>2, <2>2, <3>1 DEF Finish
    <3>4. ctl'.shown = D /\ (ctl'.outcome = "Completed" => D = <<>>)
      BY <3>3
    <3>5. l.unsatisfied = Len(bd)
      BY <1>3 DEF LogOK, CountOK
    <3> QED BY <1>2, <3>2, <3>4, <3>5 DEF UnsatisfiedScopesSurface, Report
  <2> QED BY <2>1, <2>2
<1> QED BY <1>1, <1>2, <1>3, <1>5 DEF LogInv

\* A checkpoint documents the log.
LEMMA CheckpointLog == ASSUME FrameInv, LogInv, Checkpoint PROVE LogInv'
<1>1. /\ saved' = [Document EXCEPT !.fuel = fuel - 1] /\ UNCHANGED <<scopes, log, bad, exits>>
      /\ ctl' = Running \/ ctl' = Ending("Failed", "checkpoint")
  BY DEF Checkpoint, KeepScopes
<1>2. ctl'.m # "ended"
  BY <1>1 DEF Running, Ending
<1>3. saved'.log = LogSnapshot(log) /\ saved'.scopes = scopes /\ saved'.bad = bad
  BY <1>1 DEF Document
<1>4. PICK l, E, bd : l = log /\ E = Exited(scopes) /\ bd = bad
  OBVIOUS
<1>5. Documented(LogSnapshot(l), E, bd)
  BY <1>4, SnapshotDocuments DEF LogInv
<1>6. Documented(saved'.log, Exited(saved'.scopes), saved'.bad)
  BY <1>3, <1>4, <1>5
<1>7. LogOK(log', Exited(scopes'), bad')
  BY <1>1 DEF LogInv
<1> QED BY <1>2, <1>6, <1>7 DEF LogInv, UnsatisfiedScopesSurface

\* A new process goes on with the failures of the checkpoint.
LEMMA RestartLog == ASSUME FrameInv, LogInv, Restart PROVE LogInv'
<1>1. /\ saved # NoCheckpoint /\ saved' = saved /\ exits' = saved.exits /\ bad' = saved.bad
      /\ log' = IF NothingSaved(saved) THEN NewLog ELSE RestoredLog(saved.log)
      /\ ctl' = Running \/ ctl' = Ending("Failed", "checkpoint")
  BY DEF Restart
<1>2. ctl'.m # "ended" /\ FrameInv'
  BY <1>1, RestartFrames DEF Running, Ending
<1>3. PICK sc, sd, ex, bd, doc : /\ sc = saved.scopes /\ sd = scopes' /\ ex = saved.exits /\ bd = saved.bad
                                 /\ doc = saved.log
  OBVIOUS
<1>4. Counted(sc, ex) /\ Counted(sd, ex)
  BY <1>1, <1>2, <1>3 DEF FrameInv, Whole, Saved
<1>5. PICK E : E = Exited(sc) /\ E = Exited(sd)
  BY <1>4, ExitedCounted
<1>6. Documented(doc, E, bd)
  BY <1>1, <1>3, <1>5 DEF LogInv
<1>7. LogOK(RestoredLog(doc), E, bd)
  BY <1>6, RestoredLogOK
<1>8. NothingSaved(saved) => LogOK(NewLog, E, bd)
  <2> SUFFICES ASSUME NothingSaved(saved) PROVE LogOK(NewLog, E, bd)
    OBVIOUS
  <2>1. Len(bd) = 0 /\ BadOK(E, bd)
    BY <1>3, <1>6 DEF NothingSaved, Documented
  <2>2. bd = <<>>
    BY <2>1 DEF BadOK
  <2> QED BY <2>1, <2>2, NewLogOK
<1>9. LogOK(log', Exited(scopes'), bad')
  BY <1>1, <1>3, <1>5, <1>7, <1>8
<1> QED BY <1>1, <1>2, <1>9 DEF LogInv, UnsatisfiedScopesSurface

\* Every step keeps the log in order.
LEMMA NextLog == FrameInv /\ LogInv /\ [Next]_vars => LogInv'
<1> SUFFICES ASSUME FrameInv, LogInv, [Next]_vars PROVE LogInv'
  OBVIOUS
<1>1. FrameInv'
  BY NextFrames
<1>2. CASE UNCHANGED vars
  BY <1>2 DEF vars, LogInv, UnsatisfiedScopesSurface
<1>3. ASSUME NEW k, Enter(k) PROVE LogInv'
  BY <1>1, <1>3, LogKept DEF Enter, Spend, KeepScopes, KeepRun, Running
<1>4. CASE Leave
  BY <1>1, <1>4, LogKept DEF Leave, KeepScopes, KeepRun, Running
<1>5. ASSUME NEW x, Perform(x) PROVE LogInv'
  <2>1. UNCHANGED <<log, bad, exits, saved>> /\ (ctl'.m = "dispatch" \/ \E w : ctl' = Ending("Failed", w))
    BY <1>5 DEF Perform, KeepRun
  <2> QED BY <1>1, <2>1, LogKept, EndingState
<1>6. ASSUME NEW next, NEW frames, Dispatch(next, frames), next.m # "ended" PROVE LogInv'
  <2>1. UNCHANGED <<log, bad, exits, saved>> /\ (ctl' = next \/ ctl' = Ending("Failed", "permit"))
    BY <1>6 DEF Dispatch, KeepScopes, KeepRun
  <2> QED BY <1>1, <1>6, <2>1, LogKept, EndingState
<1>7. CASE DispatchArm
  <2>1. Running.m # "ended"
    BY DEF Running
  <2> QED BY <1>6, <1>7, <2>1 DEF DispatchArm
<1>8. CASE DispatchHost
  <2>1. [m |-> "host", a |-> ctl.a].m # "ended"
    OBVIOUS
  <2> QED BY <1>6, <1>8, <2>1 DEF DispatchHost
<1>9. ASSUME NEW a, NEW tag, NEW v, NEW real, NEW frames, Complete(a, tag, v, real, frames) PROVE LogInv'
  <2>1. UNCHANGED <<log, bad, exits, saved>> /\ (ctl' = Running \/ ctl' = Ending("Failed", "monitor"))
    BY <1>9 DEF Complete, KeepRun
  <2>2. ctl'.m # "ended"
    BY <2>1, EndingState DEF Running
  <2> QED BY <1>1, <2>1, <2>2, LogKept
<1>10. ASSUME NEW v, HostAnswers(v) PROVE LogInv'
  BY <1>9, <1>10 DEF HostAnswers
<1>11. ASSUME NEW v, Resume(v) PROVE LogInv'
  BY <1>9, <1>11 DEF Resume
<1>12. CASE Cancel
  <2>1. UNCHANGED <<log, bad, exits, saved>> /\ ctl' = Ending("Cancelled", "none")
    BY <1>12 DEF Cancel, KeepScopes, KeepRun
  <2> QED BY <1>1, <2>1, LogKept, EndingState
<1>13. CASE Raise
  BY <1>13, UnwindLog DEF Raise, Spend, Running, Alive
<1>14. CASE Next /\ ~Raise
  BY <1>3, <1>4, <1>5, <1>7, <1>8, <1>10, <1>11, <1>12, <1>14, ActivateLog, HostFailsLog, FinishArmLog, ReturnLog,
     EndBodyLog, FinishLog, CheckpointLog, RestartLog
     DEF Next
<1> QED BY <1>2, <1>13, <1>14

\* A run of the root that completes has no scope that ended unaccepted, and one
\* that ends otherwise reports the first such scope and counts them all, whatever
\* the capacity of the ring and however often the run was resumed
\* (residual_exit::finish, take_diagnostics, restore_history).
THEOREM UnsatisfiedSurface == Spec => []UnsatisfiedScopesSurface
<1>1. Init => FrameInv /\ LogInv
  BY InitFrames, InitLog
<1>2. FrameInv /\ LogInv /\ [Next]_vars => (FrameInv /\ LogInv)'
  BY NextFrames, NextLog
<1>3. LogInv => UnsatisfiedScopesSurface
  BY DEF LogInv
<1> QED BY <1>1, <1>2, <1>3, PTL DEF Spec

-----------------------------------------------------------------------------
(***************************************************************************)
(* Permits                                                                 *)
(*                                                                         *)
(* What the monitor relies on, of a scope r that is active, of an attempt  *)
(* with tag t that still has a frame, and of all of them.                  *)
(***************************************************************************)
Sound(r, cur) ==
  /\ r.last <= cur /\ (r.version = 0) = (r.last = 0)
  /\ \A x \in Actions : r.accepted[x].at <= r.last
  /\ IsFiniteSet(r.pending) /\ Cardinality(r.pending) <= MaxPending

Open(a, t, sc, cur) ==
  /\ ~t.completed /\ t.at <= cur
  /\ \A s \in DOMAIN t.version : a \in sc[s].pending /\ t.version[s] <= sc[s].version

\* There is room for what is owned.
Room(S) == IsFiniteSet(S) /\ Cardinality(S) <= MaxActive

Steady(st, sc, at, cur) ==
  /\ \A s \in Owned(st) : Sound(sc[s], cur)
  /\ \A a \in Tags(st) : Open(a, at[a], sc, cur)
  /\ Room(Owned(st))

\* Permits have been used, but for that of the attempt at hand, which holds.
Used ==
  /\ \A a \in Tags(stack) : attempts[a].dispatched \/ (ctl.m = "dispatch" /\ a = ctl.a)
  /\ ctl.m = "dispatch" => PermitHolds(ctl.a)

PermitInv ==
  /\ Alive => Steady(stack, scopes, attempts, cursor) /\ Used
  /\ saved # NoCheckpoint =>
       /\ Steady(saved.stack, saved.scopes, saved.attempts, saved.cursor)
       /\ \A a \in Tags(saved.stack) : saved.attempts[a].dispatched
  /\ MonitorNeverConfused

\* The frames own what has not been counted.
LEMMA OwnedCounted ==
  ASSUME NEW st, NEW sc, NEW at, NEW ex, Whole(st, sc, at, ex), Kept(st, sc, at)
  PROVE  /\ Owned(st) = {s \in 1..Len(ex) : ex[s] = 0} /\ Owned(st) \subseteq 1..Len(sc)
         /\ \A s \in Owned(st) : sc[s] \in ScopeStates
         /\ \A a \in Tags(st) : a \in 1..Len(at) /\ at[a] \in TagStates /\ DOMAIN at[a].version \subseteq Owned(st)
<1>1. Owned(st) = {s \in 1..Len(ex) : ex[s] = 0}
  BY DEF Whole, Counted, Kept
<1>2. Owned(st) \subseteq 1..Len(sc) /\ \A s \in Owned(st) : sc[s] \in ScopeStates
  BY DEF Whole, Counted
<1>3. ASSUME NEW a \in Tags(st)
      PROVE  a \in 1..Len(at) /\ at[a] \in TagStates /\ DOMAIN at[a].version \subseteq Owned(st)
  <2>1. a \in 1..Len(at) /\ at[a] \in TagStates /\ a \in DOMAIN at
    BY DEF Whole
  <2>2. Viewers(at)[a] = DOMAIN at[a].version
    BY <2>1 DEF Viewers
  <2> QED BY <2>1, <2>2 DEF Kept
<1> QED BY <1>1, <1>2, <1>3

\* The same of the present state.
LEMMA LiveOwned ==
  ASSUME FrameInv, Alive
  PROVE  /\ Owned(stack) = {s \in 1..Len(exits) : exits[s] = 0} /\ Owned(stack) \subseteq 1..Len(scopes)
         /\ Owned(stack) = Active
         /\ \A s \in Owned(stack) : scopes[s] \in ScopeStates
         /\ \A a \in Tags(stack) : /\ a \in 1..Len(attempts) /\ attempts[a] \in TagStates
                                   /\ DOMAIN attempts[a].version \subseteq Owned(stack)
<1>1. PICK st, sc, at, ex : st = stack /\ sc = scopes /\ at = attempts /\ ex = exits
  OBVIOUS
<1>2. Whole(st, sc, at, ex) /\ Kept(st, sc, at)
  BY <1>1 DEF FrameInv
<1>3. Owned(stack) = Active
  BY ActiveScopes DEF FrameInv, Whole, Kept
<1> QED BY <1>1, <1>2, <1>3, OwnedCounted

\* And of the next one.
LEMMA NextOwned ==
  ASSUME FrameInv', Alive'
  PROVE  /\ Owned(stack') = {s \in 1..Len(exits') : exits'[s] = 0}
         /\ \A s \in Owned(stack') : scopes'[s] \in ScopeStates
<1>1. PICK st, sc, at, ex : st = stack' /\ sc = scopes' /\ at = attempts' /\ ex = exits'
  OBVIOUS
<1>2. Whole(st, sc, at, ex) /\ Kept(st, sc, at)
  BY <1>1 DEF FrameInv
<1> QED BY <1>1, <1>2, OwnedCounted

\* Time passes.
LEMMA SoundLater ==
  ASSUME NEW c \in Nat, NEW r \in ScopeStates, Sound(r, c) PROVE Sound(r, c + 1)
<1>1. PICK n \in Nat : n = r.last
  BY DEF ScopeStates
<1>2. n <= c + 1
  BY <1>1 DEF Sound
<1> QED BY <1>1, <1>2 DEF Sound

\* An attempt is noted in a scope that has room.
LEMMA CommittedSound ==
  ASSUME NEW c \in Nat, NEW r \in ScopeStates, Sound(r, c), ~(Cardinality(r.pending) >= MaxPending), NEW a, NEW q,
         q.version = r.version + 1, q.last = c + 1, q.pending = r.pending \cup {a}, q.accepted = r.accepted
  PROVE  Sound(q, c + 1)
<1>1. PICK acc : acc = r.accepted
  OBVIOUS
<1>2. PICK v \in Nat, n \in Nat : v = r.version /\ n = r.last
  BY DEF ScopeStates
<1>3. acc \in [Actions -> [at : Nat, current : BOOLEAN]]
  BY <1>1 DEF ScopeStates
<1>4. \A x \in Actions : acc[x].at <= c + 1
  <2> SUFFICES ASSUME NEW x \in Actions PROVE acc[x].at <= c + 1
    OBVIOUS
  <2>1. PICK m \in Nat : m = acc[x].at
    BY <1>3
  <2>2. m <= n /\ n <= c
    BY <1>1, <1>2, <2>1 DEF Sound
  <2> QED BY <2>1, <2>2
<1>5. (v + 1 = 0) = (c + 1 = 0) /\ c + 1 <= c + 1
  OBVIOUS
<1>6. PICK D : D = r.pending
  OBVIOUS
<1>7. IsFiniteSet(D) /\ Cardinality(D) \in Nat /\ Cardinality(D) + 1 <= MaxPending
  <2>1. IsFiniteSet(D) /\ Cardinality(D) \in Nat
    BY <1>6, FS_CardinalityType DEF Sound
  <2>2. MaxPending \in Nat
    BY MonitorConstants
  <2> QED BY <1>6, <2>1, <2>2
<1>8. IsFiniteSet(D \cup {a}) /\ Cardinality(D \cup {a}) <= MaxPending
  <2>1. /\ IsFiniteSet(D \cup {a})
        /\ Cardinality(D \cup {a}) = IF a \in D THEN Cardinality(D) ELSE Cardinality(D) + 1
    BY <1>7, FS_AddElement
  <2>2. MaxPending \in Nat
    BY MonitorConstants
  <2> QED BY <1>7, <2>1, <2>2
<1>9. Sound(q, c + 1)
  BY <1>1, <1>2, <1>4, <1>5, <1>6, <1>8 DEF Sound
<1> QED BY <1>9

\* An outcome is noted.
LEMMA SettledSound ==
  ASSUME NEW c \in Nat, NEW r \in ScopeStates, Sound(r, c), NEW a, NEW q,
         q.version = r.version + 1, q.last = c + 1, q.pending = r.pending \ {a},
         \A y \in Actions : q.accepted[y].at = c + 1 \/ q.accepted[y] = r.accepted[y]
  PROVE  Sound(q, c + 1)
<1>1. PICK acc : acc = r.accepted
  OBVIOUS
<1>2. PICK v \in Nat, n \in Nat : v = r.version /\ n = r.last
  BY DEF ScopeStates
<1>3. acc \in [Actions -> [at : Nat, current : BOOLEAN]]
  BY <1>1 DEF ScopeStates
<1>4. \A y \in Actions : q.accepted[y].at <= c + 1
  <2> SUFFICES ASSUME NEW y \in Actions PROVE q.accepted[y].at <= c + 1
    OBVIOUS
  <2>1. q.accepted[y].at = c + 1 \/ q.accepted[y] = acc[y]
    BY <1>1
  <2>2. CASE q.accepted[y] = acc[y]
    <3>1. PICK m \in Nat : m = acc[y].at
      BY <1>3
    <3>2. m <= n /\ n <= c
      BY <1>1, <1>2, <3>1 DEF Sound
    <3> QED BY <2>2, <3>1, <3>2
  <2> QED BY <2>1, <2>2
<1>5. (v + 1 = 0) = (c + 1 = 0) /\ c + 1 <= c + 1
  OBVIOUS
<1>6. PICK D : D = r.pending
  OBVIOUS
<1>7. IsFiniteSet(D \ {a}) /\ Cardinality(D \ {a}) <= MaxPending
  <2>1. IsFiniteSet(D) /\ Cardinality(D) \in Nat /\ Cardinality(D) <= MaxPending
    BY <1>6, FS_CardinalityType DEF Sound
  <2>2. IsFiniteSet(D \ {a}) /\ Cardinality(D \ {a}) <= Cardinality(D)
    BY <2>1, FS_Subset
  <2>3. MaxPending \in Nat /\ Cardinality(D \ {a}) \in Nat
    BY <2>2, FS_CardinalityType, MonitorConstants
  <2> QED BY <2>1, <2>2, <2>3
<1>8. Sound(q, c + 1)
  BY <1>1, <1>2, <1>4, <1>5, <1>6, <1>7 DEF Sound
<1> QED BY <1>8

\* An open attempt stays open.
LEMMA OpenLater ==
  ASSUME NEW c \in Nat, NEW d \in Nat, c <= d, NEW a, NEW t \in TagStates, NEW u, NEW sc, NEW sd, Open(a, t, sc, c),
         u.completed = t.completed, u.at = t.at, u.version = t.version,
         \A s \in DOMAIN t.version :
           /\ sc[s].version \in Nat /\ sd[s].version \in Nat /\ sc[s].version <= sd[s].version
           /\ a \in sc[s].pending => a \in sd[s].pending
  PROVE  Open(a, u, sd, d)
<1>1. t.at \in Nat /\ \A s \in DOMAIN t.version : t.version[s] \in Nat
  <2>1. t.at \in Nat /\ t.version \in Versions
    BY DEF TagStates
  <2>2. PICK v : v = t.version
    OBVIOUS
  <2>3. PICK S : v \in [S -> Nat]
    BY <2>1, <2>2 DEF Versions
  <2> QED BY <2>1, <2>2, <2>3
<1>2. t.at <= d
  BY <1>1 DEF Open
<1>3. \A s \in DOMAIN t.version : t.version[s] <= sd[s].version
  <2> SUFFICES ASSUME NEW s \in DOMAIN t.version PROVE t.version[s] <= sd[s].version
    OBVIOUS
  <2>1. PICK x \in Nat, y \in Nat, z \in Nat : x = t.version[s] /\ y = sc[s].version /\ z = sd[s].version
    BY <1>1
  <2>2. x <= y /\ y <= z
    BY <2>1 DEF Open
  <2> QED BY <2>1, <2>2
<1> QED BY <1>2, <1>3 DEF Open

\* Less has room where more has.
LEMMA LessRoom == ASSUME NEW S, NEW T \in SUBSET S, Room(S) PROVE Room(T)
<1>1. IsFiniteSet(T) /\ Cardinality(T) <= Cardinality(S) /\ Cardinality(S) \in Nat /\ Cardinality(T) \in Nat
  BY FS_Subset, FS_CardinalityType DEF Room
<1>2. MaxActive \in Nat /\ Cardinality(S) <= MaxActive
  BY MonitorConstants DEF Room
<1> QED BY <1>1, <1>2 DEF Room

\* And for one more, if there is.
LEMMA MoreRoom == ASSUME NEW S, Room(S), NEW x, ~(Cardinality(S) >= MaxActive) PROVE Room(S \cup {x})
<1>1. /\ IsFiniteSet(S \cup {x}) /\ Cardinality(S) \in Nat
      /\ Cardinality(S \cup {x}) = IF x \in S THEN Cardinality(S) ELSE Cardinality(S) + 1
  BY FS_AddElement, FS_CardinalityType DEF Room
<1>2. MaxActive \in Nat
  BY MonitorConstants
<1> QED BY <1>1, <1>2 DEF Room

\* Nothing is at stake at first.
LEMMA InitPermits == Init => PermitInv
<1> SUFFICES ASSUME Init PROVE PermitInv
  OBVIOUS
<1>1. Owned(stack) = {} /\ Tags(stack) = {} /\ ctl.m = "run"
  BY NoFrame DEF Init, Running
<1>2. Room({})
  <2>1. IsFiniteSet({}) /\ Cardinality({}) = 0
    BY FS_EmptySet
  <2> QED BY <2>1, MonitorConstants DEF Room
<1>3. Steady(stack, scopes, attempts, cursor) /\ Used
  BY <1>1, <1>2 DEF Steady, Used
<1> QED BY <1>1, <1>3 DEF Init, PermitInv, MonitorNeverConfused

\* A step that commits nothing, uses no permit and takes frames away at most.
LEMMA PermitsKept ==
  ASSUME FrameInv, FrameInv', PermitInv, ctl.m \in {"run", "host"}, Lasting, UNCHANGED <<attempts, cursor, saved>>,
         Alive' => Owned(stack') \subseteq Owned(stack) /\ Tags(stack') \subseteq Tags(stack),
         ctl'.m # "dispatch", MonitorNeverConfused'
  PROVE  PermitInv'
<1>1. SUFFICES ASSUME Alive' PROVE Steady(stack', scopes', attempts', cursor') /\ Used'
  BY DEF PermitInv
<1>2. Alive /\ Steady(stack, scopes, attempts, cursor) /\ Used /\ cursor \in Nat
  BY DEF PermitInv, Alive, FrameInv
<1>3. /\ Owned(stack) \subseteq 1..Len(scopes) /\ \A s \in Owned(stack) : scopes[s] \in ScopeStates
      /\ \A a \in Tags(stack) : attempts[a] \in TagStates /\ DOMAIN attempts[a].version \subseteq Owned(stack)
  BY <1>2, LiveOwned
<1>4. ASSUME NEW s \in Owned(stack') PROVE Sound(scopes'[s], cursor')
  <2>1. s \in Owned(stack) /\ s \in 1..Len(scopes)
    BY <1>1, <1>3
  <2>2. PICK r, q : r = scopes[s] /\ q = scopes'[s]
    OBVIOUS
  <2>3. Sound(r, cursor) /\ q.accepted = r.accepted /\ q.version = r.version /\ q.last = r.last /\ q.pending = r.pending
    BY <1>2, <2>1, <2>2 DEF Steady, Lasting
  <2> QED BY <2>2, <2>3 DEF Sound
<1>5. ASSUME NEW a \in Tags(stack') PROVE Open(a, attempts'[a], scopes', cursor')
  <2>1. PICK t, c, sc, sd : t = attempts[a] /\ c = cursor /\ sc = scopes /\ sd = scopes'
    OBVIOUS
  <2>2. t \in TagStates /\ c \in Nat /\ Open(a, t, sc, c) /\ DOMAIN t.version \subseteq Owned(stack)
    BY <1>1, <1>2, <1>3, <2>1 DEF Steady
  <2>3. \A s \in DOMAIN t.version : /\ sc[s].version \in Nat /\ sd[s].version = sc[s].version
                                    /\ sd[s].pending = sc[s].pending
    BY <1>3, <2>1, <2>2 DEF Lasting, ScopeStates
  <2>4. Open(a, t, sd, c)
    BY <2>2, <2>3 DEF Open
  <2> QED BY <2>1, <2>4
<1>6. Room(Owned(stack'))
  <2>1. PICK S, T : S = Owned(stack) /\ T = Owned(stack')
    OBVIOUS
  <2> QED BY <1>1, <1>2, <2>1, LessRoom DEF Steady
<1>7. Used'
  BY <1>1, <1>2 DEF Used
<1> QED BY <1>4, <1>5, <1>6, <1>7 DEF Steady

\* Exits take owned scopes away.
LEMMA SettlingShrinks ==
  ASSUME FrameInv, FrameInv', Alive, Alive', NEW list, SettleScopes(list) PROVE Owned(stack') \subseteq Owned(stack)
<1>1. exits' = [s \in DOMAIN exits |-> exits[s] + (IF s \in {list[i].scope : i \in DOMAIN list} THEN 1 ELSE 0)]
  BY DEF SettleScopes
<1>2. PICK n \in Nat : n = Len(exits) /\ DOMAIN exits = 1..n /\ \A s \in 1..n : exits[s] \in Nat
  <2>1. exits \in Seq(Nat)
    BY DEF FrameInv, Whole, Counted
  <2> QED BY <2>1
<1>3. Len(exits') = n
  <2>1. exits' = [s \in 1..n |-> exits'[s]]
    BY <1>1, <1>2
  <2> QED BY <2>1, LenProperties
<1>4. \A s \in 1..n : exits'[s] = exits[s] \/ exits'[s] = exits[s] + 1
  BY <1>1, <1>2
<1>5. \A s \in 1..n : exits'[s] = 0 => exits[s] = 0
  BY <1>2, <1>4
<1> QED BY <1>2, <1>3, <1>5, LiveOwned, NextOwned

\* A run that ends for another reason.
LEMMA NotConfused ==
  ASSUME NEW o, NEW w \in {"none", "host", "unhandled", "incomplete", "ceiling", "rejected"}, ctl' = Ending(o, w)
  PROVE  MonitorNeverConfused' /\ ctl'.m = "ending" /\ ~Alive'
<1>1. ctl'.m = "ending" /\ ctl'.why = w
  BY EndingState
<1> QED BY <1>1 DEF MonitorNeverConfused, Alive

\* A step that ends the run.
LEMMA EndsPermits ==
  ASSUME PermitInv, saved' = saved, ~Alive', MonitorNeverConfused' PROVE PermitInv'
  BY DEF PermitInv

\* A scope that starts.
LEMMA ActivatePermits == ASSUME FrameInv, PermitInv, NEW guard \in Guards, Activate(guard) PROVE PermitInv'
<1>1. ctl = Running /\ ctl.m = "run" /\ UNCHANGED <<attempts, cursor, saved>> /\ Alive
  BY DEF Activate, Spend, KeepRun, Running, Alive
<1>2. CASE Cardinality(Active) >= MaxActive
  <2>1. ctl' = Ending("Failed", "ceiling")
    BY <1>2 DEF Activate
  <2> QED BY <1>1, <2>1, NotConfused, EndsPermits
<1>3. CASE ~(Cardinality(Active) >= MaxActive)
  <2>1. scopes' = Append(scopes, NewScope(guard)) /\ exits' = Append(exits, 0) /\ ctl' = ctl /\ FrameInv' /\ Alive'
        /\ Tags(stack') \subseteq Tags(stack)
    BY <1>1, <1>3, ActivateFrames DEF Activate, Alive
  <2>2. PICK n \in Nat : n = Len(scopes) /\ n = Len(exits) /\ scopes \in Seq(ScopeStates) /\ exits \in Seq(Nat)
    BY DEF FrameInv, Whole, Counted
  <2>3. PICK new : new = NewScope(guard)
    OBVIOUS
  <2>4. new \in ScopeStates
    BY <2>3 DEF NewScope, ScopeStates
  <2>5. Len(scopes') = n + 1 /\ scopes'[n + 1] = new /\ \A s \in 1..n : scopes'[s] = scopes[s]
    <3>1. scopes' = Append(scopes, new) /\ scopes \in Seq(ScopeStates) /\ n = Len(scopes)
      BY <2>1, <2>2, <2>3
    <3> QED BY <2>4, <3>1, Appended
  <2>6. Len(exits') = n + 1 /\ exits'[n + 1] = 0 /\ \A s \in 1..n : exits'[s] = exits[s]
    BY <2>1, <2>2
  <2>7. 1..(n + 1) = 1..n \cup {n + 1}
    BY <2>2
  <2>8. /\ Owned(stack) \subseteq 1..n /\ Owned(stack) = Active
        /\ \A a \in Tags(stack) : DOMAIN attempts[a].version \subseteq Owned(stack)
    BY <1>1, <2>2, LiveOwned
  <2>9. Owned(stack') = Owned(stack) \cup {n + 1}
    <3>1. Owned(stack) = {s \in 1..n : exits[s] = 0}
      BY <1>1, <2>2, LiveOwned
    <3>2. Owned(stack') = {s \in 1..(n + 1) : exits'[s] = 0}
      BY <2>1, <2>6, NextOwned
    <3> QED BY <2>6, <2>7, <3>1, <3>2
  <2>10. Steady(stack, scopes, attempts, cursor) /\ Used /\ cursor \in Nat
    BY <1>1 DEF PermitInv, FrameInv
  <2>11. Sound(new, cursor)
    <3>1. new.last = 0 /\ new.version = 0 /\ new.pending = {} /\ \A x \in Actions : new.accepted[x].at = 0
      BY <2>3 DEF NewScope
    <3>2. IsFiniteSet({}) /\ Cardinality({}) = 0 /\ MaxPending \in Nat
      BY FS_EmptySet, MonitorConstants
    <3> QED BY <2>10, <3>1, <3>2 DEF Sound
  <2>12. \A s \in Owned(stack') : Sound(scopes'[s], cursor')
    BY <1>1, <2>5, <2>8, <2>9, <2>10, <2>11 DEF Steady
  <2>13. \A a \in Tags(stack') : Open(a, attempts'[a], scopes', cursor')
    BY <1>1, <2>1, <2>5, <2>8, <2>10 DEF Steady, Open
  <2>14. Room(Owned(stack'))
    <3>1. PICK S : S = Owned(stack)
      OBVIOUS
    <3>2. Room(S) /\ ~(Cardinality(S) >= MaxActive)
      BY <1>3, <2>8, <2>10, <3>1 DEF Steady
    <3> QED BY <2>9, <3>1, <3>2, MoreRoom
  <2>15. Steady(stack', scopes', attempts', cursor') /\ Used'
    BY <1>1, <2>1, <2>10, <2>12, <2>13, <2>14 DEF Steady, Used
  <2> QED BY <1>1, <2>1, <2>15 DEF PermitInv, MonitorNeverConfused
<1> QED BY <1>2, <1>3

\* An attempt finds every scope receptive, and the permit it gets holds.
LEMMA PerformPermits == ASSUME FrameInv, PermitInv, NEW x \in Actions, Perform(x) PROVE PermitInv'
<1> DEFINE seen == Mirror(stack)
           tag == [action |-> x, at |-> cursor + 1, trusted |-> "unknown",
                   version |-> [s \in seen |-> scopes[s].version + 1],
                   dispatched |-> FALSE, completed |-> FALSE]
<1>1. PICK a : a = Len(attempts) + 1
  OBVIOUS
<1>2. /\ ctl = Running /\ ctl.m = "run" /\ UNCHANGED <<saved, exits>> /\ cursor' = cursor + 1 /\ Alive
      /\ attempts' = Append(attempts, tag)
      /\ FrameInv' /\ Tags(stack') \subseteq Tags(stack) \cup {a}
  BY <1>1, PerformFrames DEF Perform, Spend, KeepRun, Running, Alive
<1>3. /\ attempts'[a] = tag /\ \A b \in 1..Len(attempts) : attempts'[b] = attempts[b]
  <2>1. attempts \in Seq(TagStates)
    BY DEF FrameInv, Whole
  <2> HIDE DEF tag
  <2> QED BY <1>1, <1>2, <2>1
<1>4. /\ tag.at = cursor + 1 /\ tag.version = [s \in seen |-> scopes[s].version + 1]
      /\ ~tag.dispatched /\ ~tag.completed
  OBVIOUS
<1> HIDE DEF tag
<1>5. /\ Owned(stack) \subseteq 1..Len(scopes) /\ Owned(stack) = Active
      /\ \A s \in Owned(stack) : scopes[s] \in ScopeStates
      /\ \A b \in Tags(stack) : /\ b \in 1..Len(attempts) /\ attempts[b] \in TagStates
                                /\ DOMAIN attempts[b].version \subseteq Owned(stack)
  BY <1>2, LiveOwned
<1>6. Steady(stack, scopes, attempts, cursor) /\ Used /\ cursor \in Nat
  BY <1>2 DEF PermitInv, FrameInv
<1>7. seen \subseteq Owned(stack)
  BY MirrorOwned DEF FrameInv, Whole
<1>8. \A s \in seen : Receptive(s, cursor + 1)
  <2> SUFFICES ASSUME NEW s \in seen PROVE Receptive(s, cursor + 1)
    OBVIOUS
  <2>1. s \in Active /\ scopes[s] \in ScopeStates /\ Sound(scopes[s], cursor)
    BY <1>5, <1>6, <1>7 DEF Steady
  <2>2. PICK n \in Nat : n = scopes[s].last
    BY <2>1 DEF ScopeStates
  <2>3. cursor + 1 > n
    BY <1>6, <2>1, <2>2 DEF Sound
  <2> QED BY <2>1, <2>2, <2>3 DEF Receptive, Active
<1>9. \/ \E w \in {"rejected", "ceiling"} : ctl' = Ending("Failed", w)
      \/ /\ scopes' = [s \in DOMAIN scopes |-> IF s \in seen THEN Committed(s, a) ELSE scopes[s]]
         /\ ctl' = [m |-> "dispatch", a |-> a]
         /\ \A s \in seen : ~(Cardinality(scopes[s].pending) >= MaxPending)
  BY <1>1, <1>8 DEF Perform
<1>10. CASE \E w \in {"rejected", "ceiling"} : ctl' = Ending("Failed", w)
  BY <1>2, <1>10, NotConfused, EndsPermits
<1>11. CASE /\ scopes' = [s \in DOMAIN scopes |-> IF s \in seen THEN Committed(s, a) ELSE scopes[s]]
            /\ ctl' = [m |-> "dispatch", a |-> a]
            /\ \A s \in seen : ~(Cardinality(scopes[s].pending) >= MaxPending)
  <2>1. ctl'.m = "dispatch" /\ ctl'.a = a /\ Alive'
    BY <1>11 DEF Alive
  <2>2. Owned(stack') = Owned(stack)
    BY <1>2, <2>1, LiveOwned, NextOwned
  <2>3. PICK c \in Nat : c = cursor
    BY <1>6
  <2>4. ASSUME NEW s \in Owned(stack)
        PROVE  /\ Sound(scopes'[s], cursor')
               /\ s \in seen => /\ scopes'[s].version = scopes[s].version + 1 /\ a \in scopes'[s].pending
                                /\ scopes'[s].exit = "none"
               /\ scopes[s].version \in Nat /\ scopes'[s].version \in Nat /\ scopes[s].version <= scopes'[s].version
               /\ scopes[s].pending \subseteq scopes'[s].pending
    <3>1. PICK r : r = scopes[s] /\ r \in ScopeStates /\ Sound(r, c) /\ s \in DOMAIN scopes /\ r.exit = "none"
      BY <1>5, <1>6, <2>3 DEF Steady, Active
    <3>2. PICK v \in Nat : v = r.version
      BY <3>1 DEF ScopeStates
    <3>3. PICK q : q = scopes'[s]
      OBVIOUS
    <3>4. CASE s \notin seen
      <4>1. q = r
        BY <1>11, <3>1, <3>3, <3>4
      <4>2. Sound(r, c + 1)
        BY <3>1, SoundLater
      <4> QED BY <1>2, <2>3, <3>1, <3>2, <3>3, <3>4, <4>1, <4>2
    <3>5. CASE s \in seen
      <4>1. q = [r EXCEPT !.version = @ + 1, !.last = c + 1, !.pending = @ \cup {a}]
        BY <1>11, <2>3, <3>1, <3>3, <3>5 DEF Committed
      <4>2. ~(Cardinality(r.pending) >= MaxPending)
        BY <1>11, <3>1, <3>5
      <4>3. /\ q.version = r.version + 1 /\ q.last = c + 1 /\ q.pending = r.pending \cup {a}
            /\ q.accepted = r.accepted /\ q.exit = r.exit
        BY <3>1, <4>1 DEF ScopeStates
      <4>4. r \in ScopeStates /\ Sound(r, c)
        BY <3>1
      <4>5. Sound(q, c + 1)
        BY <4>2, <4>3, <4>4, CommittedSound
      <4>6. v + 1 \in Nat /\ v <= v + 1
        OBVIOUS
      <4> QED BY <1>2, <2>3, <3>1, <3>2, <3>3, <4>3, <4>5, <4>6
    <3> QED BY <3>4, <3>5
  <2>5. ASSUME NEW b \in Tags(stack) PROVE Open(b, attempts'[b], scopes', cursor')
    <3>1. PICK t, sc, sd : t = attempts[b] /\ sc = scopes /\ sd = scopes'
      OBVIOUS
    <3>2. t \in TagStates /\ Open(b, t, sc, c) /\ DOMAIN t.version \subseteq Owned(stack) /\ attempts'[b] = t
      BY <1>3, <1>5, <1>6, <2>3, <3>1 DEF Steady
    <3>3. \A s \in DOMAIN t.version :
            /\ sc[s].version \in Nat /\ sd[s].version \in Nat /\ sc[s].version <= sd[s].version
            /\ b \in sc[s].pending => b \in sd[s].pending
      BY <2>4, <3>1, <3>2
    <3>4. c + 1 \in Nat /\ c <= c + 1
      OBVIOUS
    <3>5. Open(b, t, sd, c + 1)
      BY <3>2, <3>3, <3>4, OpenLater
    <3> QED BY <1>2, <2>3, <3>1, <3>2, <3>5
  <2>6. DOMAIN tag.version = seen /\ \A s \in seen : scopes'[s].version = tag.version[s] /\ tag.version[s] \in Nat
    <3>1. \A s \in seen : tag.version[s] = scopes[s].version + 1 /\ scopes[s].version \in Nat
      BY <1>4, <1>7, <2>4
    <3> QED BY <1>4, <1>7, <2>4, <3>1
  <2>7. Open(a, attempts'[a], scopes', cursor')
    <3>1. c + 1 <= c + 1
      OBVIOUS
    <3>2. \A k \in Nat : k <= k
      OBVIOUS
    <3> QED BY <1>2, <1>3, <1>4, <1>7, <2>3, <2>4, <2>6, <3>1, <3>2 DEF Open
  <2>8. Steady(stack', scopes', attempts', cursor')
    BY <1>2, <1>6, <2>2, <2>4, <2>5, <2>7 DEF Steady
  <2>9. PermitHolds(a)'
    BY <1>3, <1>4, <1>7, <2>4, <2>6 DEF PermitHolds
  <2>10. Used'
    <3>1. \A b \in Tags(stack) : attempts'[b].dispatched
      BY <1>2, <1>3, <1>5, <1>6 DEF Used
    <3>2. PermitHolds(ctl.a)'
      BY <2>1, <2>9 DEF PermitHolds
    <3> QED BY <1>2, <2>1, <3>1, <3>2 DEF Used
  <2> QED BY <1>2, <2>1, <2>8, <2>10 DEF PermitInv, MonitorNeverConfused
<1> QED BY <1>9, <1>10, <1>11

\* The permit is used once.
LEMMA DispatchPermits ==
  ASSUME FrameInv, FrameInv', PermitInv, NEW next, NEW frames, Dispatch(next, frames), next.m \in {"run", "host"},
         Tags(stack') \subseteq Tags(stack)
  PROVE  PermitInv'
<1>1. /\ ctl.m = "dispatch" /\ attempts' = [attempts EXCEPT ![ctl.a].dispatched = TRUE]
      /\ UNCHANGED <<scopes, exits, cursor, saved>> /\ Alive
  BY DEF Dispatch, KeepScopes, KeepRun, Alive
<1>2. Steady(stack, scopes, attempts, cursor) /\ Used /\ cursor \in Nat
  BY <1>1 DEF PermitInv, FrameInv
<1>3. ctl' = next /\ Alive' /\ ctl'.m # "dispatch"
  BY <1>1, <1>2 DEF Dispatch, Used, Alive
<1>4. Owned(stack') = Owned(stack)
  BY <1>1, <1>3, LiveOwned, NextOwned
<1>5. ASSUME NEW b \in Tags(stack)
      PROVE  /\ attempts'[b].version = attempts[b].version /\ attempts'[b].completed = attempts[b].completed
             /\ attempts'[b].at = attempts[b].at /\ attempts'[b].dispatched
  <2>1. PICK r : r = attempts[b] /\ r \in TagStates /\ b \in DOMAIN attempts
    BY <1>1, LiveOwned DEF FrameInv, Whole
  <2>2. PICK q : q = attempts'[b]
    OBVIOUS
  <2>3. IF b = ctl.a THEN q = [r EXCEPT !.dispatched = TRUE] ELSE q = r
    BY <1>1, <2>1, <2>2
  <2>4. b # ctl.a => r.dispatched
    BY <1>2, <2>1 DEF Used
  <2>5. q.version = r.version /\ q.completed = r.completed /\ q.at = r.at /\ q.dispatched
    BY <2>1, <2>3, <2>4 DEF TagStates
  <2> QED BY <2>1, <2>2, <2>5
<1>6. \A b \in Tags(stack') : Open(b, attempts'[b], scopes', cursor')
  <2> SUFFICES ASSUME NEW b \in Tags(stack') PROVE Open(b, attempts'[b], scopes', cursor')
    OBVIOUS
  <2>1. b \in Tags(stack) /\ Open(b, attempts[b], scopes, cursor)
    BY <1>2 DEF Steady
  <2> QED BY <1>1, <1>5, <2>1 DEF Open
<1>7. Steady(stack', scopes', attempts', cursor')
  BY <1>1, <1>2, <1>4, <1>6 DEF Steady
<1>8. Used'
  BY <1>3, <1>5 DEF Used
<1> QED BY <1>1, <1>3, <1>7, <1>8 DEF PermitInv, MonitorNeverConfused

\* An outcome finds its attempt in every scope that saw it.
LEMMA CompletePermits ==
  ASSUME FrameInv, FrameInv', PermitInv, ctl.m \in {"run", "host"}, NEW a \in Tags(stack), NEW tag \in TagStates,
         tag.version = attempts[a].version, NEW v, NEW real, NEW frames, Complete(a, tag, v, real, frames),
         ctl'.m = "run" => Tags(stack') \subseteq Tags(stack) \ {a}
  PROVE  PermitInv'
<1>1. PICK seen : seen = DOMAIN tag.version
  OBVIOUS
<1>2. Alive /\ Steady(stack, scopes, attempts, cursor) /\ Used
  BY DEF PermitInv, Alive
<1>3. PICK c \in Nat : c = cursor
  BY DEF FrameInv
<1>4. /\ Owned(stack) \subseteq 1..Len(scopes) /\ Owned(stack) = Active
      /\ \A s \in Owned(stack) : scopes[s] \in ScopeStates
      /\ \A b \in Tags(stack) : /\ b \in 1..Len(attempts) /\ attempts[b] \in TagStates
                                /\ DOMAIN attempts[b].version \subseteq Owned(stack)
  BY <1>2, LiveOwned
<1>5. seen \subseteq Owned(stack) /\ seen \cap Active = seen
  BY <1>1, <1>4
<1>6. \A s \in seen : Correlates(s, a)
  <2> SUFFICES ASSUME NEW s \in seen PROVE Correlates(s, a)
    OBVIOUS
  <2>1. s \in Active /\ scopes[s] \in ScopeStates /\ Sound(scopes[s], c)
    BY <1>2, <1>3, <1>4, <1>5 DEF Steady
  <2>2. a \in scopes[s].pending
    <3>1. Open(a, attempts[a], scopes, cursor)
      BY <1>2 DEF Steady
    <3> QED BY <1>1, <3>1 DEF Open
  <2>3. PICK n \in Nat : n = scopes[s].last
    BY <2>1 DEF ScopeStates
  <2>4. c + 1 > n
    BY <2>1, <2>3 DEF Sound
  <2> QED BY <1>3, <2>1, <2>2, <2>3, <2>4 DEF Correlates, Receptive, Active
<1>7. /\ scopes' = [s \in DOMAIN scopes |-> IF s \in seen THEN Settled(s, a, tag, v) ELSE scopes[s]]
      /\ ctl' = Running /\ ctl'.m = "run" /\ Alive' /\ cursor' = cursor + 1 /\ UNCHANGED <<exits, saved>>
      /\ attempts' = [attempts EXCEPT ![a] = [tag EXCEPT !.completed = TRUE]]
      /\ Tags(stack') \subseteq Tags(stack) \ {a}
  BY <1>1, <1>5, <1>6 DEF Complete, KeepRun, Running, Alive
<1>8. Owned(stack') = Owned(stack)
  BY <1>2, <1>7, LiveOwned, NextOwned
<1>9. ASSUME NEW s \in Owned(stack)
      PROVE  /\ Sound(scopes'[s], cursor')
             /\ scopes[s].version \in Nat /\ scopes'[s].version \in Nat /\ scopes[s].version <= scopes'[s].version
             /\ scopes[s].pending \ {a} \subseteq scopes'[s].pending
  <2>1. PICK r : r = scopes[s] /\ r \in ScopeStates /\ Sound(r, c) /\ s \in DOMAIN scopes
    BY <1>2, <1>3, <1>4 DEF Steady, Active
  <2>2. PICK w \in Nat : w = r.version
    BY <2>1 DEF ScopeStates
  <2>3. PICK q : q = scopes'[s]
    OBVIOUS
  <2>4. CASE s \notin seen
    <3>1. q = r
      BY <1>7, <2>1, <2>3, <2>4
    <3>2. Sound(r, c + 1)
      BY <2>1, SoundLater
    <3> QED BY <1>3, <1>7, <2>1, <2>2, <2>3, <3>1, <3>2
  <2>5. CASE s \in seen
    <3>1. PICK x : x = tag.action /\ x \in Actions
      BY DEF TagStates
    <3>2. PICK e : e = IF OutcomeStatus(tag, v) = "Accepted" THEN [at |-> c + 1, current |-> TRUE] ELSE r.accepted[x]
      OBVIOUS
    <3>3. PICK new : new = [r.accepted EXCEPT ![x] = e]
      OBVIOUS
    <3>4. q = [r EXCEPT !.version = @ + 1, !.last = c + 1, !.pending = @ \ {a}, !.accepted = new]
      BY <1>3, <1>7, <2>1, <2>3, <2>5, <3>1, <3>2, <3>3 DEF Settled
    <3>5. q.version = r.version + 1 /\ q.last = c + 1 /\ q.pending = r.pending \ {a} /\ q.accepted = new
      BY <2>1, <3>4 DEF ScopeStates
    <3>6. r \in ScopeStates /\ Sound(r, c)
      BY <2>1
    <3>7. \A y \in Actions : q.accepted[y].at = c + 1 \/ q.accepted[y] = r.accepted[y]
      <4>1. r.accepted \in [Actions -> [at : Nat, current : BOOLEAN]]
        BY <3>6 DEF ScopeStates
      <4>2. \A y \in Actions : new[y] = r.accepted[y] \/ new[y] = e
        BY <3>1, <3>3, <4>1
      <4>3. e = r.accepted[x] \/ e.at = c + 1
        BY <3>2
      <4>4. \A y \in Actions : y # x => new[y] = r.accepted[y]
        BY <3>1, <3>3, <4>1
      <4> QED BY <3>5, <4>2, <4>3, <4>4
    <3>8. Sound(q, c + 1)
      BY <3>5, <3>6, <3>7, SettledSound
    <3>9. w + 1 \in Nat /\ w <= w + 1
      OBVIOUS
    <3> QED BY <1>3, <1>7, <2>1, <2>2, <2>3, <3>5, <3>8, <3>9
  <2> QED BY <2>4, <2>5
<1>10. ASSUME NEW b \in Tags(stack') PROVE Open(b, attempts'[b], scopes', cursor')
  <2>1. PICK t, sc, sd : t = attempts[b] /\ sc = scopes /\ sd = scopes'
    OBVIOUS
  <2>2. b \in Tags(stack) /\ b # a /\ b \in DOMAIN attempts
    BY <1>4, <1>7 DEF FrameInv, Whole
  <2>3. t \in TagStates /\ Open(b, t, sc, c) /\ DOMAIN t.version \subseteq Owned(stack) /\ attempts'[b] = t
    BY <1>2, <1>3, <1>4, <1>7, <2>1, <2>2 DEF Steady
  <2>4. \A s \in DOMAIN t.version :
          /\ sc[s].version \in Nat /\ sd[s].version \in Nat /\ sc[s].version <= sd[s].version
          /\ b \in sc[s].pending => b \in sd[s].pending
    BY <1>9, <2>1, <2>2, <2>3
  <2>5. c + 1 \in Nat /\ c <= c + 1
    OBVIOUS
  <2>6. Open(b, t, sd, c + 1)
    BY <2>3, <2>4, <2>5, OpenLater
  <2> QED BY <1>3, <1>7, <2>1, <2>3, <2>6
<1>11. Steady(stack', scopes', attempts', cursor')
  BY <1>2, <1>8, <1>9, <1>10 DEF Steady
<1>12. Used'
  <2>1. \A b \in Tags(stack') : attempts'[b] = attempts[b] /\ b \in Tags(stack)
    BY <1>4, <1>7 DEF FrameInv, Whole
  <2> QED BY <1>2, <1>7, <2>1 DEF Used
<1> QED BY <1>7, <1>11, <1>12 DEF PermitInv, MonitorNeverConfused

\* So the Host's answer does.
LEMMA HostAnswersPermits == ASSUME FrameInv, PermitInv, NEW v \in BOOLEAN, HostAnswers(v) PROVE PermitInv'
<1>1. PICK tag : tag = attempts[ctl.a]
  OBVIOUS
<1>2. PICK decided : decided = IF tag.action = Approval
                               THEN [tag EXCEPT !.trusted = IF v THEN "yes" ELSE "no"] ELSE tag
  OBVIOUS
<1>3. PICK a, frames : a = ctl.a /\ frames = Tail(stack)
  OBVIOUS
<1>4. ctl.m = "host" /\ Complete(a, decided, v, v, frames)
  BY <1>1, <1>2, <1>3 DEF HostAnswers
<1>5. a \in 1..Len(attempts) /\ stack # <<>> /\ stack[1].k = "outcome" /\ stack[1].id = a /\ WellBuilt(stack, Views)
  BY <1>3, <1>4 DEF FrameInv, Whole, AtAction, Views
<1>6. a \in Tags(stack)
  <2>1. PICK W : Closed(W, Views) /\ stack \in Seq(W)
    BY <1>5 DEF WellBuilt
  <2>2. 1 \in DOMAIN stack /\ Shape(stack[1], Views)
    BY <1>5, <2>1 DEF Closed
  <2>3. a \in stack[1].tags
    BY <1>5, <2>2 DEF Shape
  <2> QED BY <2>2, <2>3 DEF Tags
<1>7. tag \in TagStates
  BY <1>1, <1>3, <1>5 DEF FrameInv, Whole
<1>8. decided \in TagStates /\ decided.version = attempts[a].version
  BY <1>1, <1>2, <1>3, <1>7 DEF TagStates
<1>9. FrameInv' /\ (ctl'.m = "run" => Tags(stack') \subseteq Tags(stack) \ {a})
  BY <1>3, HostAnswersFrames
<1> QED BY <1>4, <1>6, <1>8, <1>9, CompletePermits

\* And a resumption.
LEMMA ResumePermits == ASSUME FrameInv, PermitInv, NEW v \in BOOLEAN, Resume(v) PROVE PermitInv'
<1>1. PICK back, a, tag : back = stack[1].saved /\ a = back[1].id /\ tag = attempts[a]
  OBVIOUS
<1>2. PICK frames, real : frames = Tail(back) \o Tail(stack) /\ real = (tag.action # Approval)
  OBVIOUS
<1>3. ctl = Running /\ ctl.m = "run" /\ Complete(a, tag, v, real, frames)
  BY <1>1, <1>2 DEF Resume, Running
<1>4. FrameInv' /\ a \in Tags(stack) /\ (ctl'.m = "run" => Tags(stack') \subseteq Tags(stack) \ {a})
  BY <1>1, ResumeFrames
<1>5. tag \in TagStates
  BY <1>1, <1>4 DEF FrameInv, Whole
<1> QED BY <1>1, <1>3, <1>4, <1>5, CompletePermits

\* A document of what is sound passes its own validation.
LEMMA LogIsAccepted ==
  ASSUME NEW doc, NEW n \in Nat, NEW E \in SUBSET (1..n), NEW bd, Documented(doc, E, bd)
  PROVE  LogAccepted(doc, n)
<1>1. PICK D : D = doc.records
  OBVIOUS
<1>2. Report(D, E, bd) /\ Len(D) <= RecordCeiling /\ doc.unsatisfied = Len(bd) /\ BadOK(E, bd)
  BY <1>1 DEF Documented
<1>3. PICK m \in Nat, k \in Nat, j \in Nat : m = Len(D) /\ k = Len(bd) /\ D \in Seq(ExitRecs) /\ bd \in Seq(E)
                                             /\ j = doc.omitted
  BY <1>2 DEF Report, BadOK, Documented
<1>4. Single(D) /\ \A i \in 1..m : Unsatisfied(D[i]) /\ D[i].scope \in Entries(bd) /\ D[i].scope \in E
  BY <1>2, <1>3 DEF Report
<1>5. m <= k
  <2>1. \A i \in 1..m : \E p \in 1..k : bd[p] = D[i].scope
    BY <1>3, <1>4 DEF Entries
  <2>2. PICK h : h = [i \in 1..m |-> CHOOSE p \in 1..k : bd[p] = D[i].scope]
    OBVIOUS
  <2>3. h \in [1..m -> 1..k] /\ \A i \in 1..m : bd[h[i]] = D[i].scope
    BY <2>1, <2>2
  <2>4. \A x, y \in 1..m : h[x] = h[y] => x = y
    BY <1>3, <1>4, <2>3 DEF Single
  <2> QED BY <2>3, <2>4, NotLonger
<1>6. k <= n
  <2>1. bd \in [1..k -> 1..n]
    <3>1. bd \in [1..k -> E]
      BY <1>3
    <3> QED BY <3>1
  <2>2. \A x, y \in 1..k : bd[x] = bd[y] => x = y
    BY <1>2, <1>3 DEF BadOK
  <2> QED BY <2>1, <2>2, NotLonger
<1>7. j <= n
  <2>1. IsFiniteSet(1..n) /\ Cardinality(1..n) = n
    BY FS_Interval
  <2>2. PICK e \in Nat : e = Cardinality(E) /\ e <= n
    <3>1. IsFiniteSet(E) /\ Cardinality(E) <= Cardinality(1..n)
      BY <2>1, FS_Subset
    <3>2. Cardinality(E) \in Nat
      BY <3>1, FS_CardinalityType
    <3> QED BY <2>1, <3>1, <3>2
  <2>3. j + (IF Capacity = 0 THEN 0 ELSE m) <= e
    BY <1>1, <1>3, <2>2 DEF Documented
  <2> QED BY <2>2, <2>3
<1>8. (k = 0) = (D = <<>>)
  <2>1. IF bd = <<>> THEN D = <<>> ELSE D # <<>>
    BY <1>2 DEF Report
  <2> QED BY <1>3, <2>1
<1>9. \A x, y \in DOMAIN D : /\ Unsatisfied(D[x]) /\ D[x].scope \in 1..n
                             /\ x # y => D[x].scope # D[y].scope
  <2>1. DOMAIN D = 1..m
    BY <1>3
  <2> QED BY <1>3, <1>4, <2>1 DEF Single
<1> QED BY <1>1, <1>2, <1>3, <1>5, <1>6, <1>7, <1>8, <1>9 DEF LogAccepted

\* What the parts of a document promise.
Sane(doc) ==
  /\ Whole(doc.stack, doc.scopes, doc.attempts, doc.exits) /\ Kept(doc.stack, doc.scopes, doc.attempts)
  /\ Documented(doc.log, Exited(doc.scopes), doc.bad)
  /\ Steady(doc.stack, doc.scopes, doc.attempts, doc.cursor)
  /\ \A a \in Tags(doc.stack) : doc.attempts[a].dispatched

\* Such a document passes the validation of checkpoints.
LEMMA SaneAccepted == ASSUME NEW doc, Sane(doc) PROVE DocumentAccepted(doc)
<1>1. PICK st, sc, at, ex : st = doc.stack /\ sc = doc.scopes /\ at = doc.attempts /\ ex = doc.exits
  OBVIOUS
<1>2. Whole(st, sc, at, ex) /\ Kept(st, sc, at) /\ Steady(st, sc, at, doc.cursor)
  BY <1>1 DEF Sane
<1>3. /\ \A s \in Owned(st) : sc[s] \in ScopeStates
      /\ \A a \in Tags(st) : a \in 1..Len(at) /\ at[a] \in TagStates /\ DOMAIN at[a].version \subseteq Owned(st)
  BY <1>2, OwnedCounted
<1>4. PICK n \in Nat : n = Len(sc)
  BY <1>2 DEF Whole, Counted
<1>5. LogAccepted(doc.log, Len(doc.scopes))
  <2>1. PICK d, E, bd : d = doc.log /\ E = Exited(doc.scopes) /\ bd = doc.bad
    OBVIOUS
  <2>2. Documented(d, E, bd)
    BY <2>1 DEF Sane
  <2>3. E \in SUBSET (1..n)
    BY <1>1, <1>4, <2>1 DEF Exited
  <2>4. LogAccepted(d, n)
    BY <2>2, <2>3, LogIsAccepted
  <2> QED BY <1>1, <1>4, <2>1, <2>4
<1>6. Cardinality({s \in Owned(st) : sc[s].exit = "none"}) <= MaxActive
  <2>1. {s \in Owned(st) : sc[s].exit = "none"} = Owned(st)
    BY <1>2 DEF Kept
  <2> QED BY <1>2, <2>1 DEF Steady, Room
<1>7. \A s \in Owned(st) :
        /\ (sc[s].version = 0) = (sc[s].last = 0) /\ sc[s].last <= doc.cursor
        /\ \A x \in Actions : sc[s].accepted[x].at <= sc[s].last
        /\ Cardinality(sc[s].pending) <= MaxPending
  BY <1>2 DEF Steady, Sound
<1>8. ASSUME NEW a \in Tags(st)
      PROVE  /\ at[a].dispatched /\ at[a].at <= doc.cursor
             /\ \A s \in DOMAIN at[a].version :
                  /\ s \in Owned(st) /\ (a \in sc[s].pending) = ~at[a].completed
                  /\ at[a].version[s] <= sc[s].version
  <2>1. at[a].dispatched
    BY <1>1 DEF Sane
  <2>2. Open(a, at[a], sc, doc.cursor) /\ DOMAIN at[a].version \subseteq Owned(st) /\ at[a].completed \in BOOLEAN
    BY <1>2, <1>3 DEF Steady, TagStates
  <2> QED BY <2>1, <2>2 DEF Open
<1> QED BY <1>1, <1>5, <1>6, <1>7, <1>8 DEF DocumentAccepted

\* A checkpoint accepts itself, and promises as much.
LEMMA CheckpointPermits == ASSUME FrameInv, LogInv, PermitInv, Checkpoint PROVE PermitInv'
<1>1. /\ ctl = Running /\ UNCHANGED <<stack, scopes, attempts, cursor>>
      /\ saved' = [Document EXCEPT !.fuel = fuel - 1]
      /\ ctl' = IF DocumentAccepted(Document) THEN Running ELSE Ending("Failed", "checkpoint")
  BY DEF Checkpoint, Spend, KeepScopes
<1>2. ctl.m = "run" /\ Alive
  BY <1>1 DEF Running, Alive
<1>3. PICK doc : doc = Document
  OBVIOUS
<1>4. /\ doc.stack = stack /\ doc.scopes = scopes /\ doc.attempts = attempts /\ doc.exits = exits
      /\ doc.cursor = cursor /\ doc.log = LogSnapshot(log) /\ doc.bad = bad
  BY <1>3 DEF Document
<1>5. /\ saved'.stack = stack /\ saved'.scopes = scopes /\ saved'.attempts = attempts /\ saved'.cursor = cursor
  BY <1>1 DEF Document
<1>6. Steady(stack, scopes, attempts, cursor) /\ \A a \in Tags(stack) : attempts[a].dispatched
  BY <1>2 DEF PermitInv, Used
<1>7. Sane(doc)
  <2>1. Documented(doc.log, Exited(doc.scopes), doc.bad)
    <3>1. PICK l, E, bd : l = log /\ E = Exited(scopes) /\ bd = bad
      OBVIOUS
    <3>2. Documented(LogSnapshot(l), E, bd)
      BY <3>1, SnapshotDocuments DEF LogInv
    <3> QED BY <1>4, <3>1, <3>2
  <2>2. Whole(stack, scopes, attempts, exits) /\ Kept(stack, scopes, attempts)
    BY <1>2 DEF FrameInv
  <2> QED BY <1>4, <1>6, <2>1, <2>2 DEF Sane
<1>8. ctl' = Running /\ ctl'.m = "run" /\ Alive'
  BY <1>1, <1>3, <1>7, SaneAccepted DEF Running, Alive
<1>9. Steady(stack', scopes', attempts', cursor') /\ Used'
  BY <1>1, <1>6, <1>8 DEF Used
<1> QED BY <1>5, <1>6, <1>8, <1>9 DEF PermitInv, MonitorNeverConfused

\* Restored, what was saved is as sound.
LEMMA RestoredSound ==
  ASSUME NEW r \in ScopeStates, NEW c, Sound(r, c)
  PROVE  /\ Sound(RestoredScope(r), c) /\ RestoredScope(r).version = r.version
         /\ RestoredScope(r).pending = r.pending
<1>1. PICK acc : acc = [x \in Actions |-> [at |-> r.accepted[x].at, current |-> r.accepted[x].at # 0 /\ x # Approval]]
  OBVIOUS
<1>2. PICK q : q = RestoredScope(r)
  OBVIOUS
<1>3. q = [r EXCEPT !.accepted = acc]
  BY <1>1, <1>2 DEF RestoredScope
<1>4. q.accepted = acc /\ q.version = r.version /\ q.last = r.last /\ q.pending = r.pending
  BY <1>3 DEF ScopeStates
<1>5. \A x \in Actions : acc[x].at = r.accepted[x].at
  BY <1>1
<1> QED BY <1>2, <1>4, <1>5 DEF Sound

\* The attempts, too.
LEMMA RestoredTag ==
  ASSUME NEW r \in TagStates
  PROVE  /\ RestoredAttempt(r).version = r.version /\ RestoredAttempt(r).completed = r.completed
         /\ RestoredAttempt(r).at = r.at /\ RestoredAttempt(r).dispatched = r.dispatched
<1>1. PICK q : q = RestoredAttempt(r)
  OBVIOUS
<1>2. q = [r EXCEPT !.trusted = "unknown"]
  BY <1>1 DEF RestoredAttempt
<1>3. q.version = r.version /\ q.completed = r.completed /\ q.at = r.at /\ q.dispatched = r.dispatched
  BY <1>2 DEF TagStates
<1> QED BY <1>1, <1>3

\* A new process accepts the checkpoint and goes on where it was taken.
LEMMA RestartPermits == ASSUME FrameInv, LogInv, PermitInv, Restart PROVE PermitInv'
<1>1. PICK doc : doc = saved
  OBVIOUS
<1>2. PICK st, sc, at, ex : st = doc.stack /\ sc = doc.scopes /\ at = doc.attempts /\ ex = doc.exits
  OBVIOUS
<1>3. /\ doc # NoCheckpoint /\ saved' = saved /\ stack' = st
      /\ scopes' = [s \in DOMAIN sc |-> RestoredScope(sc[s])]
      /\ attempts' = [a \in DOMAIN at |-> RestoredAttempt(at[a])]
      /\ cursor' = RestoredCursor(doc)
      /\ ctl' = IF DocumentAccepted(doc) THEN Running ELSE Ending("Failed", "checkpoint")
  BY <1>1, <1>2 DEF Restart
<1>4. Sane(doc) /\ doc.cursor \in Nat
  BY <1>1, <1>3 DEF Sane, FrameInv, Saved, LogInv, PermitInv
<1>5. ctl' = Running /\ ctl'.m = "run" /\ Alive'
  BY <1>3, <1>4, SaneAccepted DEF Running, Alive
<1>6. PICK c \in Nat : c = doc.cursor /\ cursor' = c
  <2>1. PICK c \in Nat : c = doc.cursor
    BY <1>4
  <2>2. c \in {0, c} /\ \A y \in {0, c} : c >= y
    OBVIOUS
  <2>3. \A z \in {0, c} : (\A y \in {0, c} : z >= y) => z = c
    OBVIOUS
  <2>4. Max({0, c}) = c
    BY <2>2, <2>3 DEF Max
  <2> QED BY <1>3, <2>1, <2>4 DEF RestoredCursor
<1>7. Whole(st, sc, at, ex) /\ Kept(st, sc, at) /\ Steady(st, sc, at, c)
  BY <1>2, <1>4, <1>6 DEF Sane
<1>8. /\ Owned(st) \subseteq DOMAIN sc /\ \A s \in Owned(st) : sc[s] \in ScopeStates
      /\ \A a \in Tags(st) : a \in DOMAIN at /\ at[a] \in TagStates /\ DOMAIN at[a].version \subseteq Owned(st)
  <2>1. DOMAIN sc = 1..Len(sc) /\ DOMAIN at = 1..Len(at)
    BY <1>7 DEF Whole, Counted
  <2> QED BY <1>7, <2>1, OwnedCounted
<1>9. ASSUME NEW s \in Owned(st)
      PROVE  Sound(scopes'[s], c) /\ scopes'[s].version = sc[s].version /\ scopes'[s].pending = sc[s].pending
  <2>1. PICK r : r = sc[s] /\ r \in ScopeStates /\ Sound(r, c)
    BY <1>7, <1>8 DEF Steady
  <2>2. scopes'[s] = RestoredScope(r)
    BY <1>3, <1>8, <2>1
  <2> QED BY <2>1, <2>2, RestoredSound
<1>10. ASSUME NEW a \in Tags(st) PROVE Open(a, attempts'[a], scopes', c) /\ attempts'[a].dispatched
  <2>1. PICK r : r = at[a] /\ r \in TagStates /\ Open(a, r, sc, c) /\ DOMAIN r.version \subseteq Owned(st) /\ r.dispatched
    BY <1>2, <1>4, <1>7, <1>8 DEF Steady, Sane
  <2>2. attempts'[a] = RestoredAttempt(r)
    BY <1>3, <1>8, <2>1
  <2>3. PICK q : q = attempts'[a] /\ q.version = r.version /\ q.completed = r.completed /\ q.at = r.at /\ q.dispatched
    BY <2>1, <2>2, RestoredTag
  <2>4. Open(a, q, scopes', c)
    BY <1>9, <2>1, <2>3 DEF Open
  <2> QED BY <2>3, <2>4
<1>11. Steady(stack', scopes', attempts', cursor')
  BY <1>3, <1>6, <1>7, <1>9, <1>10 DEF Steady
<1>12. Used'
  BY <1>3, <1>5, <1>10 DEF Used
<1> QED BY <1>1, <1>3, <1>5, <1>11, <1>12 DEF PermitInv, MonitorNeverConfused

\* Every step leaves the monitor sure of itself.
LEMMA NextPermits == FrameInv /\ LogInv /\ PermitInv /\ [Next]_vars => PermitInv'
<1> SUFFICES ASSUME FrameInv, LogInv, PermitInv, [Next]_vars PROVE PermitInv'
  OBVIOUS
<1>1. FrameInv'
  BY NextFrames
<1>2. CASE UNCHANGED vars
  BY <1>2 DEF vars, PermitInv, Steady, Used, PermitHolds, MonitorNeverConfused, Alive
<1>3. ASSUME Lasting, UNCHANGED <<exits, attempts, cursor, saved>>, ctl.m = "run", ctl' = ctl,
             Tags(stack') \subseteq Tags(stack)
      PROVE  PermitInv'
  <2>1. Alive /\ Alive' /\ ctl'.m # "dispatch" /\ MonitorNeverConfused'
    BY <1>3 DEF Alive, MonitorNeverConfused
  <2>2. Owned(stack') = Owned(stack)
    BY <1>1, <1>3, <2>1, LiveOwned, NextOwned
  <2> QED BY <1>1, <1>3, <2>1, <2>2, PermitsKept
<1>4. ASSUME NEW k \in {"handle", "try"}, Enter(k) PROVE PermitInv'
  BY <1>3, <1>4, EnterFrames, SameLasts DEF Enter, Spend, KeepScopes, KeepRun, Running
<1>5. CASE Leave
  BY <1>3, <1>5, LeaveFrames, SameLasts DEF Leave, KeepScopes, KeepRun, Running
<1>6. CASE DispatchArm
  <2>1. \E frames : Dispatch(Running, frames)
    BY <1>6 DEF DispatchArm
  <2>2. Running.m = "run"
    BY DEF Running
  <2> QED BY <1>1, <1>6, <2>1, <2>2, DispatchArmFrames, DispatchPermits
<1>7. CASE DispatchHost
  <2>1. PICK next, frames : next = [m |-> "host", a |-> ctl.a] /\ frames = stack
    OBVIOUS
  <2>2. Dispatch(next, frames) /\ next.m = "host"
    BY <1>7, <2>1 DEF DispatchHost
  <2> QED BY <1>1, <1>7, <2>2, DispatchHostFrames, DispatchPermits
<1>8. ASSUME NEW list, SettleScopes(list), UNCHANGED <<attempts, cursor, saved>>, ctl.m \in {"run", "host"},
             ctl' = Running \/ \E o, w : w \in {"none", "unhandled", "incomplete"} /\ ctl' = Ending(o, w),
             Tags(stack') \subseteq Tags(stack)
      PROVE  PermitInv'
  <2>1. CASE ctl' = Running
    <3>1. ctl'.m = "run" /\ Alive /\ Alive'
      BY <1>8, <2>1 DEF Running, Alive
    <3>2. Owned(stack') \subseteq Owned(stack) /\ Lasting
      BY <1>1, <1>8, <3>1, SettlingShrinks, SettlingLasts
    <3>3. MonitorNeverConfused'
      BY <3>1 DEF MonitorNeverConfused
    <3> QED BY <1>1, <1>8, <3>1, <3>2, <3>3, PermitsKept
  <2>2. CASE ctl' # Running
    BY <1>8, <2>2, NotConfused, EndsPermits
  <2> QED BY <2>1, <2>2
<1>9. ASSUME Unwind, ctl.m \in {"run", "host"}, Tags(stack') \subseteq Tags(stack) PROVE PermitInv'
  <2>1. PICK list : SettleScopes(list)
    BY <1>9 DEF Unwind
  <2>2. UNCHANGED <<attempts, cursor, saved>> /\ (ctl' = Running \/ ctl' = Ending("Failed", "unhandled"))
    BY <1>9 DEF Unwind, KeepRun
  <2> QED BY <1>8, <1>9, <2>1, <2>2
<1>10. CASE Raise
  BY <1>9, <1>10, UnwindFrames DEF Raise, Spend, Running, Alive
<1>11. CASE HostFails
  <2>1. CASE Unwind
    BY <1>9, <1>11, <2>1, HostFailsFrames DEF HostFails
  <2>2. CASE ~Unwind
    <3>1. saved' = saved /\ ctl' = Ending("Failed", "host")
      BY <1>11, <2>2 DEF HostFails, KeepRun
    <3> QED BY <3>1, NotConfused, EndsPermits
  <2> QED BY <2>1, <2>2
<1>12. CASE FinishArm
  <2>1. PICK list : SettleScopes(list)
    BY <1>12 DEF FinishArm
  <2>2. UNCHANGED <<attempts, cursor, saved>> /\ ctl' = Running /\ ctl.m = "run"
    BY <1>12 DEF FinishArm, KeepRun, Running
  <2> QED BY <1>8, <1>12, <2>1, <2>2, FinishArmFrames
<1>13. CASE Return
  <2>1. PICK list : SettleScopes(list)
    BY <1>13 DEF Return
  <2>2. UNCHANGED <<attempts, cursor, saved>> /\ (ctl' = Running \/ ctl' = Ending("Failed", "incomplete")) /\ ctl.m = "run"
    BY <1>13 DEF Return, KeepRun, Running
  <2> QED BY <1>8, <1>13, <2>1, <2>2, ReturnFrames
<1>14. CASE EndBody
  <2>1. saved' = saved /\ ctl' = Ending("Completed", "none")
    BY <1>14 DEF EndBody, KeepRun
  <2> QED BY <2>1, NotConfused, EndsPermits
<1>15. CASE Cancel
  <2>1. saved' = saved /\ ctl' = Ending("Cancelled", "none")
    BY <1>15 DEF Cancel, KeepRun
  <2> QED BY <2>1, NotConfused, EndsPermits
<1>16. CASE Finish
  <2>1. ctl.m = "ending" /\ ctl'.m = "ended" /\ ctl'.why = ctl.why /\ saved' = saved
    BY <1>16 DEF Finish, KeepRun
  <2>2. ~Alive' /\ MonitorNeverConfused'
    BY <2>1 DEF Alive, PermitInv, MonitorNeverConfused
  <2> QED BY <2>1, <2>2, EndsPermits
<1>17. CASE Next /\ ~Raise
  BY <1>4, <1>5, <1>6, <1>7, <1>11, <1>12, <1>13, <1>14, <1>15, <1>16, <1>17, ActivatePermits, PerformPermits,
     HostAnswersPermits, ResumePermits, CheckpointPermits, RestartPermits
     DEF Next
<1> QED BY <1>2, <1>10, <1>17

\* No legal program meets one of the monitor's internal errors: an event that
\* does not advance a cursor, an outcome without its attempt, a stale or used
\* permit, a checkpoint that its own validation or the restoration refuses
\* (observe_residual_attempt, consume_permit, record_outcome, validate_counters).
THEOREM MonitorIsSure == Spec => []MonitorNeverConfused
<1>1. Init => FrameInv /\ LogInv /\ PermitInv
  BY InitFrames, InitLog, InitPermits
<1>2. FrameInv /\ LogInv /\ PermitInv /\ [Next]_vars => (FrameInv /\ LogInv /\ PermitInv)'
  BY NextFrames, NextLog, NextPermits
<1>3. PermitInv => MonitorNeverConfused
  BY DEF PermitInv
<1> QED BY <1>1, <1>2, <1>3, PTL DEF Spec

\* Nobody changes roles.
LEMMA RoleKept == [Next]_vars => role' = role
<1> SUFFICES ASSUME [Next]_vars PROVE role' = role
  OBVIOUS
<1>1. ASSUME NEW next, NEW frames, Dispatch(next, frames) PROVE role' = role
  BY <1>1 DEF Dispatch, KeepRun
<1>2. ASSUME NEW a, NEW tag, NEW v, NEW real, NEW frames, Complete(a, tag, v, real, frames) PROVE role' = role
  BY <1>2 DEF Complete, KeepRun
<1>3. ASSUME NEW v, HostAnswers(v) \/ Resume(v) PROVE role' = role
  BY <1>2, <1>3 DEF HostAnswers, Resume
<1>4. CASE DispatchArm \/ DispatchHost
  BY <1>1, <1>4 DEF DispatchArm, DispatchHost
<1>5. CASE Unwind
  BY <1>5 DEF Unwind, KeepRun
<1>6. CASE HostFails \/ Raise
  BY <1>5, <1>6 DEF HostFails, Raise, KeepRun
<1>7. CASE FinishArm \/ Return \/ EndBody \/ Cancel \/ Finish \/ Leave
  BY <1>7 DEF FinishArm, Return, EndBody, Cancel, Finish, Leave, KeepRun
<1>8. ASSUME NEW g, Activate(g) \/ Enter(g) \/ Perform(g) PROVE role' = role
  BY <1>8 DEF Activate, Enter, Perform, KeepRun
<1>9. CASE Checkpoint \/ Restart
  BY <1>9 DEF Checkpoint, Restart
<1>10. CASE UNCHANGED vars
  BY <1>10 DEF vars
<1> QED BY <1>3, <1>4, <1>6, <1>7, <1>8, <1>9, <1>10 DEF Next

\* The state of the monitor is well formed: every owned scope and attempt exists,
\* what is recorded is a record, and while the run goes on the frames own exactly
\* the active scopes, captured ones included (ResidualRuntimeState).
THEOREM MonitorWellFormed == Spec => []ResidualTypeOK
<1>1. Init => FrameInv /\ LogInv /\ role \in {"root", "task"}
  BY InitFrames, InitLog, MonitorConstants DEF Init
<1>2. FrameInv /\ LogInv /\ role \in {"root", "task"} /\ [Next]_vars
        => (FrameInv /\ LogInv /\ role \in {"root", "task"})'
  BY NextFrames, NextLog, RoleKept
<1>3. ASSUME FrameInv, LogInv, role \in {"root", "task"} PROVE ResidualTypeOK
  <2>1. /\ Owned(stack) \subseteq 1..Len(scopes) /\ Tags(stack) \subseteq 1..Len(attempts)
        /\ Counted(scopes, exits) /\ attempts \in Seq(TagStates)
    BY <1>3 DEF FrameInv, Whole
  <2>2. DOMAIN scopes = 1..Len(scopes) /\ DOMAIN exits = 1..Len(scopes) /\ DOMAIN attempts = 1..Len(attempts)
    BY <2>1 DEF Counted
  <2>3. Range(log.exits) \subseteq Records
    <3>1. PICK q : q = log.exits
      OBVIOUS
    <3>2. q \in Seq(ExitRecs)
      BY <1>3, <3>1 DEF LogInv, LogOK, RingOK
    <3>3. \A r \in ExitRecs : r \in Records
      BY DEF ExitRecs, ExitKinds, Records
    <3>4. \A i \in DOMAIN q : q[i] \in Records
      BY <3>2, <3>3
    <3> QED BY <3>1, <3>4 DEF Range
  <2>4. ctl.m \in {"run", "dispatch", "host"} => Active = Owned(stack)
    BY <1>3, LiveOwned DEF Alive
  <2>5. ctl.m \in {"run", "dispatch", "host", "ending", "ended"}
    BY <1>3 DEF FrameInv
  <2> QED BY <1>3, <2>1, <2>2, <2>3, <2>4, <2>5 DEF ResidualTypeOK
<1>4. FrameInv /\ LogInv /\ role \in {"root", "task"} => ResidualTypeOK
  BY <1>3
<1> QED BY <1>1, <1>2, <1>4, PTL DEF Spec
=============================================================================
