---------------------------- MODULE QueueProofs ----------------------------
(***************************************************************************)
(* The filter Retain is a recursive function.  What it returns follows     *)
(* from the least-number principle: there is no least number of entries    *)
(* for which it would return something else.                               *)
(***************************************************************************)
EXTENDS Queues, TLAPS, SequenceTheorems, WellFoundedInduction, NaturalsInduction

\* The least-number principle.
LEMMA LeastNat == ASSUME NEW T \in SUBSET Nat, T # {} PROVE \E x \in T : \A y \in T : x <= y
<1>1. IsWellFoundedOn(OpToRel(<, Nat), Nat)
  BY NatLessThanWellFounded
<1>2. PICK x \in T : \A y \in T : ~(<<y, x>> \in OpToRel(<, Nat))
  BY <1>1, WFMin
<1>3. \A y \in T : y < x => <<y, x>> \in OpToRel(<, Nat)
  BY DEF OpToRel
<1>4. \A y \in T : ~(y < x)
  BY <1>2, <1>3
<1> QED BY <1>4

\* What a queue holds.
Entries(q) == {q[i] : i \in 1..Len(q)}

\* f is the recursive function of Retain on the first n entries.
Keeps(f, q, S, n) ==
  f = [i \in 0..n |-> IF i = 0 THEN <<>>
                      ELSE IF q[i] \in S THEN Append(f[i - 1], q[i]) ELSE f[i - 1]]

\* There is such a function for every length.
LEMMA KeepsExists == ASSUME NEW q, NEW S, NEW n \in Nat PROVE \E f : Keeps(f, q, S, n)
<1> DEFINE T == {m \in Nat : ~\E f : Keeps(f, q, S, m)}
<1>1. SUFFICES ASSUME T # {} PROVE FALSE
  OBVIOUS
<1>2. PICK m \in T : \A k \in T : m <= k
  <2>1. T \in SUBSET Nat
    OBVIOUS
  <2> QED BY <1>1, <2>1, LeastNat
<1>3. CASE m = 0
  <2>1. PICK f : f = [i \in 0..0 |-> <<>>]
    OBVIOUS
  <2>2. Keeps(f, q, S, 0)
    BY <2>1 DEF Keeps
  <2> QED BY <1>2, <1>3, <2>2
<1>4. CASE m # 0
  <2>1. m - 1 \in Nat /\ m - 1 \notin T /\ m \in Nat
    BY <1>2, <1>4
  <2>2. PICK f : Keeps(f, q, S, m - 1)
    BY <2>1
  <2> DEFINE last == IF q[m] \in S THEN Append(f[m - 1], q[m]) ELSE f[m - 1]
  <2>3. PICK g : g = [i \in 0..m |-> IF i < m THEN f[i] ELSE last]
    OBVIOUS
  <2>4. \A i \in 0..(m - 1) :
          f[i] = IF i = 0 THEN <<>> ELSE IF q[i] \in S THEN Append(f[i - 1], q[i]) ELSE f[i - 1]
    BY <2>2 DEF Keeps
  <2>5. \A i \in 0..(m - 1) : g[i] = f[i]
    BY <2>1, <2>3
  <2>6. \A i \in 0..m :
          g[i] = IF i = 0 THEN <<>> ELSE IF q[i] \in S THEN Append(g[i - 1], q[i]) ELSE g[i - 1]
    <3> SUFFICES ASSUME NEW i \in 0..m
                 PROVE  g[i] = IF i = 0 THEN <<>> ELSE IF q[i] \in S THEN Append(g[i - 1], q[i]) ELSE g[i - 1]
      OBVIOUS
    <3>1. CASE i = m
      <4>1. g[m] = last /\ g[m - 1] = f[m - 1]
        BY <2>1, <2>3, <2>5
      <4> QED BY <1>4, <3>1, <4>1
    <3>2. CASE i # m
      <4>1. i \in 0..(m - 1) /\ (i # 0 => i - 1 \in 0..(m - 1))
        BY <2>1, <3>2
      <4> QED BY <2>4, <2>5, <4>1
    <3> QED BY <3>1, <3>2
  <2> HIDE DEF last
  <2>7. g = [i \in 0..m |-> IF i = 0 THEN <<>> ELSE IF q[i] \in S THEN Append(g[i - 1], q[i]) ELSE g[i - 1]]
    BY <2>3, <2>6
  <2>8. Keeps(g, q, S, m)
    BY <2>7 DEF Keeps
  <2> QED BY <1>2, <2>8
<1> QED BY <1>3, <1>4

\* Retain computes the last value of that function.
LEMMA RetainValue ==
  ASSUME NEW q, NEW S, Len(q) \in Nat PROVE \E f : Keeps(f, q, S, Len(q)) /\ Retain(q, S) = f[Len(q)]
<1>1. \E f : Keeps(f, q, S, Len(q))
  BY KeepsExists
<1>2. PICK f : f = CHOOSE g : Keeps(g, q, S, Len(q))
  OBVIOUS
<1>3. Keeps(f, q, S, Len(q))
  BY <1>1, <1>2
<1>4. Retain(q, S) = f[Len(q)]
  BY <1>2, Zenon DEF Retain, Keeps
<1> QED BY <1>3, <1>4

\* The recursion of Retain, entry by entry.
LEMMA RetainRecursion ==
  ASSUME NEW X, NEW q \in Seq(X), NEW S
  PROVE  \E f : /\ f[0] = <<>> /\ f[Len(q)] = Retain(q, S)
                /\ \A i \in 1..Len(q) :
                     f[i] = IF q[i] \in S THEN Append(f[i - 1], q[i]) ELSE f[i - 1]
<1>1. Len(q) \in Nat
  OBVIOUS
<1>2. PICK f : Keeps(f, q, S, Len(q)) /\ Retain(q, S) = f[Len(q)]
  BY <1>1, RetainValue
<1>3. \A i \in 0..Len(q) :
        f[i] = IF i = 0 THEN <<>> ELSE IF q[i] \in S THEN Append(f[i - 1], q[i]) ELSE f[i - 1]
  BY <1>2 DEF Keeps
<1>4. f[0] = <<>> /\ \A i \in 1..Len(q) :
        f[i] = IF q[i] \in S THEN Append(f[i - 1], q[i]) ELSE f[i - 1]
  BY <1>1, <1>3
<1> QED BY <1>2, <1>4

\* Retain keeps the entries that are in S, and nothing else.
LEMMA RetainEntries ==
  ASSUME NEW X, NEW q \in Seq(X), NEW S
  PROVE  Retain(q, S) \in Seq(X \cap S) /\ Entries(Retain(q, S)) = Entries(q) \cap S
<1>1. PICK n \in Nat : n = Len(q)
  OBVIOUS
<1>2. PICK f : /\ f[0] = <<>> /\ f[n] = Retain(q, S)
               /\ \A i \in 1..n : f[i] = IF q[i] \in S THEN Append(f[i - 1], q[i]) ELSE f[i - 1]
  BY <1>1, RetainRecursion
<1> DEFINE Good(i) == f[i] \in Seq(X \cap S) /\ Entries(f[i]) = {q[k] : k \in 1..i} \cap S
           T == {i \in 0..n : ~Good(i)}
<1>3. Good(0)
  BY <1>2 DEF Entries
<1>4. ASSUME NEW i \in 1..n, Good(i - 1) PROVE Good(i)
  <2>1. q[i] \in X /\ i \in Nat /\ i - 1 \in Nat
    BY <1>1
  <2>2. 1..i = 1..(i - 1) \cup {i}
    BY <2>1
  <2>3. CASE q[i] \notin S
    BY <1>2, <1>4, <2>2, <2>3
  <2>4. CASE q[i] \in S
    <3>1. PICK r : r = f[i - 1]
      OBVIOUS
    <3>2. r \in Seq(X \cap S) /\ Entries(r) = {q[k] : k \in 1..(i - 1)} \cap S
      BY <1>4, <3>1
    <3>3. f[i] = Append(r, q[i])
      BY <1>2, <2>4, <3>1
    <3>4. PICK m \in Nat : m = Len(r)
      BY <3>2
    <3>5. PICK g : g = Append(r, q[i])
      OBVIOUS
    <3>6. g \in Seq(X \cap S) /\ Len(g) = m + 1 /\ g[m + 1] = q[i] /\ \A k \in 1..m : g[k] = r[k]
      BY <2>1, <2>4, <3>2, <3>4, <3>5
    <3>7. 1..(m + 1) = 1..m \cup {m + 1}
      BY <3>4
    <3>8. Entries(g) = Entries(r) \cup {q[i]}
      BY <3>4, <3>6, <3>7 DEF Entries
    <3> QED BY <2>2, <2>4, <3>2, <3>3, <3>5, <3>6, <3>8
  <2> QED BY <2>3, <2>4
<1>5. T = {}
  <2> SUFFICES ASSUME T # {} PROVE FALSE
    OBVIOUS
  <2>1. PICK i \in T : \A k \in T : i <= k
    <3>1. T \in SUBSET Nat
      OBVIOUS
    <3> HIDE DEF T
    <3> QED BY <3>1, LeastNat
  <2> HIDE DEF Good
  <2>2. i # 0 /\ i \in 0..n
    BY <1>3
  <2>3. i - 1 \in 0..n /\ ~(i <= i - 1) /\ i \in 1..n
    BY <2>2
  <2>4. Good(i - 1)
    BY <2>1, <2>3
  <2> QED BY <1>4, <2>3, <2>4
<1> HIDE DEF Good
<1>6. Good(n)
  BY <1>5
<1> QED BY <1>1, <1>2, <1>6 DEF Good, Entries

\* Induction up to n, over a set.
LEMMA Climb ==
  ASSUME NEW n \in Nat, NEW G, 0 \in G, \A i \in 1..n : i - 1 \in G => i \in G
  PROVE  n \in G
<1> DEFINE T == {i \in 0..n : i \notin G}
<1>1. SUFFICES ASSUME T # {} PROVE FALSE
  OBVIOUS
<1>2. T \in SUBSET Nat
  OBVIOUS
<1>3. PICK i \in T : \A k \in T : i <= k
  <2> HIDE DEF T
  <2> QED BY <1>1, <1>2, LeastNat
<1>4. i \in 1..n /\ i - 1 \in 0..n /\ ~(i <= i - 1)
  <2>1. i # 0 /\ i \in 0..n
    OBVIOUS
  <2> QED BY <2>1
<1>5. i - 1 \in G
  BY <1>3, <1>4
<1> QED BY <1>4, <1>5

\* h gives the places that the entries of r have among the first n of q.
Places(h, r, q, n) ==
  /\ h \in [1..Len(r) -> 1..n]
  /\ \A i \in 1..Len(r) : r[i] = q[h[i]]
  /\ \A i, j \in 1..Len(r) : i < j => h[i] < h[j]

\* The entries Retain keeps stay in their order.
LEMMA RetainEmbeds ==
  ASSUME NEW X, NEW q \in Seq(X), NEW S PROVE \E h : Places(h, Retain(q, S), q, Len(q))
<1>1. PICK n \in Nat : n = Len(q)
  OBVIOUS
<1>2. PICK f : /\ f[0] = <<>> /\ f[n] = Retain(q, S)
               /\ \A i \in 1..n : f[i] = IF q[i] \in S THEN Append(f[i - 1], q[i]) ELSE f[i - 1]
  BY <1>1, RetainRecursion
<1> DEFINE G == {i \in 0..n : f[i] \in Seq(X) /\ \E h : Places(h, f[i], q, i)}
<1>3. 0 \in G
  <2>1. f[0] \in Seq(X) /\ Len(f[0]) = 0
    BY <1>2
  <2>2. PICK h : h = [k \in 1..0 |-> 1]
    OBVIOUS
  <2>3. h \in [1..0 -> 1..0]
    BY <2>2
  <2>4. Places(h, f[0], q, 0)
    BY <2>1, <2>3 DEF Places
  <2> QED BY <1>1, <2>1, <2>4
<1>4. ASSUME NEW i \in 1..n, i - 1 \in G PROVE i \in G
  <2>1. PICK r : r = f[i - 1]
    OBVIOUS
  <2>2. r \in Seq(X)
    BY <1>4, <2>1
  <2>3. PICK m \in Nat : m = Len(r)
    BY <2>2
  <2>4. PICK h : /\ h \in [1..m -> 1..(i - 1)]
                 /\ \A k \in 1..m : r[k] = q[h[k]]
                 /\ \A k, j \in 1..m : k < j => h[k] < h[j]
    BY <1>4, <2>1, <2>3 DEF Places
  <2>5. CASE q[i] \notin S
    <3>1. f[i] = r
      BY <1>2, <2>1, <2>5
    <3>2. h \in [1..m -> 1..i]
      BY <2>4
    <3>3. Places(h, r, q, i)
      BY <2>3, <2>4, <3>2 DEF Places
    <3> QED BY <1>1, <2>2, <3>1, <3>3
  <2>6. CASE q[i] \in S
    <3>1. PICK g : g = Append(r, q[i])
      OBVIOUS
    <3>2. f[i] = g
      BY <1>2, <2>1, <2>6, <3>1
    <3>3. g \in Seq(X) /\ Len(g) = m + 1 /\ g[m + 1] = q[i] /\ \A k \in 1..m : g[k] = r[k]
      <4>1. q[i] \in X
        BY <1>1
      <4> QED BY <2>2, <2>3, <3>1, <4>1
    <3>4. PICK e : e = [k \in 1..(m + 1) |-> IF k <= m THEN h[k] ELSE i]
      OBVIOUS
    <3>5. \A k \in 1..(m + 1) : (k \in 1..m /\ k <= m) \/ (k = m + 1 /\ ~(k <= m))
      BY <2>3
    <3>6. e[m + 1] = i /\ \A k \in 1..m : e[k] = h[k]
      BY <2>3, <3>4
    <3>7. e \in [1..(m + 1) -> 1..i]
      BY <2>4, <3>4, <3>5
    <3>8. \A k \in 1..(m + 1) : g[k] = q[e[k]]
      BY <2>4, <3>3, <3>5, <3>6
    <3>9. ASSUME NEW k \in 1..(m + 1), NEW j \in 1..(m + 1), k < j PROVE e[k] < e[j]
      <4>1. k \in 1..m
        BY <2>3, <3>9
      <4>2. CASE j \in 1..m
        BY <2>4, <3>6, <3>9, <4>1, <4>2
      <4>3. CASE j = m + 1
        <5>1. h[k] \in 1..(i - 1)
          BY <2>4, <4>1
        <5>2. h[k] < i
          BY <5>1
        <5> QED BY <3>6, <4>1, <4>3, <5>2
      <4> QED BY <3>5, <4>2, <4>3
    <3>10. Places(e, g, q, i)
      BY <3>3, <3>7, <3>8, <3>9 DEF Places
    <3> QED BY <1>1, <3>2, <3>3, <3>10
  <2> QED BY <2>5, <2>6
<1>5. n \in G
  <2> HIDE DEF G
  <2> QED BY <1>3, <1>4, Climb
<1> QED BY <1>1, <1>2, <1>5
=============================================================================
