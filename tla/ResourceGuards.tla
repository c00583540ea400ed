---------------------------- MODULE ResourceGuards ----------------------------
(***************************************************************************)
(* The permit table of the task scheduler: the keys a task freezes before  *)
(* it starts, when two keys conflict, and when a set of keys can be taken. *)
(*                                                                         *)
(* A key selects a memory store by region and path, and either one entry   *)
(* of it or, with AnyEntry, the whole store.  The effect of a key is       *)
(* always Memory, so it is left out.                                       *)
(***************************************************************************)
EXTENDS Integers, Sequences, SequencesExt

AnyEntry == "*"     \* the key None of a FrozenSelector: a scan of the store

conflicts(k, l) ==
  /\ k.region = l.region
  /\ IsPrefix(k.path, l.path) \/ IsPrefix(l.path, k.path)
  /\ k.key = AnyEntry \/ l.key = AnyEntry \/ k.key = l.key

\* Two sets of keys that cannot be held by two tasks at the same time.
Clash(K, L) == \E k \in K, l \in L : conflicts(k, l)

\* None of t's keys conflicts with a key that another task in held has.
compatible(t, keysOf, held) == \A h \in held \ {t} : ~Clash(keysOf[t], keysOf[h])

\* acquire is all or nothing, and a task that holds its permits keeps them.
can_acquire(t, keysOf, held) ==
  t \in held \/ compatible(t, keysOf, held)

=============================================================================
