----------------------------- MODULE AtMostOnce -----------------------------
(***************************************************************************)
(* What the interpreter promises about the storage writes of a workflow,   *)
(* whatever crashes, lost acknowledgements and resumptions lie between its  *)
(* start and its end: a write of the program reaches the store at most      *)
(* once, a write recorded as committed has reached it, that record is never *)
(* withdrawn by the incarnation that holds it, and a resumption knows what  *)
(* some checkpoint knew.                                                    *)
(***************************************************************************)
EXTENDS Sequences, Functions

VARIABLES
    effects,    \* the writes the store has applied, in order
    answer,     \* what the live incarnation has recorded about its writes
    kept        \* the answers the checkpoints have preserved

absVars == <<effects, answer, kept>>

Applied == Range(effects)
Nothing == [w \in {} |-> "unknown"]

AbsInit == effects = <<>> /\ answer = Nothing /\ kept = {}

\* The store applies a write; nobody needs to have heard of it.
Apply(w) == /\ w \notin Applied
            /\ effects' = Append(effects, w)
            /\ UNCHANGED <<answer, kept>>

\* The interpreter records the outcome of an attempt at a write.
Answer(w, a) ==
    /\ a = "committed" => w \in Applied
    /\ w \in DOMAIN answer => answer[w] # "committed"
    /\ answer' = [x \in DOMAIN answer \cup {w} |-> IF x = w THEN a ELSE answer[x]]
    /\ UNCHANGED <<effects, kept>>

\* A checkpoint preserves what is known.
Keep == kept' = kept \cup {answer} /\ UNCHANGED <<effects, answer>>

\* A resumption goes back to what a checkpoint preserved.
Recall == answer' \in kept /\ UNCHANGED <<effects, kept>>

AbsNext == \/ \E w \in Range(effects') : Apply(w)
           \/ \E w \in DOMAIN answer' : Answer(w, answer'[w])
           \/ Keep
           \/ Recall

AbsSpec == AbsInit /\ [][AbsNext]_absVars
=============================================================================
