------------------------------- MODULE Queues -------------------------------
(***************************************************************************)
(* The one operation on queues and logs that several components share.     *)
(***************************************************************************)
EXTENDS Integers, Sequences

\* filter and retain: the entries of queue q that are in S, in their order.
Retain(q, S) ==
  LET kept[i \in 0..Len(q)] ==
        IF i = 0 THEN <<>>
        ELSE IF q[i] \in S THEN Append(kept[i - 1], q[i]) ELSE kept[i - 1]
  IN  kept[Len(q)]

=============================================================================
