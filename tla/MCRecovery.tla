----------------------------- MODULE MCRecovery -----------------------------
(* Instances of Recovery for TLC. *)
EXTENDS Recovery

At(kind, key, cond, value) ==
  [kind |-> kind, key |-> key, cond |-> cond, value |-> value, retry |-> FALSE, handled |-> FALSE, refused |-> FALSE]
Retried(op) == [op EXCEPT !.retry = TRUE]
Handled(op) == [op EXCEPT !.handled = TRUE]
Refused(op) == [op EXCEPT !.refused = TRUE]
Save == At("checkpoint", "a", "Any", 0)
Put(key, value) == At("put", key, "Any", value)
Insert(key) == At("put", key, "Missing", 1)
Update(key) == At("put", key, "Exists", 1)
Swap(key) == At("put", key, "Match", 1)
Delete(key) == At("delete", key, "Any", 0)
Get(key) == At("get", key, "Any", 0)
Clear == At("clear", "a", "Any", 0)
PreparePut == At("prepare", "a", "Any", 1)
Commit == At("commit", "a", "Any", 1)
Reconcile == At("reconcile", "a", "Any", 1)

\* Writes after a checkpoint, writes that are alike, an error that is handled and
\* one that is tried again, a compare and swap, a cleared store, prepared writes,
\* reads, clears and commits that are tried again, and boundaries that are refused.
\* Nothing that takes a varying number of requests comes before a write.
ReplayedPrograms ==
  { <<Save, Retried(Put("a", 1)), Retried(Put("a", 1)), Save>>,
    <<Handled(Update("a")), Save, Retried(Insert("a")), Put("a", 1)>>,
    <<Handled(Insert("a")), Save, Get("a"), Handled(Swap("a")), Retried(Delete("a"))>>,
    <<Put("a", 1), Save, Clear>>,
    <<Save, Refused(Clear)>>,
    <<Save, Retried(Clear)>>,
    <<PreparePut, Save, Retried(Refused(Commit)), Commit>>,
    <<PreparePut, Save, Handled(Refused(Commit)), Retried(Reconcile), Commit>>,
    <<Save, Refused(Put("a", 1)), Retried(Get("a"))>> }

\* A write behind a checkpoint.
OnePut == { <<Save, Retried(Put("a", 1))>> }

\* A write that the registry may turn down at first.
RefusedPut == { <<Save, Retried(Refused(Put("a", 1)))>> }

\* A write behind a clear, whose scan may take another number of pages when it
\* is replayed.
ClearPut == { <<Save, Clear, Put("a", 1)>> }

\* A write behind a read that is tried again: an attempt takes a request number.
ReadPut == { <<Save, Retried(Get("a")), Put("a", 1)>> }

\* A prepared write.
OneCommit == { <<PreparePut, Commit>> }

=============================================================================
