----------------------------- MODULE MCNormQueue -----------------------------
(* NormQueue for TLC: two shards; unpinned tasks are interchangeable.       *)
EXTENDS NormQueue, TLC

CONSTANTS s1, s2, t1, t2, t3

FreeTasks == Permutations(Tasks \ Pinned)
==============================================================================
