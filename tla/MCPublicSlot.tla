---------------------------- MODULE MCPublicSlot ----------------------------
(* PublicSlot for TLC: objects, and threads without a timer, are alike.      *)
EXTENDS PublicSlot, TLC

HandleSymmetry ==
    Permutations(Threads \ TimerThreads) \cup Permutations(Objects)
=============================================================================
