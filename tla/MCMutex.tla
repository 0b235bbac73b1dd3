------------------------------ MODULE MCMutex ------------------------------
(* Small instances of the mutex and of its inductive invariants. *)
EXTENDS MutexInvariants
====
