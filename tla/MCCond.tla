------------------------------- MODULE MCCond -------------------------------
(* Small instances of the condition variable. *)
EXTENDS Cond

CONSTANT Outsiders  \* tasks that only signal and broadcast, without the mutex

\* The condition variable used by programs with these outsiders.
OutsiderSpec == CondInit /\ [][CondNext /\ \A t \in Outsiders : pc'[t] \in OutPcs]_cvars
====
