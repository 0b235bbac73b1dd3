------------------------------ MODULE MCTaskLife ------------------------------
(* Small instances of the task lifetime. *)
EXTENDS TaskLife
===============================================================================
