---------------------------- MODULE MCTaskCalls ----------------------------
(* TLC instances of TaskCalls. *)
EXTENDS TaskCalls

CONSTANTS t1, h1, h2, stranger
=============================================================================
