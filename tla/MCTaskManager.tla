--------------------------- MODULE MCTaskManager ---------------------------
(* Small instances of TaskManager for TLC.                                 *)
EXTENDS TaskManager, TLC

CONSTANTS h1, h2, l1, w1
=============================================================================
