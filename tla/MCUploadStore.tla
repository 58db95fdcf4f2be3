--------------------------- MODULE MCUploadStore ---------------------------
(* A small instance of UploadStore for TLC.                                *)
EXTENDS UploadStore

CONSTANTS u1, r1, r2, l1, l2, a, hole, absent
=============================================================================
