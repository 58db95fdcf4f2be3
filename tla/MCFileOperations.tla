-------------------------- MODULE MCFileOperations --------------------------
(* Small instances of FileOperations for TLC.                              *)
EXTENDS FileOperations

CONSTANTS h1, h2, TreeRequests, DownloadRequests, UploadRequests

HandlerSymmetry == Permutations(Handlers)
TwoEntries      == <<"a", "b">>
Bounds          == [tree |-> TreeRequests, download |-> DownloadRequests, upload |-> UploadRequests]
=============================================================================
