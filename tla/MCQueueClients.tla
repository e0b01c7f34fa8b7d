--------------------------- MODULE MCQueueClients ---------------------------
(* Small instances of QueueClients for TLC.                                 *)
EXTENDS QueueClients, TLC

CONSTANTS j1, j2, j3, j4, c1, c2

ClientSymmetry == Permutations({c1, c2})
=============================================================================
