------------------------------ MODULE MCWorker ------------------------------
(* Small instances of Worker for TLC.                                       *)
EXTENDS Worker, TLC

CONSTANTS j1, j2, j3, w1, w2, t1, t2, t3, r1

(* All jobs are of one repository: the case where get_or_create races.      *)
OneRepo == [j \in Jobs |-> r1]

WorkerSymmetry == Permutations({t1, t2, t3}) \cup Permutations({w1, w2})
TaskSymmetry == Permutations({t1, t2})
=============================================================================
