--------------------------- MODULE MCFixApproval ----------------------------
(* Small instances of FixApproval for TLC.                                  *)
EXTENDS FixApproval, TLC

CONSTANTS p1, p2, q1, q2, q3, q4, n1, n2, s1

(* Both patches have the same first eight characters.                       *)
SameShortId == [p \in Patches |-> s1]

RequestSymmetry == Permutations(Requests)
=============================================================================
