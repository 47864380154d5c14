---------------------------- MODULE MCJWKSCache ----------------------------
(* Instances of JWKSCache for TLC.                                         *)
EXTENDS JWKSCache, TLC

CONSTANTS p1, p2, p3, global, org1, org2, i1, i2, i3, i4

Interchangeable == Permutations(Proc) \cup Permutations(Id)

\* What a later step or a property depends on: not what entry objects that
\* nothing points to hold.
Used == [i \in Id |-> IF Unreferenced(i) THEN NewEntry ELSE heap[i]]
InUse == <<service, forced, entries, Used, once, call, out>>
=============================================================================
