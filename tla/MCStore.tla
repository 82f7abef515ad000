------------------------------ MODULE MCStore ------------------------------
(* Small instances of Store for TLC. *)
EXTENDS Store

CONSTANTS a, d, east, west, g1, g2

OneProblem  == [fp \in {a} |-> east]
TwoClusters == [fp \in {a, d} |-> IF fp = d THEN west ELSE east]

\* What a batch holds for one fingerprint: one finding, always about the same
\* version of the resource or about either of two.
OneVersion  == {<<1>>}
TwoVersions == {<<1>>, <<2>>}

Symmetry == Permutations({g1, g2})
=============================================================================
