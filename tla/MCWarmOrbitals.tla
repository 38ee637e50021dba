----------------------------- MODULE MCWarmOrbitals -----------------------------
(* Finite instances of WarmOrbitals: geometries on a line, two keys. *)
EXTENDS WarmOrbitals, TLC

CONSTANTS k1, k2

\* 0 and 1 are within the limit of 1, 3 is beyond it from both.
MCGeometries == {0, 1, 3}
MCDistance(a, b) == IF a < b THEN b - a ELSE a - b
\* Geometries that are all within the limit of each other: no copy is dropped.
MCNearGeometries == {0, 1}
\* The limit, and no limit.
MCLimits == {1, -1}

Symmetry == Permutations(Keys)
=============================================================================
