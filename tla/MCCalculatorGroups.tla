-------------------------- MODULE MCCalculatorGroups --------------------------
(* Finite instances of CalculatorGroups for TLC. *)
EXTENDS CalculatorGroups
\* The two halves of the world, a block that is not aligned and a group that
\* is no block.
MCComms == {{0, 1}, {2, 3}, {1, 2}, {0, 2}}
=============================================================================
