---------------------------- MODULE MCCpmdcSession ----------------------------
(* Finite instances of CpmdcSession for TLC. *)
EXTENDS CpmdcSession, TLC

CONSTANTS s1, s2, p1, p2, ov, h1, ox, xx, c1

MCAtoms == {h1, ox, xx}
\* A hydrogen, an oxygen, and a number outside 1..118.
MCelement == h1 :> 1 @@ ox :> 8 @@ xx :> 0
MCElements == {1, 8}

\* A geometry and its reordering; and with another composition and an atom
\* that is in no table.
MCArraysTwo == {<<h1, ox>>, <<ox, h1>>}
MCArraysOther == {<<h1, ox>>, <<h1>>, <<xx>>}

MCRefused == {[params |-> p2, overlay |-> ov]}
MCWireRefused == {[params |-> p1, overlay |-> ov]}
NoMethods == {}
AllMethods == Methods
OnePlain == [params : {p1}, overlay : {None}]
OneOfEach == OnePlain \cup MCRefused \cup MCWireRefused
PlainOnly == [params : {p1, p2}, overlay : {None}]

Symmetry == Permutations({s1, s2})
=============================================================================
