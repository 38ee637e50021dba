----------------------------- MODULE MCDeckKeywords -----------------------------
(* Every typed section; SYSTEM, whose fields refuse each other, in triples. *)
EXTENDS DeckKeywords
MCSections == DOMAIN Table
MCMaxSet == [s \in MCSections |-> CASE s = "SYSTEM" -> 3 [] s = "ATOMS" -> 3 [] OTHER -> 2]
=============================================================================
