------------------------------ MODULE MCColdDeck ------------------------------
EXTENDS ColdDeck

MCTexts == STRING

MCCell(kind) ==
    CASE kind = "none" -> << >>
      [] kind = "list" -> <<Word("CELL"), Data(<<"deck", "deck">>)>>
      [] kind = "record" -> <<Word("CELL VECTORS"), Data(<<"deck", "deck">>)>>
      [] kind = "rows" -> <<Word("CELL VECTORS")>> \o [i \in 1..3 |-> Data(<<"deck", "deck">>)]

MCWhen(condition, lines) == IF condition THEN lines ELSE << >>

\* The order of the typed renderer; CELL VECTORS comes without SYMMETRY.
MCSystem(symmetry, angstrom, cell, words) ==
    MCWhen(symmetry # None, <<Word("SYMMETRY"), Data(<<symmetry>>)>>)
      \o MCWhen(angstrom, <<Word("ANGSTROM")>>)
      \o MCCell(cell)
      \o MCWhen("REFERENCE CELL" \in words, <<Word("REFERENCE CELL"), Data(<<"reference">>)>>)
      \o MCWhen("CHECK SYMMETRY" \in words, <<Word("CHECK SYMMETRY"), Data(<<"-1">>)>>)
      \o <<Word("CUTOFF"), Data(<<"70">>)>>
      \o MCWhen("POISSON SOLVER" \in words, <<Word("POISSON SOLVER")>>)

MCSystems ==
    {MCSystem(s, a, c, w) :
       s \in {None, "0", "1", "8", "ISOLATED"}, a \in BOOLEAN, c \in {"none", "list"},
       w \in SUBSET {"REFERENCE CELL", "CHECK SYMMETRY", "POISSON SOLVER"}}
    \cup
    {MCSystem(None, a, c, w) :
       a \in BOOLEAN, c \in {"record", "rows"},
       w \in SUBSET {"REFERENCE CELL", "CHECK SYMMETRY", "POISSON SOLVER"}}

MCAtoms(pps, coordinates, extras) ==
    [pps |-> pps, coordinates |-> coordinates, extras |-> extras]

MCDeck(system, cpmd, elsewhere, atoms) ==
    [system |-> system, cpmd |-> cpmd, elsewhere |-> elsewhere, atoms |-> atoms]

MCInputs ==
    {None}
    \cup {MCDeck(s, c, e, MCAtoms({"H"}, FALSE, "none")) :
            s \in MCSystems, c \in SUBSET {"MAXITER"},
            e \in SUBSET {"VDW-CELL", "ISOLATED MOLECULE"}}
    \cup {MCDeck(MCSystem("1", TRUE, "list", {}), {}, {}, MCAtoms(p, g, x)) :
            p \in SUBSET {"H", "Fe"}, g \in BOOLEAN, x \in {"none", "pairs", "triples"}}

MCCalls ==
    {[atoms |-> a, box |-> b] :
       a \in {<<"H", "O", "H">>, <<"O", "Fe">>},
       b \in {None, "zero", "cubic", "orthorhombic", "tilted", "negative"}}

ASSUME DecksAreRendered == InputsAsRendered /\ RecordsAreWhole
=============================================================================
