------------------------------- MODULE ColdDeck -------------------------------
(***************************************************************************)
(* How the input deck of a cold force call is put together                 *)
(* (src/src/cpmd_embed_c_api.F90): the deck of the image, or a minimal     *)
(* one, takes the atoms of the call, then its box, then a symmetry and a   *)
(* bound on the SCF steps.  The order matters: each pass reads what the    *)
(* one before it wrote.  impose_box_cell works line by line, so the        *)
(* &SYSTEM section is a sequence of lines here; the other sections are the *)
(* words that some pass looks for.                                         *)
(*                                                                         *)
(* A definition marked "Fault" is a wrong variant of the one after it.     *)
(***************************************************************************)
EXTENDS Naturals, FiniteSets, SequencesExt

CONSTANTS
    None,
    Texts,    \* keywords, data and names of elements
    Table,    \* the elements of the built-in pseudopotential table
    Inputs,   \* the decks an image can hold, None for none
    Calls     \* [atoms |-> Seq(element), box |-> a box or None]

VARIABLES
    input,    \* knobs%input_deck
    call,     \* the C arrays of the call
    phase,    \* the pass that comes next, or how it ended
    deck      \* the deck so far

vars == <<input, call, phase, deck>>

\* A keyword of &SYSTEM, and a record of data under it.
Word(w) == [word |-> w, data |-> << >>]
Data(d) == [word |-> "", data |-> d]

IsLine(line) == line = Word(line.word) \/ (line = Data(line.data) /\ line.data # << >>)
Lines == {line \in [word : Texts, data : Seq(Texts)] : IsLine(line)}

Words(d) == {d.system[i].word : i \in DOMAIN d.system}
Places(d, words) == {i \in DOMAIN d.system : d.system[i].word \in words}

Boxes == {"zero", "cubic", "orthorhombic", "tilted", "negative"}

\* The elements of a message with a pseudopotential, whether it gives
\* coordinates, and the numbers beside them; in a composed deck, its blocks.
Sources == {"message", "table"}
MessageAtoms ==
    [pps : SUBSET Texts, coordinates : BOOLEAN, extras : {"none", "pairs", "triples"}]
Blocks == [z : Texts, pp : Sources, count : Nat]
Decks == [cpmd : SUBSET Texts, elsewhere : SUBSET Texts, system : Seq(Lines),
          atoms : {None} \cup Seq(Blocks)]

\* What the passes write is text.
ASSUME TextsOfTheCode ==
    {"", "SYMMETRY", "ANGSTROM", "CELL", "CELL VECTORS", "CUTOFF", "POISSON SOLVER", "MAXITER",
     "0", "1", "8", "70", "ISOLATED", "default", "deck", "Angstrom", "Bohr"} \cup Boxes \subseteq Texts
ASSUME CallsAreArrays == Calls \subseteq [atoms : Seq(Texts), box : {None} \cup Boxes]
ASSUME InputsAreDecks ==
    Inputs \subseteq {None} \cup [cpmd : SUBSET Texts, elsewhere : SUBSET Texts,
                                system : Seq(Lines), atoms : MessageAtoms]
ASSUME NoneIsApart == None \notin Texts /\ None \notin Decks /\ None \notin Seq(Blocks)

-----------------------------------------------------------------------------
(* The atoms *)

Diagonal(box) == box \in {"cubic", "orthorhombic", "negative"}
BoxGiven == call.box \notin {None, "zero"}

\* A star and one line with three numbers.
HasRealAtoms(a) == (a.coordinates \/ a.extras = "triples") /\ (a.coordinates \/ a.pps # {})

GeometryDeck == IF input = None THEN FALSE ELSE HasRealAtoms(input.atoms)

MessagePps == IF input = None THEN {} ELSE input.atoms.pps

\* Fault: the built-in table is asked first.
TableFirst(z) == IF z \in Table THEN "table" ELSE IF z \in MessagePps THEN "message" ELSE None

\* embed_pp_lines_for_z
Pseudopotential(z) ==
    IF z \in MessagePps THEN "message" ELSE IF z \in Table THEN "table" ELSE None

AtomsOf(z) == {i \in DOMAIN call.atoms : call.atoms[i] = z}

AddElement(seen, z) == IF z \in ToSet(seen) THEN seen ELSE Append(seen, z)

\* The elements of the first n atoms, in the order of their first one.
SpeciesUpTo[n \in 0..Len(call.atoms)] ==
    IF n = 0 THEN << >> ELSE AddElement(SpeciesUpTo[n - 1], call.atoms[n])

Species == SpeciesUpTo[Len(call.atoms)]

Block(z) == [z |-> z, pp |-> Pseudopotential(z), count |-> Cardinality(AtomsOf(z))]

\* Fault: only the first element is looked up before the deck is begun.
MissingAtFirst == Pseudopotential(Head(call.atoms)) = None

\* ierr 2
MissingPseudopotential == \E i \in DOMAIN call.atoms : Pseudopotential(call.atoms[i]) = None

AtomsBlocks == [i \in DOMAIN Species |-> Block(Species[i])]

Refuse == phase' = "refused" /\ deck' = None

\* The deck that takes the place of a missing one, or of none.
Minimal ==
    [cpmd |-> {"MAXITER"}, elsewhere |-> {},
     system |-> <<Word("SYMMETRY"), Data(<<"0">>), Word("ANGSTROM"), Word("CELL"),
                  Data(<<"default", "Angstrom">>), Word("CUTOFF"), Data(<<"70">>),
                  Word("POISSON SOLVER")>>,
     atoms |-> AtomsBlocks]

\* A deck with a geometry is taken as it is.
KeepGeometry ==
    /\ phase = "compose"
    /\ GeometryDeck
    /\ deck' = [input EXCEPT !.atoms = None]
    /\ phase' = "cell"
    /\ UNCHANGED <<input, call>>

\* &ATOMS is rebuilt from the C arrays.
ReplaceAtoms ==
    /\ phase = "compose"
    /\ ~GeometryDeck
    /\ IF MissingPseudopotential
       THEN Refuse
       ELSE /\ deck' = IF input = None THEN Minimal ELSE [input EXCEPT !.atoms = AtomsBlocks]
            /\ phase' = "cell"
    /\ UNCHANGED <<input, call>>

-----------------------------------------------------------------------------
(* The box of the call: impose_box_cell *)

\* The value line of the first SYMMETRY.
SymmetryOf(d) ==
    LET at == SelectInSeq(d.system, LAMBDA line : line.word = "SYMMETRY")
    IN  IF at = 0 THEN None ELSE d.system[at + 1].data[1]

IsolatedDeck(d) == SymmetryOf(d) \in {"0", "ISOLATED"}

\* Fault: the box is always written in Angstrom.
AlwaysAngstrom(d) == "Angstrom"

\* A deck without ANGSTROM is read in Bohr.
UnitOf(d) == IF "ANGSTROM" \in Words(d) THEN "Angstrom" ELSE "Bohr"

SymmetryCode(d) ==
    IF IsolatedDeck(d) THEN "0"
    ELSE IF SymmetryOf(d) \in {None, "1", "CUBIC"} /\ call.box = "cubic" THEN "1"
    ELSE "8"

BoxLines(d) ==
    LET box == Data(<<call.box, UnitOf(d)>>)
    IN  IF Diagonal(call.box)
        THEN <<Word("SYMMETRY"), Data(<<SymmetryCode(d)>>), Word("CELL"), box>>
        ELSE <<Word("CELL VECTORS"), box, box, box>>

\* Fault: SYMMETRY stays beside the box.
SkippedLeavingSymmetry(line) ==
    CASE line.word = "CELL VECTORS" -> 3 [] line.word = "CELL" -> 1 [] OTHER -> 0

\* The lines that go with a keyword that goes; 0 for one that stays.
Skipped(line) ==
    CASE line.word = "CELL VECTORS" -> 3
      [] line.word \in {"CELL", "SYMMETRY"} -> 1
      [] OTHER -> 0

\* Fault: the data line of a dropped keyword stays.
KeptWithData(lines) ==
    SelectSeq(lines, LAMBDA line : Skipped(line) = 0)

Copied(lines, skip) == [lines |-> lines, skip |-> skip]

\* The second pass, a line at a time: what it has copied, and how many of the
\* lines to come it leaves out.
CopyLine(sofar, line) ==
    IF sofar.skip > 0 THEN Copied(sofar.lines, sofar.skip - 1)
    ELSE IF Skipped(line) > 0 THEN Copied(sofar.lines, Skipped(line))
    ELSE Copied(Append(sofar.lines, line), 0)

CopiedUpTo(lines) ==
    LET sofar[n \in 0..Len(lines)] ==
          IF n = 0 THEN Copied(<< >>, 0) ELSE CopyLine(sofar[n - 1], lines[n])
    IN  sofar

\* What is left of the section.
Kept(lines) == CopiedUpTo(lines)[Len(lines)].lines

ImposeBox ==
    /\ phase = "cell" /\ BoxGiven
    /\ \/ /\ (IsolatedDeck(deck) /\ ~Diagonal(call.box)) \/ call.box = "negative"
          /\ Refuse
       \/ /\ ~(IsolatedDeck(deck) /\ ~Diagonal(call.box)) /\ call.box # "negative"
          /\ deck' = [deck EXCEPT !.system = Kept(@) \o BoxLines(deck)]
          /\ phase' = "periodicity"
    /\ UNCHANGED <<input, call>>

-----------------------------------------------------------------------------
(* No box: inject_cell_if_missing, and the rest *)

\* Wherever in the deck, and whatever the keyword that ends in CELL; the code
\* takes these letters for it in a file name as well.
CellWords ==
    {"CELL", "CELL VECTORS", "REFERENCE CELL", "REFERENCE CELL VECTORS", "CLASSICAL CELL",
     "ISOTROPIC CELL", "ZFLEXIBLE CELL", "VDW-CELL", "CONVERGENCE CELL"}

NamesCell(d) == (Words(d) \cup d.elsewhere) \cap CellWords # {}

\* After the ANGSTROM line, or first in the section.
InjectedCell(d) ==
    LET at == SelectInSeq(d.system, LAMBDA line : line.word = "ANGSTROM")
    IN  SubSeq(d.system, 1, at) \o <<Word("CELL"), Data(<<"default", "deck">>)>>
          \o SubSeq(d.system, at + 1, Len(d.system))

InjectCell ==
    /\ phase = "cell" /\ ~BoxGiven
    /\ deck' = IF NamesCell(deck) THEN deck ELSE [deck EXCEPT !.system = InjectedCell(deck)]
    /\ phase' = "periodicity"
    /\ UNCHANGED <<input, call>>

\* What an explicit keyword has decided.
PeriodicityIsSet(d) ==
    \/ (Words(d) \cup d.elsewhere)
         \cap {"POISSON SOLVER", "CLUSTER", "ISOLATED MOLECULE", "MOLECULE ISOLATED"} # {}
    \/ Words(d) \cap {"SYMMETRY", "CELL VECTORS", "REFERENCE CELL VECTORS"} # {}

\* periodic_symmetry_code of the box; None for a tilted one.
CodeOfBox ==
    CASE call.box \in {None, "zero"} -> "0"
      [] call.box = "cubic" -> "1"
      [] call.box = "tilted" -> None
      [] OTHER -> "8"

InjectPeriodicity ==
    /\ phase = "periodicity"
    /\ deck' =
         IF PeriodicityIsSet(deck) \/ CodeOfBox = None THEN deck
         ELSE [deck EXCEPT !.system =
                 <<Word("SYMMETRY"), Data(<<CodeOfBox>>)>> \o @
                   \o IF CodeOfBox = "0" THEN <<Word("POISSON SOLVER")>> ELSE << >>]
    /\ phase' = "maxiter"
    /\ UNCHANGED <<input, call>>

\* A deck has a &CPMD section here: the renderer adds one when nothing opens it.
InjectMaxiter ==
    /\ phase = "maxiter"
    /\ deck' = [deck EXCEPT !.cpmd = @ \cup {"MAXITER"}]
    /\ phase' = "ready"
    /\ UNCHANGED <<input, call>>

Init == input \in Inputs /\ call \in Calls /\ phase = "compose" /\ deck = None

Next ==
    \/ KeepGeometry \/ ReplaceAtoms
    \/ ImposeBox \/ InjectCell
    \/ InjectPeriodicity \/ InjectMaxiter

Spec == Init /\ [][Next]_vars

-----------------------------------------------------------------------------
(* Properties *)

\* Every pass leaves a deck of whole lines, whose elements all have a
\* pseudopotential, and only a refusal leaves none.
TypeOK ==
    /\ phase \in {"compose", "cell", "periodicity", "maxiter", "ready", "refused"}
    /\ deck \in {None} \cup Decks
    /\ (deck = None) <=> (phase \in {"compose", "refused"})

\* "The box of the call is the cell CPMD uses, whatever CELL the deck states",
\* written once and in the unit the deck is read in.  A call without a box
\* still gets a lattice constant, which OpenCPMD stops without, unless the
\* deck names a cell of another kind.
HasCellOfTheCall(d) ==
    IF BoxGiven
    THEN \E at \in DOMAIN d.system :
           /\ Places(d, {"CELL", "CELL VECTORS"}) = {at}
           /\ at + 1 \in DOMAIN d.system
           /\ d.system[at + 1].data =
                <<call.box, IF "ANGSTROM" \in Words(d) THEN "Angstrom" ELSE "Bohr">>
    ELSE \/ Places(d, {"CELL", "CELL VECTORS"}) # {}
         \/ (Words(d) \cup d.elsewhere) \cap (CellWords \ {"CELL", "CELL VECTORS"}) # {}

CellOfTheCall == phase = "ready" => HasCellOfTheCall(deck)

\* The deck that is parsed names its symmetry at most once, names none beside
\* CELL VECTORS, which CPMD refuses, and none that the box contradicts.  One
\* that says SYMMETRY 0 is computed isolated, in a box with right angles, or
\* refused: no later pass makes it periodic.
HasOneSymmetry(d) ==
    /\ \A i, j \in Places(d, {"SYMMETRY"}) : i = j
    /\ "CELL VECTORS" \in Words(d) => "SYMMETRY" \notin Words(d)

\* A &SYSTEM section as the renderer of typed sections writes it, and as CPMD
\* takes it: one SYMMETRY with its value below, none beside CELL VECTORS, and
\* ANGSTROM not right below a keyword whose lines go with it.  CELL is a keyword of
\* &SYSTEM only.
AsRendered(d) ==
    /\ HasOneSymmetry(d)
    /\ \A i \in Places(d, {"SYMMETRY"}) : i + 1 \in DOMAIN d.system
    /\ \A i \in DOMAIN d.system : \A n \in 1..Skipped(d.system[i]) :
          i + n \in DOMAIN d.system => d.system[i + n].word # "ANGSTROM"
    /\ d.elsewhere \cap {"CELL", "CELL VECTORS"} = {}

InputsAsRendered == \A d \in Inputs \ {None} : AsRendered(d)

SymmetryFits(d) ==
    /\ HasOneSymmetry(d)
    /\ BoxGiven /\ SymmetryOf(d) = "1" => call.box = "cubic"
    /\ input # None /\ IsolatedDeck(input) => IsolatedDeck(d) /\ "CELL VECTORS" \notin Words(d)

SymmetryFitsTheCell == phase = "ready" => SymmetryFits(deck)

Method(lines, under) == [lines |-> lines, under |-> under]

\* One line more: the lines that are neither of a cell nor of a symmetry, and
\* what the last keyword was: "method" or "cell".
MethodLine(sofar, line) ==
    IF line.word \in {"CELL", "CELL VECTORS", "SYMMETRY"} THEN Method(sofar.lines, "cell")
    ELSE IF line.word # "" THEN Method(Append(sofar.lines, line), "method")
    ELSE IF sofar.under = "method" THEN Method(Append(sofar.lines, line), "method")
    ELSE sofar

MethodUpTo(lines) ==
    LET sofar[n \in 0..Len(lines)] ==
          IF n = 0 THEN Method(<< >>, "cell") ELSE MethodLine(sofar[n - 1], lines[n])
    IN  sofar

MethodLines(lines) == MethodUpTo(lines)[Len(lines)].lines

\* All that the &SYSTEM section of a method deck says beside its cell and its
\* symmetry reaches the parser, in its order.
RestOfTheDeckStays ==
    phase = "ready" /\ input # None =>
      IsPrefix(MethodLines(input.system), MethodLines(deck.system))

\* One record below CELL VECTORS, as the typed renderer writes it.
VectorsInOneRecord(d) ==
    \E i \in DOMAIN d.system :
      /\ d.system[i].word = "CELL VECTORS"
      /\ i + 2 \in DOMAIN d.system /\ d.system[i + 2].word # ""

\* The same for decks whose CELL VECTORS has three rows, and for calls
\* that impose no box.
MethodLinesSurvive ==
    phase = "ready" /\ input # None /\ ~(VectorsInOneRecord(input) /\ BoxGiven) =>
      IsPrefix(MethodLines(input.system), MethodLines(deck.system))

\* n records of data and no more stand below line i.
Below(lines, i, n) ==
    /\ \A k \in 1..n : i + k \in DOMAIN lines /\ lines[i + k].word = ""
    /\ i + n + 1 \in DOMAIN lines => lines[i + n + 1].word # ""

\* A cell and a symmetry have the records CPMD reads below them, CELL VECTORS
\* in three rows or in one; ANGSTROM has none.
RecordsWhole(d) ==
    \A i \in DOMAIN d.system :
      LET line == d.system[i]
      IN  /\ Skipped(line) > 0 =>
               \/ Below(d.system, i, Skipped(line))
               \/ line.word = "CELL VECTORS" /\ Below(d.system, i, 1)
          /\ line.word = "ANGSTROM" => Below(d.system, i, 0)

RecordsAreWhole == \A d \in Inputs \ {None} : RecordsWhole(d)

\* A method deck is given the atoms of the call, every atom once and no other:
\* one block for each element, with as many atoms as the call has of it and
\* with the message's pseudopotential if it has one.
HasAtomsOfTheCall(blocks) ==
    /\ \A z \in ToSet(call.atoms) : \E i \in DOMAIN blocks :
          /\ \A j \in DOMAIN blocks : blocks[j].z = z <=> j = i
          /\ blocks[i].count = Cardinality(AtomsOf(z))
          /\ z \in MessagePps => blocks[i].pp = "message"
    /\ \A i \in DOMAIN blocks : blocks[i].z \in ToSet(call.atoms)

AtomsOfTheCall == phase = "ready" /\ deck.atoms # None => HasAtomsOfTheCall(deck.atoms)
=============================================================================
