------------------------------- MODULE MethodDeck -------------------------------
(***************************************************************************)
(* How a CPMDParams message becomes an input deck                          *)
(* (src/src/cpmdc_params.c): the sections of the message are printed in    *)
(* their order, the sections CPMD cannot run without are added when        *)
(* nothing opened them, and each `set` directive joins the first section   *)
(* of its name.  The buffer is grown and the deck printed again when it    *)
(* does not fit.  Modules DeckKeywords and below have the insides of one   *)
(* section; here a block is what other blocks depend on.                   *)
(*                                                                         *)
(* A definition marked "Fault" is a wrong variant of the one after it.     *)
(***************************************************************************)
EXTENDS Integers, SequencesExt

CONSTANTS
    None,
    SetLimit,     \* CPMDC_MAX_SET_DIRECTIVES
    FirstRoom,    \* the first buffer, in appends; 4096 bytes in the code
    MaxAttempts   \* how often the buffer is doubled

ASSUME Limits == SetLimit \in Nat /\ FirstRoom \in Nat \ {0} /\ MaxAttempts \in Nat \ {0}

VARIABLES
    params,    \* the message: scalars, raw blocks, sections, set directives
    ov,        \* CPMDCScalarOverrides; None keeps the message's value
    geom,      \* the atoms and the cell of a geometry deck, or None
    phase,     \* "filling", "rendering", "failed", "rendered", "refused", ...
    at,        \* the section to print next, 0 for the raw input blocks
    has,       \* has_system, has_cpmd, has_dft, has_atoms
    pending,   \* the set directives not printed yet
    deck,      \* the blocks printed so far
    attempt,   \* render_input_deck_alloc's attempt
    used,      \* appends made into the buffer
    overflow   \* g_deck_overflow

renderVars == <<at, has, pending, deck, used, overflow>>

\* The sections a deck cannot do without, in the order the missing are added.
Mandatory == <<"CPMD", "SYSTEM", "DFT", "ATOMS">>

\* Where a message has typed sections of a name.
TypedIn(p, name) ==
    {i \in DOMAIN p.sections : p.sections[i].kind = "typed" /\ p.sections[i].name = name}

Typed(name) == TypedIn(params, name)

-----------------------------------------------------------------------------
(* What is settled before the first section is printed *)

Or(value, default) == IF value = None THEN default ELSE value

Functional == Or(ov.functional, IF params.functional = "" THEN "BLYP" ELSE params.functional)
\* Fault: the deck does not see the overlay.
CutoffOfMessage == IF params.cutoff > 0 THEN params.cutoff ELSE 70

Cutoff == Or(ov.cutoff, IF params.cutoff > 0 THEN params.cutoff ELSE 70)
Charge == Or(ov.charge, params.charge)
TopMultiplicity == Or(ov.mult, IF params.mult > 0 THEN params.mult ELSE 1)

\* The first &SYSTEM above a singlet decides.
DeckMultiplicity ==
    LET above == {i \in Typed("SYSTEM") : params.sections[i].mult > 1}
    IN  IF above = {} THEN TopMultiplicity ELSE params.sections[Min(above)].mult

SpinPolarized == DeckMultiplicity > 1 \/ \E i \in Typed("DFT") : params.sections[i].lsd

Hybrids == {"PBE0", "B3LYP", "X3LYP", "B1LYP"}

\* Fault: the functional of the first &DFT section is not asked for.
TopNeedsClusterHfx == Functional \in Hybrids

DeckNeedsClusterHfx ==
    LET naming == {i \in Typed("DFT") : params.sections[i].functional # ""}
    IN  (IF naming = {} THEN Functional ELSE params.sections[Min(naming)].functional) \in Hybrids

\* The set directives of one section that are still to be printed.
SetsOf(name) == {k \in pending : params.sets[k].section = name}

SetNames(keyword) == \E k \in SetsOf("SYSTEM") : params.sets[k].keyword = keyword

CallerAskedIsolated ==
    SetNames("POISSON SOLVER") \/ SetNames("CLUSTER") \/ SetNames("ISOLATED")

-----------------------------------------------------------------------------
(* Blocks *)

Block(from, name, opens, sets, body) ==
    [from |-> from, name |-> name, opens |-> opens, sets |-> sets, body |-> body]

HasCell == geom # None /\ geom.cell # "none"

\* 0 isolated, 1 cubic, 8 orthorhombic, -2 tilted.
PeriodicSymmetry ==
    CASE geom.cell \in {"none", "degenerate"} -> "isolated"
      [] geom.cell = "cubic" -> "cubic"
      [] geom.cell = "orthorhombic" -> "orthorhombic"
      [] OTHER -> "tilted"

\* s: the section; emit: print SYMMETRY; force: the call's cell as VECTORS.
SystemBody(s, emit, force) ==
    LET shown == emit /\ ~(IF HasCell THEN force ELSE s.vectors)
        solver == IF s.solver THEN "named"
                  ELSE IF SetNames("POISSON SOLVER") THEN "set"
                  ELSE IF ~shown \/ s.symmetry # "isolated" THEN "none"
                  ELSE IF DeckNeedsClusterHfx THEN "TUCKERMAN" ELSE "HOCKNEY"
    IN  [symmetry |-> IF shown THEN s.symmetry ELSE "none",
         cell |-> IF HasCell THEN geom.cell ELSE IF s.vectors THEN "section" ELSE "none",
         vectors |-> IF HasCell THEN force ELSE s.vectors,
         cutoff |-> IF s.cutoff > 0 THEN s.cutoff ELSE Cutoff,
         charge |-> IF s.charge # 0 THEN s.charge ELSE Charge,
         mult |-> IF s.mult > 1 THEN s.mult ELSE DeckMultiplicity,
         solver |-> solver]

DftBody(functional) == [functional |-> IF functional = "" THEN Functional ELSE functional]

CpmdBody(lsd) == [lsd |-> lsd \/ SpinPolarized]

AtomsOf(element) == {j \in DOMAIN geom.atoms : geom.atoms[j] = element}

\* The atoms, species by species; without species O and H have a default.
SpeciesOf(psps) == IF psps = << >> THEN <<"O", "H">> ELSE psps
AtomsPrinted(psps) == [i \in DOMAIN SpeciesOf(psps) |-> AtomsOf(SpeciesOf(psps)[i])]

\* covered, after each species.
CoveredUpTo(printed) ==
    LET covered[n \in 0..Len(printed)] ==
          IF n = 0 THEN 0 ELSE covered[n - 1] + Cardinality(printed[n])
    IN  covered
Covered(printed) == CoveredUpTo(printed)[Len(printed)]

AtomsBody(psps) == [atoms |-> IF geom = None THEN << >> ELSE AtomsPrinted(psps)]

\* A pseudopotential of no element, or covered # n_atoms: a species nothing
\* covers refuses the deck.
AtomsRefused(psps) ==
    geom # None /\ ("?" \in ToSet(psps) \/ Covered(AtomsPrinted(psps)) # Len(geom.atoms))

SectionBody(s) ==
    CASE s.name = "SYSTEM" -> SystemBody(s, TRUE, HasCell)
      [] s.name = "CPMD" -> CpmdBody(s.lsd)
      [] s.name = "DFT" -> DftBody(s.functional)
      [] s.name = "ATOMS" -> AtomsBody(s.psps)
      [] OTHER -> << >>

SectionBlock(s) ==
    CASE s.kind = "typed" -> Block("typed", s.name, {s.name}, SetsOf(s.name), SectionBody(s))
      [] s.kind = "generic" -> Block("generic", s.name, {s.name}, SetsOf(s.name), << >>)
      [] s.kind = "raw" -> Block("raw", "", s.opens, {}, << >>)

\* The &SYSTEM nobody gave.  Without a geometry it shows its symmetry only to
\* a caller, or to an exact exchange, that needs an isolated system.
PlainSystem(symmetry) ==
    [symmetry |-> symmetry, cutoff |-> Cutoff, charge |-> Charge, mult |-> DeckMultiplicity,
     solver |-> FALSE, vectors |-> FALSE]

DefaultSystemBody ==
    IF geom = None
    THEN SystemBody(PlainSystem("isolated"), CallerAskedIsolated \/ DeckNeedsClusterHfx, FALSE)
    ELSE LET symmetry == PeriodicSymmetry
         IN  IF CallerAskedIsolated \/ symmetry = "isolated"
             THEN SystemBody(PlainSystem("isolated"), TRUE, FALSE)
             ELSE IF symmetry = "tilted"
             THEN SystemBody(PlainSystem("isolated"), FALSE, TRUE)
             ELSE SystemBody(PlainSystem(symmetry), TRUE, FALSE)

DefaultBody(name) ==
    CASE name = "SYSTEM" -> DefaultSystemBody
      [] name = "CPMD" -> CpmdBody(FALSE)
      [] name = "DFT" -> DftBody("")
      [] name = "ATOMS" -> AtomsBody(<< >>)

DefaultBlock(name) == Block("default", name, {name}, SetsOf(name), DefaultBody(name))

-----------------------------------------------------------------------------
(* The buffer.  An append is text, or a slice of a set directive's key.  *)

RoomAt[n \in 1..MaxAttempts] == IF n = 1 THEN FirstRoom ELSE 2 * RoomAt[n - 1]
Room == RoomAt[attempt]

\* Keyword and value of each set directive.
Payload(n) == [j \in 1..2 * n |-> IF j % 2 = 1 THEN "slice" ELSE "text"]

Appends(block) ==
    CASE block.from = "raw" -> <<"text">>
      [] block.from = "sets" -> <<"text", "slice">> \o Payload(Cardinality(block.sets)) \o <<"text">>
      [] OTHER -> <<"text">> \o Payload(Cardinality(block.sets)) \o <<"text">>

\* One byte stays for the NUL.  append_slice does not note the overflow.
Emit(block) ==
    LET appends == Appends(block)
    IN  IF used + Len(appends) < Room
        THEN /\ deck' = Append(deck, block)
             /\ used' = used + Len(appends)
             /\ pending' = pending \ block.sets
             /\ UNCHANGED <<phase, overflow>>
        ELSE /\ phase' = "failed"
             /\ overflow' = (appends[Room - used] = "text")
             /\ UNCHANGED <<deck, used, pending>>

Reject ==
    /\ phase' = "failed"
    /\ UNCHANGED renderVars

-----------------------------------------------------------------------------
(* Actions *)

\* A set key is SECTION.KEYWORD; too many of them, or a malformed one, and
\* the deck is refused.
SetsRefused == Len(params.sets) > SetLimit \/ \E i \in DOMAIN params.sets : params.sets[i].section = ""

\* Fault: what an earlier attempt printed is not pending any more.
PendingLeft == IF deck = << >> THEN DOMAIN params.sets ELSE pending

\* collect_set_directives and note_capn_sections, anew in every attempt.
PendingAtStart == DOMAIN params.sets
OpenedByBlocks == params.blocks

Begin(n) ==
    /\ attempt' = n
    /\ phase' = IF SetsRefused THEN "failed" ELSE "rendering"
    /\ at' = 0
    /\ has' = OpenedByBlocks
    /\ pending' = PendingAtStart
    /\ deck' = << >>
    /\ used' = 0
    /\ overflow' = FALSE
    /\ UNCHANGED <<params, ov, geom>>

\* The raw input blocks stand before everything.
RenderBlocks ==
    /\ phase = "rendering" /\ at = 0
    /\ at' = 1
    /\ IF params.blocks = {} THEN UNCHANGED <<phase, pending, deck, used, overflow>>
       ELSE Emit(Block("raw", "", params.blocks, {}, << >>))
    /\ UNCHANGED <<params, ov, geom, has, attempt>>

SectionRefused(s) ==
    \/ s.kind = "unknown"
    \/ s.kind = "typed" /\ s.name = "ATOMS" /\ AtomsRefused(s.psps)

\* A generic section does not count as the one it names.
RenderSection ==
    /\ phase = "rendering" /\ at \in DOMAIN params.sections
    /\ LET s == params.sections[at]
       IN  IF SectionRefused(s) THEN Reject
           ELSE /\ Emit(SectionBlock(s))
                /\ at' = at + 1
                /\ has' = has \cup (CASE s.kind = "typed" -> {s.name} \cap ToSet(Mandatory)
                                      [] s.kind = "raw" -> s.opens
                                      [] OTHER -> {})
    /\ UNCHANGED <<params, ov, geom, attempt>>

Missing == {i \in DOMAIN Mandatory : Mandatory[i] \notin has}

RenderDefault ==
    /\ phase = "rendering" /\ at = Len(params.sections) + 1
    /\ Missing # {}
    /\ LET name == Mandatory[Min(Missing)]
       IN  IF name = "ATOMS" /\ AtomsRefused(<< >>) THEN Reject
           ELSE Emit(DefaultBlock(name)) /\ has' = has \cup {name} /\ UNCHANGED at
    /\ UNCHANGED <<params, ov, geom, attempt>>

\* The set directives nothing took, a section of their own for each name.
RenderRemainingSets ==
    /\ phase = "rendering" /\ at = Len(params.sections) + 1
    /\ Missing = {} /\ pending # {}
    /\ LET name == params.sets[Min(pending)].section
       IN  Emit(Block("sets", name, {name}, SetsOf(name), << >>))
    /\ UNCHANGED <<params, ov, geom, at, has, attempt>>

\* Fault: set directives without a section are dropped.
FinishWithoutSets ==
    /\ phase = "rendering" /\ at = Len(params.sections) + 1
    /\ Missing = {}
    /\ phase' = "rendered"
    /\ UNCHANGED <<params, ov, geom, attempt>> /\ UNCHANGED renderVars

FinishDeck ==
    /\ phase = "rendering" /\ at = Len(params.sections) + 1
    /\ Missing = {} /\ pending = {}
    /\ phase' = "rendered"
    /\ UNCHANGED <<params, ov, geom, attempt>> /\ UNCHANGED renderVars

\* Only an overflow makes a larger buffer worth while, and only in
\* render_input_deck_alloc; a geometry deck has its caller's buffer.
Retry ==
    /\ phase = "failed" /\ overflow /\ geom = None /\ attempt < MaxAttempts
    /\ Begin(attempt + 1)

GiveUp ==
    /\ phase = "failed" /\ ~(overflow /\ geom = None /\ attempt < MaxAttempts)
    /\ phase' = "refused"
    /\ UNCHANGED <<params, ov, geom, attempt>> /\ UNCHANGED renderVars

RenderStep ==
    \/ RenderBlocks \/ RenderSection \/ RenderDefault \/ RenderRemainingSets
    \/ FinishDeck \/ Retry \/ GiveUp
=============================================================================
