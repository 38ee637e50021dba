------------------------------ MODULE DeckKeywords ------------------------------
(***************************************************************************)
(* What becomes of the fields of one typed input section when its deck     *)
(* block is rendered (the render_*_section functions of                    *)
(* src/src/cpmdc_params.c).  A caller builds a section field by field; the *)
(* renderer prints it or refuses the whole deck.                           *)
(*                                                                         *)
(* A definition marked "Fault" is a wrong variant of the one after it.     *)
(***************************************************************************)
EXTENDS DeckSections

CONSTANTS
    Sections,   \* the sections a caller fills
    MaxSet      \* bound, per section: how many fields are set at once

ASSUME SectionsAreTyped == Sections \subseteq DOMAIN Table
ASSUME BoundPerSection == MaxSet \in [Sections -> Nat]

VARIABLES
    section,  \* the section being filled
    fields,   \* its fields that are set
    verdict,  \* "building", "rendered" or "refused"
    lines     \* the rows the renderer printed, by their place in its order

vars == <<section, fields, verdict, lines>>

\* An empty section, whose schema defaults are cleared as well: a caller may
\* clear them, and every subset of the fields is then reachable.
Init ==
    /\ section \in Sections
    /\ fields = {}
    /\ verdict = "building"
    /\ lines = << >>

SetField(f) ==
    /\ verdict = "building"
    /\ Cardinality(fields) < MaxSet[section]
    /\ f \notin fields
    /\ \A a \in Alternatives : f \in a => a \cap fields = {}
    /\ fields' = fields \cup {f}
    /\ UNCHANGED <<section, verdict, lines>>

\* Fault: nothing is refused.
RenderAnyway ==
    /\ verdict = "building"
    /\ verdict' = "rendered"
    /\ lines' = Printed(Table[section].rows, fields)
    /\ UNCHANGED <<section, fields>>

\* A refusal anywhere fails the whole deck: nothing of it is used.
Render ==
    /\ verdict = "building"
    /\ IF Refused(Table[section].refusals, fields)
       THEN verdict' = "refused" /\ lines' = << >>
       ELSE verdict' = "rendered" /\ lines' = Printed(Table[section].rows, fields)
    /\ UNCHANGED <<section, fields>>

Next == (\E f \in Fields(section) : SetField(f)) \/ Render

Spec == Init /\ [][Next]_vars

-----------------------------------------------------------------------------
(* Properties *)

CarriedBy(row, f) == f \in row.carries

Lost == {f \in fields : \A i \in DOMAIN lines : ~CarriedBy(lines[i], f)}

\* A field the caller set is in the deck, or the deck is refused, or it is
\* one of the losses the section is known for: an option whose leading
\* keyword is off, a field another one overrules.  Every condition of the
\* renderers, and every refusal that stands between a field and its loss, is
\* behind this one (cpmdc_params.c 709-4296).
NothingLostSilently ==
    verdict = "rendered" => Lost = fields \cap Excused(Table[section].losses, fields)

\* Lines with one keyword that are printed together have a keyword that is
\* listed for its section (CpmdRepeats, SystemRepeats, ...), or are the values
\* below a keyword.
RepeatsAreListed ==
    \A i, j \in DOMAIN lines :
        i < j /\ lines[i].keyword = lines[j].keyword
          => lines[i].keyword \in {"value"} \cup Table[section].repeats

SolverLines == {i \in DOMAIN lines : lines[i].keyword = "POISSON_SOLVER"}
SolverFields == {"poissonSolver", "directive:POISSON_SOLVER", "set:POISSON_SOLVER"}

\* POISSON SOLVER is printed once for each of the field, the directive and the
\* set directive that name one; the default line of an isolated system only when
\* none of them does, and a periodic system has no default
\* (cpmdc_params.c 1396-1417).
SolverPerNaming ==
    verdict = "rendered" /\ section = "SYSTEM" =>
        LET named == Cardinality(fields \cap SolverFields)
            isolated == fields \cap {"symmetry", "cellVectors"} = {}
        IN  Cardinality(SolverLines) = IF isolated /\ named = 0 THEN 1 ELSE named

\* The keywords a block repeats are known: only those that several fields of
\* the section spell, and &SYSTEM's default solver is never beside a solver that
\* the caller names.  A field and its directive (POISSON SOLVER, FILEPATH, ...)
\* may both be printed; the renderers leave that to CPMD's own reading.
OnlyListedRepeats == RepeatsAreListed /\ SolverPerNaming
=============================================================================
