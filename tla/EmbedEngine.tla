----------------------------- MODULE EmbedEngine -----------------------------
(***************************************************************************)
(* The embed bridge (src/src/cpmd_embed_c_api.F90): one OpenCPMD per        *)
(* process, set up for one basis at a time, that serves the images of many *)
(* calculators.  A call decides whether the engine may be used as it is    *)
(* (warm) or has to be torn down and set up again from the caller's deck   *)
(* (cold), runs an SCF, and fills the caller's image.                      *)
(*                                                                         *)
(* The module has no variables: an engine and an image are values, and a   *)
(* call is the set of outcomes it can have, so that a caller composes it   *)
(* with its own step (see CpmdcSession).                                   *)
(*                                                                         *)
(* A definition marked "Fault" is a wrong variant of the one after it.  No *)
(* behaviour uses it: it is there to show that a property would notice.    *)
(***************************************************************************)
EXTENDS Naturals, FiniteSets, Functions

CONSTANTS
    Params,     \* CPMDParams messages a host can send
    Overlays,   \* common-overlay scalar overrides a host can add
    Atoms,      \* positioned atoms; an array of them is a geometry
    element,    \* element[a]: the atomic number of atom a
    Elements,   \* the atomic numbers 1..118
    Cells,      \* lattices a host can pass
    NoCell,     \* has_cell = 0
    Periodic,   \* the lattices (or NoCell) whose stress tensor is computed
    None        \* nothing there

ASSUME NoneIsApart == None \notin Cells \cup {NoCell}
ASSUME PeriodicCells == Periodic \subseteq Cells \cup {NoCell}

\* What a host asks for: the parameter message and the overlay merged over it.
Methods == [params : Params, overlay : Overlays \cup {None}]

CellArgs == Cells \cup {NoCell}

Known(atoms) == \A i \in DOMAIN atoms : element[atoms[i]] \in Elements

\* The element counts of an array; its order plays no part.
Composition(atoms) ==
    [e \in Elements |-> Cardinality({i \in DOMAIN atoms : element[atoms[i]] = e})]

\* The basis of a call: the image's knobs and deck, the composition and cell.
\* embed_saved_* latch one of these, and the OpenCPMD modules are set up for one.
BasisOf(img, atoms, cell) ==
    [knobs |-> img.cfg.knobs, deck |-> img.cfg.deck,
     comp |-> Composition(atoms), cell |-> cell]

Bases == [knobs : Methods, deck : Methods, comp : [Elements -> Nat], cell : CellArgs]
ASSUME NoneIsNoBasis == None \notin Bases

\* The energy is a function of what the modules were set up for and of the
\* positions; the gradient has one row per atom of the caller's array.
Energy(setup, atoms) == [basis |-> setup, atoms |-> Range(atoms)]
Gradient(energy, atoms) ==
    [i \in DOMAIN atoms |-> [of |-> energy, on |-> atoms[i]]]

-----------------------------------------------------------------------------
(* Images and the engine *)

NewImage == [cfg |-> None, warmCell |-> None, steps |-> FALSE,
             snap |-> None, stress |-> None]

\* steps is cfg_warm_steps > 0.  snap is the energy, charge, multi, MD and
\* property snapshots with their valid flags: they are written and cleared together.
Values == [basis : Bases, atoms : SUBSET Atoms]
Images == [cfg : {None} \cup [knobs : Methods, deck : Methods \cup {None}],
           warmCell : {None} \cup CellArgs,
           steps : BOOLEAN,
           snap : {None} \cup [value : Values, converged : BOOLEAN],
           stress : {None} \cup Values]

\* setup: what cpmd_set_up was done for.  latch: embed_saved_*, None when
\* embed_basis_latched is false.  stored: for which set-ups orbital copies are
\* kept, in the store or in a slot (module WarmOrbitals looks inside).
Engines == [setup : {None} \cup Bases, latch : {None} \cup Bases, stored : SUBSET Bases]
ColdEngine == [setup |-> None, latch |-> None, stored |-> {}]

\* Fault: the cell of the last evaluation survives.
DetachKeepsCell(img) == [img EXCEPT !.steps = FALSE]

DetachImage(img) == [img EXCEPT !.warmCell = None, !.steps = FALSE]

\* embed_apply_from_wire on success: detach, then install knobs and deck.
ApplyConfig(img, knobs, deck) ==
    [DetachImage(img) EXCEPT !.cfg = [knobs |-> knobs, deck |-> deck]]

ClearSnapshots(img) == [img EXCEPT !.snap = None, !.stress = None]

\* cpmdc_embed_reset_state: the image's half.  The engine's half is ColdEngine:
\* orbitals, latch and set-up all go.
ResetImage(img) == DetachImage(ClearSnapshots(img))

Teardown(eng) == IF eng.setup = None THEN eng ELSE ColdEngine

\* Fault: the cell is not compared.
BasisChangedButCell(eng, img, b, atoms) ==
    \/ b.knobs # eng.latch.knobs \/ b.deck # eng.latch.deck
    \/ b.comp # eng.latch.comp \/ ~Known(atoms)

\* same_element_counts: an atomic number outside the table matches nothing, and
\* known atoms in equal counts are equal in number.
BasisChanged(eng, img, b, atoms) ==
    \/ IF img.warmCell # None THEN b.cell # img.warmCell ELSE b.cell # eng.latch.cell
    \/ b.knobs # eng.latch.knobs
    \/ b.deck # eng.latch.deck
    \/ b.comp # eng.latch.comp \/ ~Known(atoms)

StartsWarm(eng, img, b, atoms) == eng.latch # None /\ ~BasisChanged(eng, img, b, atoms)

-----------------------------------------------------------------------------
(* The SCF on an engine that is set up: embed_eval_energy_grad *)

Outcome(eng, img, ok, energy) ==
    [eng |-> eng, img |-> img, ok |-> ok, energy |-> energy]

\* cpmdc_species_order_map finds every species of the set-up as often as it
\* was set up with, and nothing else.
MapsOnto(setup, atoms) == Known(atoms) /\ Composition(atoms) = setup.comp

\* Every snapshot is written whether or not the SCF converged.  The stress is
\* cleared first and computed for a periodic system only.
Evaluated(img, energy, converged) ==
    [img EXCEPT !.snap = [value |-> energy, converged |-> converged],
                !.stress = IF energy.basis.cell \in Periodic THEN energy ELSE None]

\* After a converged call: the counter, the cell of the image and the basis.
\* latch_embed_basis gives everything up when it cannot allocate.
Latched(eng, img, b, atoms) ==
    LET energy == Energy(eng.setup, atoms)
        kept   == [eng EXCEPT !.latch = b, !.stored = @ \cup {eng.setup}]
        lost   == [eng EXCEPT !.latch = None, !.stored = {}]
        done   == [Evaluated(img, energy, TRUE) EXCEPT !.warmCell = b.cell]
    IN  {Outcome(kept, [done EXCEPT !.steps = TRUE], TRUE, energy),
         Outcome(lost, [done EXCEPT !.steps = FALSE], TRUE, energy)}

\* An unconverged SCF keeps its orbitals only where no converged copy is left.
PartlyStored(eng) ==
    IF eng.stored = {} THEN {[eng EXCEPT !.stored = {eng.setup}]}
    ELSE {eng, [eng EXCEPT !.stored = @ \cup {eng.setup}]}

\* The warm path.  A failed SCF leaves latch, counter and converged orbitals,
\* and with them the snapshots it has just written.
WarmCall(eng, img, b, atoms) ==
    LET refused  == Outcome(eng, img, FALSE, None)                       \* output directory
        unmapped == Outcome(eng, [img EXCEPT !.stress = None], FALSE, None)
        failed   == {Outcome(e, Evaluated(img, Energy(eng.setup, atoms), FALSE), FALSE, None) :
                     e \in PartlyStored(eng)}
    IN  {refused, unmapped}
        \cup (IF MapsOnto(eng.setup, atoms)
              THEN failed \cup Latched(eng, img, b, atoms) ELSE {})

\* The cold path.  A latched basis that changed gives up its orbitals first;
\* then an old set-up is torn down, whatever it was for.
ColdCall(eng, img, b, atoms) ==
    LET dropped == IF eng.latch = None THEN eng
                   ELSE [eng EXCEPT !.latch = None, !.stored = {}]
        image   == IF eng.latch = None THEN img ELSE [img EXCEPT !.steps = FALSE]
        torn    == Teardown(dropped)
        fresh   == [torn EXCEPT !.setup = b]
        notSet  == Outcome(torn, image, FALSE, None)       \* deck, memfd or library
        noDir   == Outcome(fresh, image, FALSE, None)      \* output directory
        \* a deck with coordinates of its own need not fit the caller's atoms
        unmapped == Outcome(fresh, ClearSnapshots(image), FALSE, None)
        failed  == {Outcome(e, ClearSnapshots(image), FALSE, None) : e \in PartlyStored(fresh)}
    IN  {notSet, noDir, unmapped}
        \cup (IF Known(atoms) THEN failed \cup Latched(fresh, image, b, atoms) ELSE {})

RunEmbedScf(eng, img, atoms, cell) ==
    LET b == BasisOf(img, atoms, cell)
    IN  IF StartsWarm(eng, img, b, atoms) THEN WarmCall(eng, img, b, atoms)
        ELSE ColdCall(eng, img, b, atoms)

\* cpmdc_embed_energy_grad under the armed stop hook: a stopgm anywhere in it
\* returns to C, which resets the image and the engine and fails the call.
EnergyGradient(eng, img, atoms, cell) ==
    RunEmbedScf(eng, img, atoms, cell)
    \cup {Outcome(ColdEngine, ResetImage(img), FALSE, None)}

=============================================================================
