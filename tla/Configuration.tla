------------------------------ MODULE Configuration ------------------------------
(***************************************************************************)
(* From a PotentialConfig message to what the engine is given              *)
(* (src/src/cpmdc.c 405-960, src/src/cpmdc_embed_apply_params.f90): the    *)
(* native `cpmd` arm and the `common` overlay become a CPMDParams message  *)
(* and scalar overrides, these become the knobs, decoded twice, and the    *)
(* deck (module MethodDeck), and both are installed in the image.          *)
(*                                                                         *)
(* A definition marked "Fault" is a wrong variant of the one after it.     *)
(***************************************************************************)
EXTENDS MethodDeck, FiniteSets

CONSTANTS
    Sections,      \* the input sections a caller may give
    SetKeys,       \* the set directives a caller may give
    OverlayFields, \* the fields of the overlay a caller may set
    Geometries,    \* the geometries a deck may be rendered for
    Texts,         \* the functionals a message may name
    Tops,          \* the messages without sections and set directives
    MaxParts       \* bound: sections, set directives and overlay fields

VARIABLES
    arm,     \* the union arm of the message: "cpmd", "none" or another backend
    common,  \* the overlay's fields that are set, with "present" for the struct
    knobs,   \* what C decodes: functional, cutoff, charge, multiplicity
    image    \* what Fortran decodes, and the deck installed with it

vars == <<params, ov, geom, phase, renderVars, attempt, arm, common, knobs, image>>

NoOverrides == [functional |-> None, cutoff |-> None, charge |-> None, mult |-> None]

\* The overlay's values: none of them is a default of the schema.
OverlayFunctional == "PBE"
OverlayCutoff == 100
OverlayCharge == 1
OverlayMult == 3

Set(field) == field \in common

-----------------------------------------------------------------------------
(* The knobs *)

Later(value, default, ok) == IF ok THEN value ELSE default

\* cpmdc_params_effective_config: the last section that names a value wins.
CKnob(k, s) ==
    CASE s.kind = "typed" /\ s.name = "SYSTEM" ->
           [k EXCEPT !.cutoff = Later(s.cutoff, @, s.cutoff > 0), !.charge = s.charge,
                     !.mult = Later(s.mult, @, s.mult > 0)]
      [] s.kind = "typed" /\ s.name = "DFT" ->
           [k EXCEPT !.functional = Later(s.functional, @, s.functional # "")]
      [] OTHER -> k

CTop(p) ==
    [functional |-> IF p.functional = "" THEN "BLYP" ELSE p.functional,
     cutoff |-> IF p.cutoff > 0 THEN p.cutoff ELSE 70,
     charge |-> p.charge, mult |-> IF p.mult > 0 THEN p.mult ELSE 1]

\* The knobs after each section.
WalkedUpTo(p, first) ==
    LET walked[n \in 0..Len(p.sections)] ==
          IF n = 0 THEN first ELSE CKnob(walked[n - 1], p.sections[n])
    IN  walked

EffectiveConfig(p) == WalkedUpTo(p, CTop(p))[Len(p.sections)]

Overridden(k, o) ==
    [functional |-> Or(o.functional, k.functional), cutoff |-> Or(o.cutoff, k.cutoff),
     charge |-> Or(o.charge, k.charge), mult |-> Or(o.mult, k.mult)]

\* Fault: the sections are walked after the overrides.
AppliedBeforeSections(p, o) == WalkedUpTo(p, Overridden(CTop(p), o))[Len(p.sections)]

\* cpmdc_embed_apply_params: the scalars, one by one.  naming: the sections
\* that name the value.
LastNamed(p, naming, field, default) ==
    IF naming = {} THEN default ELSE p.sections[Max(naming)][field]

ApplyParams(p, o) ==
    LET top == CTop(p)
        systems == TypedIn(p, "SYSTEM")
    IN  Overridden(
          [functional |-> LastNamed(p, {i \in TypedIn(p, "DFT") : p.sections[i].functional # ""},
                                    "functional", top.functional),
           cutoff |-> LastNamed(p, {i \in systems : p.sections[i].cutoff > 0}, "cutoff", top.cutoff),
           charge |-> LastNamed(p, systems, "charge", top.charge),
           mult |-> LastNamed(p, {i \in systems : p.sections[i].mult > 0}, "mult", top.mult)], o)

-----------------------------------------------------------------------------
(* The overlay *)

\* cpmd_common_to_params: fields without a CPMD lowering.
LoweringRefused ==
    common \cap {"vdwBad", "relativity", "smearingBad", "basisBad", "xcBad", "kMeshBad"} # {}

LoweredCpmd == [kind |-> "typed", name |-> "CPMD", lsd |-> FALSE]
LoweredVdw == [kind |-> "typed", name |-> "VDW"]
LoweredSystem ==
    [kind |-> "typed", name |-> "SYSTEM", symmetry |-> "isolated", vectors |-> FALSE,
     cutoff |-> 0, charge |-> 0, mult |-> 0, solver |-> FALSE]

When(condition, section) == IF condition THEN <<section>> ELSE << >>

LoweredSections ==
    When(common \cap {"scf", "smearing"} # {}, LoweredCpmd)
      \o When(Set("vdw"), LoweredVdw) \o When(Set("kMesh"), LoweredSystem)

Lowered ==
    [functional |-> IF Set("xc") THEN OverlayFunctional ELSE "",
     cutoff |-> IF Set("cutoff") THEN OverlayCutoff ELSE 70,
     charge |-> IF Set("charge") THEN OverlayCharge ELSE 0,
     mult |-> IF Set("mult") THEN OverlayMult ELSE 1,
     blocks |-> {}, sections |-> LoweredSections, sets |-> << >>]

\* cpmd_merge_common_into_arm: fields that would need a section of their own.
MergeRefused ==
    \/ common \cap {"kMesh", "kMeshBad", "scf", "vdw", "vdwBad", "relativity"} # {}
    \/ Set("xcBad") /\ EffectiveConfig(params).functional = "BLYP"

\* Fault: an overlay value replaces the arm's, whatever that is.
OverridesAlways ==
    [functional |-> IF Set("xc") THEN OverlayFunctional ELSE None,
     cutoff |-> IF Set("cutoff") THEN OverlayCutoff ELSE None,
     charge |-> IF Set("charge") THEN OverlayCharge ELSE None,
     mult |-> IF Set("mult") THEN OverlayMult ELSE None]

\* An overlay value fills in where the arm has the schema's default.
Overrides ==
    LET base == EffectiveConfig(params)
    IN  [functional |-> IF Set("xc") /\ base.functional = "BLYP" THEN OverlayFunctional ELSE None,
         cutoff |-> IF Set("cutoff") /\ base.cutoff = 70 THEN OverlayCutoff ELSE None,
         charge |-> IF Set("charge") /\ base.charge = 0 THEN OverlayCharge ELSE None,
         mult |-> IF Set("mult") /\ base.mult = 1 THEN OverlayMult ELSE None]

-----------------------------------------------------------------------------
(* Types *)

Knobs == [functional : Texts, cutoff : Nat, charge : Int, mult : Nat]

\* What the schema says of a section, where the deck depends on it.
SectionTyped(s) ==
    /\ s.kind \in {"typed", "generic", "raw", "unknown"}
    /\ s.kind = "raw" => s.opens \subseteq ToSet(Mandatory)
    /\ s.kind = "typed" =>
         /\ s.name = "SYSTEM" => /\ s.cutoff \in Nat /\ s.charge \in Int /\ s.mult \in Nat
                                /\ s.vectors \in BOOLEAN /\ s.solver \in BOOLEAN
         /\ s.name = "DFT" => s.functional \in Texts /\ s.lsd \in BOOLEAN
         /\ s.name = "CPMD" => s.lsd \in BOOLEAN
         /\ s.name = "ATOMS" => s.psps \in Seq(STRING)

Messages ==
    [functional : Texts, cutoff : Nat, charge : Int, mult : Nat,
     blocks : SUBSET ToSet(Mandatory), sets : Seq(SetKeys),
     sections : Seq(Sections \cup {LoweredCpmd, LoweredVdw, LoweredSystem})]

ASSUME InputsTyped ==
    /\ \A s \in Sections : SectionTyped(s)
    /\ \A top \in Tops : top \in Messages /\ top.sections = << >> /\ top.sets = << >>
    /\ \A g \in Geometries : g.atoms \in Seq(STRING)
    /\ {"", "BLYP", OverlayFunctional} \subseteq Texts

ASSUME NoneIsApart == None \notin Knobs /\ None \notin Geometries
ASSUME OverlaysAreValues ==
    /\ None # OverlayFunctional /\ None # OverlayCutoff
    /\ None # OverlayCharge /\ None # OverlayMult

-----------------------------------------------------------------------------
(* Actions *)

Init ==
    /\ arm \in {"cpmd", "none", "other"}
    /\ common = {}
    /\ params \in Tops
    /\ ov = NoOverrides /\ geom = None /\ phase = "filling"
    /\ at = 0 /\ has = {} /\ pending = {} /\ deck = << >> /\ attempt = 1 /\ used = 0
    /\ overflow = FALSE
    /\ knobs = None /\ image = None

Parts == Len(params.sections) + Len(params.sets) + Cardinality(common \ {"present"})

Filling ==
    /\ phase = "filling" /\ Parts < MaxParts
    /\ UNCHANGED <<ov, geom, phase, renderVars, attempt, arm, knobs, image>>

AddSection(s) ==
    /\ Filling /\ arm = "cpmd"
    /\ params' = [params EXCEPT !.sections = Append(@, s)]
    /\ UNCHANGED common

AddSet(k) ==
    /\ Filling /\ arm = "cpmd"
    /\ params' = [params EXCEPT !.sets = Append(@, k)]
    /\ UNCHANGED common

AddOverlay(f) ==
    /\ Filling /\ arm # "other" /\ f \notin common
    /\ common' = common \cup {f, "present"}
    /\ UNCHANGED params

Answer(answer) ==
    /\ phase' = answer
    /\ UNCHANGED <<params, ov, geom, renderVars, attempt>>

Render(p, o) ==
    /\ params' = p /\ ov' = o /\ phase' = "starting"
    /\ UNCHANGED <<geom, renderVars, attempt>>

\* cpmd_config_to_params_bytes, then the C knobs (apply_params_buffer).  A
\* message without anything for CPMD changes nothing.
Resolve ==
    /\ phase = "filling"
    /\ CASE arm = "other" -> Answer("refused") /\ UNCHANGED knobs
         [] arm = "none" /\ ~Set("present") -> Answer("unchanged") /\ UNCHANGED knobs
         [] arm = "none" /\ Set("present") ->
              IF LoweringRefused THEN Answer("refused") /\ UNCHANGED knobs
              ELSE Render(Lowered, NoOverrides) /\ knobs' = EffectiveConfig(Lowered)
         [] arm = "cpmd" ->
              IF MergeRefused THEN Answer("refused") /\ UNCHANGED knobs
              ELSE /\ Render(params, Overrides)
                   /\ knobs' = Overridden(EffectiveConfig(params), Overrides)
    /\ UNCHANGED <<arm, common, image>>

StartDeck ==
    /\ phase = "starting"
    /\ Begin(1)
    /\ UNCHANGED <<arm, common, knobs, image>>

\* cpmdc_params_render_deck_with_geometry, on a message of its own.
StartGeometryDeck(g) ==
    /\ phase = "filling" /\ arm = "cpmd" /\ common = {}
    /\ geom' = g /\ phase' = "starting"
    /\ UNCHANGED <<params, ov, renderVars, attempt, arm, common, knobs, image>>

PrintDeck == RenderStep /\ UNCHANGED <<arm, common, knobs, image>>

\* cpmdc_params_reject_unsupported_inputs, then embed_apply_from_wire.  Raw
\* blocks and generic sections are taken to have neither word in their text.
Unsupported ==
    \/ knobs.functional = "PBEoriginal"
    \/ \E i \in DOMAIN deck : \E k \in deck[i].sets :
            params.sets[k].keyword \in {"N_STREAMS", "PBEoriginal"}
    \/ \E i \in DOMAIN deck : deck[i].name = "DFT" /\ deck[i].from \in {"typed", "default"}
                              /\ deck[i].body.functional = "PBEoriginal"

Install ==
    /\ phase = "rendered" /\ geom = None
    /\ IF Unsupported THEN Answer("refused") /\ UNCHANGED image
       ELSE /\ Answer("installed")
            /\ image' = ApplyParams(params, ov)
    /\ UNCHANGED <<arm, common, knobs>>

Next ==
    \/ \E s \in Sections : AddSection(s)
    \/ \E k \in SetKeys : AddSet(k)
    \/ \E f \in OverlayFields : AddOverlay(f)
    \/ Resolve \/ StartDeck \/ PrintDeck \/ Install
    \/ \E g \in Geometries : StartGeometryDeck(g)

Spec == Init /\ [][Next]_vars

-----------------------------------------------------------------------------
(* Properties *)

Shown == phase \in {"rendered", "installed"}

Blocks(name, froms) == {deck[i] : i \in {j \in DOMAIN deck : deck[j].name = name /\ deck[j].from \in froms}}
Ours(name) == Blocks(name, {"typed", "default"})

\* Nothing is installed but a printed deck, and a deck is printed to its end
\* before it is used: no default section and no set directive is missing.
TypeOK ==
    /\ phase \in {"filling", "starting", "rendering", "failed", "rendered", "refused",
                  "unchanged", "installed"}
    /\ params \in Messages /\ geom \in Geometries \cup {None}
    /\ knobs \in Knobs \cup {None} /\ image \in Knobs \cup {None}
    /\ at \in 0..Len(params.sections) + 1
    /\ has \subseteq ToSet(Mandatory) /\ pending \subseteq DOMAIN params.sets
    /\ attempt \in 1..MaxAttempts /\ used < Room
    /\ Shown => has = ToSet(Mandatory) /\ pending = {}
    /\ image # None <=> phase = "installed"

\* Each set directive is in one block of the deck, and that block is of its
\* section, also when the deck was printed again in a larger buffer
\* (cpmdc_params.c 402-414, 480-507).
SetsLandOnce ==
    Shown => \A k \in DOMAIN params.sets :
        LET taking == {i \in DOMAIN deck : k \in deck[i].sets}
        IN  /\ Cardinality(taking) = 1
            /\ \A i \in taking : deck[i].name = params.sets[k].section

Openings(name) == Cardinality({i \in DOMAIN deck : name \in deck[i].opens})

\* The caller opens a section twice, by sections, raw text or a generic
\* section, or keeps it in raw text and sends it a set directive.
OpenedTwice(name) ==
    LET opening == {i \in DOMAIN params.sections :
                      LET s == params.sections[i]
                      IN  IF s.kind = "raw" THEN name \in s.opens ELSE s.name = name}
        raw == name \in params.blocks \/ \E i \in opening : params.sections[i].kind = "raw"
    IN  \/ Cardinality(opening) + (IF name \in params.blocks THEN 1 ELSE 0) > 1
        \/ \E i \in opening : params.sections[i].kind = "generic"
        \/ raw /\ \E k \in DOMAIN params.sets : params.sets[k].section = name

\* CPMD reads the first of two equal sections: a deck has every section CPMD
\* needs, and once, unless the caller's own message opens one twice
\* (cpmdc_params.c 4592-4642 and 4864-4905).
SectionsOnce ==
    Shown => \A name \in ToSet(Mandatory) :
        Openings(name) >= 1 /\ (Openings(name) > 1 => OpenedTwice(name))

\* &CPMD is spin polarized as soon as a &SYSTEM block has more than a singlet
\* or the &DFT section asks for LSD, whatever their order
\* (cpmdc_params.c 4701-4711).
SpinFollowsMultiplicity ==
    Shown => \A c \in Ours("CPMD") :
        \/ c.body.lsd
        \/ /\ \A s \in Ours("SYSTEM") : s.body.mult <= 1
           /\ \A i \in Typed("DFT") : ~params.sections[i].lsd

\* "HF_INIT has no Hockney Green's function for that exchange in an isolated
\* cell and stops" (cpmdc_params.c 652-654): a deck whose one &DFT block has a
\* hybrid functional does not get the Hockney solver by default.
SolverSuitsExchange ==
    Shown /\ Cardinality(Ours("DFT")) = 1 /\ Cardinality(Typed("DFT")) <= 1 =>
        \A d \in Ours("DFT"), s \in Ours("SYSTEM") :
            d.body.functional \in Hybrids => s.body.solver # "HOCKNEY"

\* A deck for a geometry has each atom once, unless two pseudopotentials are
\* for one element (cpmdc_params.c 4945-5053).
AtomsOnce ==
    Shown /\ geom # None => \A b \in Ours("ATOMS") :
        \/ \A j \in DOMAIN geom.atoms : Cardinality({i \in DOMAIN b.body.atoms : j \in b.body.atoms[i]}) = 1
        \/ \E i \in Typed("ATOMS") : ~IsInjective(params.sections[i].psps)

\* A periodic cell of the call stays one in every &SYSTEM block: no block
\* calls it isolated, unless a set directive asks for that, and one that
\* shows no symmetry has the cell as vectors (cpmdc_params.c 5305-5327).
PeriodicStaysPeriodic ==
    Shown /\ HasCell => \A s \in Ours("SYSTEM") :
        /\ s.body.cell = geom.cell
        /\ s.body.symmetry = "none" => s.body.vectors
        /\ s.body.symmetry = "isolated" =>
             \/ geom.cell = "degenerate"
             \/ \E k \in DOMAIN params.sets : params.sets[k].section = "SYSTEM"

\* The deck CPMD is given is complete and says nothing twice: the pieces the
\* renderer adds on its own, in two passes and perhaps in two attempts, meet
\* the pieces of the message.
DeckIsWhole == SetsLandOnce /\ SectionsOnce /\ AtomsOnce

\* What a section prints because of another one is consistent: spin, exchange
\* and boundary, whatever the order of the sections.
SectionsAgree == SpinFollowsMultiplicity /\ SolverSuitsExchange /\ PeriodicStaysPeriodic

\* "Top-level effective config (matches C cpmdc_params_effective_config)"
\* (cpmdc_embed_apply_params.f90 148): the functional C checked is the one
\* that is installed, and so are the scalars.
DecodersAgree == phase = "installed" => image = knobs

\* The deck's method is the installed one where the two are derived from the
\* same fields: the default sections, a section that has the functional or
\* the cutoff itself and no overlay for it, and every message an overlay
\* alone was lowered to, but for the charge next to a kMesh section.
DeckMatchesKnobs ==
    phase = "installed" =>
        /\ ov.functional = None \/ Typed("DFT") = {} =>
             \A d \in Ours("DFT") : Cardinality(Ours("DFT")) = 1 =>
                d.body.functional = image.functional
        /\ ov.cutoff = None \/ Typed("SYSTEM") = {} =>
             \A s \in Ours("SYSTEM") : Cardinality(Typed("SYSTEM")) <= 1 => s.body.cutoff = image.cutoff
        /\ \A s \in Blocks("SYSTEM", {"default"}) :
             Typed("SYSTEM") = {} => s.body.charge = image.charge /\ s.body.mult = image.mult
        /\ arm = "none" => \A s \in Ours("SYSTEM") : s.body.mult = image.mult

\* What an overlay does to the installed scalars.  Next to an arm it fills in
\* exactly those whose effective value, over the top level and all sections, is
\* the schema's default ("the cpmd arm wins where it differs from schema
\* defaults", cpmdc.c 850-853).  So a section that says BLYP, 70 Ry, charge 0
\* or multiplicity 1 counts as silent, and "any knob the native arm also sets
\* wins" (Potentials.capnp 1910) does not hold of it.  An overlay alone gives
\* the scalars it sets, but for its charge next to a k-mesh: the &SYSTEM section
\* that carries the mesh brings a charge of its own, 0.
OverlayFillsDefaults ==
    phase = "installed" =>
        IF arm = "cpmd"
        THEN LET base == EffectiveConfig(params)
             IN  /\ image.functional = IF Set("xc") /\ base.functional = "BLYP"
                                       THEN OverlayFunctional ELSE base.functional
                 /\ image.cutoff = IF Set("cutoff") /\ base.cutoff = 70
                                   THEN OverlayCutoff ELSE base.cutoff
                 /\ image.charge = IF Set("charge") /\ base.charge = 0
                                   THEN OverlayCharge ELSE base.charge
                 /\ image.mult = IF Set("mult") /\ base.mult = 1
                                 THEN OverlayMult ELSE base.mult
        ELSE /\ Set("xc") => image.functional = OverlayFunctional
             /\ Set("cutoff") => image.cutoff = OverlayCutoff
             /\ Set("charge") /\ ~Set("kMesh") => image.charge = OverlayCharge
             /\ Set("mult") => image.mult = OverlayMult
=============================================================================
