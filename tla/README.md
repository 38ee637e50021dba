# A TLA+ model of libcpmdc

libcpmdc embeds OpenCPMD, a Fortran plane-wave DFT program, in a host process: an optimiser or
an MD driver asks for the energy and gradient of a set of atoms through a C API
(`src/include/cpmdc.h`), in-process and without files of its own. OpenCPMD keeps its state in module
variables, so one process has *one* engine, and much of what makes the library delicate follows
from that: many calculators share the engine, each call decides whether the engine as it stands can
serve it (*warm*) or must be torn down and set up again (*cold*), and orbitals of one call start the
SCF of the next. The rest follows from the deck: whatever the host says in a typed message reaches
CPMD as the text of an input file, which several routines in two languages put together.

Paths below are relative to the repository, whose root is `src/` here: the library's C and Fortran
sources are in `src/src/`, the patches applied to OpenCPMD in `src/tools/`.

## 1. The system

### Components

| component | code | state | operations |
|---|---|---|---|
| sessions and calls | `src/src/cpmdc.c` | the `CPMDCSession` objects (parameters, overlay, deck, fixed topology, stored result, `embed_configured`), `g_active_session`, `g_image`, the init flags | create, create from config, set parameters, configure, destroy, evaluate, plain and one-shot calls, finalize, getters |
| embed engine | `src/src/cpmd_embed_c_api.F90`, `cpmdc_embed_image.h`, `cpmd_stop_intercept.c` | the set-up (`cpmd_set_up`), the latched basis (`embed_saved_*`), per calculator a `CPMDCEmbedImage` | install parameters, energy and gradient, tear-down, reset |
| warm orbitals | `src/tools/opencpmd_embed_rwfopt.patch`, `..._extrapolate.patch` | the stored c0, one parked copy per key, the partial copy, the extrapolation ring | select a key, choose the start, restore, store, park |
| working directory | `src/src/cpmdc_memfd.c` | the process's directory, `g_host_cwd`, `g_host_cwd_saved` | enter the library, enter the output directory, return |
| calculators and communicators | `src/src/cpmdc_adopt.c`, `cpmd_embed_c_api.F90` 276-347 | `mp_comm_world` of the embed, `g_live_sessions` | bind, adopt |
| rank consensus | `src/src/cpmdc.c` 1049-1170 | each rank's stored result and image, `g_rank_spread` | three collectives around an evaluation, one before it |
| configuration | `src/src/cpmdc.c`, `cpmdc_embed_apply_params.f90`, `src/schema/Potentials.capnp` | the scalar overrides | decode `PotentialConfig`, lower the overlay, merge it into an arm, install |
| method deck rendering | `src/src/cpmdc_params.c` | a buffer, `g_deck_overflow`, pending set directives | parameters to CPMD sections |
| cold deck composition | `src/src/cpmd_embed_c_api.F90` 658-1844 | the deck so far | atoms, box, symmetry, MAXITER |
| species order map | `src/src/cpmdc_embed_host.c` | none | map the caller's atoms to CPMD's species order and rows back |
| RESTART reader and writer | `src/src/cpmdc_restart.c`, `src/tools/cpmdc_restart*.c` | none | a record file format |
| geometry distance | `src/src/cpmdc_geometry.c` | none | RMSD after superposition |
| results and capabilities, feature table, stub | `cpmdc.c`, `cpmdc_capabilities.c`, `cpmdc_features.c`, `cpmdc_stub.c` | none | serialisation, static tables |

### How they interact

A host passes a `PotentialConfig` or a `CPMDParams` message. The configuration resolves it to one
parameter message and a few scalar overrides; the renderer prints the *method deck*, and the Fortran
decoder computes the *knobs* that later calls are compared by. Both go into the image of a calculator.

A session call first compares elements with the fixed topology, then may answer from the session's
stored result. With several ranks and `CPMDC_RANK_CONSENSUS=1`, that is decided by all ranks together.
Otherwise it installs the session's parameters into its image when another calculator was active, names
its orbital key, and calls `cpmdc_embed_energy_grad` under an armed *stop hook*: OpenCPMD's `stopgm`
returns to C instead of ending the process, and C then resets image and engine. The Fortran side
compares the call with the latched basis. Warm: `chdir` to the output directory, choose the starting
orbitals, SCF, back. Cold: drop orbitals and latch, tear the old set-up down, compose a deck from the
method deck, the atoms and the box in a memfd, enter the pseudopotential library, read, set up, enter the
output directory, SCF, latch, back. The ranks agree on the outcome. Results go to the caller, to the
image (read by the `cpmdc_last_*` getters) and to the session's stored result.

### What is hard

- *Sharing.* Image, session, latch, set-up and orbitals live in different routines and languages. Each
  is updated under its own conditions, and a warm call relies on all of them agreeing.
- *Partial failure.* A call can end after any step: refused parameters, missing library, an SCF that
  does not converge, a stop. What is left must be right for the next call, whoever makes it.
- *Stale results.* Stored results and snapshots outlive the calls that made them.
- *Order of calls.* The library has no lock and no scheduler. The host orders the calls of all sessions
  as it likes, and destroys or reconfigures a session between any two of them.
- *Ranks.* The ranks of a calculator compute with noise of their own, may fail or stop alone, and meet in
  collectives in which everybody waits for everybody.
- *Text.* What a section prints depends on other sections, on overlays, on set directives and on raw
  text. The cold deck is edited line by line, in an order that matters.
- *The outside world.* Directories disappear or close while CPMD reads or runs.

The full list, each hazard at its line with the properties that watch it, is `hazards` in
`PROJECT.json`.

## 2. The modules

    EmbedEngine --> CpmdcSession --> MCCpmdcSession, CpmdcSession_proofs  (Session*.cfg)
             \           | implements
              `---> CpmdcPromise
    WarmOrbitals ------> MCWarmOrbitals, WarmOrbitals_proofs      (WarmOrbitals*.cfg)
    HostCwd -----------> MCHostCwd, HostCwd_proofs                (HostCwd.cfg)
    CalculatorGroups --> MCCalculatorGroups, CalculatorGroups_proofs  (CalculatorGroups.cfg)
    RankConsensus -----> MCRankConsensus, RankConsensus_proofs    (RankConsensus*.cfg)
    DeckRows -> DeckCpmd -> DeckSystem -> DeckSections -> DeckKeywords
      DeckKeywords --> MCDeckKeywords, DeckKeywords_proofs        (DeckKeywords.cfg)
    MethodDeck -> Configuration -> MCConfiguration, Configuration_proofs  (Configuration.cfg)
    ColdDeck ----------> MCColdDeck, ColdDeck_proofs              (ColdDeck*.cfg)

The code runs one call at a time on the host's thread: a whole call is one action, unless another
process can act inside it. `PROJECT.json` maps every definition to its lines.

**EmbedEngine** has no variables. An *engine* is a record of what CPMD is set up for (`setup`), the
latched basis (`latch`) and the set-ups for which orbital copies are kept (`stored`; which copies, and of
which call, is WarmOrbitals' subject); an *image* is the
`CPMDCEmbedImage` reduced to its configuration, the cell of its last converged evaluation, whether its
warm counter is positive, and its snapshots with their valid flag. `EnergyGradient(eng, img, atoms,
cell)` is the *set of outcomes* of `energy_gradient_cell_with_params`: engine, image, success, energy.
The set follows the code's early returns: an output directory that cannot be entered, a geometry that
does not map, an SCF that fails, one that converges, a latch that cannot be allocated, a stop. Energies
are symbolic: the pair of the *set-up the SCF really ran on* and the positions. So a warm call on a wrong
set-up produces a wrong energy in the model as it would in the program.

**CpmdcSession** composes the engine with the session layer. Its variables are the init flags, the
engine, one image per calculator, the sessions, `g_active_session`, and the reply of the last evaluation.
The actions are the public calls named in the table. `SessionEvaluate` has the four paths of
`session_energy_gradient_cell`: topology refused, repeated from the stored result, configuration refused,
computed. `agreed` in a session record is the host's knowledge that its last parameter call returned
success; the C struct has no such field. It is there because a failed `set_params` leaves a mixture
of old and new fields, after which the library promises nothing.

**CpmdcPromise** is what a host is promised: a session is a method and, from its first evaluation on, a
composition; an evaluation fails, or gives the energy of exactly that method, cell and geometry
*as if it were computed from scratch*. There is no engine, image, latch or stored result in it.
`CpmdcSession!Promise` instantiates it with the refinement mapping (`method <- MethodOf` of the
live sessions, or "unsettled" after a failed parameter call; `fixed <-` the fixed topology), and
`ImplementsPromise` is its specification, checked by TLC and proved.

**WarmOrbitals** looks inside `stored`: the store, the parked copies, the partial copy and the ring, for
one set-up. An action is one force call that reaches its SCF (`WarmCall`, `ColdCall`), one that does not
(`Refused`), or whatever empties the store (`Reset`). A copy is known by the geometry, key and number of the
call that left it and by whether that SCF converged, which is what the documented promises are about.
`own` is the host's knowledge: the last converged call under each key, and whether its copy is `kept`. An
unconverged SCF under the key that started elsewhere than from the key's own orbitals loses it (the donor's
copy, or the guess, took its place before the SCF), and so does a session without a key, which works in
the store of the key selected before it.
`warm_rmsd_limit()` reads the environment at each call, so the limit is chosen at each call.

**HostCwd** follows the working directory. A call is split at the two moments other processes can matter
(while CPMD reads its library, while the SCF runs), and `Change` lets a directory become open, closed or
gone at any time. `HostChdir` is the host's own move between calls.

**CalculatorGroups** has one process for each rank of the world. A communicator is the set of its ranks. Bind and
adopt are collectives: a rank enters with its own arguments and its own count of live sessions
(`AdoptEnter`), and the collective completes when all ranks of the communicator are in it; meanwhile the
others open and close sessions. The early returns that take no part (`WrongSize`, `BindReturns`) are
actions of their own.

**RankConsensus** has one process for each rank of a calculator and a program counter: host, the repeat decision,
configuration, SCF, the reduction of flags, the broadcast. Positions may differ between ranks (a host
whose ranks have drifted), and so may the energies of one evaluation. With consensus off the same code
runs without collectives; `on` is chosen at the start. A rank that fails before the first collective
(`EarlyFailures`) is the subject of `doc_same_branch`.

**DeckRows, DeckCpmd, DeckSystem, DeckSections** are the typed section renderers as data: a `Row` for
each keyword statement, with the fields that make it print, those that suppress it, and those whose
values it carries, in the order of the code; a set of refusals; and the *losses* a section is known
for. **DeckKeywords** fills a section with any few fields and renders it. Numbers and layout are left
out: a field is set or not, since "set and not printed" and "printed twice" are what goes wrong here.

**MethodDeck** is the order of things around the sections: raw blocks, sections, defaults for what is
missing, set directives joined to the first section of their name and the rest in sections of their own, what one
section takes from another (spin, exact exchange, Poisson solver, periodicity), and the buffer that is
doubled and printed again. Appends are counted instead of bytes; a `slice` is the append that does not
note an overflow. **Configuration** puts it behind the resolution of a `PotentialConfig`: arm, overlay lowered to
a message of its own, overlay merged into an arm, refusals, and the two decodings of the scalars (C
for what is checked, Fortran for what is installed).

**ColdDeck** follows a deck through the passes of `embed_compose_cold_deck`. `&SYSTEM` is a sequence of lines,
because `impose_box_cell` edits it by lines; the other sections are the words a pass looks for.

**Fault operators.** A definition whose comment begins "Fault" is a wrong variant of the one after it: a
guard dropped, a reset forgotten, an order swapped. No behaviour uses it. `mutants` in `PROJECT.json`
pairs each property with a variant that TLC finds it violated under, so no property is satisfied by the
shape of the model alone.

## 3. What the runs check

| run | question | bounds | distinct states |
|---|---|---|---|
| `shared_engine` | two sessions take turns on one engine: is every answer the caller's own, and do latch, set-up, the shapes of kept orbitals, image and stored result stay in step? | 2 sessions, 2 methods, with and without a cell, 2 orders of one geometry | 206 000 |
| `calls_and_refusals` | a session, plain and one-shot calls; parameters replaced before and after the first evaluation, some refused by C, some only by Fortran; another composition, an atom outside the table: do accepted calls answer, is the active session usable, is every step one of `CpmdcPromise`, and does a fixed topology freeze composition and method? | 1 session, 4 methods of which C refuses one and only Fortran another, plain and one-shot calls of one method of each kind, 3 arrays | 261 000 |
| `warm_store` | which orbitals start each SCF, with and without a distance limit, with the extrapolation ring | 2 keys and no key, 3 geometries, ring of 2, 5 force calls | 538 000 |
| `cwd` | outputs come and go and the library disappears during calls: where does the SCF run, and where does the host end? | 2 host directories, an absolute and a relative output | 1 600 |
| `ranks` | do the ranks of a calculator return one answer, with its snapshots and its stored copy, and do they all return? | 2 ranks, 2 positions, 2 energies, 2 calls, consensus on and off | 117 000 |
| `calculator_groups` | is a stored communicator an aligned block, which an adoption numbers, replaced on all of its ranks while no session is live? | 4 ranks, communicators of several shapes, `ranks_per_calc` 0 and 2, 1 session on a rank | 682 000 |
| `deck_keywords` | is every field of a typed section printed, refused, or lost in a known way, and is a repeated keyword one of those listed for the section? | every typed section; pairs of fields, triples in `&SYSTEM` and `&ATOMS` | 635 000 |
| `configuration` | are all parts of a message in the deck once, do its sections agree, and do deck, checked scalars and installed knobs agree? | 18 section shapes, 5 set directives, 15 overlay fields, 3 parts in any order, 5 geometries, buffers of 8, 16 and 32 appends | 1 765 000 |
| `cold_deck` | has the deck CPMD parses the box, the atoms and the method lines it should? | all combinations of symmetry, unit, cell form and three other keywords, 6 boxes, 2 molecules | 62 000 |
| `doc_*` | a statement of a document or comment that the code does not keep (section 4) | the smallest instance that shows it | |

The properties that matter most:

- `AnswersTheCall`: a success is the energy of the caller's method, cell and atoms, and gradient rows are in
  the caller's order, whether computed warm, computed cold or repeated. `ImplementsPromise` says it of
  whole behaviours, with the life of sessions around it.
- `LatchMatchesSetup`: the latch speaks for the set-up that is there, and no kept orbitals have another shape.
- `FailureKeepsWarmBasis`: a call on the latched basis that fails without a stop keeps latch and set-up, and the next
  one is warm. Which orbitals that one starts from is not said (`doc_source_zero`).
- `ActiveSessionIsConfigured`: what the short cut "this session was active, do not configure it again"
  relies on.
- `CacheMatchesImage`: a repeat is paired with the snapshots of the evaluation it repeats.
- `TopologyFreezesSession`: no step moves a session that has evaluated to other elements or to another method.
- `StartsFromNearest`, `OwnOrbitalsComeBack`, `RingIsOneTrajectory`, `CopiesAreDescribed`: the promises of
  `cpmdc_session_select_orbitals` and EXTRAPOLATE WFN, of copies that no later SCF has replaced.
- `LibraryStaysClean`, `ScfInOutputDirectory`, `ReturnsHome`: where CPMD runs and where the host ends.
- `OneAnswerPerCall`, `SnapshotsAreOfTheAnswer`, `StoreIsOfTheAnswer`: host optimisers that run on every rank
  step from the same numbers, and a later repeat, or a getter, gives the same again.
- `EveryCallReturns` (liveness): a call that one rank has begun returns on every rank.
- `NumberedBlocks`, `StoresOnWholeIdleGroup`: two adopted groups of a size are not answered one index, and no
  session loses its communicator under it. The index a bind answers is not covered (section 4).
- `NothingLostSilently`, `OnlyListedRepeats`: of some 700 fields none is lost behind a wrong condition, and the default
  Poisson solver is never beside one the caller names. Other repeats are listed, not excluded (section 4).
- `DeckIsWhole`, `SectionsAgree`, `DeckMatchesKnobs`, `DecodersAgree`, `OverlayFillsDefaults`: what the host said, what CPMD
  is told, and what the engine compares are one method, wherever these come from the same fields.
- `CellOfTheCall`, `SymmetryFitsTheCell`, `MethodLinesSurvive`, `AtomsOfTheCall`: the deck CPMD parses.

**Why the bounds are enough.** All interaction between sessions goes through one engine and one active
pointer, so two sessions (or one and the plain calculator) make every kind of interference; a third only
repeats it. Two methods, a cell and no cell, and two compositions make every field of the basis differ.
Two orders of an array are what row order needs. In WarmOrbitals, geometries 0 and 1 are within the limit
and 3 is beyond it, two keys are a store and a donor, a ring of two is filled by the third consecutive call,
and five calls allow both keys a call before one that breaks the sequence. The theorems of section 6 remove the
bounds of the modules they are about altogether. A reduction treats all ranks but the root
alike, and a repeat needs a second call: two ranks and two calls. Four ranks are the smallest world with two blocks of two,
an unaligned pair, a scattered pair and a triple. Conditions of the renderers name
one field or two, rarely three, and never more in `&SYSTEM` and `&ATOMS` where the triples are. Three parts of a
message are a section, another that it depends on, and a set directive or overlay field; the buffers make
each append of such a deck the one that does not fit, once, twice or too often.

**Deadlock** is checked where a host can always make another call. In WarmOrbitals the bound on force calls
leaves `Reset` enabled. It is not checked where the system really stops: at the end of the host's calls
(`ranks`), with ranks that wait for one that was refused (`calculator_groups`, an incorrect host may cause it), and when a
deck is finished (`deck_keywords`, `configuration`, `cold_deck`).

**Fairness** is only in `RankConsensus`. Weak fairness of each rank's local steps: a rank is a running process
and nothing but a collective makes it wait. Weak fairness of each collective: MPI completes one that every
rank has entered. `FollowsHost`: the host runs the same program on every rank, as
`src/docs/orgmode/reference/environment.org` asks, so a call begun on one rank is begun on the others. That the SCF itself
returns is assumed (a hung SCF hangs the process). The other modules are of safety: a
single-threaded library has nothing that must eventually happen unless the host calls.

## 4. Where documents and code differ

Three have a run whose counterexample shows them; `findings` in `PROJECT.json` quotes the lines.

- `doc_same_branch`: a comment says every rank takes the same branch into the next collective, and
  `environment.org` that every rank fails when one failed. A rank that is refused before the first
  collective, or whose parameters cannot be installed, returns alone, and the others wait for it.
- `doc_rest_of_deck`: a test of the cold deck says the rest of the deck stays when the call's box replaces the
  deck's cell. Below CELL VECTORS three lines are dropped, but a typed cell is printed there as *one*
  record, so CUTOFF and its value are dropped with it.
- `doc_source_zero`: `environment.org` 43 says source 0 means the selected key's stored orbitals, `cpmdc.h` 381-384
  that an evaluation under a key starts from what the last converged one under that key left, and
  `wavefunction-state.org` 31 and 46 that an SCF that does not converge leaves the stored orbitals in place. After a failed call that
  began with a nearer donor's orbitals, the donor's are in the store, and the next call under the key starts from them
  and reports 0.

Also seen while modelling, as the code has them and without a run of their own.

*Sessions and engine.* `cpmdc.h` 57 says a valid snapshot was written by a successful evaluation; an unconverged warm
SCF writes one too. `c-abi.org` 172 says the first *successful* step fixes the topology; a failed one does.
After a repeated evaluation the plain getters read whichever calculator was active. With a deck that always runs PCG MINIMIZE, the first
pass of a call starts from the unconverged orbitals of a failed one. Beyond the distance limit a call gives up the selected key's
converged orbitals before its SCF, and a failure does not bring them back (`cpmd_embed_c_api.F90` 2650 and
`wavefunction-state.org` 46 say the previous copy stays). A session that names no key runs in the store of the key
selected before it, and its converged orbitals take the place of that key's. When the pseudopotential library
cannot be entered, the saved host directory is left behind and a later call returns to it. After `cpmdc_finalize` an
evaluation equal to the last is still served from the stored result, and a `cpmdc_finalize` before the first call is undone
by that call. Every cold set-up leaves a memfd open.

*Communicators.* A bind after an adoption on some ranks only waits for ever in `MPI_Comm_split`. The index a bind
returns after an adoption is computed from its argument and need not name the adopted group. A second bind returns the index its own argument gives (the index is computed
in line 294, before the test of 295), although `cpmdc.h` 295, `mpi.org` 79 and `c-abi.org` 120 say it returns the same one: on four ranks a bind
with 2 and then one with 0 on all of them leave the groups {0, 1} and {2, 3} both answering 0.

*Configuration.* `cpmdc.h` 248 and `c-abi.org` 145 say that the arm and the overlay together are rejected; they are merged.
Next to an arm, an overlay's smearing and basis set are ignored. An overlay's cutoff reaches the knobs, but a typed
`&SYSTEM` prints its own schema default. An overlay with a k mesh and a charge leaves the installed charge at 0. Charge or multiplicity
set at the top only, next to a section with defaults, differ between knobs and deck. `Potentials.capnp` 1910 says any knob the arm also
sets wins; the merge looks at the effective value (`cpmdc.c` 813-849), so a section that names BLYP, 70 Ry, charge 0 or
multiplicity 1 loses to the overlay. After decoding, a named default is the same as one that is not named.

*Rendering.* The schema's "-1 => omit" of lmax still prints LMAX=S; the elements of Hubbard U and isotope entries are never
printed; a cell list of a length that is neither 6 nor 9 is dropped without an error. A slice that does not fit does not set
`g_deck_overflow`, so a deck that outgrows the first buffer there is refused and not printed again. Two
pseudopotentials for one element can print an atom twice and pass the count for another that is missing. A generic
section, or a set directive next to raw text, can open a mandatory section a second time. A field and a free directive
of the same keyword are both printed, and so is a set directive for it: POISSON SOLVER up to three times (`cpmdc_params.c`
1398-1417), and FILEPATH for its field (3264) and again for a directive, a set directive or the message's own path (3604-3616). Pairs of fields
of `&CPMD` that spell one keyword, LANGEVIN, ODIIS, RESTART and others, print it twice. `CpmdRepeats` and `SystemRepeats` list all of them.

*Cold deck.* The letters CELL anywhere in the deck, in CLASSICAL CELL or CONVERGENCE CELL or in a file name, keep a missing CELL from being added. A deck
with POISSON SOLVER or CLUSTER but no SYMMETRY gets a periodic symmetry from a diagonal box. Three numbers in a
line of `&ATOMS` extras count as coordinates; otherwise those extras are stripped with the section.

## 5. Assumptions of the model

- Data is symbolic. An atom is an element at a position; an array is a sequence of distinct atoms; a cell is
  a value; a method is a parameter message and an overlay. Comparing doubles bit by bit is equality here.
- The SCF is a choice: it converges, fails or stops. Nothing is assumed about which.
- Memory: a failed allocation is modelled where it changes what later calls see (`latch_embed_basis`, the
  first store of a result), not elsewhere.
- One host thread on each rank. The session modules have one rank; RankConsensus and CalculatorGroups have many and
  abstract the engine to the outcome of an evaluation.
- A rank that leaves a collective early only delays its own next step, so ranks leave together.
- `None` is not a value of any other kind (`NoneIsApart` in three modules, `NoneIsNoBasis`, `NoneIsNoState`): a flag or a
  null pointer in the code.
- `WarmOrbitals`: a distance is a natural number (`DistanceIsNatural`). Only comparisons of RMSDs matter, and an RMSD
  is not negative; nothing else is assumed of it, not even that it is symmetric.
- `CalculatorGroups`: `ranks_per_calc` is an integer, any integer (`ArgumentsAreIntegers`), and the same on all ranks
  that bind together (`BindEnter`): the code does not check it, and with different values MPI_Comm_split makes
  groups that nothing here describes.
- `Configuration`: sections, geometries and the message before it is filled have the types of the schema
  (`InputsTyped`), for a text that names a functional any set `Texts` with the default and the overlay's; the buffer's
  first size and the number of attempts are positive, the limit on set directives a natural (`Limits`).
- `Configuration`: raw and generic text contains no N_STREAMS line and no PBEoriginal; set directives do, and are refused. The
  scalars an overlay lowers to are values of the schema's types (`OverlaysAreValues`).
- `ColdDeck`: an image deck has `&CPMD`, because the renderer adds it if nothing opens it (`MethodDeck`, `Missing`). What a deck contains and what the passes write is text (`TextsOfTheCode`, `InputsAreDecks`,
  `CallsAreArrays`). Two more are not assumed by the module but are hypotheses of theorems, and `MCColdDeck` has TLC
  evaluate both on the decks of the run. `InputsAsRendered`: one SYMMETRY at most, its value below it,
  none beside CELL VECTORS, and ANGSTROM not among the lines that go with a cell. `RecordsAreWhole`: SYMMETRY and
  CELL have one record below them, CELL VECTORS has three or one, ANGSTROM has none. The renderer of
  `&SYSTEM` writes nothing else (`cpmdc_params.c` 720-760: SYMMETRY, ANGSTROM, then the cell); raw text and
  set directives may.
- `HostCwd`: nobody works in, or asks for output into, the pseudopotential library (`LibraryIsApart`).
- `ScfInOutputDirectory` and `ReturnsHome` need the host's directories to stay and the library never to be
  closed (it may be gone): `HostStays`, the hypothesis of their theorems, which `MCHostCwd` has TLC evaluate.
- `ranks` assumes that no rank fails alone before the first collective (`EarlyFailures = FALSE`);
  `doc_same_branch` shows what happens otherwise.
- Inputs of the deck modules start from empty fields: a caller can clear the schema's defaults.

## 6. What is proved

TLAPS checks the following for every value of the constants, under the named assumptions. TLC
evaluates these assumptions in each run.

**CpmdcSession_proofs, the engine.** Everything in the session layer rests on one lemma about a single evaluation. `Ready(e, img)` says that
engine and image are well typed, that the engine is *sound* (a latch equals the set-up and has
orbitals; no orbitals of another shape), that the image has knobs and a deck, and that the image *follows* the
latch (its remembered cell, if any, is the latched cell; its warm counter needs a latch). `EvaluationProper`:
every outcome of `EnergyGradient` on a ready pair is again ready, keeps the image's configuration, and a success is
the energy of the basis asked for. The argument is `WarmIsLatched`: the warm test compares the new cell
with the *image's* cell, not with the latched one, so it is only right because the image follows the latch.

**CpmdcSession_proofs, the sessions.** The inductive invariant is

    IInv == TypeOK /\ Sound(eng) /\ SessionsHold /\ ActiveHolds /\ AnswersTheCall

No part is inductive alone. `AnswersTheCall` for a computed answer needs `Ready` of the image in use, which
comes from `ActiveHolds` when the configuration is skipped and from `ApplyConfig` otherwise. For a repeat
it needs `SessionsHold`: the stored energy is that of the session's method, and the topology fixed with it
gives the new array the same composition. Even `TypeOK` needs `ActiveHolds`, since an image without a deck has
no basis. There is one lemma per action. `OneSessionSteps` and `NoSessionSteps` say once what a step that
changes one calculator leaves alone. The theorems are:

| theorem | states |
|---|---|
| `TypeCorrect` | `Spec => []TypeOK` |
| `OwnAnswer` | `Spec => []AnswersTheCall` |
| `EngineConsistent` | `Spec => []LatchMatchesSetup` |
| `ActiveSessionUsable` | `Spec => []ActiveSessionIsConfigured` |
| `CacheAndImageAgree` | `Spec => []CacheMatchesImage` |
| `FrozenTopology` | `Spec => TopologyFreezesSession` |
| `WarmAfterFailure` | `Spec => FailureKeepsWarmBasis` |

`WarmAfterFailure` is about two calls, the one that fails and the one after it. `FailureStep` says what the failed call leaves:
the latch and the set-up (`ComputedKeepsLatch`). `WarmOnLatch` (`LatchedStartsWarm`) that a ready image with the method and
the cell of the latch passes the test for a warm call.

The refinement is the last section of that module. `KeepsThePromise`: `Spec => ImplementsPromise`. The initial states map to the initial
state; under `IInv` each action of CpmdcSession is mapped to a step of CpmdcPromise or to a stutter, one
lemma per action. The step of an evaluation needs `AnswersTheCall'`, which `IInv` gives in the next state: the
refinement is the place where warm calls, latch and cache turn out to be invisible.

**HostCwd_proofs.** `IInv == TypeOK /\ LibraryStaysClean`, where `TypeOK` says that a process
without a saved directory is in one of the host's. `Anchored` carries that fact through each `chdir` of
`cpmdc_memfd.c`. Theorems `TypeCorrect` and `CleanLibrary`, for any fate of any directory.
`OutputWhereAsked` and `BackHome` state `ScfInOutputDirectory` and `ReturnsHome` under `HostStays`. Their invariant
`HomeInv` adds that the saved directory *is* the host's while a call runs and none is saved between
calls. Without it neither holds in the next call, since `cpmdc_memfd.c` saves only when nothing is saved: a
directory left over would be where that call resolves its output and where it returns to.

**RankConsensus_proofs.** Two invariants. `OwnInv` is about each rank alone and holds with consensus and
without: types, a result only in the host, and `SnapshotsFollow`, that stored result and snapshots are of one
evaluation until the next SCF and that a converged outcome has its own snapshots after it. It is needed because
`SnapshotsAreOfTheAnswer` for a repeat is about what an earlier call left. `SharedInv` is about any two ranks and only
with consensus: `InStep` (who is inside a call is in the same one, who is not is at its door, and past the
first collective nobody is outside) and `Agreed` (equal answers, one stored energy). `InStep` is what makes
"all ranks of this collective" mean "all ranks of this call"; it fails when a rank may leave early, so its
theorems assume `EarlyFailures = FALSE`, as the run `ranks` does. `TypeCorrect` and
`SnapshotsOfTheAnswer` do not. `OneAnswer` states `OneAnswerPerCall`, `StoreOfTheAnswer` states `StoreIsOfTheAnswer`,
and `BranchesAgree` that `SameBranch`, which `doc_same_branch` refutes, does hold under that assumption.

**CalculatorGroups_proofs.** The invariant is

    IInv == TypeOK /\ GroupsAreBlocks /\ WaitingAsEntered /\ OneSplit /\ AnswersOwnGroup

Ranks enter a collective at different times and its result depends on what each of them brought, so the invariant has
to say what still holds of a rank that waits: its sessions are those it reported, a rank in a bind
still has no communicator (`WaitingAsEntered`), all binds that wait carry the same argument (`OneSplit`). Then
`StoredTogetherWhenIdle` follows for the step that completes: the reduction was over counts that are still true. `BlocksAreNumbered` (of adoptions only) needs that
the index an adoption answered is the block number of the communicator it stored (`AnswersOwnGroup`), and some
arithmetic of aligned blocks: two blocks of a size that share a rank, or a number, are one. Aligned
blocks are compared by cardinality, so the lemmas on intervals come from FiniteSetTheorems.

**WarmOrbitals_proofs.** The invariant is `TypeOK`, the properties about the last report, and

    Kept(orb, own, calls) == Described(orb) /\ Keeps(orb, own) /\ RingUpTo(orb, calls)

`Described` is `CopiesAreDescribed`. It is inductive by itself and not enough: `StartsFromNearest` speaks of what the
*host* can count on, `own`, so `Keeps` says where the copy of each call that is `kept` is, in the store if its
key is selected and parked otherwise; selecting a key moves both, and `OwnAfter` gives a copy up exactly when the
SCF did not start from it. `RingUpTo` ties the ring to the count of calls: the ring ends at
the last but one, and the store is of the last one and waits to join it. The lemmas follow the
code's order: `SelectKept` (park and take back), `ChooseFacts` (own copy, nearest parked one, none),
`ExtrapolatedFacts`, `PassFacts` for one pass of the SCF and `AfterPassesFacts` for all of them, `ScfKeeps`. Each takes the orbitals as an argument, because a
call goes through several states inside one action.

**ColdDeck_proofs.** Three invariants, since types and atoms need no hypothesis on the decks, and the cell and the
rest of the deck each need one of their own.

    TypeInv == input \in Inputs /\ call \in Calls /\ TypeOK /\ HasAtomsOfTheCall(deck.atoms), if there are any
    CellInv == before the box: AsRendered(deck) and its section is the input's
               after it: HasCellOfTheCall(deck) /\ SymmetryFits(deck)
    MethodInv == before the box: the section is the input's
                 after it: its method lines are the input's; after the symmetry: they begin with them

`CellInv` says what each pass may rely on, which is the reason the order of the passes is right: the box needs the section as it was
rendered, and symmetry and MAXITER keep what the box left. The hardest part is
the unit. `impose_box_cell` reads ANGSTROM in the old section, while CPMD reads it in the new one, from
which the lines below CELL or CELL VECTORS are gone. `KeptFacts` shows the two agree if no ANGSTROM is among those lines,
which is the clause of `AsRendered` about it. `SymmetryOfFacts` shows that the value `impose_box_cell`
finds below the first SYMMETRY is the deck's, `PeriodicityFacts` that a symmetry put in later does not
contradict a deck that says isolated.

`MethodInv` compares two readings of a section, before and after a pass. `MethodLines` reads it line by line and
remembers whether the last keyword was one of a cell, so a pass may change what is read *below* the place
it touches. `KeptMethod` runs `impose_box_cell` and two such readings side by side: where the pass goes on copying, either both
readings are below the same kind of keyword or the next line is a keyword. That needs every keyword that goes to take exactly
its own records along (`TakesItsRecords`), and `WholeRecords` gets this from `RecordsAreWhole` unless CELL VECTORS has
one record and more lines below it, the case `doc_rest_of_deck` refutes. `TwoLinesOfACell` is the
lemma about lines that are put in (the lattice constant, the symmetry): they hide no record if they stand first or above a
keyword, and they do, because ANGSTROM has no record.

The theorems are `TypeCorrect`, `AtomsAreOfTheCall`, under `InputsAsRendered` `CellIsOfTheCall` and
`SymmetryIsOfTheCell`, and under `RecordsAreWhole` `MethodReachesTheParser`, which states `MethodLinesSurvive`.

**Configuration_proofs.** Three invariants, each on top of the one before.

    TypeInv == types, Resolved once the message is, as much of TypeOK as is inductive
    KnobInv == TypeInv, and Settled: overlay and knobs are what C computed from the message
    DeckInv == DeckOK(deck, at, has, pending) while a deck is printed and after

*Knobs.* C walks over the sections and overwrites, Fortran keeps for each scalar the last value that is named.
`WalkFindsLast` shows by induction on the sections that the walk leaves, for each scalar, the value of
the last section that names it; `TwoDecoders` that both decoders find one record, with any overlay on top.
`DecodersFindTheSame` states `DecodersAgree`, and `OverlayFillsIn` states `OverlayFillsDefaults`: each of the four
installed scalars next to an arm is the overlay's if the overlay sets it and its effective value is the schema default, and the
arm's otherwise; without an arm it is the overlay's, but for a charge next to a k mesh.

*Deck.* `DeckOK` is what a half printed deck guarantees, and its parts are the facts the properties need.
`Layout`: the raw text, the sections printed so far in their order, and after the last one only defaults and
set directives, each block with the body its section asks for. `Noted`: what `has` notes as opened
is opened by a block, and what a section opened is noted, so a default is added once and only for a
section nobody gave. `Placed`: each set directive is pending or in one block of its own section, and none waits behind a
block of its section. Every append of `Emit` either keeps all three or fails the attempt; a retry clears them all
(`DeckOfBegin`), which is why a deck printed again is as whole as one that fitted at once. What a
block says depends on the message, the overlay and the geometry, and nothing changes these after the deck is begun (`StaticStays`).

From there the properties are about finished decks. `SectionsFitTogether` states `SectionsAgree` (spin, exact exchange,
periodic cell), `DeckSaysWhatIsInstalled` states `DeckMatchesKnobs`: under the conditions of the property the
first section that decides for the deck is the last that decides for the knobs. `DecksAreWhole` states
`DeckIsWhole`: `OpenedOnce` finds in two blocks that open one section either two parts of the message
or raw text with a set directive, which is `OpenedTwice`; `AtomsPrintedOnce` counts. The
renderer compares only the *number* of atoms it printed with the number there are; `CoveredIsCounted` shows that number
to be the cardinality of a union of disjoint sets if no element has two pseudopotentials, and two finite sets,
one inside the other and of one cardinality, are equal. With two for one element the lemma is false, and
so is the claim (section 4). `TypeCorrect` states `TypeOK`.

**DeckKeywords_proofs.** The invariant is short, `IInv == Filled /\ Decided`: the fields are the section's own, no two
of them alternatives of one choice, and the lines of a rendered deck are the rows that print for a set that is
not refused. The work is in what some 700 rows print for *any* set of fields, where the run looks at two or
three at a time. No row can be looked at with each set, so rows are sorted by what has to be known of them.

- A row is *ordinary* if each field it carries is enough to print it, nothing keeps it from printing and none of them is ever lost. The others are listed
  for each section (`CpmdSpecial`, `SystemSpecial`, `AtomsSpecial`), and so are the fields a section
  may lose (`CpmdLost`, `SystemLost`). `CoversWhen` then gets `Covers`, that the fields without a line are exactly the
  excused ones, from facts about these few: an ordinary row prints each field it carries; a special row prints
  its own because the deck is refused if its leading field is missing (`Rides` behind a `Without`), or the
  field is a loss that is excused exactly when the row stays silent. With that the refusals are
  part of the argument, as they are of the code: a refusal taken away leaves a special row without its reason.
- `Exclusive` says that two rows of one keyword cannot print together unless the section is known to repeat it. It is
  shown inside each chunk of a section's rows, where only rows of one keyword have to be compared, and `Apart`
  says of each two chunks that they share no keyword but the repeated ones. `JoinedExclusive` puts the chunks together.
- `SolversPrinted` counts. The four rows of `&SYSTEM` that print POISSON SOLVER are its named ones and the
  default, whose `unless` holds the other three and the fields of a periodic system.

The theorems are `DeckLosesNothingSilently` and `DeckRepeatsOnlyListedKeywords`, the second from `ListedRepeats` and
`SolversPrinted`. For the sake of these proofs names of keywords
and fields have `_` for a blank, and the lines of a deck keep their place among the section's rows instead of
being closed up.

**Recursion.** `SpeciesUpTo`, `CopiedUpTo` and `MethodUpTo` of ColdDeck, `WalkedUpTo`, `RoomAt` and `CoveredUpTo` of Configuration are
recursive functions over atoms, lines, sections, attempts and species. The
induction theorems of the library take an operator as parameter and cannot be used. But the order of the naturals is well founded
(`NatLessThanWellFounded`), and `WFMin` gives a least element to every set of naturals that has one (`LeastNat`, `LeastNumber`), so
the set of counterexamples of a claim about `f[n]` is empty (`InductionOverNat`, `Induction`). The equation of the
function itself holds because a function with that equation exists up to every number, which is proved the same
way (`SpeciesUpToDefined`, `CopiedUpToDefined`, `MethodUpToDefined`, `WalkedUpToDefined`, `RoomAtDefined`, `CoveredUpToDefined`).

## 7. What is only model-checked, and what TLAPS cannot do here

TLC alone checks `EveryCallReturns`, since liveness under fairness and ENABLED are outside what the provers
do, and the three `doc_*` claims, which are false of the code: there a counterexample is all there is to find. Every other
invariant, action property and refinement of the runs is stated by a theorem of section 6.
None of the modules has a RECURSIVE operator.

## 8. Not modelled, and the plan

Not modelled because a model would only repeat the code: number formats and the layout of a deck, static tables,
the stub, RMSD arithmetic, file writing, the Cap'n Proto library, the serialisation of results.

Left of the plan:

1. `SpeciesMap`: the map of `cpmdc_embed_host.c` and its inverse against a reference definition.
2. `ForceCall`: the decoding of `ForceInput`, the units, and the size protocol of results.
3. `RestartFile`: the record checks of the reader.
4. WarmOrbitals and HostCwd composed with the engine: the outcomes EmbedEngine allows shown to
   cover what they do; ColdDeck behind MethodDeck.

Theorems to come: that EmbedEngine's outcomes cover WarmOrbitals and HostCwd, once these are composed.

## 9. Running it

    tlc -workers 2 -config SessionShared.cfg MCCpmdcSession
    tlapm CpmdcSession_proofs.tla

The slowest passing runs take about a minute and a half on two cores; all proofs together some ten minutes,
those of DeckKeywords and CpmdcSession the longest.
