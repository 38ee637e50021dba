----------------------------- MODULE WarmOrbitals -----------------------------
(***************************************************************************)
(* The orbital copies that rwfopt keeps between the SCFs of one process    *)
(* (tools/opencpmd_embed_rwfopt.patch, ..._extrapolate.patch): the store   *)
(* the next SCF starts from, one parked copy per key the host names, the   *)
(* partial copy of an unconverged pass, and the ring that EXTRAPOLATE WFN  *)
(* predicts from.                                                          *)
(*                                                                         *)
(* All copies here belong to one set-up of OpenCPMD: a change of basis or  *)
(* a stopgm empties everything (Reset).  EmbedEngine keeps only for which  *)
(* set-up copies exist; this module is the same store seen from inside.    *)
(*                                                                         *)
(* A definition marked "Fault" is a wrong variant of the one after it.  No *)
(* behaviour uses it: it is there to show that a property would notice.    *)
(***************************************************************************)
EXTENDS Integers, Sequences, FiniteSetsExt

CONSTANTS
    Keys,       \* keys named with cpmdc_session_select_orbitals
    Geometries, \* species-ordered geometries of the calls
    Distance(_, _), \* cpmdc_geometry_rmsd, on an integer scale
    Limits,     \* values of CPMDC_WARM_RMSD; a negative one: any distance
    Extrapolate,\* EXTRAPOLATE WFN in the deck
    RingSize,   \* cnti%mextra
    MaxCalls,   \* bound: force calls in a behaviour
    None

ASSUME Bounds == Limits \subseteq Int /\ RingSize \in Nat \ {0} /\ MaxCalls \in Nat
ASSUME Flags == Extrapolate \in BOOLEAN /\ None \notin Keys
ASSUME DistanceIsNatural == \A a, b \in Geometries : Distance(a, b) \in Nat

VARIABLES
    orb,     \* the module variables embed_* of rwfopt_utils
    latched, \* embed_basis_latched
    last,    \* what the last force call started from and how it ended
    own,     \* per key, the last call under it that converged on this basis
    calls    \* force calls so far

vars == <<orb, latched, last, own, calls>>

\* A c0: the geometry it was optimised at, the key and number of the call that
\* left it, and whether that SCF had converged.
Copies == [at : Geometries, key : Keys \cup {None}, call : 1..MaxCalls, converged : BOOLEAN]
Slots  == [c0 : Copies, geo : Geometries]
\* kept: no other SCF has taken the place of its orbitals.
Owned  == [call : 1..MaxCalls, geo : Geometries, kept : BOOLEAN]

Orbitals == [store : {None} \cup Copies, geo : {None} \cup Geometries,
             have : BOOLEAN, partial : BOOLEAN,
             slots : [Keys -> {None} \cup Slots], key : {None} \cup Keys,
             ring : Seq(Copies), xstate : 0..2, diis : BOOLEAN]

\* What a force call reports, with what had converged under every key before.
Reports == [key : {None} \cup Keys, geo : Geometries, source : -2..1, ok : BOOLEAN, rmax : Limits,
            start : {None} \cup Copies, ring : Seq(Copies), own : [Keys -> {None} \cup Owned]]

ASSUME NoneIsApart ==
    /\ None \notin Geometries /\ None \notin Copies /\ None \notin Slots
    /\ None \notin Owned /\ None \notin Reports

\* diis: the deck optimises with ODIIS, otherwise with PCG MINIMIZE.
Fresh(diis, key) ==
    [store |-> None, geo |-> None, have |-> FALSE, partial |-> FALSE,
     slots |-> [k \in Keys |-> None], key |-> key,
     ring |-> <<>>, xstate |-> 0, diis |-> diis]

NoneOwned == [k \in Keys |-> None]

Init ==
    /\ \E diis \in BOOLEAN : orb = Fresh(diis, None)
    /\ latched = FALSE
    /\ last = None
    /\ own = NoneOwned
    /\ calls = 0

-----------------------------------------------------------------------------
(* embed_break_history, embed_select_orbital_slot *)

BreakHistory(o) == [o EXCEPT !.ring = <<>>, !.xstate = 0]

\* Fault: the copy is parked only when the key has none parked by anyone.
ParkedOnce(o) ==
    IF o.key # None /\ o.have /\ \A k \in Keys : o.slots[k] = None
    THEN [o.slots EXCEPT ![o.key] = [c0 |-> o.store, geo |-> o.geo]]
    ELSE o.slots

\* Leaving a key parks its converged copy.
Parked(o) ==
    IF o.key # None /\ o.have
    THEN [o.slots EXCEPT ![o.key] = [c0 |-> o.store, geo |-> o.geo]]
    ELSE o.slots

\* Fault: the copy comes back without its geometry.
SelectLosesGeometry(o, k) ==
    LET left == [BreakHistory(o) EXCEPT !.slots = Parked(o), !.key = k]
        mine == left.slots[k]
    IN  IF o.key = k THEN o
        ELSE IF mine = None THEN left
        ELSE [left EXCEPT !.store = mine.c0, !.slots[k] = None,
                          !.have = TRUE, !.partial = FALSE]

Select(o, k) ==
    LET left == [BreakHistory(o) EXCEPT !.slots = Parked(o), !.key = k]
        mine == left.slots[k]
    IN  IF o.key = k THEN o
        ELSE IF mine = None THEN left
        ELSE [left EXCEPT !.store = mine.c0, !.geo = mine.geo, !.slots[k] = None,
                          !.have = TRUE, !.partial = FALSE]

\* A session names its key before each evaluation that reaches the engine; one
\* that never named a key (None) leaves the selected key selected.
Selected(k) == IF k = None THEN orb ELSE Select(orb, k)

-----------------------------------------------------------------------------
(* embed_choose_warm_start_metric_v2 *)

Holders(o) == {k \in Keys : o.slots[k] # None}

Distances(o, g) ==
    {Distance(o.slots[k].geo, g) : k \in Holders(o)}
    \cup (IF o.have THEN {Distance(o.geo, g)} ELSE {})

Start(o, source) == [orb |-> o, source |-> source]

DroppedStore(o) == [BreakHistory(o) EXCEPT !.have = FALSE, !.partial = FALSE]

\* Fault: the ring goes on with the donor's copy.
CopiedIntoHistory(o, k) ==
    [o EXCEPT !.store = o.slots[k].c0, !.geo = o.slots[k].geo,
              !.have = TRUE, !.partial = FALSE]

\* The donor keeps its copy.
CopiedFrom(o, k) ==
    [BreakHistory(o) EXCEPT !.store = o.slots[k].c0, !.geo = o.slots[k].geo,
                            !.have = TRUE, !.partial = FALSE]

\* Fault: a store within the limit is taken without a look at the slots.
ChooseStoreFirst(o, g, rmax) ==
    LET nearest == Min(Distances(o, g))
    IN  IF Distances(o, g) = {} THEN {Start(o, -2)}
        ELSE IF o.have /\ (rmax < 0 \/ Distance(o.geo, g) <= rmax) THEN {Start(o, 0)}
        ELSE IF rmax < 0 THEN {Start(o, -2)}
        ELSE IF nearest > rmax THEN {Start(DroppedStore(o), -1)}
        ELSE {Start(CopiedFrom(o, k), 1) :
              k \in {k \in Holders(o) : Distance(o.slots[k].geo, g) = nearest}}

\* The nearest copy within the limit starts the SCF, the store first among
\* equals; equally near slots go by slot order, which is left open here.
ChooseWarmStart(o, g, rmax) ==
    LET nearest == Min(Distances(o, g))
    IN  IF Distances(o, g) = {} THEN {Start(o, -2)}
        ELSE IF rmax < 0 THEN {Start(o, IF o.have THEN 0 ELSE -2)}
        ELSE IF nearest > rmax THEN {Start(DroppedStore(o), -1)}
        ELSE IF o.have /\ Distance(o.geo, g) = nearest THEN {Start(o, 0)}
        ELSE {Start(CopiedFrom(o, k), 1) :
              k \in {k \in Holders(o) : Distance(o.slots[k].geo, g) = nearest}}

-----------------------------------------------------------------------------
(* One pass of rwfopt *)

\* What embed_restore_orbitals puts into c0: the converged copy, or the
\* partial one when the pass runs PCG MINIMIZE; None leaves the guess.
Restored(o, pcg) == IF o.have \/ (o.partial /\ pcg) THEN o.store ELSE None

LastOf(s, n) == SubSeq(s, IF Len(s) > n THEN Len(s) - n + 1 ELSE 1, Len(s))

\* Fault: the ring grows without bound.
ExtrapolatedOverAll(o) ==
    IF ~(Extrapolate /\ o.have) THEN o
    ELSE IF o.xstate # 1 THEN BreakHistory(o)
    ELSE [o EXCEPT !.ring = Append(@, o.store), !.xstate = 2]

\* embed_extrapolate_orbitals: the restored copy joins the ring once.
Extrapolated(o) ==
    IF ~(Extrapolate /\ o.have) THEN o
    ELSE IF o.xstate # 1 THEN BreakHistory(o)
    ELSE [o EXCEPT !.ring = LastOf(Append(@, o.store), RingSize), !.xstate = 2]

\* The end of rwfopt: a converged c0 replaces the store, an unconverged one
\* only fills a store that holds no converged copy.
Saved(o, c0) ==
    IF c0.converged
    THEN [o EXCEPT !.store = c0, !.geo = c0.at, !.have = TRUE, !.partial = FALSE, !.xstate = 1]
    ELSE IF o.have THEN o
    ELSE [BreakHistory(o) EXCEPT !.store = c0, !.geo = c0.at, !.partial = TRUE]

Pass(o, g, k, converged) ==
    Saved(Extrapolated(o), [at |-> g, key |-> k, call |-> calls + 1, converged |-> converged])

\* embed_eval_energy_grad: one pass, and after an unconverged ODIIS pass one
\* continuation with PCG MINIMIZE.
AfterPasses(o, g, k, converged) ==
    LET unconverged == Pass(o, g, k, FALSE)
        continued   == {Pass(unconverged, g, k, converged) : d \in {TRUE} \cap {o.diis}}
    IN  continued \cup (IF converged THEN {Pass(o, g, k, TRUE)}
                        ELSE {unconverged : d \in {FALSE} \cap {o.diis}})

-----------------------------------------------------------------------------

\* What becomes of the selected key's record, mine, in an SCF for key k, or for
\* a session that names none.  An unconverged SCF leaves the store as it is only
\* if it started from it (source 0); a converged one without a key is saved in
\* the selected key's place.
OwnAfter(mine, k, g, source, converged) ==
    IF converged /\ k # None THEN [call |-> calls + 1, geo |-> g, kept |-> TRUE]
    ELSE IF mine = None THEN None
    ELSE [mine EXCEPT !.kept = @ /\ ~converged /\ source = 0]

\* The SCF at geometry g for a session with key k, on the orbitals o.  base is
\* what had converged under every key before, held whether the basis was
\* latched.  warm_rmsd_limit() reads the environment at every call.
Scf(o, k, g, base, held) ==
    /\ calls < MaxCalls
    /\ calls' = calls + 1
    /\ \E rmax \in Limits : \E c \in ChooseWarmStart(o, g, rmax), converged \in BOOLEAN :
          /\ orb' \in AfterPasses(c.orb, g, k, converged)
          /\ latched' = (held \/ converged)
          /\ last' = [key |-> k, geo |-> g, source |-> c.source, ok |-> converged, rmax |-> rmax,
                      start |-> Restored(c.orb, ~c.orb.diis),
                      ring |-> Extrapolated(c.orb).ring, own |-> base]
          /\ own' = [j \in Keys |-> IF j # o.key THEN base[j]
                                    ELSE OwnAfter(base[j], k, g, c.source, converged)]

\* run_embed_scf on the latched basis.
WarmCall(k, g) == latched /\ Scf(Selected(k), k, g, own, TRUE)

\* run_embed_scf without a latched basis, or on another one: the old set-up is
\* torn down, and the new deck may choose another optimiser.  The key stays.
ColdCall(k, g) ==
    \E diis \in BOOLEAN : Scf(Fresh(diis, Selected(k).key), k, g, NoneOwned, FALSE)

\* A warm call that ends before its SCF has still selected the key.
Refused(k) ==
    /\ latched
    /\ orb' = Selected(k)
    /\ last' = None
    /\ UNCHANGED <<latched, own, calls>>

\* A stopgm, a cold call that does not reach its SCF, a basis that cannot be
\* latched: embed_reset_warm_orbitals, and the latch is cleared.
Reset(k) ==
    /\ orb' = Fresh(orb.diis, Selected(k).key)
    /\ latched' = FALSE
    /\ last' = None
    /\ own' = NoneOwned
    /\ UNCHANGED calls

Next == \E k \in Keys \cup {None} :
    \/ \E g \in Geometries : WarmCall(k, g) \/ ColdCall(k, g)
    \/ Refused(k)
    \/ Reset(k)

Spec == Init /\ [][Next]_vars

-----------------------------------------------------------------------------
(* Properties *)

\* Every variable keeps the shape of the module state it stands for.
TypeOK ==
    /\ orb \in Orbitals
    /\ Len(orb.ring) <= RingSize
    /\ latched \in BOOLEAN
    /\ own \in [Keys -> {None} \cup Owned]
    /\ calls \in 0..MaxCalls
    /\ last \in {None} \cup Reports

\* Flags and geometries describe the copies they stand beside: every copy that
\* may start an SCF at a distance is converged and is kept with the geometry
\* it converged at, through parking, taking back and copying.  The selected
\* key has no parked copy ("the selected key excluded"): it would be a stale
\* second one.
CopiesAreDescribed ==
    /\ orb.have => orb.store # None /\ orb.store.converged
    /\ orb.partial => orb.store # None /\ ~orb.store.converged
    /\ orb.store # None => orb.geo = orb.store.at
    /\ \A k \in Holders(orb) :
          orb.slots[k].c0.converged /\ orb.slots[k].geo = orb.slots[k].c0.at
    /\ orb.key # None => orb.slots[orb.key] = None

\* cpmdc.h, cpmdc_session_select_orbitals: of the orbitals that the host's
\* calls left under every key, and that no later SCF replaced, the nearest to
\* the new geometry start the SCF, within the limit.
StartsFromNearest ==
    last # None /\ last.rmax >= 0 =>
        \A k \in Keys :
            /\ last.own[k] # None /\ last.own[k].kept
            /\ Distance(last.own[k].geo, last.geo) <= last.rmax
            => /\ last.start # None
               /\ Distance(last.start.at, last.geo) <= Distance(last.own[k].geo, last.geo)

\* "An evaluation under a key starts from the orbitals the last converged
\* evaluation under the same key left", when it reports the selected key's:
\* through any calls under other keys and through unconverged ones under its
\* own that started from them.  An unconverged SCF under the key that started
\* elsewhere, or a session without a key, replaces the key's copy (not kept).
OwnOrbitalsComeBack ==
    last # None /\ last.key # None /\ last.source = 0 =>
        (last.own[last.key] # None /\ last.own[last.key].kept =>
            last.start.key = last.key /\ last.start.call = last.own[last.key].call)

\* EXTRAPOLATE WFN predicts from converged orbitals of calls that followed each
\* other without a gap up to this one, never of two keys.
RingIsOneTrajectory ==
    last # None =>
        /\ \A i \in DOMAIN last.ring :
              /\ last.ring[i].call = calls - 1 - Len(last.ring) + i
              /\ last.ring[i].converged
        /\ \A i, j \in DOMAIN last.ring :
              {last.ring[i].key, last.ring[j].key} \subseteq Keys
              => last.ring[i].key = last.ring[j].key

\* What the documents say and the code does not do.  "0 the selected key's
\* stored orbitals" (environment.org), and "a call that does not converge leaves
\* the previous copy in place" (wavefunction-state.org): once a call under the
\* key has converged, source 0 is never said of another key's orbitals.
SourceZeroIsTheKeysOwn ==
    last # None /\ last.key # None /\ last.source = 0 /\ last.own[last.key] # None =>
        last.start.key \in {last.key, None}
=============================================================================
