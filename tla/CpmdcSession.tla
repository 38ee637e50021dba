----------------------------- MODULE CpmdcSession -----------------------------
(***************************************************************************)
(* The session layer of libcpmdc (src/src/cpmdc.c): sessions, the process- *)
(* wide plain calls and the one-shot calls, all sharing one embed engine.  *)
(*                                                                         *)
(* The library runs one call at a time, on the host's thread, so an action *)
(* is a whole public call; what the steps interleave is the host's order   *)
(* of calls over its sessions and the outcome CPMD gives each of them.     *)
(*                                                                         *)
(* A definition marked "Fault" is a wrong variant of the one after it.  No *)
(* behaviour uses it: it is there to show that a property would notice.    *)
(***************************************************************************)
EXTENDS EmbedEngine, Sequences

CONSTANTS
    Sessions,   \* CPMDCSession objects a host can hold
    Plain,      \* the calculator of the plain calls (g_image)
    SessionMethods, \* the methods a host opens its sessions with
    PlainMethods,   \* the methods of its plain calls
    OnceMethods,    \* the methods of its one-shot calls
    Arrays,     \* atom arrays a host passes: sequences of distinct atoms
    Refused,    \* methods apply_params_buffer turns down
    WireRefused, \* methods only the Fortran decode turns down
    Unsettled   \* stands for no method

ASSUME PlainIsApart ==
    Plain \notin Sessions /\ {None, "oneshot"} \cap (Sessions \cup {Plain}) = {}
ASSUME ArraysAreInjective ==
    \A a \in Arrays : a \in Seq(Atoms) /\ Len(a) > 0 /\ IsInjective(a)
ASSUME UnsettledIsNoMethod ==
    Unsettled # None /\ None \notin Methods /\ Unsettled \notin Methods
ASSUME MethodSets == {SessionMethods, PlainMethods, OnceMethods, Refused, WireRefused}
                        \subseteq SUBSET Methods

VARIABLES
    lib,      \* [attempted, available]: ensure_embed_init and the Fortran runtime
    eng,      \* the embed engine of the process
    image,    \* each calculator's CPMDCEmbedImage
    session,  \* each session's CPMDCSession, None when it is not alive
    active,   \* g_active_session
    reply     \* what the last evaluation returned, None after another call

vars == <<lib, eng, image, session, active, reply>>

Calculators == Sessions \cup {Plain}
Live == {s \in Sessions : session[s] # None}

-----------------------------------------------------------------------------
(* Data *)

\* fixed_atomic_numbers is only ever compared by element counts, and an
\* element outside 1..118 matches nothing, not even itself.
Topology(atoms) == [known |-> Known(atoms), comp |-> Composition(atoms)]
Topologies == [known : BOOLEAN, comp : [Elements -> Nat]]

CacheEntries == [atoms : Arrays, cell : CellArgs, energy : Values,
                 grad : Seq([of : Values, on : Atoms])]

\* configured is embed_configured.  agreed is host knowledge the struct does
\* not keep: the last call that set the session's parameters returned success.
SessionStates ==
    [params : Params, overlay : Overlays \cup {None}, deck : Methods,
     fixed : {None} \cup Topologies, cache : {None} \cup CacheEntries,
     configured : BOOLEAN, agreed : BOOLEAN]

ASSUME NoneIsNoState == None \notin Topologies \cup SessionStates

MethodOf(st) == [params |-> st.params, overlay |-> st.overlay]

Replies == [who : Calculators \cup {"oneshot"}, method : Methods, atoms : Arrays,
            cell : CellArgs, ok : BOOLEAN, cached : BOOLEAN,
            energy : {None} \cup Values, grad : Seq([of : Values, on : Atoms])]

ASSUME NoneIsNoReply == None \notin Replies

Reply(who, method, atoms, cell, cached, r) ==
    [who |-> who, method |-> method, atoms |-> atoms, cell |-> cell,
     ok |-> r.ok, cached |-> cached, energy |-> r.energy,
     grad |-> IF r.ok THEN Gradient(r.energy, atoms) ELSE <<>>]

Failure == [ok |-> FALSE, energy |-> None]

Init ==
    /\ lib = [attempted |-> FALSE, available |-> FALSE]
    /\ eng = ColdEngine
    /\ image = [c \in Calculators |-> NewImage]
    /\ session = [s \in Sessions |-> None]
    /\ active = None
    /\ reply = None

-----------------------------------------------------------------------------
(* Installing parameters *)

\* ensure_embed_init() && cpmdc_embed_available(): the runtime is started by
\* the first call that needs it and never again.
Usable == lib.attempted => lib.available
EnsureInit == lib' = [attempted |-> TRUE, available |-> Usable]

\* energy_gradient_cell_with_params on one rank.
EvaluateOn(img, atoms, cell) ==
    IF Usable THEN EnergyGradient(eng, img, atoms, cell)
    ELSE {Outcome(eng, img, FALSE, None)}

\* configure_embed_from_session succeeds when the embed runtime takes the wire.
Configures(st) == Usable /\ MethodOf(st) \notin WireRefused

\* Fault: an image that has a deck keeps it.
ConfiguredOnOldDeck(img, st) ==
    IF ~Usable THEN img
    ELSE IF ~Configures(st) THEN DetachImage(img)
    ELSE ApplyConfig(img, MethodOf(st),
                     IF img.cfg = None THEN st.deck ELSE img.cfg.deck)

\* The image after configure_embed_from_session: a refused wire has still detached it.
ConfiguredImage(img, st) ==
    IF ~Usable THEN img
    ELSE IF Configures(st) THEN ApplyConfig(img, MethodOf(st), st.deck)
    ELSE DetachImage(img)

NewSession(m) ==
    [params |-> m.params, overlay |-> m.overlay, deck |-> m, fixed |-> None,
     cache |-> None, configured |-> FALSE, agreed |-> TRUE]

Unmerged(m) == [m EXCEPT !.overlay = None]

\* cpmdc_session_create ignores a configuration the embed runtime refuses;
\* cpmdc_session_create_from_config does not, and first creates the session
\* without the overlay.
Created(m) ==
    /\ Unmerged(m) \notin Refused
    /\ m.overlay # None => m \notin Refused /\ Configures(NewSession(m))

\* cpmdc_session_create and cpmdc_session_create_from_config.
SessionCreate(s, m) ==
    /\ session[s] = None
    /\ Created(m)
    /\ EnsureInit
    /\ LET st == NewSession(m)
       IN  /\ session' = [session EXCEPT ![s] = [st EXCEPT !.configured = Configures(st)]]
           /\ image' = [image EXCEPT ![s] = ConfiguredImage(NewImage, st)]
           /\ active' = IF Configures(st) THEN s ELSE active
    /\ reply' = None
    /\ UNCHANGED eng

\* A create_from_config that fails on the overlay destroys the session again,
\* which by then is the active one.
SessionCreateFails(m) ==
    /\ Unmerged(m) \notin Refused
    /\ ~Created(m)
    /\ EnsureInit
    /\ active' = IF Configures(NewSession(Unmerged(m))) THEN None ELSE active
    /\ reply' = None
    /\ UNCHANGED <<eng, image, session>>

\* Fault: the parameters of a session that has evaluated are replaced.
SetParamsAnytime(s, m) ==
    /\ s \in Live
    /\ LET st == [session[s] EXCEPT !.overlay = m.overlay, !.params = m.params, !.deck = m]
       IN  /\ m \notin Refused
           /\ EnsureInit
           /\ session' = [session EXCEPT ![s] = [st EXCEPT !.agreed = Configures(st)]]
           /\ image' = [image EXCEPT ![s] = ConfiguredImage(@, st)]
           /\ active' = IF Configures(st) THEN s ELSE active
    /\ reply' = None
    /\ UNCHANGED eng

\* cpmdc_session_set_params and cpmdc_session_configure.  The overlay is
\* replaced before the parameters are looked at; parameters and deck are
\* replaced before the embed runtime is asked.
SessionSetParams(s, m) ==
    /\ s \in Live
    /\ session[s].fixed = None
    /\ LET over == [session[s] EXCEPT !.overlay = m.overlay, !.agreed = FALSE]
           st   == [over EXCEPT !.params = m.params, !.deck = m]
           done == [st EXCEPT !.agreed = TRUE, !.configured = TRUE]
       IN  \/ /\ m \in Refused
              /\ session' = [session EXCEPT ![s] = over]
              /\ UNCHANGED <<lib, image, active>>
           \/ /\ m \notin Refused
              /\ EnsureInit
              /\ session' = [session EXCEPT ![s] = IF Configures(st) THEN done ELSE st]
              /\ image' = [image EXCEPT ![s] = ConfiguredImage(@, st)]
              /\ active' = IF Configures(st) THEN s ELSE active
    /\ reply' = None
    /\ UNCHANGED eng

\* Fault: g_active_session is left pointing at the session.
DestroyKeepsActive(s) ==
    /\ s \in Live
    /\ session' = [session EXCEPT ![s] = None]
    /\ image' = [image EXCEPT ![s] = NewImage]
    /\ reply' = None
    /\ UNCHANGED <<lib, eng, active>>

\* cpmdc_session_destroy.
SessionDestroy(s) ==
    /\ s \in Live
    /\ session' = [session EXCEPT ![s] = None]
    /\ image' = [image EXCEPT ![s] = NewImage]
    /\ active' = IF active = s THEN None ELSE active
    /\ reply' = None
    /\ UNCHANGED <<lib, eng>>

-----------------------------------------------------------------------------
(* Evaluating in a session: session_energy_gradient_cell *)

\* session_accept_topology
Accepts(st, atoms) ==
    st.fixed # None =>
        st.fixed.known /\ Known(atoms) /\ st.fixed.comp = Composition(atoms)

Accepted(st, atoms) == [st EXCEPT !.fixed = Topology(atoms)]

\* Fault: the cell is not compared.
CacheHitInAnyCell(st, atoms, cell) ==
    st.cache # None /\ Range(st.cache.atoms) = Range(atoms)

\* session_copy_cached_gradient: the same cell, and the atoms match one to one.
CacheHit(st, atoms, cell) ==
    /\ st.cache # None
    /\ st.cache.cell = cell
    /\ Len(st.cache.atoms) = Len(atoms)
    /\ Range(st.cache.atoms) = Range(atoms)

\* The stored rows in the order of the caller's array.
CachedGradient(cache, atoms) ==
    [i \in DOMAIN atoms |->
        cache.grad[CHOOSE j \in DOMAIN cache.atoms : cache.atoms[j] = atoms[i]]]

CacheEntry(atoms, cell, energy) ==
    [atoms |-> atoms, cell |-> cell, energy |-> energy, grad |-> Gradient(energy, atoms)]

\* Fault: a failed evaluation is stored as well.
CachesAnyResult(st, atoms, cell, r) == {CacheEntry(atoms, cell, r.energy)}

\* Fault: a failed evaluation leaves the stored result.
CachesKeptOnFailure(st, atoms, cell, r) ==
    IF r.ok THEN {CacheEntry(atoms, cell, r.energy)} ELSE {st.cache}

CachesAfter(st, atoms, cell, r) ==
    IF ~r.ok THEN {None}
    ELSE {CacheEntry(atoms, cell, r.energy)} \cup (IF st.cache = None THEN {None} ELSE {})

TopologyRefused(s, atoms, cell) ==
    /\ ~Accepts(session[s], atoms)
    /\ reply' = Reply(s, MethodOf(session[s]), atoms, cell, FALSE, Failure)
    /\ UNCHANGED <<lib, eng, image, session, active>>

Repeated(s, atoms, cell) ==
    /\ Accepts(session[s], atoms)
    /\ CacheHit(session[s], atoms, cell)
    /\ session' = [session EXCEPT ![s] = Accepted(@, atoms)]
    /\ reply' = [Reply(s, MethodOf(session[s]), atoms, cell, TRUE,
                       [ok |-> TRUE, energy |-> session[s].cache.energy])
                 EXCEPT !.grad = CachedGradient(session[s].cache, atoms)]
    /\ UNCHANGED <<lib, eng, image, active>>

\* Fault: an evaluation by another session in between is not noticed.
ConfiguresOnce(s) == ~session[s].configured

NeedsConfigure(s) == ~session[s].configured \/ active # s

NotConfigured(s, atoms, cell) ==
    /\ Accepts(session[s], atoms)
    /\ ~CacheHit(session[s], atoms, cell)
    /\ NeedsConfigure(s) /\ ~Configures(session[s])
    /\ EnsureInit
    /\ session' = [session EXCEPT ![s] = Accepted(@, atoms)]
    /\ image' = [image EXCEPT ![s] = ConfiguredImage(@, session[s])]
    /\ reply' = Reply(s, MethodOf(session[s]), atoms, cell, FALSE, Failure)
    /\ UNCHANGED <<eng, active>>

\* The image an evaluation of s works on.
ImageInUse(s) ==
    IF NeedsConfigure(s) THEN ConfiguredImage(image[s], session[s]) ELSE image[s]

Computed(s, atoms, cell) ==
    /\ Accepts(session[s], atoms)
    /\ ~CacheHit(session[s], atoms, cell)
    /\ NeedsConfigure(s) => Configures(session[s])
    /\ EnsureInit
    /\ active' = s
    /\ \E r \in EvaluateOn(ImageInUse(s), atoms, cell) :
          /\ eng' = r.eng
          /\ image' = [image EXCEPT ![s] = r.img]
          /\ \E cache \in CachesAfter(session[s], atoms, cell, r) :
                session' = [session EXCEPT ![s] =
                    [Accepted(@, atoms) EXCEPT !.configured = TRUE, !.cache = cache]]
          /\ reply' = Reply(s, MethodOf(session[s]), atoms, cell, FALSE, r)

SessionEvaluate(s, atoms, cell) ==
    /\ s \in Live
    /\ \/ TopologyRefused(s, atoms, cell)
       \/ Repeated(s, atoms, cell)
       \/ NotConfigured(s, atoms, cell)
       \/ Computed(s, atoms, cell)

-----------------------------------------------------------------------------
(* The plain and the one-shot calls, and the end of the library *)

\* cpmdc_set_params and cpmdc_configure.
PlainInstalls(m) == Usable /\ m \notin WireRefused

PlainImage(m) ==
    IF ~Usable THEN image[Plain]
    ELSE IF PlainInstalls(m) THEN ApplyConfig(image[Plain], m, m)
    ELSE DetachImage(image[Plain])

PlainSetParams(m) ==
    /\ m \notin Refused
    /\ EnsureInit
    /\ image' = [image EXCEPT ![Plain] = PlainImage(m)]
    /\ active' = IF PlainInstalls(m) THEN None ELSE active
    /\ reply' = None
    /\ UNCHANGED <<eng, session>>

\* cpmdc_energy_gradient brings its parameters along and passes no cell.
PlainEvaluate(m, atoms) ==
    /\ m.overlay = None
    /\ m \notin Refused
    /\ PlainInstalls(m)
    /\ EnsureInit
    /\ active' = None
    /\ \E r \in EvaluateOn(PlainImage(m), atoms, NoCell) :
          /\ eng' = r.eng
          /\ image' = [image EXCEPT ![Plain] = r.img]
          /\ reply' = Reply(Plain, m, atoms, NoCell, FALSE, r)
    /\ UNCHANGED session

\* cpmdc_calculate_result and cpmdc_calculate_result_from_config: create a
\* session, evaluate once, destroy it.
CalculateOnce(m, atoms, cell) ==
    /\ Created(m)
    /\ EnsureInit
    /\ LET st == NewSession(m)
       IN  \/ /\ ~Configures(st)
              /\ reply' = Reply("oneshot", m, atoms, cell, FALSE, Failure)
              /\ UNCHANGED <<eng, active>>
           \/ /\ Configures(st)
              /\ active' = None
              /\ \E r \in EvaluateOn(ConfiguredImage(NewImage, st), atoms, cell) :
                    /\ eng' = r.eng
                    /\ reply' = Reply("oneshot", m, atoms, cell, FALSE, r)
    /\ UNCHANGED <<image, session>>

\* cpmdc_finalize.
Finalize ==
    /\ lib' = [lib EXCEPT !.available = FALSE]
    /\ active' = None
    /\ image' = [image EXCEPT ![Plain].cfg =
                    IF @ = None THEN None ELSE [@ EXCEPT !.deck = None]]
    /\ reply' = None
    /\ UNCHANGED <<eng, session>>

Next ==
    \/ \E s \in Sessions :
          \/ \E m \in SessionMethods : SessionCreate(s, m) \/ SessionSetParams(s, m)
          \/ SessionDestroy(s)
          \/ \E atoms \in Arrays, cell \in CellArgs : SessionEvaluate(s, atoms, cell)
    \/ \E m \in SessionMethods : SessionCreateFails(m)
    \/ \E m \in PlainMethods :
          \/ PlainSetParams(m)
          \/ \E atoms \in Arrays : PlainEvaluate(m, atoms)
    \/ \E m \in OnceMethods, atoms \in Arrays, cell \in CellArgs : CalculateOnce(m, atoms, cell)
    \/ Finalize

Spec == Init /\ [][Next]_vars

-----------------------------------------------------------------------------
(* Properties *)

LibStates == [attempted : BOOLEAN, available : BOOLEAN]

\* Every variable keeps the shape of the C and Fortran state it stands for.
TypeOK ==
    /\ lib \in LibStates
    /\ eng \in Engines
    /\ image \in [Calculators -> Images]
    /\ session \in [Sessions -> {None} \cup SessionStates]
    /\ active \in Sessions \cup {None}
    /\ reply \in {None} \cup Replies

\* The basis a call asks for, when knobs and deck come from the same method.
AskedBasis(m, atoms, cell) ==
    [knobs |-> m, deck |-> m, comp |-> Composition(atoms), cell |-> cell]

\* A host may rely on a session whose last parameter call succeeded.
Trusted(r) == r.who \in Live => session[r.who].agreed

\* A successful evaluation, run or repeated, warm or cold, is the energy of the
\* caller's own method, cell and atoms, and row i of the gradient belongs to
\* atom i of the caller's array, whatever other sessions did to the engine.
AnswersTheCall ==
    reply # None /\ reply.ok /\ Trusted(reply) =>
        /\ reply.energy = Energy(AskedBasis(reply.method, reply.atoms, reply.cell), reply.atoms)
        /\ reply.grad = Gradient(reply.energy, reply.atoms)

\* A latched basis is the one OpenCPMD is set up for, and a latch never
\* outlives the set-up or the orbitals it speaks for (embed_basis_latched,
\* cpmd_set_up and the stored c0 change in different routines).  No kept
\* copy has the shape of another set-up: embed_restore_orbitals would call
\* stopgm.
LatchMatchesSetup ==
    /\ eng.latch # None => eng.setup = eng.latch /\ eng.stored # {}
    /\ \A b \in eng.stored : eng.setup = b

\* A repeat is served without touching the image, so what the getters and the
\* PotentialResult read beside it must be the same evaluation's.
CacheMatchesImage ==
    \A s \in Live : session[s].cache # None =>
        /\ image[s].snap = [value |-> session[s].cache.energy, converged |-> TRUE]
        /\ image[s].stress \in {None, session[s].cache.energy}

\* The active session is evaluated without being configured again, so it must
\* be alive and configured, and, unless its last parameter call failed, the
\* image must hold the very method the session stands for.  What the image
\* remembers agrees with the process-wide latch: its cell is the latched cell,
\* and its warm counter (the cheap guess) needs a latch.
ActiveSessionIsConfigured ==
    active # None =>
        /\ active \in Live
        /\ session[active].configured
        /\ session[active].agreed =>
              image[active].cfg = [knobs |-> MethodOf(session[active]),
                                   deck |-> MethodOf(session[active])]
        /\ image[active].warmCell # None /\ eng.latch # None
              => image[active].warmCell = eng.latch.cell
        /\ image[active].steps => eng.latch # None

\* Once a topology is fixed, neither it nor the method changes while the
\* session lives; so no stored result outlives the parameters it was made with.
TopologyFreezesSession ==
    [][\A s \in Live : session[s].fixed # None /\ session'[s] # None =>
          /\ session'[s].fixed = session[s].fixed
          /\ MethodOf(session'[s]) = MethodOf(session[s])]_vars

\* The next evaluation of s at these atoms and cell, if it reaches the engine,
\* uses it as it is.
NextStartsWarm(s, atoms, cell) ==
    (NeedsConfigure(s) => Configures(session[s])) =>
        StartsWarm(eng, ImageInUse(s), BasisOf(ImageInUse(s), atoms, cell), atoms)

\* A call on the latched basis, from whichever session, that fails without a
\* stopgm keeps the latch and the set-up, and "the next call on this basis is
\* still warm" (run_embed_scf).  Which orbitals that next call starts from is
\* another matter: see SourceZeroIsTheKeysOwn of WarmOrbitals.
FailureKeepsWarmBasis ==
    [][\A s \in Live :
          (/\ reply' # None /\ ~reply'.ok /\ reply'.who = s /\ Trusted(reply')
           /\ Known(reply'.atoms)
           /\ eng.latch = AskedBasis(reply'.method, reply'.atoms, reply'.cell)
           /\ eng'.setup # None)
          => /\ eng'.latch = eng.latch /\ eng'.setup = eng.setup
             /\ NextStartsWarm(s, reply.atoms, reply.cell)']_vars

-----------------------------------------------------------------------------
(* The promise a host relies on *)

\* A session whose last parameter call failed stands for no settled method.
PromisedMethod(st) ==
    IF st = None THEN None ELSE IF st.agreed THEN MethodOf(st) ELSE Unsettled

Promise == INSTANCE CpmdcPromise WITH
    method <- [s \in Sessions |-> PromisedMethod(session[s])],
    fixed <- [s \in Sessions |-> IF session[s] = None THEN None ELSE session[s].fixed]

\* Warm starts, stored results, reordered atoms and the one engine that all
\* sessions share stay invisible: every behaviour of the library is one of a
\* library that computes each call from scratch or fails it.
ImplementsPromise == Promise!Spec
=============================================================================
