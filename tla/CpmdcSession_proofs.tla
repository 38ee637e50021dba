-------------------------- MODULE CpmdcSession_proofs --------------------------
(* What an evaluation may leave in the engine and in the image it works on,   *)
(* for every basis, array of atoms and outcome of the SCF; and with it the    *)
(* invariants of the session layer, for any number of sessions, methods,      *)
(* cells, atoms and arrays.                                                   *)
EXTENDS CpmdcSession, FiniteSetTheorems, SequenceTheorems, TLAPS

-----------------------------------------------------------------------------
(* The engine and an image *)

\* The latched basis is the one that is set up, with orbitals kept, and no
\* orbitals of another set-up are kept.
Sound(e) ==
    /\ e.latch # None => e.setup = e.latch /\ e.stored # {}
    /\ \A b \in e.stored : e.setup = b

\* What the image remembers of its last evaluation agrees with the latch.
Follows(img, e) ==
    /\ img.warmCell # None /\ e.latch # None => img.warmCell = e.latch.cell
    /\ img.steps => e.latch # None

\* An image that knobs and deck are installed in.
Installed == [knobs : Methods, deck : Methods]

\* An engine and an image that an evaluation may be started on.
Ready(e, img) ==
    /\ e \in Engines /\ Sound(e)
    /\ img \in Images /\ img.cfg \in Installed
    /\ Follows(img, e)

\* A success is the energy of basis b at these atoms, and the image shows it.
Answers(r, b, atoms) ==
    /\ r.energy = Energy(b, atoms)
    /\ r.img.snap = [value |-> r.energy, converged |-> TRUE]
    /\ r.img.stress \in {None, r.energy}

\* What an evaluation for basis b on image img may end in.
Proper(r, img, b, atoms) ==
    /\ Ready(r.eng, r.img)
    /\ r.img.cfg = img.cfg
    /\ r.ok \in BOOLEAN
    /\ r.energy \in {None} \cup Values
    /\ r.ok => Answers(r, b, atoms)

-----------------------------------------------------------------------------
(* Compositions, bases and energies *)

LEMMA CompositionType ==
    ASSUME NEW atoms \in Seq(Atoms)
    PROVE  Composition(atoms) \in [Elements -> Nat]
<1> DEFINE Of(x) == {i \in DOMAIN atoms : element[atoms[i]] = x}
<1>1. ASSUME NEW x \in Elements PROVE Cardinality(Of(x)) \in Nat
  <2>1. DOMAIN atoms = 1 .. Len(atoms) /\ Len(atoms) \in Nat
    OBVIOUS
  <2>2. IsFiniteSet(DOMAIN atoms)
    BY <2>1, FS_Interval
  <2>3. Of(x) \in SUBSET DOMAIN atoms
    OBVIOUS
  <2>4. IsFiniteSet(Of(x))
    BY <2>2, <2>3, FS_Subset
  <2> HIDE DEF Of
  <2> QED BY <2>4, FS_CardinalityType
<1> QED BY <1>1 DEF Composition

LEMMA BasisType ==
    ASSUME NEW img, img.cfg \in Installed, NEW atoms \in Seq(Atoms), NEW cell \in CellArgs
    PROVE  BasisOf(img, atoms, cell) \in Bases
BY CompositionType DEF BasisOf, Bases, Installed

LEMMA EnergyType ==
    ASSUME NEW b \in Bases, NEW atoms \in Seq(Atoms)
    PROVE  Energy(b, atoms) \in Values
<1>1. Range(atoms) \in SUBSET Atoms
  BY DEF Range
<1> QED BY <1>1 DEF Energy, Values

LEMMA FunctionIsSeq ==
    ASSUME NEW S, NEW n \in Nat, NEW f \in [1 .. n -> S]
    PROVE  f \in Seq(S)
<1>1. f \in UNION {[1 .. m -> S] : m \in Nat}
  OBVIOUS
<1>2. Seq(S) = UNION {[1 .. m -> S] : m \in Nat}
  BY SeqDef, Zenon
<1> QED BY <1>1, <1>2, Zenon

LEMMA GradientType ==
    ASSUME NEW v \in Values, NEW atoms \in Seq(Atoms)
    PROVE  Gradient(v, atoms) \in Seq([of : Values, on : Atoms])
<1>1. DOMAIN atoms = 1 .. Len(atoms) /\ Len(atoms) \in Nat
  OBVIOUS
<1>2. \A i \in DOMAIN atoms : atoms[i] \in Atoms
  OBVIOUS
<1>3. Gradient(v, atoms) \in [1 .. Len(atoms) -> [of : Values, on : Atoms]]
  BY <1>1, <1>2 DEF Gradient
<1> QED BY <1>1, <1>3, FunctionIsSeq

-----------------------------------------------------------------------------
(* The parts of an evaluation *)

LEMMA DetachFollows ==
    ASSUME NEW img \in Images, NEW e
    PROVE  /\ DetachImage(img) \in Images
           /\ DetachImage(img).cfg = img.cfg
           /\ DetachImage(img).snap = img.snap
           /\ DetachImage(img).stress = img.stress
           /\ Follows(DetachImage(img), e)
BY DEF DetachImage, Images, Follows

LEMMA ApplyReady ==
    ASSUME NEW img \in Images, NEW e \in Engines, Sound(e),
           NEW knobs \in Methods, NEW deck \in Methods
    PROVE  /\ Ready(e, ApplyConfig(img, knobs, deck))
           /\ ApplyConfig(img, knobs, deck).cfg = [knobs |-> knobs, deck |-> deck]
           /\ ApplyConfig(img, knobs, deck).snap = img.snap
           /\ ApplyConfig(img, knobs, deck).stress = img.stress
BY DEF ApplyConfig, DetachImage, Images, Follows, Ready, Installed

\* The warm test passes for the latched basis and for no other.
LEMMA WarmIsLatched ==
    ASSUME NEW e, NEW img, Ready(e, img), NEW b \in Bases, NEW atoms,
           StartsWarm(e, img, b, atoms)
    PROVE  e.latch = b /\ e.setup = b
<1>1. e.latch # None /\ e.latch \in Bases /\ e.setup = e.latch
  BY DEF Ready, Engines, Sound, StartsWarm
<1>2. b.cell = e.latch.cell
  BY <1>1 DEF StartsWarm, BasisChanged, Ready, Follows
<1>3. b.knobs = e.latch.knobs /\ b.deck = e.latch.deck /\ b.comp = e.latch.comp
  BY DEF StartsWarm, BasisChanged
<1> QED BY <1>1, <1>2, <1>3 DEF Bases

LEMMA PartlyStoredSound ==
    ASSUME NEW e \in Engines, Sound(e), e.setup \in Bases, NEW f \in PartlyStored(e)
    PROVE  /\ f \in Engines /\ Sound(f)
           /\ f.latch = e.latch /\ f.setup = e.setup
BY DEF PartlyStored, Engines, Sound

LEMMA LatchedProper ==
    ASSUME NEW e \in Engines, Sound(e), NEW img \in Images, img.cfg \in Installed,
           NEW b \in Bases, e.setup = b, NEW atoms \in Seq(Atoms),
           NEW r \in Latched(e, img, b, atoms)
    PROVE  Proper(r, img, b, atoms)
<1> DEFINE v    == Energy(e.setup, atoms)
           done == [Evaluated(img, v, TRUE) EXCEPT !.warmCell = b.cell]
           kept == [e EXCEPT !.latch = b, !.stored = @ \cup {e.setup}]
           lost == [e EXCEPT !.latch = None, !.stored = {}]
<1>1. v \in Values /\ v = Energy(b, atoms)
  BY EnergyType
<1>2. /\ done \in Images /\ done.cfg = img.cfg /\ done.warmCell = b.cell
      /\ done.snap = [value |-> v, converged |-> TRUE]
      /\ done.stress \in {None, v}
  <2>1. b.cell \in CellArgs
    BY DEF Bases
  <2> HIDE DEF v
  <2> QED BY <1>1, <2>1 DEF Evaluated, Images
<1>3. kept \in Engines /\ Sound(kept) /\ kept.latch = b
  BY DEF Engines, Sound
<1>4. lost \in Engines /\ Sound(lost) /\ lost.latch = None
  BY DEF Engines, Sound
<1>5. \/ r = Outcome(kept, [done EXCEPT !.steps = TRUE], TRUE, v)
      \/ r = Outcome(lost, [done EXCEPT !.steps = FALSE], TRUE, v)
  BY DEF Latched
<1> HIDE DEF v, done, kept, lost
<1>6. CASE r = Outcome(kept, [done EXCEPT !.steps = TRUE], TRUE, v)
  <2>1. kept.latch # None
    BY <1>3, NoneIsNoBasis
  <2>2. Ready(r.eng, r.img) /\ r.img.cfg = img.cfg
    BY <1>2, <1>3, <1>6, <2>1 DEF Ready, Follows, Outcome, Images
  <2>3. Answers(r, b, atoms)
    BY <1>1, <1>2, <1>6 DEF Answers, Outcome, Images
  <2> QED BY <1>1, <1>6, <2>2, <2>3 DEF Proper, Outcome
<1>7. CASE r = Outcome(lost, [done EXCEPT !.steps = FALSE], TRUE, v)
  <2>2. Ready(r.eng, r.img) /\ r.img.cfg = img.cfg
    BY <1>2, <1>4, <1>7 DEF Ready, Follows, Outcome, Images
  <2>3. Answers(r, b, atoms)
    BY <1>1, <1>2, <1>7 DEF Answers, Outcome, Images
  <2> QED BY <1>1, <1>7, <2>2, <2>3 DEF Proper, Outcome
<1> QED BY <1>5, <1>6, <1>7

\* A failure keeps knobs and deck, and leaves engine and image ready.
LEMMA FailedProper ==
    ASSUME NEW e, NEW f, Ready(e, f), NEW img, f.cfg = img.cfg, NEW b, NEW atoms
    PROVE  Proper(Outcome(e, f, FALSE, None), img, b, atoms)
BY DEF Proper, Outcome

LEMMA WarmProper ==
    ASSUME NEW e, NEW img, Ready(e, img), NEW b \in Bases, NEW atoms \in Seq(Atoms),
           StartsWarm(e, img, b, atoms), NEW r \in WarmCall(e, img, b, atoms)
    PROVE  Proper(r, img, b, atoms)
<1>1. e.latch = b /\ e.setup = b
  BY WarmIsLatched
<1> DEFINE bare == [img EXCEPT !.stress = None]
           eval == Evaluated(img, Energy(e.setup, atoms), FALSE)
<1>2. CASE r = Outcome(e, img, FALSE, None)
  BY <1>2, FailedProper
<1>3. CASE r = Outcome(e, bare, FALSE, None)
  <2>1. Ready(e, bare) /\ bare.cfg = img.cfg
    BY DEF Ready, Images, Follows
  <2> HIDE DEF bare
  <2> QED BY <1>3, <2>1, FailedProper
<1>4. ASSUME NEW f \in PartlyStored(e), r = Outcome(f, eval, FALSE, None)
      PROVE  Proper(r, img, b, atoms)
  <2>1. f \in Engines /\ Sound(f) /\ f.latch = e.latch
    BY <1>1, PartlyStoredSound DEF Ready
  <2>2. Energy(e.setup, atoms) \in Values
    BY <1>1, EnergyType
  <2>3. /\ eval \in Images /\ eval.cfg = img.cfg
        /\ eval.warmCell = img.warmCell /\ eval.steps = img.steps
    BY <2>2 DEF Evaluated, Images, Ready
  <2> HIDE DEF eval
  <2>4. Ready(f, eval)
    BY <2>1, <2>3 DEF Ready, Follows
  <2> QED BY <1>4, <2>3, <2>4, FailedProper
<1>5. ASSUME r \in Latched(e, img, b, atoms) PROVE Proper(r, img, b, atoms)
  BY <1>1, <1>5, LatchedProper DEF Ready
<1> QED BY <1>2, <1>3, <1>4, <1>5 DEF WarmCall

LEMMA ColdProper ==
    ASSUME NEW e, NEW img, Ready(e, img), NEW b \in Bases,
           NEW atoms \in Seq(Atoms), NEW r \in ColdCall(e, img, b, atoms)
    PROVE  Proper(r, img, b, atoms)
<1> DEFINE dropped == IF e.latch = None THEN e
                      ELSE [e EXCEPT !.latch = None, !.stored = {}]
           fallen == IF e.latch = None THEN img ELSE [img EXCEPT !.steps = FALSE]
           torn  == Teardown(dropped)
           fresh == [torn EXCEPT !.setup = b]
           clear == ClearSnapshots(fallen)
<1>1. dropped \in Engines /\ Sound(dropped) /\ dropped.latch = None
  BY DEF Ready, Engines, Sound
<1>2. fallen \in Images /\ fallen.cfg = img.cfg /\ ~fallen.steps
  BY DEF Ready, Images, Follows
<1>3. /\ torn \in Engines /\ torn.latch = None
      /\ torn.stored = {} /\ Sound(torn)
  <2> HIDE DEF dropped
  <2> QED BY <1>1, NoneIsNoBasis DEF Teardown, ColdEngine, Engines, Sound
<1>4. fresh \in Engines /\ fresh.latch = None /\ fresh.setup = b /\ Sound(fresh)
  <2> HIDE DEF torn
  <2> QED BY <1>3 DEF Engines, Sound
<1>5. clear \in Images /\ clear.cfg = img.cfg /\ ~clear.steps
  <2> HIDE DEF fallen
  <2> QED BY <1>2 DEF ClearSnapshots, Images
<1>6. \/ r = Outcome(torn, fallen, FALSE, None)
      \/ r = Outcome(fresh, fallen, FALSE, None)
      \/ r = Outcome(fresh, clear, FALSE, None)
      \/ \E f \in PartlyStored(fresh) : r = Outcome(f, clear, FALSE, None)
      \/ r \in Latched(fresh, fallen, b, atoms)
  BY DEF ColdCall
<1> HIDE DEF dropped, fallen, torn, fresh, clear
<1>7. Ready(torn, fallen) /\ Ready(fresh, fallen) /\ Ready(fresh, clear)
  BY <1>2, <1>3, <1>4, <1>5 DEF Ready, Follows
<1>8. ASSUME NEW f \in PartlyStored(fresh) PROVE Ready(f, clear)
  <2>1. f \in Engines /\ Sound(f) /\ f.latch = None
    BY <1>4, PartlyStoredSound
  <2> QED BY <1>5, <2>1 DEF Ready, Follows
<1>9. ASSUME r \in Latched(fresh, fallen, b, atoms) PROVE Proper(r, img, b, atoms)
  <2>1. Proper(r, fallen, b, atoms)
    BY <1>2, <1>4, <1>7, <1>9, LatchedProper DEF Ready
  <2> QED BY <1>2, <2>1 DEF Proper
<1> QED BY <1>2, <1>5, <1>6, <1>7, <1>8, <1>9, FailedProper

LEMMA StoppedProper ==
    ASSUME NEW e, NEW img, Ready(e, img), NEW b, NEW atoms
    PROVE  Proper(Outcome(ColdEngine, ResetImage(img), FALSE, None), img, b, atoms)
<1>1. ColdEngine \in Engines /\ Sound(ColdEngine)
  BY DEF ColdEngine, Engines, Sound
<1>2. /\ ResetImage(img) \in Images /\ ResetImage(img).cfg = img.cfg
      /\ Follows(ResetImage(img), ColdEngine)
  BY DEF Ready, ResetImage, ClearSnapshots, DetachImage, Images, Follows
<1>3. Ready(ColdEngine, ResetImage(img))
  BY <1>1, <1>2 DEF Ready
<1> QED BY <1>2, <1>3, FailedProper

\* Whatever an evaluation on a ready engine and image ends in, a stop included,
\* it leaves them ready, and a success is the energy of the basis asked for:
\* the warm test of embed_basis_changed never takes another basis for it.
THEOREM EvaluationProper ==
    ASSUME NEW e, NEW img, Ready(e, img), NEW atoms \in Seq(Atoms), NEW cell \in CellArgs,
           NEW r \in EnergyGradient(e, img, atoms, cell)
    PROVE  Proper(r, img, BasisOf(img, atoms, cell), atoms)
<1> DEFINE b == BasisOf(img, atoms, cell)
<1>1. b \in Bases
  BY BasisType DEF Ready
<1>2. \/ r \in RunEmbedScf(e, img, atoms, cell)
      \/ r = Outcome(ColdEngine, ResetImage(img), FALSE, None)
  BY DEF EnergyGradient
<1>3. CASE r \in RunEmbedScf(e, img, atoms, cell)
  <2> HIDE DEF b
  <2>1. CASE StartsWarm(e, img, b, atoms)
    <3>1. r \in WarmCall(e, img, b, atoms)
      BY <1>3, <2>1 DEF RunEmbedScf, b
    <3> QED BY <1>1, <2>1, <3>1, WarmProper DEF b
  <2>2. CASE ~StartsWarm(e, img, b, atoms)
    <3>1. r \in ColdCall(e, img, b, atoms)
      BY <1>3, <2>2 DEF RunEmbedScf, b
    <3> QED BY <1>1, <3>1, ColdProper DEF b
  <2> QED BY <2>1, <2>2
<1> QED BY <1>2, <1>3, StoppedProper

\* The warm test passes for the latched basis.
LEMMA LatchedIsWarm ==
    ASSUME NEW e, NEW img, Ready(e, img), NEW atoms \in Seq(Atoms), NEW cell \in CellArgs,
           Known(atoms), e.latch = BasisOf(img, atoms, cell)
    PROVE  StartsWarm(e, img, BasisOf(img, atoms, cell), atoms)
<1>1. BasisOf(img, atoms, cell) \in Bases
  BY BasisType DEF Ready
<1> QED BY <1>1, NoneIsNoBasis DEF StartsWarm, BasisChanged, Ready, Follows

\* A call on the latched basis that fails without a stop leaves the latch and
\* the set-up.
LEMMA FailureKeepsLatch ==
    ASSUME NEW e, NEW img, Ready(e, img), NEW atoms \in Seq(Atoms), NEW cell \in CellArgs,
           Known(atoms), e.latch = BasisOf(img, atoms, cell),
           NEW r \in EnergyGradient(e, img, atoms, cell),
           ~r.ok, r.eng.setup # None
    PROVE  r.eng.latch = e.latch /\ r.eng.setup = e.setup
<1> DEFINE b == BasisOf(img, atoms, cell)
<1>1. b \in Bases
  BY BasisType DEF Ready
<1>2. StartsWarm(e, img, b, atoms)
  BY LatchedIsWarm
<1>3. r # Outcome(ColdEngine, ResetImage(img), FALSE, None)
  BY DEF Outcome, ColdEngine
<1>4. r \in WarmCall(e, img, b, atoms)
  BY <1>2, <1>3 DEF EnergyGradient, RunEmbedScf
<1>5. r \notin Latched(e, img, b, atoms)
  BY DEF Latched, Outcome
<1> HIDE DEF b
<1>6. r.eng = e \/ r.eng \in PartlyStored(e)
  <2>1. \E f \in {e} \cup PartlyStored(e) : \E i : r = Outcome(f, i, FALSE, None)
    BY <1>4, <1>5 DEF WarmCall
  <2> QED BY <2>1 DEF Outcome
<1>7. ASSUME NEW f \in PartlyStored(e)
      PROVE  f.latch = e.latch /\ f.setup = e.setup
  <2>1. e \in Engines
    BY DEF Ready
  <2> QED BY <2>1 DEF PartlyStored, Engines
<1> QED BY <1>6, <1>7

-----------------------------------------------------------------------------
(* The inductive invariant *)

\* What a session stands for and stores, and what its image shows beside it.
SessionHolds(st, img) ==
    /\ st.agreed => st.deck = MethodOf(st)
    /\ st.cache # None =>
          /\ st.fixed = Topology(st.cache.atoms)
          /\ st.agreed => st.cache.energy =
                Energy(AskedBasis(MethodOf(st), st.cache.atoms, st.cache.cell), st.cache.atoms)
          /\ st.cache.grad = Gradient(st.cache.energy, st.cache.atoms)
          /\ img.snap = [value |-> st.cache.energy, converged |-> TRUE]
          /\ img.stress \in {None, st.cache.energy}

SessionsHold == \A s \in Live : SessionHolds(session[s], image[s])

\* What an evaluation without a new configuration relies on.
ActiveReady(st, img, e) ==
    /\ st # None
    /\ st.configured
    /\ st.agreed => img.cfg = [knobs |-> MethodOf(st), deck |-> MethodOf(st)]
    /\ img.cfg \in Installed
    /\ Follows(img, e)

ActiveHolds == active # None => ActiveReady(session[active], image[active], eng)

IInv ==
    /\ TypeOK
    /\ Sound(eng)
    /\ SessionsHold
    /\ ActiveHolds
    /\ AnswersTheCall

-----------------------------------------------------------------------------
(* Values *)

LEMMA ArrayType ==
    ASSUME NEW atoms \in Arrays
    PROVE  atoms \in Seq(Atoms)
BY ArraysAreInjective

LEMMA TopologyType ==
    ASSUME NEW atoms \in Arrays
    PROVE  Topology(atoms) \in Topologies /\ Topology(atoms) # None
<1>1. Composition(atoms) \in [Elements -> Nat]
  BY ArrayType, CompositionType
<1>2. Known(atoms) \in BOOLEAN
  BY DEF Known
<1> QED BY <1>1, <1>2, NoneIsNoState DEF Topology, Topologies

LEMMA MethodType ==
    ASSUME NEW st \in SessionStates
    PROVE  MethodOf(st) \in Methods /\ st # None
BY NoneIsNoState DEF SessionStates, MethodOf, Methods

LEMMA MethodsAreMethods ==
    SessionMethods \subseteq Methods /\ PlainMethods \subseteq Methods
    /\ OnceMethods \subseteq Methods
BY MethodSets

LEMMA NewSessionType ==
    ASSUME NEW m \in Methods
    PROVE  /\ NewSession(m) \in SessionStates
           /\ NewSession(m).cache = None /\ NewSession(m).deck = m
           /\ NewSession(m).agreed /\ MethodOf(NewSession(m)) = m
BY DEF NewSession, SessionStates, Methods, MethodOf

LEMMA NewImageType ==
    NewImage \in Images /\ NewImage.cfg = None
BY DEF NewImage, Images

LEMMA CacheEntryType ==
    ASSUME NEW atoms \in Arrays, NEW cell \in CellArgs, NEW v \in Values
    PROVE  CacheEntry(atoms, cell, v) \in CacheEntries
BY ArrayType, GradientType DEF CacheEntry, CacheEntries

LEMMA ReplyType ==
    ASSUME NEW who \in Calculators \cup {"oneshot"}, NEW m \in Methods,
           NEW atoms \in Arrays, NEW cell \in CellArgs,
           NEW r, NEW img, NEW b, Proper(r, img, b, atoms), r.ok => r.energy \in Values
    PROVE  Reply(who, m, atoms, cell, FALSE, r) \in Replies
<1>1. r.ok => Gradient(r.energy, atoms) \in Seq([of : Values, on : Atoms])
  BY ArrayType, GradientType
<1>2. <<>> \in Seq([of : Values, on : Atoms])
  OBVIOUS
<1> QED BY <1>1, <1>2 DEF Proper, Reply, Replies

LEMMA FailureReplyType ==
    ASSUME NEW who \in Calculators \cup {"oneshot"}, NEW m \in Methods,
           NEW atoms \in Arrays, NEW cell \in CellArgs
    PROVE  /\ Reply(who, m, atoms, cell, FALSE, Failure) \in Replies
           /\ ~Reply(who, m, atoms, cell, FALSE, Failure).ok
<1>1. <<>> \in Seq([of : Values, on : Atoms])
  OBVIOUS
<1> QED BY <1>1 DEF Reply, Replies, Failure

\* A success on an image that a method is installed in answers that method.
LEMMA AnswerIsAsked ==
    ASSUME NEW img, NEW m \in Methods, img.cfg = [knobs |-> m, deck |-> m],
           NEW atoms, NEW cell
    PROVE  BasisOf(img, atoms, cell) = AskedBasis(m, atoms, cell)
BY DEF BasisOf, AskedBasis

-----------------------------------------------------------------------------
(* Configuring and evaluating *)

LEMMA ConfiguredImageHolds ==
    ASSUME NEW e \in Engines, Sound(e), NEW img \in Images, NEW st \in SessionStates
    PROVE  /\ ConfiguredImage(img, st) \in Images
           /\ ConfiguredImage(img, st).snap = img.snap
           /\ ConfiguredImage(img, st).stress = img.stress
           /\ Configures(st) =>
                 /\ Ready(e, ConfiguredImage(img, st))
                 /\ ConfiguredImage(img, st).cfg =
                       [knobs |-> MethodOf(st), deck |-> st.deck]
           /\ ~Configures(st) =>
                 /\ ConfiguredImage(img, st).cfg = img.cfg
                 /\ Follows(img, e) => Follows(ConfiguredImage(img, st), e)
<1>1. MethodOf(st) \in Methods /\ st.deck \in Methods
  BY MethodType DEF SessionStates
<1>2. CASE Configures(st)
  <2>1. ConfiguredImage(img, st) = ApplyConfig(img, MethodOf(st), st.deck)
    BY <1>2 DEF ConfiguredImage, Configures
  <2>2. Ready(e, ApplyConfig(img, MethodOf(st), st.deck))
    BY <1>1, ApplyReady
  <2> QED BY <1>1, <1>2, <2>1, <2>2, ApplyReady DEF Ready
<1>3. CASE ~Configures(st)
  BY <1>3, DetachFollows DEF ConfiguredImage
<1> QED BY <1>2, <1>3

\* One evaluation, available or not, on a ready image.
LEMMA EvaluateProper ==
    ASSUME NEW img, Ready(eng, img), NEW atoms \in Arrays, NEW cell \in CellArgs,
           NEW r \in EvaluateOn(img, atoms, cell)
    PROVE  /\ Proper(r, img, BasisOf(img, atoms, cell), atoms)
           /\ r.ok => r.energy \in Values
<1>1. atoms \in Seq(Atoms)
  BY ArrayType
<1>2. Proper(r, img, BasisOf(img, atoms, cell), atoms)
  <2>1. CASE Usable
    BY <1>1, <2>1, EvaluationProper DEF EvaluateOn
  <2>2. CASE ~Usable
    BY <2>2, FailedProper DEF EvaluateOn
  <2> QED BY <2>1, <2>2
<1>3. BasisOf(img, atoms, cell) \in Bases
  BY <1>1, BasisType DEF Ready
<1>4. Energy(BasisOf(img, atoms, cell), atoms) \in Values
  BY <1>1, <1>3, EnergyType
<1> QED BY <1>2, <1>4 DEF Proper, Answers

\* A configured or active session is evaluated on an image that holds its method.
LEMMA ImageInUseReady ==
    ASSUME IInv, NEW s \in Live, NeedsConfigure(s) => Configures(session[s])
    PROVE  /\ Ready(eng, ImageInUse(s))
           /\ session[s].agreed =>
                 ImageInUse(s).cfg = [knobs |-> MethodOf(session[s]),
                                      deck |-> MethodOf(session[s])]
<1>1. /\ s \in Sessions /\ session[s] \in SessionStates /\ image[s] \in Images
      /\ eng \in Engines /\ Sound(eng)
  BY DEF IInv, TypeOK, Live, Calculators
<1>2. session[s].agreed => session[s].deck = MethodOf(session[s])
  BY DEF IInv, SessionsHold, SessionHolds
<1>3. CASE NeedsConfigure(s)
  <2>1. Configures(session[s]) /\ ImageInUse(s) = ConfiguredImage(image[s], session[s])
    BY <1>3 DEF ImageInUse
  <2> DEFINE st == session[s]
             img == image[s]
             used == ConfiguredImage(img, st)
  <2>2. st \in SessionStates /\ img \in Images
    BY <1>1
  <2> HIDE DEF st, img
  <2>3. Ready(eng, used) /\ used.cfg = [knobs |-> MethodOf(st), deck |-> st.deck]
    BY <1>1, <2>1, <2>2, ConfiguredImageHolds DEF st
  <2> QED BY <1>2, <2>1, <2>3 DEF st, img
<1>4. CASE ~NeedsConfigure(s)
  <2>1. active = s /\ active # None /\ ImageInUse(s) = image[s]
    BY <1>1, <1>4, PlainIsApart DEF ImageInUse, NeedsConfigure
  <2>2. ActiveReady(session[s], image[s], eng)
    BY <2>1 DEF IInv, ActiveHolds
  <2> QED BY <1>1, <2>1, <2>2 DEF ActiveReady, Ready
<1> QED BY <1>3, <1>4

-----------------------------------------------------------------------------
(* The frame of a step: only one calculator changes *)

LEMMA OneSessionSteps ==
    ASSUME TypeOK, SessionsHold, ActiveHolds,
           NEW s \in Sessions, NEW st \in {None} \cup SessionStates, NEW img \in Images,
           session' = [session EXCEPT ![s] = st],
           image' = [image EXCEPT ![s] = img],
           st # None => SessionHolds(st, img),
           active' \in {None, s, active},
           eng' = eng \/ active' \in {None, s},
           active' = s => ActiveReady(st, img, eng')
    PROVE  /\ session' \in [Sessions -> {None} \cup SessionStates]
           /\ image' \in [Calculators -> Images]
           /\ active' \in Sessions \cup {None}
           /\ SessionsHold' /\ ActiveHolds'
<1>1. /\ session' \in [Sessions -> {None} \cup SessionStates]
      /\ image' \in [Calculators -> Images]
      /\ active' \in Sessions \cup {None}
  BY DEF TypeOK
<1>2. \A t \in Sessions : t # s => session'[t] = session[t] /\ image'[t] = image[t]
  BY DEF TypeOK, Calculators
<1>3. session'[s] = st /\ image'[s] = img
  BY DEF TypeOK, Calculators
<1>4. SessionsHold'
  <2> SUFFICES ASSUME NEW t \in Live' PROVE SessionHolds(session'[t], image'[t])
    BY DEF SessionsHold, SessionHolds, MethodOf
  <2>1. t \in Sessions /\ session'[t] # None
    BY DEF Live
  <2>2. CASE t = s
    BY <1>3, <2>1, <2>2
  <2>3. CASE t # s
    BY <1>2, <2>1, <2>3 DEF SessionsHold, Live
  <2> QED BY <2>2, <2>3
<1>5. ActiveHolds'
  <2> SUFFICES ASSUME active' # None
               PROVE  ActiveReady(session'[active'], image'[active'], eng')
    BY DEF ActiveHolds
  <2>1. CASE active' = s
    BY <1>3, <2>1
  <2>2. CASE active' # s
    <3>1. active' = active /\ eng' = eng /\ active \in Sessions
      BY <2>2 DEF TypeOK
    <3>2. session'[active] = session[active] /\ image'[active] = image[active]
      BY <1>2, <2>2, <3>1
    <3> QED BY <3>1, <3>2 DEF ActiveHolds
  <2> QED BY <2>1, <2>2
<1> QED BY <1>1, <1>4, <1>5

LEMMA NoSessionSteps ==
    ASSUME TypeOK, SessionsHold, ActiveHolds, NEW img \in Images,
           session' = session,
           image' = [image EXCEPT ![Plain] = img] \/ image' = image,
           active' = None \/ (active' = active /\ eng' = eng)
    PROVE  /\ session' \in [Sessions -> {None} \cup SessionStates]
           /\ image' \in [Calculators -> Images]
           /\ active' \in Sessions \cup {None}
           /\ SessionsHold' /\ ActiveHolds'
<1>1. /\ session' \in [Sessions -> {None} \cup SessionStates]
      /\ image' \in [Calculators -> Images]
      /\ active' \in Sessions \cup {None}
  BY DEF TypeOK
<1>2. \A t \in Sessions : session'[t] = session[t] /\ image'[t] = image[t]
  BY PlainIsApart DEF TypeOK, Calculators
<1>3. SessionsHold'
  <2> SUFFICES ASSUME NEW t \in Live' PROVE SessionHolds(session'[t], image'[t])
    BY DEF SessionsHold, SessionHolds, MethodOf
  <2>1. t \in Live /\ t \in Sessions
    BY <1>2 DEF Live
  <2> QED BY <1>2, <2>1 DEF SessionsHold
<1>4. ActiveHolds'
  <2> SUFFICES ASSUME active' # None
               PROVE  ActiveReady(session'[active'], image'[active'], eng')
    BY DEF ActiveHolds
  <2>1. active' = active /\ eng' = eng /\ active \in Sessions
    BY DEF TypeOK
  <2> QED BY <1>2, <2>1 DEF ActiveHolds
<1> QED BY <1>1, <1>3, <1>4

-----------------------------------------------------------------------------
(* The actions *)

LEMMA InitInv == Init => IInv
<1> SUFFICES ASSUME Init PROVE IInv
  OBVIOUS
<1>1. TypeOK
  BY NewImageType DEF Init, TypeOK, LibStates, ColdEngine, Engines
<1>2. Sound(eng)
  BY DEF Init, ColdEngine, Sound
<1>3. SessionsHold /\ ActiveHolds /\ AnswersTheCall
  BY DEF Init, SessionsHold, Live, ActiveHolds, AnswersTheCall
<1> QED BY <1>1, <1>2, <1>3 DEF IInv

LEMMA EnsureInitType ==
    ASSUME TypeOK, EnsureInit
    PROVE  lib' \in LibStates
BY DEF TypeOK, EnsureInit, Usable, LibStates

LEMMA CreateInv ==
    ASSUME IInv, NEW s \in Sessions, NEW m \in SessionMethods, SessionCreate(s, m)
    PROVE  IInv'
<1> DEFINE st  == NewSession(m)
           new == [st EXCEPT !.configured = Configures(st)]
           img == ConfiguredImage(NewImage, st)
<1>1. /\ st \in SessionStates /\ st.cache = None /\ st.deck = m /\ st.agreed
      /\ MethodOf(st) = m
  BY MethodsAreMethods, NewSessionType
<1>2. eng \in Engines /\ Sound(eng) /\ TypeOK /\ SessionsHold /\ ActiveHolds
  BY DEF IInv, TypeOK
<1>3. Configures(st) \in BOOLEAN
  BY DEF Configures
<1>4. /\ session' = [session EXCEPT ![s] = new] /\ image' = [image EXCEPT ![s] = img]
      /\ active' = IF Configures(st) THEN s ELSE active
      /\ session[s] = None /\ eng' = eng /\ reply' = None /\ lib' \in LibStates
  BY <1>2, EnsureInitType DEF SessionCreate
<1> HIDE DEF st
<1>5. /\ img \in Images
      /\ Configures(st) => Ready(eng, img) /\ img.cfg = [knobs |-> m, deck |-> m]
  BY <1>1, <1>2, NewImageType, ConfiguredImageHolds
<1>6. /\ new \in SessionStates /\ new # None /\ new.cache = None /\ MethodOf(new) = m
      /\ new.deck = m /\ new.configured = Configures(st)
  <2>1. new \in SessionStates
    BY <1>1, <1>3 DEF SessionStates
  <2> QED BY <1>1, <2>1, MethodType DEF SessionStates, MethodOf
<1> HIDE DEF new, img
<1>7. SessionHolds(new, img)
  BY <1>6 DEF SessionHolds
<1>8. active' = s => ActiveReady(new, img, eng')
  <2>1. CASE Configures(st)
    BY <1>4, <1>5, <1>6, <2>1 DEF ActiveReady, Ready
  <2>2. CASE ~Configures(st)
    <3>1. active # s
      BY <1>2, <1>4, PlainIsApart DEF ActiveHolds, ActiveReady
    <3> QED BY <1>4, <2>2, <3>1
  <2> QED BY <2>1, <2>2
<1>9. /\ session' \in [Sessions -> {None} \cup SessionStates]
      /\ image' \in [Calculators -> Images]
      /\ active' \in Sessions \cup {None}
      /\ SessionsHold' /\ ActiveHolds'
  BY <1>2, <1>4, <1>5, <1>6, <1>7, <1>8, OneSessionSteps
<1> QED BY <1>2, <1>4, <1>9 DEF IInv, TypeOK, AnswersTheCall

LEMMA CreateFailsInv ==
    ASSUME IInv, NEW m \in SessionMethods, SessionCreateFails(m)
    PROVE  IInv'
<1>1. /\ session' = session /\ image' = image /\ eng' = eng /\ reply' = None
      /\ active' \in {None, active} /\ lib' \in LibStates
  BY EnsureInitType DEF SessionCreateFails, IInv
<1>2. /\ session' \in [Sessions -> {None} \cup SessionStates]
      /\ image' \in [Calculators -> Images]
      /\ active' \in Sessions \cup {None}
      /\ SessionsHold' /\ ActiveHolds'
  BY <1>1, NewImageType, NoSessionSteps DEF IInv
<1> QED BY <1>1, <1>2 DEF IInv, TypeOK, AnswersTheCall

LEMMA LiveSession ==
    ASSUME IInv, NEW s \in Live
    PROVE  /\ s \in Sessions /\ s # None
           /\ session[s] \in SessionStates /\ session[s] # None
           /\ image[s] \in Images
           /\ SessionHolds(session[s], image[s])
           /\ active = s => ActiveReady(session[s], image[s], eng)
           /\ session[s].fixed = None => session[s].cache = None
<1>1. /\ s \in Sessions /\ session[s] \in SessionStates /\ session[s] # None
      /\ image[s] \in Images /\ s # None
  BY PlainIsApart DEF IInv, TypeOK, Live, Calculators
<1>2. SessionHolds(session[s], image[s])
  BY DEF IInv, SessionsHold
<1>3. session[s].cache # None => session[s].fixed # None
  <2> HAVE session[s].cache # None
  <2>1. session[s].cache \in CacheEntries
    BY <1>1 DEF SessionStates
  <2>2. session[s].cache.atoms \in Arrays
    BY <2>1 DEF CacheEntries
  <2> QED BY <1>2, <2>2, TopologyType DEF SessionHolds
<1> QED BY <1>1, <1>2, <1>3 DEF IInv, ActiveHolds

LEMMA SetParamsInv ==
    ASSUME IInv, NEW s \in Sessions, NEW m \in SessionMethods, SessionSetParams(s, m)
    PROVE  IInv'
<1> DEFINE old  == session[s]
           was  == image[s]
           over == [old EXCEPT !.overlay = m.overlay, !.agreed = FALSE]
           st   == [over EXCEPT !.params = m.params, !.deck = m]
           done == [st EXCEPT !.agreed = TRUE, !.configured = TRUE]
           next == IF Configures(st) THEN done ELSE st
           img  == ConfiguredImage(was, st)
<1>1. s \in Live /\ old.fixed = None
  BY DEF SessionSetParams
<1>2. /\ old \in SessionStates /\ old.cache = None /\ was \in Images /\ s # None
      /\ active = s => ActiveReady(old, was, eng)
  BY <1>1, LiveSession
<1>3. eng \in Engines /\ Sound(eng) /\ TypeOK /\ SessionsHold /\ ActiveHolds
  BY DEF IInv, TypeOK
<1>4. m \in Methods /\ m.params \in Params /\ m.overlay \in Overlays \cup {None}
  BY MethodsAreMethods DEF Methods
<1>5. /\ eng' = eng /\ reply' = None
      /\ \/ /\ session' = [session EXCEPT ![s] = over] /\ image' = image
            /\ lib' = lib /\ active' = active
         \/ /\ session' = [session EXCEPT ![s] = next]
            /\ image' = [image EXCEPT ![s] = img]
            /\ active' = IF Configures(st) THEN s ELSE active
            /\ EnsureInit
  BY DEF SessionSetParams, TypeOK
<1>6. image = [image EXCEPT ![s] = was]
  BY DEF IInv, TypeOK
<1> HIDE DEF old, was
<1>7. /\ over \in SessionStates /\ over.cache = None /\ over.agreed = FALSE
      /\ over.configured = old.configured
  BY <1>2, <1>4 DEF SessionStates
<1>8. /\ st \in SessionStates /\ st.cache = None /\ st.agreed = FALSE /\ st.deck = m
      /\ st.configured = old.configured /\ MethodOf(st) = m
  <2> HIDE DEF over
  <2>1. st \in SessionStates /\ st.params = m.params /\ st.overlay = over.overlay
    BY <1>4, <1>7 DEF SessionStates
  <2>2. over.overlay = m.overlay
    BY <1>2 DEF over, SessionStates
  <2> QED BY <1>4, <1>7, <2>1, <2>2 DEF MethodOf, Methods, SessionStates
<1> HIDE DEF over
<1>9. /\ done \in SessionStates /\ done.cache = None /\ done.deck = m
      /\ done.configured = TRUE /\ MethodOf(done) = m
  <2> HIDE DEF st
  <2> QED BY <1>8 DEF SessionStates, MethodOf
<1> HIDE DEF st
<1>10. /\ img \in Images
       /\ Configures(st) => Ready(eng, img) /\ img.cfg = [knobs |-> m, deck |-> m]
       /\ ~Configures(st) => img.cfg = was.cfg /\ (Follows(was, eng) => Follows(img, eng))
  BY <1>2, <1>3, <1>8, ConfiguredImageHolds
<1> HIDE DEF done, img
<1>11. CASE /\ session' = [session EXCEPT ![s] = over] /\ image' = image
            /\ lib' = lib /\ active' = active
  <2>1. over # None /\ SessionHolds(over, was)
    BY <1>7, MethodType DEF SessionHolds
  <2>2. active' = s => ActiveReady(over, was, eng')
    BY <1>2, <1>5, <1>7, <1>11, <2>1 DEF ActiveReady
  <2>3. /\ session' \in [Sessions -> {None} \cup SessionStates]
        /\ image' \in [Calculators -> Images]
        /\ active' \in Sessions \cup {None}
        /\ SessionsHold' /\ ActiveHolds'
    BY <1>2, <1>3, <1>5, <1>6, <1>7, <1>11, <2>1, <2>2, OneSessionSteps
  <2> QED BY <1>3, <1>5, <1>11, <2>3 DEF IInv, TypeOK, AnswersTheCall
<1>12. CASE /\ session' = [session EXCEPT ![s] = next]
            /\ image' = [image EXCEPT ![s] = img]
            /\ active' = IF Configures(st) THEN s ELSE active
            /\ EnsureInit
  <2>1. next \in SessionStates /\ next # None
    BY <1>8, <1>9, MethodType
  <2>2. SessionHolds(next, img)
    BY <1>8, <1>9 DEF SessionHolds
  <2>3. active' = s => ActiveReady(next, img, eng')
    <3>1. CASE Configures(st)
      BY <1>5, <1>9, <1>10, <2>1, <3>1 DEF ActiveReady, Ready
    <3>2. CASE ~Configures(st)
      BY <1>2, <1>5, <1>8, <1>10, <1>12, <2>1, <3>2 DEF ActiveReady
    <3> QED BY <3>1, <3>2
  <2> HIDE DEF next
  <2>4. /\ session' \in [Sessions -> {None} \cup SessionStates]
        /\ image' \in [Calculators -> Images]
        /\ active' \in Sessions \cup {None}
        /\ SessionsHold' /\ ActiveHolds'
    BY <1>3, <1>5, <1>10, <1>12, <2>1, <2>2, <2>3, OneSessionSteps
  <2> QED BY <1>3, <1>5, <1>12, <2>4, EnsureInitType DEF IInv, TypeOK, AnswersTheCall
<1> QED BY <1>5, <1>11, <1>12

LEMMA DestroyInv ==
    ASSUME IInv, NEW s \in Sessions, SessionDestroy(s)
    PROVE  IInv'
<1>1. /\ session' = [session EXCEPT ![s] = None]
      /\ image' = [image EXCEPT ![s] = NewImage]
      /\ active' \in {None, active} /\ active' # s
      /\ eng' = eng /\ lib' = lib /\ reply' = None
  BY PlainIsApart DEF SessionDestroy
<1>2. /\ session' \in [Sessions -> {None} \cup SessionStates]
      /\ image' \in [Calculators -> Images]
      /\ active' \in Sessions \cup {None}
      /\ SessionsHold' /\ ActiveHolds'
  BY <1>1, NewImageType, OneSessionSteps DEF IInv
<1> QED BY <1>1, <1>2 DEF IInv, TypeOK, AnswersTheCall

-----------------------------------------------------------------------------
(* Evaluating in a session *)

\* A topology that is accepted is the fixed one.
LEMMA AcceptedTopology ==
    ASSUME NEW st \in SessionStates, NEW atoms \in Arrays, Accepts(st, atoms),
           st.fixed # None
    PROVE  st.fixed = Topology(atoms)
BY DEF SessionStates, Topologies, Accepts, Topology

\* A repeat is the answer to the new call as well: equal cell and atoms, and by
\* the fixed topology an equal composition; the rows follow the caller's order.
LEMMA RepeatAnswers ==
    ASSUME NEW st \in SessionStates, NEW img, SessionHolds(st, img),
           NEW atoms \in Arrays, NEW cell, Accepts(st, atoms), CacheHit(st, atoms, cell)
    PROVE  /\ st.fixed = Topology(atoms)
           /\ st.cache.energy \in Values
           /\ st.agreed => st.cache.energy =
                 Energy(AskedBasis(MethodOf(st), atoms, cell), atoms)
           /\ CachedGradient(st.cache, atoms) = Gradient(st.cache.energy, atoms)
<1> DEFINE c == st.cache
<1>1. /\ c \in CacheEntries /\ c.atoms \in Arrays /\ c.energy \in Values
      /\ c.cell = cell /\ Range(c.atoms) = Range(atoms)
  BY DEF CacheHit, SessionStates, CacheEntries
<1>2. /\ st.fixed = Topology(c.atoms)
      /\ st.agreed => c.energy = Energy(AskedBasis(MethodOf(st), c.atoms, c.cell), c.atoms)
      /\ c.grad = Gradient(c.energy, c.atoms)
  BY DEF SessionHolds, CacheHit
<1>3. st.fixed = Topology(atoms)
  BY <1>1, <1>2, TopologyType, AcceptedTopology
<1>4. Composition(c.atoms) = Composition(atoms)
  BY <1>2, <1>3 DEF Topology
<1>5. Energy(AskedBasis(MethodOf(st), c.atoms, c.cell), c.atoms)
      = Energy(AskedBasis(MethodOf(st), atoms, cell), atoms)
  BY <1>1, <1>4 DEF Energy, AskedBasis
<1>6. CachedGradient(c, atoms) = Gradient(c.energy, atoms)
  <2> DEFINE row(i) == CHOOSE j \in DOMAIN c.atoms : c.atoms[j] = atoms[i]
  <2>1. ASSUME NEW i \in DOMAIN atoms
        PROVE  c.grad[row(i)] = [of |-> c.energy, on |-> atoms[i]]
    <3>1. atoms[i] \in Range(c.atoms)
      BY <1>1 DEF Range
    <3>2. \E j \in DOMAIN c.atoms : c.atoms[j] = atoms[i]
      BY <3>1 DEF Range
    <3>3. row(i) \in DOMAIN c.atoms /\ c.atoms[row(i)] = atoms[i]
      BY <3>2
    <3> QED BY <1>2, <3>3 DEF Gradient
  <2> QED BY <2>1 DEF CachedGradient, Gradient
<1> QED BY <1>1, <1>2, <1>3, <1>5, <1>6

LEMMA RefusedInv ==
    ASSUME IInv, NEW s \in Live, NEW atoms \in Arrays, NEW cell \in CellArgs,
           TopologyRefused(s, atoms, cell)
    PROVE  IInv' /\ reply' \in Replies
<1>1. /\ session' = session /\ image' = image /\ eng' = eng /\ active' = active
      /\ lib' = lib
      /\ reply' = Reply(s, MethodOf(session[s]), atoms, cell, FALSE, Failure)
  BY DEF TopologyRefused
<1>2. reply' \in Replies /\ ~reply'.ok
  BY <1>1, LiveSession, MethodType, FailureReplyType DEF Calculators
<1>3. /\ session' \in [Sessions -> {None} \cup SessionStates]
      /\ image' \in [Calculators -> Images]
      /\ active' \in Sessions \cup {None}
      /\ SessionsHold' /\ ActiveHolds'
  BY <1>1, NewImageType, NoSessionSteps DEF IInv
<1> QED BY <1>1, <1>2, <1>3 DEF IInv, TypeOK, AnswersTheCall

LEMMA RepeatedInv ==
    ASSUME IInv, NEW s \in Live, NEW atoms \in Arrays, NEW cell \in CellArgs,
           Repeated(s, atoms, cell)
    PROVE  IInv' /\ reply' \in Replies
<1> DEFINE old == session[s]
           was == image[s]
           new == Accepted(old, atoms)
           v   == old.cache.energy
<1>1. /\ s \in Sessions /\ s # None /\ old \in SessionStates /\ was \in Images
      /\ SessionHolds(old, was)
      /\ active = s => ActiveReady(old, was, eng)
  BY LiveSession
<1>2. /\ session' = [session EXCEPT ![s] = new] /\ image' = image
      /\ eng' = eng /\ active' = active /\ lib' = lib
      /\ reply' = [Reply(s, MethodOf(old), atoms, cell, TRUE, [ok |-> TRUE, energy |-> v])
                    EXCEPT !.grad = CachedGradient(old.cache, atoms)]
  BY DEF Repeated, IInv, TypeOK
<1>3. image = [image EXCEPT ![s] = was]
  BY DEF IInv, TypeOK
<1>4. /\ old.fixed = Topology(atoms) /\ v \in Values
      /\ old.agreed => v = Energy(AskedBasis(MethodOf(old), atoms, cell), atoms)
      /\ CachedGradient(old.cache, atoms) = Gradient(v, atoms)
  <2>1. Accepts(old, atoms) /\ CacheHit(old, atoms, cell)
    BY DEF Repeated
  <2> HIDE DEF old, was
  <2> QED BY <1>1, <2>1, RepeatAnswers
<1>5. new = old
  BY <1>1, <1>4 DEF Accepted, SessionStates
<1>6. reply' = [who |-> s, method |-> MethodOf(old), atoms |-> atoms, cell |-> cell,
                ok |-> TRUE, cached |-> TRUE, energy |-> v, grad |-> Gradient(v, atoms)]
  BY <1>2, <1>4 DEF Reply
<1>7. reply' \in Replies
  <2>1. Gradient(v, atoms) \in Seq([of : Values, on : Atoms])
    BY <1>4, ArrayType, GradientType
  <2>2. MethodOf(old) \in Methods
    BY <1>1, MethodType
  <2> HIDE DEF old, v
  <2> QED BY <1>1, <1>4, <1>6, <2>1, <2>2 DEF Replies, Calculators
<1>8. /\ session' \in [Sessions -> {None} \cup SessionStates]
      /\ image' \in [Calculators -> Images]
      /\ active' \in Sessions \cup {None}
      /\ SessionsHold' /\ ActiveHolds'
  <2>1. TypeOK /\ SessionsHold /\ ActiveHolds
    BY DEF IInv
  <2>2. /\ session' = [session EXCEPT ![s] = old]
        /\ image' = [image EXCEPT ![s] = was]
    BY <1>2, <1>3, <1>5
  <2> HIDE DEF new, old, was
  <2> QED BY <1>1, <1>2, <2>1, <2>2, OneSessionSteps
<1>9. AnswersTheCall'
  <2>1. s \in Live' /\ session'[s] = old
    BY <1>1, <1>2, <1>5, MethodType DEF IInv, TypeOK, Live
  <2>2. (Trusted(reply))' => old.agreed
    BY <1>6, <2>1 DEF Trusted
  <2> HIDE DEF old, v
  <2> QED BY <1>4, <1>6, <2>2 DEF AnswersTheCall
<1> QED BY <1>2, <1>7, <1>8, <1>9 DEF IInv, TypeOK

LEMMA NotConfiguredInv ==
    ASSUME IInv, NEW s \in Live, NEW atoms \in Arrays, NEW cell \in CellArgs,
           NotConfigured(s, atoms, cell)
    PROVE  IInv' /\ reply' \in Replies
<1> DEFINE old == session[s]
           was == image[s]
           new == Accepted(old, atoms)
           img == ConfiguredImage(was, old)
<1>1. /\ s \in Sessions /\ s # None /\ old \in SessionStates /\ was \in Images
      /\ SessionHolds(old, was)
      /\ active = s => ActiveReady(old, was, eng)
      /\ old.fixed = None => old.cache = None
      /\ eng \in Engines /\ Sound(eng)
  BY LiveSession DEF IInv, TypeOK
<1>2. /\ session' = [session EXCEPT ![s] = new] /\ image' = [image EXCEPT ![s] = img]
      /\ eng' = eng /\ active' = active /\ EnsureInit /\ ~Configures(old)
      /\ Accepts(old, atoms)
      /\ reply' = Reply(s, MethodOf(old), atoms, cell, FALSE, Failure)
  BY DEF NotConfigured, IInv, TypeOK, Calculators
<1>3. reply' \in Replies /\ ~reply'.ok
  BY <1>1, <1>2, MethodType, FailureReplyType DEF Calculators
<1> HIDE DEF old, was
<1>4. /\ img \in Images /\ img.snap = was.snap /\ img.stress = was.stress
      /\ img.cfg = was.cfg
      /\ Follows(was, eng) => Follows(img, eng)
  BY <1>1, <1>2, ConfiguredImageHolds
<1>5. /\ new \in SessionStates /\ new # None /\ new.fixed = Topology(atoms)
      /\ new.cache = old.cache /\ new.agreed = old.agreed
      /\ new.configured = old.configured /\ new.deck = old.deck
      /\ MethodOf(new) = MethodOf(old)
  <2>1. new \in SessionStates
    BY <1>1, TopologyType DEF Accepted, SessionStates
  <2> QED BY <1>1, <2>1, MethodType DEF Accepted, MethodOf, SessionStates
<1>6. old.cache # None => old.fixed = new.fixed
  BY <1>1, <1>2, <1>5, AcceptedTopology
<1> HIDE DEF new, img
<1>7. SessionHolds(new, img)
  BY <1>1, <1>4, <1>5, <1>6 DEF SessionHolds
<1>8. active' = s => ActiveReady(new, img, eng')
  BY <1>1, <1>2, <1>4, <1>5 DEF ActiveReady
<1>9. /\ session' \in [Sessions -> {None} \cup SessionStates]
      /\ image' \in [Calculators -> Images]
      /\ active' \in Sessions \cup {None}
      /\ SessionsHold' /\ ActiveHolds'
  BY <1>1, <1>2, <1>4, <1>5, <1>7, <1>8, OneSessionSteps DEF IInv
<1> QED BY <1>1, <1>2, <1>3, <1>9, EnsureInitType DEF IInv, TypeOK, AnswersTheCall

\* A session after an evaluation that reached the engine.
AfterEvaluation(st, atoms, cache) ==
    [Accepted(st, atoms) EXCEPT !.configured = TRUE, !.cache = cache]

LEMMA ComputedHolds ==
    ASSUME NEW old \in SessionStates, NEW was, SessionHolds(old, was),
           NEW atoms \in Arrays, NEW cell \in CellArgs, NEW img, NEW r,
           Proper(r, img, BasisOf(img, atoms, cell), atoms),
           r.ok => r.energy \in Values,
           old.agreed => img.cfg = [knobs |-> MethodOf(old), deck |-> MethodOf(old)],
           NEW cache \in CachesAfter(old, atoms, cell, r)
    PROVE  /\ AfterEvaluation(old, atoms, cache) \in SessionStates
           /\ AfterEvaluation(old, atoms, cache) # None
           /\ AfterEvaluation(old, atoms, cache).agreed = old.agreed
           /\ SessionHolds(AfterEvaluation(old, atoms, cache), r.img)
           /\ ActiveReady(AfterEvaluation(old, atoms, cache), r.img, r.eng)
           /\ old.agreed /\ r.ok =>
                 r.energy = Energy(AskedBasis(MethodOf(old), atoms, cell), atoms)
<1> DEFINE new == AfterEvaluation(old, atoms, cache)
<1>1. cache = None \/ (r.ok /\ cache = CacheEntry(atoms, cell, r.energy))
  BY DEF CachesAfter
<1>2. cache \in {None} \cup CacheEntries
  BY <1>1, CacheEntryType
<1>3. /\ new \in SessionStates /\ new # None /\ new.configured = TRUE
      /\ new.fixed = Topology(atoms) /\ new.cache = cache /\ new.deck = old.deck
      /\ new.agreed = old.agreed /\ MethodOf(new) = MethodOf(old)
  <2>1. new \in SessionStates
    BY <1>2, TopologyType DEF AfterEvaluation, Accepted, SessionStates
  <2> QED BY <2>1, MethodType DEF AfterEvaluation, Accepted, MethodOf, SessionStates
<1> HIDE DEF new
<1>4. MethodOf(old) \in Methods
  BY MethodType
<1>5. old.agreed => BasisOf(img, atoms, cell) = AskedBasis(MethodOf(old), atoms, cell)
  BY <1>4, AnswerIsAsked
<1>6. old.agreed /\ r.ok =>
         r.energy = Energy(AskedBasis(MethodOf(old), atoms, cell), atoms)
  BY <1>5 DEF Proper, Answers
<1>7. SessionHolds(new, r.img)
  <2>1. CASE cache = None
    BY <1>3, <2>1 DEF SessionHolds
  <2>2. CASE r.ok /\ cache = CacheEntry(atoms, cell, r.energy)
    <3>1. /\ cache.atoms = atoms /\ cache.cell = cell /\ cache.energy = r.energy
          /\ cache.grad = Gradient(r.energy, atoms)
      BY <2>2 DEF CacheEntry
    <3>2. /\ r.img.snap = [value |-> r.energy, converged |-> TRUE]
          /\ r.img.stress \in {None, r.energy}
      BY <2>2 DEF Proper, Answers
    <3> QED BY <1>3, <1>6, <2>2, <3>1, <3>2 DEF SessionHolds
  <2> QED BY <1>1, <2>1, <2>2
<1>8. ActiveReady(new, r.img, r.eng)
  BY <1>3 DEF ActiveReady, Proper, Ready
<1> QED BY <1>3, <1>6, <1>7, <1>8 DEF new

LEMMA ComputedInv ==
    ASSUME IInv, NEW s \in Live, NEW atoms \in Arrays, NEW cell \in CellArgs,
           Computed(s, atoms, cell)
    PROVE  IInv' /\ reply' \in Replies
<1> DEFINE old == session[s]
           was == image[s]
           img == ImageInUse(s)
<1>1. /\ s \in Sessions /\ s # None /\ old \in SessionStates /\ was \in Images
      /\ SessionHolds(old, was)
  BY LiveSession
<1>2. PICK r \in EvaluateOn(img, atoms, cell) :
         /\ eng' = r.eng
         /\ image' = [image EXCEPT ![s] = r.img]
         /\ \E cache \in CachesAfter(old, atoms, cell, r) :
               session' = [session EXCEPT ![s] =
                   [Accepted(@, atoms) EXCEPT !.configured = TRUE, !.cache = cache]]
         /\ reply' = Reply(s, MethodOf(old), atoms, cell, FALSE, r)
  BY DEF Computed
<1>3. PICK cache \in CachesAfter(old, atoms, cell, r) :
         session' = [session EXCEPT ![s] =
             [Accepted(@, atoms) EXCEPT !.configured = TRUE, !.cache = cache]]
  BY <1>2
<1> DEFINE new == AfterEvaluation(old, atoms, cache)
<1>4. session' = [session EXCEPT ![s] = new]
  BY <1>1, <1>3 DEF IInv, TypeOK, AfterEvaluation
<1>5. active' = s /\ EnsureInit /\ (NeedsConfigure(s) => Configures(old))
  BY DEF Computed
<1>6. /\ Ready(eng, img)
      /\ old.agreed => img.cfg = [knobs |-> MethodOf(old), deck |-> MethodOf(old)]
  BY <1>5, ImageInUseReady
<1> HIDE DEF old, was, img
<1>7. /\ Proper(r, img, BasisOf(img, atoms, cell), atoms)
      /\ r.ok => r.energy \in Values
  BY <1>6, EvaluateProper
<1>8. /\ new \in SessionStates /\ new # None
      /\ new.agreed = old.agreed
      /\ SessionHolds(new, r.img)
      /\ ActiveReady(new, r.img, r.eng)
      /\ old.agreed /\ r.ok =>
            r.energy = Energy(AskedBasis(MethodOf(old), atoms, cell), atoms)
  BY <1>1, <1>6, <1>7, ComputedHolds
<1>9. r.eng \in Engines /\ Sound(r.eng) /\ r.img \in Images
  BY <1>7 DEF Proper, Ready
<1> HIDE DEF new
<1>10. /\ session' \in [Sessions -> {None} \cup SessionStates]
       /\ image' \in [Calculators -> Images]
       /\ active' \in Sessions \cup {None}
       /\ SessionsHold' /\ ActiveHolds'
  <2>1. TypeOK /\ SessionsHold /\ ActiveHolds
    BY DEF IInv
  <2> QED BY <1>1, <1>2, <1>4, <1>5, <1>8, <1>9, <2>1, OneSessionSteps
<1>11. reply' \in Replies
  <2>1. s \in Calculators \cup {"oneshot"} /\ MethodOf(old) \in Methods
    BY <1>1, MethodType DEF Calculators
  <2> QED BY <1>2, <1>7, <2>1, ReplyType
<1>12. AnswersTheCall'
  <2>1. /\ reply'.who = s /\ reply'.method = MethodOf(old) /\ reply'.atoms = atoms
        /\ reply'.cell = cell /\ reply'.ok = r.ok /\ reply'.energy = r.energy
        /\ r.ok => reply'.grad = Gradient(r.energy, atoms)
    BY <1>2 DEF Reply
  <2>2. s \in Live' /\ session'[s] = new
    BY <1>1, <1>4, <1>8 DEF IInv, TypeOK, Live
  <2>3. (Trusted(reply))' => old.agreed
    BY <1>8, <2>1, <2>2 DEF Trusted
  <2> QED BY <1>8, <2>1, <2>3 DEF AnswersTheCall
<1> QED BY <1>2, <1>5, <1>9, <1>10, <1>11, <1>12, EnsureInitType DEF IInv, TypeOK

-----------------------------------------------------------------------------
(* The plain and the one-shot calls *)

LEMMA PlainImageHolds ==
    ASSUME NEW e \in Engines, Sound(e), NEW m \in Methods,
           image[Plain] \in Images
    PROVE  /\ PlainImage(m) \in Images
           /\ PlainInstalls(m) =>
                 Ready(e, PlainImage(m)) /\ PlainImage(m).cfg = [knobs |-> m, deck |-> m]
<1>1. CASE PlainInstalls(m)
  <2>1. PlainImage(m) = ApplyConfig(image[Plain], m, m)
    BY <1>1 DEF PlainImage, PlainInstalls
  <2>2. Ready(e, ApplyConfig(image[Plain], m, m))
    BY ApplyReady
  <2> QED BY <2>1, <2>2, ApplyReady DEF Ready
<1>2. CASE ~PlainInstalls(m)
  BY <1>2, DetachFollows DEF PlainImage
<1> QED BY <1>1, <1>2

\* A success that is not a session's own.
LEMMA OtherReply ==
    ASSUME NEW who \in {Plain, "oneshot"}, NEW m \in Methods, NEW atoms \in Arrays,
           NEW cell \in CellArgs, NEW img, img.cfg = [knobs |-> m, deck |-> m],
           NEW r, Proper(r, img, BasisOf(img, atoms, cell), atoms),
           r.ok => r.energy \in Values,
           reply' = Reply(who, m, atoms, cell, FALSE, r)
    PROVE  reply' \in Replies /\ AnswersTheCall'
<1>1. reply' \in Replies
  <2>1. who \in Calculators \cup {"oneshot"}
    BY DEF Calculators
  <2> QED BY <2>1, ReplyType
<1>2. r.ok => r.energy = Energy(AskedBasis(m, atoms, cell), atoms)
  BY AnswerIsAsked DEF Proper, Answers
<1>3. /\ reply'.method = m /\ reply'.atoms = atoms /\ reply'.cell = cell
      /\ reply'.ok = r.ok /\ reply'.energy = r.energy
      /\ r.ok => reply'.grad = Gradient(r.energy, atoms)
  BY DEF Reply
<1> QED BY <1>1, <1>2, <1>3 DEF AnswersTheCall

LEMMA PlainSetParamsInv ==
    ASSUME IInv, NEW m \in PlainMethods, PlainSetParams(m)
    PROVE  IInv'
<1>1. /\ TypeOK /\ SessionsHold /\ ActiveHolds
      /\ eng \in Engines /\ Sound(eng) /\ image[Plain] \in Images /\ m \in Methods
  BY MethodsAreMethods DEF IInv, TypeOK, Calculators
<1>2. /\ image' = [image EXCEPT ![Plain] = PlainImage(m)]
      /\ session' = session /\ eng' = eng /\ reply' = None
      /\ active' \in {None, active} /\ lib' \in LibStates
  BY <1>1, EnsureInitType DEF PlainSetParams
<1>3. PlainImage(m) \in Images
  BY <1>1, PlainImageHolds
<1>4. /\ session' \in [Sessions -> {None} \cup SessionStates]
      /\ image' \in [Calculators -> Images]
      /\ active' \in Sessions \cup {None}
      /\ SessionsHold' /\ ActiveHolds'
  BY <1>1, <1>2, <1>3, NoSessionSteps
<1> QED BY <1>1, <1>2, <1>4 DEF IInv, TypeOK, AnswersTheCall

LEMMA PlainEvaluateInv ==
    ASSUME IInv, NEW m \in PlainMethods, NEW atoms \in Arrays, PlainEvaluate(m, atoms)
    PROVE  IInv' /\ reply' \in Replies
<1> DEFINE img == PlainImage(m)
<1>1. /\ TypeOK /\ SessionsHold /\ ActiveHolds
      /\ eng \in Engines /\ Sound(eng) /\ image[Plain] \in Images
      /\ m \in Methods /\ NoCell \in CellArgs
  BY MethodsAreMethods DEF IInv, TypeOK, Calculators, CellArgs
<1>2. PICK r \in EvaluateOn(img, atoms, NoCell) :
         /\ eng' = r.eng
         /\ image' = [image EXCEPT ![Plain] = r.img]
         /\ reply' = Reply(Plain, m, atoms, NoCell, FALSE, r)
  BY DEF PlainEvaluate
<1>3. session' = session /\ active' = None /\ EnsureInit /\ PlainInstalls(m)
  BY DEF PlainEvaluate
<1>4. Ready(eng, img) /\ img.cfg = [knobs |-> m, deck |-> m]
  BY <1>1, <1>3, PlainImageHolds
<1> HIDE DEF img
<1>5. /\ Proper(r, img, BasisOf(img, atoms, NoCell), atoms)
      /\ r.ok => r.energy \in Values
  BY <1>1, <1>4, EvaluateProper
<1>6. r.eng \in Engines /\ Sound(r.eng) /\ r.img \in Images
  BY <1>5 DEF Proper, Ready
<1>7. /\ session' \in [Sessions -> {None} \cup SessionStates]
      /\ image' \in [Calculators -> Images]
      /\ active' \in Sessions \cup {None}
      /\ SessionsHold' /\ ActiveHolds'
  BY <1>1, <1>2, <1>3, <1>6, NoSessionSteps
<1>8. reply' \in Replies /\ AnswersTheCall'
  BY <1>1, <1>2, <1>4, <1>5, OtherReply
<1> QED BY <1>1, <1>2, <1>3, <1>6, <1>7, <1>8, EnsureInitType DEF IInv, TypeOK

LEMMA CalculateOnceInv ==
    ASSUME IInv, NEW m \in OnceMethods, NEW atoms \in Arrays, NEW cell \in CellArgs,
           CalculateOnce(m, atoms, cell)
    PROVE  IInv' /\ reply' \in Replies
<1> DEFINE st  == NewSession(m)
           img == ConfiguredImage(NewImage, st)
<1>1. /\ TypeOK /\ SessionsHold /\ ActiveHolds
      /\ eng \in Engines /\ Sound(eng) /\ m \in Methods
      /\ st \in SessionStates /\ MethodOf(st) = m /\ st.deck = m
  BY MethodsAreMethods, NewSessionType DEF IInv, TypeOK
<1>2. image' = image /\ session' = session /\ EnsureInit /\ lib' \in LibStates
  BY <1>1, EnsureInitType DEF CalculateOnce
<1>3. CASE /\ ~Configures(st)
           /\ reply' = Reply("oneshot", m, atoms, cell, FALSE, Failure)
           /\ UNCHANGED <<eng, active>>
  <2>1. reply' \in Replies /\ ~reply'.ok
    BY <1>1, <1>3, FailureReplyType
  <2>2. /\ session' \in [Sessions -> {None} \cup SessionStates]
        /\ image' \in [Calculators -> Images]
        /\ active' \in Sessions \cup {None}
        /\ SessionsHold' /\ ActiveHolds'
    BY <1>1, <1>2, <1>3, NewImageType, NoSessionSteps
  <2> QED BY <1>1, <1>2, <1>3, <2>1, <2>2 DEF IInv, TypeOK, AnswersTheCall
<1>4. CASE /\ Configures(st)
           /\ active' = None
           /\ \E r \in EvaluateOn(img, atoms, cell) :
                 /\ eng' = r.eng
                 /\ reply' = Reply("oneshot", m, atoms, cell, FALSE, r)
  <2>1. PICK r \in EvaluateOn(img, atoms, cell) :
           /\ eng' = r.eng
           /\ reply' = Reply("oneshot", m, atoms, cell, FALSE, r)
    BY <1>4
  <2> HIDE DEF st
  <2>2. Ready(eng, img) /\ img.cfg = [knobs |-> m, deck |-> m]
    BY <1>1, <1>4, NewImageType, ConfiguredImageHolds
  <2> HIDE DEF img
  <2>3. /\ Proper(r, img, BasisOf(img, atoms, cell), atoms)
        /\ r.ok => r.energy \in Values
    BY <2>2, EvaluateProper
  <2>4. r.eng \in Engines /\ Sound(r.eng)
    BY <2>3 DEF Proper, Ready
  <2>5. /\ session' \in [Sessions -> {None} \cup SessionStates]
        /\ image' \in [Calculators -> Images]
        /\ active' \in Sessions \cup {None}
        /\ SessionsHold' /\ ActiveHolds'
    BY <1>1, <1>2, <1>4, NewImageType, NoSessionSteps
  <2>6. reply' \in Replies /\ AnswersTheCall'
    BY <1>1, <2>1, <2>2, <2>3, OtherReply
  <2> QED BY <1>2, <2>1, <2>4, <2>5, <2>6 DEF IInv, TypeOK
<1> QED BY <1>3, <1>4 DEF CalculateOnce

LEMMA FinalizeInv ==
    ASSUME IInv, Finalize
    PROVE  IInv'
<1> DEFINE was == image[Plain]
           img == [was EXCEPT !.cfg = IF @ = None THEN None ELSE [@ EXCEPT !.deck = None]]
<1>1. TypeOK /\ SessionsHold /\ ActiveHolds /\ was \in Images /\ Sound(eng)
  BY DEF IInv, TypeOK, Calculators
<1>2. /\ image' = [image EXCEPT ![Plain] = img] /\ session' = session /\ eng' = eng
      /\ active' = None /\ reply' = None /\ lib' \in LibStates
  BY <1>1 DEF Finalize, TypeOK, LibStates, Calculators
<1>3. img \in Images
  <2> HIDE DEF was
  <2> QED BY <1>1 DEF Images
<1> HIDE DEF img
<1>4. /\ session' \in [Sessions -> {None} \cup SessionStates]
      /\ image' \in [Calculators -> Images]
      /\ active' \in Sessions \cup {None}
      /\ SessionsHold' /\ ActiveHolds'
  BY <1>1, <1>2, <1>3, NoSessionSteps
<1> QED BY <1>1, <1>2, <1>4 DEF IInv, TypeOK, AnswersTheCall

-----------------------------------------------------------------------------
(* The theorems *)

LEMMA EvaluateInv ==
    ASSUME IInv, NEW s \in Sessions, NEW atoms \in Arrays, NEW cell \in CellArgs,
           SessionEvaluate(s, atoms, cell)
    PROVE  IInv' /\ reply' \in Replies
BY RefusedInv, RepeatedInv, NotConfiguredInv, ComputedInv DEF SessionEvaluate

LEMMA StutterInv == IInv /\ UNCHANGED vars => IInv'
<1> SUFFICES ASSUME IInv, UNCHANGED vars PROVE IInv'
  OBVIOUS
<1> USE DEF vars
<1>1. TypeOK' /\ Sound(eng)'
  BY DEF IInv, TypeOK
<1>2. /\ session' \in [Sessions -> {None} \cup SessionStates]
      /\ image' \in [Calculators -> Images]
      /\ active' \in Sessions \cup {None}
      /\ SessionsHold' /\ ActiveHolds'
  BY NewImageType, NoSessionSteps DEF IInv
<1>3. AnswersTheCall'
  BY DEF IInv, AnswersTheCall, Trusted, Live
<1> QED BY <1>1, <1>2, <1>3 DEF IInv

LEMMA NextInv == IInv /\ [Next]_vars => IInv'
<1> SUFFICES ASSUME IInv, [Next]_vars PROVE IInv'
  OBVIOUS
<1>1. ASSUME NEW s \in Sessions, NEW m \in SessionMethods, SessionCreate(s, m) PROVE IInv'
  BY <1>1, CreateInv
<1>2. ASSUME NEW s \in Sessions, NEW m \in SessionMethods, SessionSetParams(s, m) PROVE IInv'
  BY <1>2, SetParamsInv
<1>3. ASSUME NEW s \in Sessions, SessionDestroy(s) PROVE IInv'
  BY <1>3, DestroyInv
<1>4. ASSUME NEW s \in Sessions, NEW atoms \in Arrays, NEW cell \in CellArgs,
             SessionEvaluate(s, atoms, cell)
      PROVE  IInv'
  BY <1>4, EvaluateInv
<1>5. ASSUME NEW m \in SessionMethods, SessionCreateFails(m) PROVE IInv'
  BY <1>5, CreateFailsInv
<1>6. ASSUME NEW m \in PlainMethods, PlainSetParams(m) PROVE IInv'
  BY <1>6, PlainSetParamsInv
<1>7. ASSUME NEW m \in PlainMethods, NEW atoms \in Arrays, PlainEvaluate(m, atoms) PROVE IInv'
  BY <1>7, PlainEvaluateInv
<1>8. ASSUME NEW m \in OnceMethods, NEW atoms \in Arrays, NEW cell \in CellArgs,
             CalculateOnce(m, atoms, cell)
      PROVE  IInv'
  BY <1>8, CalculateOnceInv
<1>9. CASE Finalize
  BY <1>9, FinalizeInv
<1>10. CASE UNCHANGED vars
  BY <1>10, StutterInv
<1> QED BY <1>1, <1>2, <1>3, <1>4, <1>5, <1>6, <1>7, <1>8, <1>9, <1>10 DEF Next

\* The variables keep the shape of the C and Fortran state, whatever the host's
\* order of calls and however each of them ends.
THEOREM TypeCorrect == Spec => []TypeOK
<1>1. IInv => TypeOK
  BY DEF IInv
<1> QED BY <1>1, InitInv, NextInv, PTL DEF Spec

\* A successful evaluation is the energy and the gradient of the caller's own
\* method, cell and atoms in the caller's order, for any number of sessions,
\* plain and one-shot calls that share the engine.
THEOREM OwnAnswer == Spec => []AnswersTheCall
<1>1. IInv => AnswersTheCall
  BY DEF IInv
<1> QED BY <1>1, InitInv, NextInv, PTL DEF Spec

\* A latched basis is the one that is set up, with orbitals kept for it, and no
\* kept orbitals have another shape.
THEOREM EngineConsistent == Spec => []LatchMatchesSetup
<1>1. IInv => LatchMatchesSetup
  BY DEF IInv, Sound, LatchMatchesSetup
<1> QED BY <1>1, InitInv, NextInv, PTL DEF Spec

\* The active session, which is evaluated without a new configuration, is alive,
\* configured with the method it stands for, and agrees with the latch.
THEOREM ActiveSessionUsable == Spec => []ActiveSessionIsConfigured
<1>1. IInv => ActiveSessionIsConfigured
  <2> SUFFICES ASSUME IInv, active # None
               PROVE  ActiveSessionIsConfigured
    BY DEF ActiveSessionIsConfigured
  <2>1. ActiveReady(session[active], image[active], eng)
    BY DEF IInv, ActiveHolds
  <2>2. active \in Live
    BY <2>1 DEF ActiveReady, IInv, TypeOK, Live
  <2> QED BY <2>1, <2>2
          DEF ActiveReady, Follows, ActiveSessionIsConfigured
<1> QED BY <1>1, InitInv, NextInv, PTL DEF Spec

\* A stored result and the snapshots the getters read are of one evaluation.
THEOREM CacheAndImageAgree == Spec => []CacheMatchesImage
<1>1. IInv => CacheMatchesImage
  BY DEF IInv, SessionsHold, SessionHolds, CacheMatchesImage
<1> QED BY <1>1, InitInv, NextInv, PTL DEF Spec

-----------------------------------------------------------------------------
(* What a step may not do *)

\* A call of a session that leaves its state alone, or only records a result.
LEMMA EvaluateKeeps ==
    ASSUME IInv, NEW s \in Live, NEW atoms \in Arrays, NEW cell \in CellArgs,
           SessionEvaluate(s, atoms, cell), session[s].fixed # None
    PROVE  /\ \A t \in Sessions : t # s => session'[t] = session[t]
           /\ session'[s].fixed = session[s].fixed
           /\ MethodOf(session'[s]) = MethodOf(session[s])
<1> DEFINE old == session[s]
<1>1. s \in Sessions /\ old \in SessionStates
  BY LiveSession
<1>2. CASE session' = session
  BY <1>2
<1>3. CASE /\ Accepts(old, atoms)
           /\ \/ session' = [session EXCEPT ![s] = Accepted(old, atoms)]
              \/ \E cache : session' =
                    [session EXCEPT ![s] = AfterEvaluation(old, atoms, cache)]
  <2>1. old.fixed = Topology(atoms)
    BY <1>1, <1>3, AcceptedTopology
  <2>2. /\ Accepted(old, atoms).fixed = Topology(atoms)
        /\ MethodOf(Accepted(old, atoms)) = MethodOf(old)
    BY <1>1 DEF Accepted, MethodOf, SessionStates
  <2>3. \A cache : /\ AfterEvaluation(old, atoms, cache).fixed = Topology(atoms)
                   /\ MethodOf(AfterEvaluation(old, atoms, cache)) = MethodOf(old)
    BY <1>1 DEF AfterEvaluation, Accepted, MethodOf, SessionStates
  <2>4. session \in [Sessions -> {None} \cup SessionStates]
    BY DEF IInv, TypeOK
  <2>5. CASE session' = [session EXCEPT ![s] = Accepted(old, atoms)]
    BY <1>1, <2>1, <2>2, <2>4, <2>5
  <2>6. ASSUME NEW cache, session' = [session EXCEPT ![s] = AfterEvaluation(old, atoms, cache)]
        PROVE  /\ \A t \in Sessions : t # s => session'[t] = session[t]
               /\ session'[s].fixed = session[s].fixed
               /\ MethodOf(session'[s]) = MethodOf(session[s])
    BY <1>1, <2>1, <2>3, <2>4, <2>6
  <2> QED BY <1>3, <2>5, <2>6
<1>4. \/ session' = session
      \/ /\ Accepts(old, atoms)
         /\ \/ session' = [session EXCEPT ![s] = Accepted(old, atoms)]
            \/ \E cache : session' =
                  [session EXCEPT ![s] = AfterEvaluation(old, atoms, cache)]
  BY DEF SessionEvaluate, TopologyRefused, Repeated, NotConfigured, Computed,
         AfterEvaluation, IInv, TypeOK
<1> QED BY <1>2, <1>3, <1>4

LEMMA TopologyStep ==
    ASSUME IInv, [Next]_vars, NEW t \in Live,
           session[t].fixed # None, session'[t] # None
    PROVE  /\ session'[t].fixed = session[t].fixed
           /\ MethodOf(session'[t]) = MethodOf(session[t])
<1> DEFINE Kept == /\ session'[t].fixed = session[t].fixed
                   /\ MethodOf(session'[t]) = MethodOf(session[t])
<1>1. t \in Sessions /\ session[t] # None /\ session \in [Sessions -> {None} \cup SessionStates]
  BY DEF Live, IInv, TypeOK
<1>2. session'[t] = session[t] => Kept
  OBVIOUS
<1>3. ASSUME NEW s \in Sessions, NEW m \in SessionMethods, SessionCreate(s, m)
      PROVE  session'[t] = session[t]
  BY <1>1, <1>3 DEF SessionCreate
<1>4. ASSUME NEW s \in Sessions, NEW m \in SessionMethods, SessionSetParams(s, m)
      PROVE  session'[t] = session[t]
  <2>1. t # s
    BY <1>4 DEF SessionSetParams
  <2>2. \E st : session' = [session EXCEPT ![s] = st]
    BY <1>4 DEF SessionSetParams
  <2> QED BY <1>1, <2>1, <2>2
<1>5. ASSUME NEW s \in Sessions, SessionDestroy(s)
      PROVE  session'[t] = session[t]
  BY <1>1, <1>5 DEF SessionDestroy
<1>6. ASSUME NEW s \in Sessions, NEW atoms \in Arrays, NEW cell \in CellArgs,
             SessionEvaluate(s, atoms, cell)
      PROVE  Kept
  <2>1. CASE s = t
    BY <1>6, <2>1, EvaluateKeeps
  <2>2. CASE s # t
    <3>1. \E st : session' = [session EXCEPT ![s] = st]
      BY <1>6 DEF SessionEvaluate, TopologyRefused, Repeated, NotConfigured, Computed,
                  IInv, TypeOK
    <3> QED BY <1>1, <2>2, <3>1
  <2> QED BY <2>1, <2>2
<1>7. ASSUME \/ \E m \in SessionMethods : SessionCreateFails(m)
             \/ \E m \in PlainMethods :
                   PlainSetParams(m) \/ \E atoms \in Arrays : PlainEvaluate(m, atoms)
             \/ \E m \in OnceMethods, atoms \in Arrays, cell \in CellArgs :
                   CalculateOnce(m, atoms, cell)
             \/ Finalize
             \/ UNCHANGED vars
      PROVE  session' = session
  BY <1>7 DEF SessionCreateFails, PlainSetParams, PlainEvaluate, CalculateOnce, Finalize, vars
<1> QED BY <1>2, <1>3, <1>4, <1>5, <1>6, <1>7 DEF Next

\* A session that fixed its topology keeps it, and its method, until it is
\* destroyed, whatever is called in between.
THEOREM FrozenTopology == Spec => TopologyFreezesSession
<1>1. IInv /\ [Next]_vars =>
        [\A s \in Live : session[s].fixed # None /\ session'[s] # None =>
            /\ session'[s].fixed = session[s].fixed
            /\ MethodOf(session'[s]) = MethodOf(session[s])]_vars
  BY TopologyStep
<1> QED BY <1>1, InitInv, NextInv, PTL DEF Spec, TopologyFreezesSession

\* A call of session s that fails on the latched basis.
FailsOnLatch(s) ==
    /\ reply' # None /\ ~reply'.ok /\ reply'.who = s /\ Trusted(reply')
    /\ Known(reply'.atoms)
    /\ eng.latch = AskedBasis(reply'.method, reply'.atoms, reply'.cell)
    /\ eng'.setup # None

LEMMA ComputedKeepsLatch ==
    ASSUME IInv, NEW s \in Live, NEW atoms \in Arrays, NEW cell \in CellArgs,
           Computed(s, atoms, cell), FailsOnLatch(s)
    PROVE  eng'.latch = eng.latch /\ eng'.setup = eng.setup
<1> DEFINE old == session[s]
           img == ImageInUse(s)
<1>1. PICK r \in EvaluateOn(img, atoms, cell) :
         /\ eng' = r.eng
         /\ reply' = Reply(s, MethodOf(old), atoms, cell, FALSE, r)
  BY DEF Computed
<1>2. NeedsConfigure(s) => Configures(old)
  BY DEF Computed
<1>3. /\ reply'.who = s /\ reply'.method = MethodOf(old) /\ reply'.atoms = atoms
      /\ reply'.cell = cell /\ reply'.ok = r.ok
  BY <1>1 DEF Reply
<1>4. old.agreed
  BY <1>3 DEF FailsOnLatch, Trusted
<1>5. Ready(eng, img) /\ img.cfg = [knobs |-> MethodOf(old), deck |-> MethodOf(old)]
  BY <1>2, <1>4, ImageInUseReady
<1>6. MethodOf(old) \in Methods /\ atoms \in Seq(Atoms)
  BY LiveSession, MethodType, ArrayType
<1>7. ~r.ok /\ r.eng.setup # None /\ Known(atoms) /\ eng.latch = AskedBasis(MethodOf(old), atoms, cell)
  BY <1>1, <1>3 DEF FailsOnLatch
<1> HIDE DEF old, img
<1>8. eng.latch = BasisOf(img, atoms, cell)
  BY <1>5, <1>6, <1>7, AnswerIsAsked
<1>9. CASE Usable
  BY <1>1, <1>5, <1>6, <1>7, <1>8, <1>9, FailureKeepsLatch DEF EvaluateOn
<1>10. CASE ~Usable
  BY <1>1, <1>10 DEF EvaluateOn, Outcome
<1> QED BY <1>9, <1>10

\* A session that stands for the latched basis is evaluated warm.
LatchedStartsWarm ==
    \A s \in Live, atoms \in Arrays, cell \in CellArgs :
        /\ session[s].agreed /\ Known(atoms)
        /\ eng.latch = AskedBasis(MethodOf(session[s]), atoms, cell)
        => NextStartsWarm(s, atoms, cell)

LEMMA WarmOnLatch == IInv => LatchedStartsWarm
<1> SUFFICES ASSUME IInv, NEW s \in Live, NEW atoms \in Arrays, NEW cell \in CellArgs,
                    session[s].agreed, Known(atoms),
                    eng.latch = AskedBasis(MethodOf(session[s]), atoms, cell),
                    NeedsConfigure(s) => Configures(session[s])
             PROVE  StartsWarm(eng, ImageInUse(s), BasisOf(ImageInUse(s), atoms, cell), atoms)
  BY DEF LatchedStartsWarm, NextStartsWarm
<1> DEFINE img == ImageInUse(s)
           m == MethodOf(session[s])
<1>1. Ready(eng, img) /\ img.cfg = [knobs |-> m, deck |-> m]
  BY ImageInUseReady
<1>2. m \in Methods /\ atoms \in Seq(Atoms)
  BY LiveSession, MethodType, ArrayType
<1> HIDE DEF img, m
<1>3. eng.latch = BasisOf(img, atoms, cell)
  BY <1>1, <1>2, AnswerIsAsked DEF m
<1>4. StartsWarm(eng, img, BasisOf(img, atoms, cell), atoms)
  BY <1>1, <1>2, <1>3, LatchedIsWarm
<1> QED BY <1>4 DEF img

-----------------------------------------------------------------------------
(* The session layer implements the promise, for any number of sessions,      *)
(* methods, cells, atoms and arrays: every step is a step of CpmdcPromise or  *)
(* leaves what it speaks of alone.                                            *)

methodBar == [s \in Sessions |-> PromisedMethod(session[s])]
fixedBar == [s \in Sessions |-> IF session[s] = None THEN None ELSE session[s].fixed]

LEMMA BarsAre ==
    /\ Promise!vars = <<methodBar, fixedBar, reply>>
    /\ Promise!Init <=> /\ methodBar = [s \in Sessions |-> None]
                        /\ fixedBar = [s \in Sessions |-> None]
                        /\ reply = None
BY DEF Promise!vars, Promise!Init, methodBar, fixedBar

\* A step that only replaces the state of session s replaces only its entry.
LEMMA OneBarSteps ==
    ASSUME TypeOK, NEW s \in Sessions, NEW st,
           session' = [session EXCEPT ![s] = st]
    PROVE  /\ methodBar' = [methodBar EXCEPT ![s] = PromisedMethod(st)]
           /\ fixedBar' = [fixedBar EXCEPT ![s] = IF st = None THEN None ELSE st.fixed]
<1> DEFINE F(x) == IF x = None THEN None ELSE x.fixed
<1>1. session \in [Sessions -> {None} \cup SessionStates]
  BY DEF TypeOK
<1>2. \A t \in Sessions : session'[t] = IF t = s THEN st ELSE session[t]
  BY <1>1
<1>3. /\ methodBar' = [t \in Sessions |-> PromisedMethod(session'[t])]
      /\ methodBar = [t \in Sessions |-> PromisedMethod(session[t])]
  BY DEF methodBar, PromisedMethod, MethodOf
<1>4. /\ fixedBar' = [t \in Sessions |-> F(session'[t])]
      /\ fixedBar = [t \in Sessions |-> F(session[t])]
  BY DEF fixedBar
<1>5. methodBar' = [methodBar EXCEPT ![s] = PromisedMethod(st)]
  <2>1. \A t \in Sessions : PromisedMethod(session'[t])
           = IF t = s THEN PromisedMethod(st) ELSE PromisedMethod(session[t])
    BY <1>2
  <2> QED BY <1>3, <2>1
<1>6. fixedBar' = [fixedBar EXCEPT ![s] = F(st)]
  <2>1. \A t \in Sessions : F(session'[t]) = IF t = s THEN F(st) ELSE F(session[t])
    BY <1>2
  <2> QED BY <1>4, <2>1
<1> QED BY <1>5, <1>6

LEMMA SameBars ==
    ASSUME session' = session
    PROVE  methodBar' = methodBar /\ fixedBar' = fixedBar
BY DEF methodBar, fixedBar, PromisedMethod, MethodOf

\* What the promise calls a session's method.
LEMMA MethodPromised ==
    ASSUME NEW st \in SessionStates
    PROVE  /\ st # None
           /\ PromisedMethod(st) = IF st.agreed THEN MethodOf(st) ELSE Unsettled
           /\ PromisedMethod(st) # None
           /\ PromisedMethod(st) \in Methods \cup {Unsettled}
<1>1. st # None /\ MethodOf(st) \in Methods
  BY MethodType
<1> QED BY <1>1, UnsettledIsNoMethod DEF PromisedMethod

PromiseStep == Promise!Next \/ UNCHANGED Promise!vars

LEMMA PromisedStep ==
    \/ \E s \in Sessions :
          \/ \E m \in Methods \cup {Unsettled} : Promise!Open(s, m) \/ Promise!Settle(s, m)
          \/ Promise!Close(s)
          \/ \E atoms \in Arrays : Promise!AnswerSession(s, atoms)
    \/ Promise!OtherCall
    \/ Promise!AnswerOnce
    => PromiseStep
BY DEF PromiseStep, Promise!Next, Promise!Methods, Methods

LEMMA QuietStep ==
    ASSUME session' = session, reply' = None
    PROVE  PromiseStep
<1>1. Promise!OtherCall
  BY SameBars DEF Promise!OtherCall, methodBar, fixedBar
<1> QED BY <1>1, PromisedStep

-----------------------------------------------------------------------------
(* One lemma per call *)

LEMMA CreatePromised ==
    ASSUME TypeOK, NEW s \in Sessions, NEW m \in SessionMethods, SessionCreate(s, m)
    PROVE  PromiseStep
<1> DEFINE st == [NewSession(m) EXCEPT !.configured = Configures(NewSession(m))]
<1>1. /\ session[s] = None /\ reply' = None
      /\ session' = [session EXCEPT ![s] = st]
  BY DEF SessionCreate
<1>2. m \in Methods
  BY MethodsAreMethods
<1>3. /\ st # None /\ st.agreed /\ st.fixed = None
      /\ MethodOf(st) = m
  <2>1. NewSession(m) \in SessionStates
    BY <1>2, NewSessionType
  <2>2. st \in SessionStates
    BY <2>1 DEF SessionStates, Configures, Usable
  <2> QED BY <1>2, <2>2, MethodType DEF NewSession, MethodOf, Methods
<1>4. PromisedMethod(st) = m
  BY <1>3 DEF PromisedMethod
<1> HIDE DEF st
<1>5. /\ methodBar' = [methodBar EXCEPT ![s] = m]
      /\ fixedBar' = [fixedBar EXCEPT ![s] = None]
  <2>1. /\ methodBar' = [methodBar EXCEPT ![s] = PromisedMethod(st)]
        /\ fixedBar' = [fixedBar EXCEPT ![s] = IF st = None THEN None ELSE st.fixed]
    BY <1>1, OneBarSteps
  <2> QED BY <1>3, <1>4, <2>1
<1>6. methodBar[s] = None /\ fixedBar[s] = None
  BY <1>1 DEF methodBar, fixedBar, PromisedMethod
<1>7. fixedBar' = fixedBar
  BY <1>5, <1>6 DEF fixedBar
<1>8. Promise!Open(s, m)
  BY <1>1, <1>5, <1>6, <1>7 DEF Promise!Open, methodBar, fixedBar
<1> QED BY <1>2, <1>8, PromisedStep

LEMMA SetParamsPromised ==
    ASSUME TypeOK, NEW s \in Sessions, NEW m \in SessionMethods, SessionSetParams(s, m)
    PROVE  PromiseStep
<1> DEFINE over == [session[s] EXCEPT !.overlay = m.overlay, !.agreed = FALSE]
           st   == [over EXCEPT !.params = m.params, !.deck = m]
           done == [st EXCEPT !.agreed = TRUE, !.configured = TRUE]
<1>1. /\ session[s] \in SessionStates /\ session[s] # None
      /\ session[s].fixed = None /\ reply' = None
  BY NoneIsNoState DEF SessionSetParams, Live, TypeOK
<1>2. m \in Methods
  BY MethodsAreMethods
<1>3. /\ over \in SessionStates /\ st \in SessionStates /\ done \in SessionStates
      /\ ~over.agreed /\ ~st.agreed /\ done.agreed
      /\ over.fixed = None /\ st.fixed = None /\ done.fixed = None
      /\ MethodOf(done) = m
  BY <1>1, <1>2 DEF SessionStates, Methods, MethodOf
<1>4. ASSUME NEW new \in {over, st, done}, session' = [session EXCEPT ![s] = new]
      PROVE  PromiseStep
  <2>1. /\ new \in SessionStates /\ new.fixed = None
        /\ PromisedMethod(new) \in Methods \cup {Unsettled} /\ new # None
    BY <1>3, MethodPromised
  <2>2. /\ methodBar' = [methodBar EXCEPT ![s] = PromisedMethod(new)]
        /\ fixedBar' = [fixedBar EXCEPT ![s] = None]
    BY <1>4, <2>1, OneBarSteps
  <2>3. methodBar[s] # None /\ fixedBar[s] = None
    BY <1>1, MethodPromised DEF methodBar, fixedBar
  <2>4. fixedBar' = fixedBar
    BY <2>2, <2>3 DEF fixedBar
  <2>5. Promise!Settle(s, PromisedMethod(new))
    BY <1>1, <2>2, <2>3, <2>4 DEF Promise!Settle, methodBar, fixedBar
  <2> QED BY <2>1, <2>5, PromisedStep
<1>5. \/ session' = [session EXCEPT ![s] = over]
      \/ session' = [session EXCEPT ![s] = st]
      \/ session' = [session EXCEPT ![s] = done]
  BY DEF SessionSetParams
<1> QED BY <1>4, <1>5

LEMMA DestroyPromised ==
    ASSUME TypeOK, NEW s \in Sessions, SessionDestroy(s)
    PROVE  PromiseStep
<1>1. /\ session[s] \in SessionStates /\ reply' = None
      /\ session' = [session EXCEPT ![s] = None]
  BY DEF SessionDestroy, Live, TypeOK
<1>2. /\ methodBar' = [methodBar EXCEPT ![s] = None]
      /\ fixedBar' = [fixedBar EXCEPT ![s] = None]
  BY <1>1, OneBarSteps DEF PromisedMethod
<1>3. methodBar[s] # None
  BY <1>1, MethodPromised DEF methodBar
<1>4. Promise!Close(s)
  BY <1>1, <1>2, <1>3 DEF Promise!Close, methodBar, fixedBar
<1> QED BY <1>4, PromisedStep

\* An evaluation leaves the session's parameters as they are, and holds it to
\* the topology it accepts.
LEMMA EvaluateSettles ==
    ASSUME IInv, NEW s \in Live, NEW atoms \in Arrays, NEW cell \in CellArgs,
           SessionEvaluate(s, atoms, cell)
    PROVE  /\ methodBar' = methodBar
           /\ s \in Live' /\ session'[s].agreed = session[s].agreed
           /\ reply' # None /\ reply'.who = s /\ reply'.atoms = atoms
           /\ reply'.method = MethodOf(session[s])
           /\ \/ /\ Accepts(session[s], atoms)
                 /\ fixedBar' = [fixedBar EXCEPT ![s] = Topology(atoms)]
              \/ /\ ~Accepts(session[s], atoms) /\ ~reply'.ok
                 /\ fixedBar' = fixedBar
<1> DEFINE old == session[s]
<1>1. s \in Sessions /\ old \in SessionStates /\ TypeOK
  BY LiveSession DEF IInv
<1>2. \A t \in Sessions : session[t] \in {None} \cup SessionStates
  BY <1>1 DEF TypeOK
<1>3. Topology(atoms) # None
  BY NoneIsNoState, TopologyType, ArrayType
<1>4. ASSUME NEW st \in SessionStates, session' = [session EXCEPT ![s] = st],
             MethodOf(st) = MethodOf(old), st.agreed = old.agreed, st.fixed = Topology(atoms)
      PROVE  /\ methodBar' = methodBar
             /\ s \in Live' /\ session'[s].agreed = session[s].agreed
             /\ fixedBar' = [fixedBar EXCEPT ![s] = Topology(atoms)]
  <2>1. /\ methodBar' = [methodBar EXCEPT ![s] = PromisedMethod(st)]
        /\ fixedBar' = [fixedBar EXCEPT ![s] = Topology(atoms)]
    <3>1. fixedBar' = [fixedBar EXCEPT ![s] = IF st = None THEN None ELSE st.fixed]
      BY <1>1, <1>4, OneBarSteps
    <3>2. methodBar' = [methodBar EXCEPT ![s] = PromisedMethod(st)]
      BY <1>1, <1>4, OneBarSteps
    <3>3. st # None
      BY MethodPromised
    <3> QED BY <1>4, <3>1, <3>2, <3>3
  <2>2. PromisedMethod(st) = methodBar[s]
    BY <1>1, <1>4, MethodPromised DEF methodBar
  <2>3. session'[s] = st /\ st # None
    BY <1>1, <1>4, MethodPromised DEF TypeOK
  <2> QED BY <1>1, <1>4, <2>1, <2>2, <2>3 DEF methodBar, Live
<1>6. reply' # None
  <2>1. reply' \in Replies
    BY <1>1, EvaluateInv
  <2> QED BY <2>1, NoneIsNoReply
<1>8. /\ Accepted(old, atoms) \in SessionStates
      /\ MethodOf(Accepted(old, atoms)) = MethodOf(old)
      /\ Accepted(old, atoms).agreed = old.agreed
      /\ Accepted(old, atoms).fixed = Topology(atoms)
  BY <1>1, TopologyType DEF Accepted, SessionStates, MethodOf
<1>5. CASE TopologyRefused(s, atoms, cell)
  <2>1. /\ session' = session /\ ~Accepts(old, atoms)
        /\ reply' = Reply(s, MethodOf(old), atoms, cell, FALSE, Failure)
    BY <1>5 DEF TopologyRefused
  <2>2. s \in Live'
    BY <2>1, <1>1 DEF Live
  <2>3. /\ reply'.who = s /\ reply'.atoms = atoms /\ reply'.method = MethodOf(old)
        /\ ~reply'.ok
    BY <2>1 DEF Reply, Failure
  <2> QED BY <2>1, <2>2, <2>3, <1>6, SameBars
<1>7. CASE Repeated(s, atoms, cell)
  <2>1. /\ session' = [session EXCEPT ![s] = Accepted(old, atoms)]
        /\ Accepts(old, atoms)
        /\ reply' = [Reply(s, MethodOf(old), atoms, cell, TRUE,
                            [ok |-> TRUE, energy |-> old.cache.energy])
                      EXCEPT !.grad = CachedGradient(old.cache, atoms)]
    BY <1>1, <1>7 DEF Repeated, TypeOK
  <2>2. /\ reply'.who = s /\ reply'.atoms = atoms /\ reply'.method = MethodOf(old)
    BY <2>1 DEF Reply
  <2> QED BY <1>4, <1>6, <1>8, <2>1, <2>2
<1>9. CASE NotConfigured(s, atoms, cell)
  <2>1. /\ session' = [session EXCEPT ![s] = Accepted(old, atoms)]
        /\ Accepts(old, atoms)
        /\ reply' = Reply(s, MethodOf(old), atoms, cell, FALSE, Failure)
    BY <1>1, <1>9 DEF NotConfigured, TypeOK
  <2>2. /\ reply'.who = s /\ reply'.atoms = atoms /\ reply'.method = MethodOf(old)
    BY <2>1 DEF Reply
  <2> QED BY <1>4, <1>6, <1>8, <2>1, <2>2
<1>10. CASE Computed(s, atoms, cell)
  <2>0. PICK r \in EvaluateOn(ImageInUse(s), atoms, cell) :
           /\ \E cache \in CachesAfter(old, atoms, cell, r) :
                session' = [session EXCEPT ![s] = AfterEvaluation(old, atoms, cache)]
           /\ reply' = Reply(s, MethodOf(old), atoms, cell, FALSE, r)
    BY <1>1, <1>10 DEF Computed, AfterEvaluation, TypeOK
  <2>1. PICK cache \in CachesAfter(old, atoms, cell, r) :
           session' = [session EXCEPT ![s] = AfterEvaluation(old, atoms, cache)]
    BY <2>0
  <2>2. Accepts(old, atoms) /\ (NeedsConfigure(s) => Configures(old))
    BY <1>10 DEF Computed
  <2>3. /\ Ready(eng, ImageInUse(s))
        /\ old.agreed => ImageInUse(s).cfg = [knobs |-> MethodOf(old), deck |-> MethodOf(old)]
    BY <2>2, ImageInUseReady
  <2>4. /\ Proper(r, ImageInUse(s), BasisOf(ImageInUse(s), atoms, cell), atoms)
        /\ r.ok => r.energy \in Values
    BY <2>3, EvaluateProper
  <2>5. /\ AfterEvaluation(old, atoms, cache) \in SessionStates
        /\ AfterEvaluation(old, atoms, cache).agreed = old.agreed
    <3>1. SessionHolds(old, image[s])
      BY LiveSession
    <3> QED BY <1>1, <2>1, <2>3, <2>4, <3>1, ComputedHolds
  <2>6. /\ MethodOf(AfterEvaluation(old, atoms, cache)) = MethodOf(old)
        /\ AfterEvaluation(old, atoms, cache).fixed = Topology(atoms)
    BY <1>1 DEF AfterEvaluation, Accepted, MethodOf, SessionStates
  <2>7. reply'.who = s /\ reply'.atoms = atoms /\ reply'.method = MethodOf(old)
    BY <2>0 DEF Reply
  <2> QED BY <1>4, <1>6, <2>0, <2>1, <2>2, <2>5, <2>6, <2>7
<1> QED BY <1>5, <1>7, <1>9, <1>10 DEF SessionEvaluate

LEMMA EvaluatePromised ==
    ASSUME IInv, NEW s \in Live, NEW atoms \in Arrays, NEW cell \in CellArgs,
           SessionEvaluate(s, atoms, cell)
    PROVE  PromiseStep
<1>1. /\ s \in Sessions /\ session[s] \in SessionStates
      /\ AnswersTheCall'
  <2>1. s \in Sessions /\ session[s] \in SessionStates
    BY LiveSession
  <2>2. IInv'
    BY <2>1, EvaluateInv
  <2> QED BY <2>1, <2>2 DEF IInv
<1>2. /\ methodBar' = methodBar
      /\ s \in Live' /\ session'[s].agreed = session[s].agreed
      /\ reply' # None /\ reply'.who = s /\ reply'.atoms = atoms
      /\ reply'.method = MethodOf(session[s])
      /\ \/ /\ Accepts(session[s], atoms)
            /\ fixedBar' = [fixedBar EXCEPT ![s] = Topology(atoms)]
         \/ /\ ~Accepts(session[s], atoms) /\ ~reply'.ok
            /\ fixedBar' = fixedBar
  BY EvaluateSettles
<1>3. /\ methodBar[s] = IF session[s].agreed THEN MethodOf(session[s]) ELSE Unsettled
      /\ methodBar[s] # None
      /\ fixedBar[s] = session[s].fixed
  BY <1>1, MethodPromised DEF methodBar, fixedBar
<1>4. /\ Promise!Holds(fixedBar[s], atoms) <=> Accepts(session[s], atoms)
      /\ Promise!TopologyOf(atoms) = Topology(atoms)
  BY <1>3 DEF Promise!Holds, Promise!TopologyOf, Accepts, Topology,
              Promise!Known, Known, Promise!Composition, Composition, Promise!Cardinality, Cardinality
<1>5. ASSUME methodBar[s] # Unsettled
      PROVE  /\ reply'.method = methodBar[s]
             /\ reply'.ok => Promise!FromScratch(reply')
  <2>1. session[s].agreed
    BY <1>3, <1>5
  <2>2. reply'.method = methodBar[s]
    BY <1>2, <1>3, <2>1
  <2>3. ASSUME reply'.ok PROVE Promise!FromScratch(reply')
    <3>1. Trusted(reply)'
      BY <1>2, <2>1 DEF Trusted
    <3>2. /\ reply'.energy = Energy(AskedBasis(reply'.method, reply'.atoms, reply'.cell), reply'.atoms)
          /\ reply'.grad = Gradient(reply'.energy, reply'.atoms)
      BY <1>1, <1>2, <2>3, <3>1 DEF AnswersTheCall
    <3> QED BY <3>2 DEF Promise!FromScratch, AskedBasis, Promise!Composition, Composition, Promise!Cardinality, Cardinality,
                        Promise!Gradient, Gradient, Promise!Energy, Energy,
                          Promise!Range, Range
  <2> QED BY <2>2, <2>3
<1>6. /\ \/ /\ Promise!Holds(fixedBar[s], atoms)
            /\ fixedBar' = [fixedBar EXCEPT ![s] = Promise!TopologyOf(atoms)]
         \/ /\ ~Promise!Holds(fixedBar[s], atoms)
            /\ ~reply'.ok
            /\ fixedBar' = fixedBar
  BY <1>2, <1>4
<1>7. Promise!AnswerSession(s, atoms)
  BY <1>2, <1>3, <1>5, <1>6 DEF Promise!AnswerSession, methodBar, fixedBar
<1> QED BY <1>1, <1>7, PromisedStep

\* The calls that bring their own method.
LEMMA OncePromised ==
    ASSUME AnswersTheCall', reply' \in Replies, session' = session,
           reply'.who \in {Plain, "oneshot"}
    PROVE  PromiseStep
<1>1. Trusted(reply)'
  BY PlainIsApart DEF Trusted, Live
<1>2. reply' # None
  BY NoneIsNoReply
<1>3. ASSUME reply'.ok PROVE Promise!FromScratch(reply')
  <2>1. /\ reply'.energy = Energy(AskedBasis(reply'.method, reply'.atoms, reply'.cell), reply'.atoms)
        /\ reply'.grad = Gradient(reply'.energy, reply'.atoms)
    BY <1>1, <1>2, <1>3 DEF AnswersTheCall
  <2> QED BY <2>1 DEF Promise!FromScratch, AskedBasis, Promise!Composition, Composition, Promise!Cardinality, Cardinality,
                      Promise!Gradient, Gradient, Promise!Energy, Energy,
                          Promise!Range, Range
<1>4. Promise!AnswerOnce
  BY <1>2, <1>3, SameBars DEF Promise!AnswerOnce, methodBar, fixedBar
<1> QED BY <1>4, PromisedStep

LEMMA PlainPromised ==
    ASSUME IInv, NEW m \in PlainMethods, NEW atoms \in Arrays, PlainEvaluate(m, atoms)
    PROVE  PromiseStep
<1>1. IInv' /\ reply' \in Replies
  BY PlainEvaluateInv
<1>2. session' = session /\ reply'.who = Plain
  BY DEF PlainEvaluate, Reply
<1> QED BY <1>1, <1>2, OncePromised DEF IInv

LEMMA CalculatePromised ==
    ASSUME IInv, NEW m \in OnceMethods, NEW atoms \in Arrays, NEW cell \in CellArgs,
           CalculateOnce(m, atoms, cell)
    PROVE  PromiseStep
<1>1. IInv' /\ reply' \in Replies
  BY CalculateOnceInv
<1>2. session' = session /\ reply'.who = "oneshot"
  BY DEF CalculateOnce, Reply
<1> QED BY <1>1, <1>2, OncePromised DEF IInv

LEMMA NextPromised == IInv /\ [Next]_vars => PromiseStep
<1> SUFFICES ASSUME IInv, [Next]_vars PROVE PromiseStep
  OBVIOUS
<1>1. TypeOK
  BY DEF IInv
<1>2. ASSUME NEW s \in Sessions, NEW m \in SessionMethods, SessionCreate(s, m) PROVE PromiseStep
  BY <1>1, <1>2, CreatePromised
<1>3. ASSUME NEW s \in Sessions, NEW m \in SessionMethods, SessionSetParams(s, m) PROVE PromiseStep
  BY <1>1, <1>3, SetParamsPromised
<1>4. ASSUME NEW s \in Sessions, SessionDestroy(s) PROVE PromiseStep
  BY <1>1, <1>4, DestroyPromised
<1>5. ASSUME NEW s \in Sessions, NEW atoms \in Arrays, NEW cell \in CellArgs,
             SessionEvaluate(s, atoms, cell)
      PROVE  PromiseStep
  <2>1. s \in Live
    BY <1>5 DEF SessionEvaluate
  <2> QED BY <1>5, <2>1, EvaluatePromised
<1>6. ASSUME NEW m \in SessionMethods, SessionCreateFails(m) PROVE PromiseStep
  BY <1>6, QuietStep DEF SessionCreateFails
<1>7. ASSUME NEW m \in PlainMethods, PlainSetParams(m) PROVE PromiseStep
  BY <1>7, QuietStep DEF PlainSetParams
<1>8. ASSUME NEW m \in PlainMethods, NEW atoms \in Arrays, PlainEvaluate(m, atoms) PROVE PromiseStep
  BY <1>8, PlainPromised
<1>9. ASSUME NEW m \in OnceMethods, NEW atoms \in Arrays, NEW cell \in CellArgs,
             CalculateOnce(m, atoms, cell)
      PROVE  PromiseStep
  BY <1>9, CalculatePromised
<1>10. CASE Finalize
  BY <1>10, QuietStep DEF Finalize
<1>11. CASE UNCHANGED vars
  <2>1. session' = session /\ reply' = reply
    BY <1>11 DEF vars
  <2>2. UNCHANGED <<methodBar, fixedBar, reply>>
    BY <2>1, SameBars
  <2>3. UNCHANGED Promise!vars
    BY <2>2 DEF Promise!vars, methodBar, fixedBar
  <2> QED BY <2>3 DEF PromiseStep
<1> QED BY <1>2, <1>3, <1>4, <1>5, <1>6, <1>7, <1>8, <1>9, <1>10, <1>11 DEF Next

\* Warm starts, stored results, reordered atoms and the one shared engine stay
\* invisible: whatever the host calls, the library answers like one that
\* computes every call from scratch, or fails it.
THEOREM KeepsThePromise == Spec => ImplementsPromise
<1>1. Init => Promise!Init
  <2> SUFFICES ASSUME Init PROVE Promise!Init
    OBVIOUS
  <2>1. /\ methodBar = [s \in Sessions |-> None]
        /\ fixedBar = [s \in Sessions |-> None]
        /\ reply = None
    BY DEF Init, methodBar, fixedBar, PromisedMethod
  <2> QED BY <2>1, BarsAre
<1>2. IInv /\ [Next]_vars => [Promise!Next]_(Promise!vars)
  BY NextPromised DEF PromiseStep
<1> QED BY <1>1, <1>2, InitInv, NextInv, PTL DEF Spec, ImplementsPromise, Promise!Spec

-----------------------------------------------------------------------------
(* A failed call on the latched basis *)

\* The calls that reply to a session leave it standing for the same method.
LEMMA ReplyToSession ==
    ASSUME IInv, Next, NEW s \in Live, reply' # None, reply'.who = s
    PROVE  \E atoms \in Arrays, cell \in CellArgs :
              /\ reply'.method = MethodOf(session[s])
              /\ reply'.atoms = atoms /\ reply'.cell = cell
              /\ s \in Live' /\ session'[s].agreed = session[s].agreed
              /\ session[s].agreed => MethodOf(session'[s]) = MethodOf(session[s])
              /\ eng' = eng \/ Computed(s, atoms, cell)
<1>1. s \in Sessions /\ s # Plain /\ s # "oneshot"
  BY PlainIsApart DEF Live
<1>2. session \in [Sessions -> {None} \cup SessionStates] /\ session[s] \in SessionStates
  BY LiveSession DEF IInv, TypeOK
<1>3. PICK t \in Sessions, atoms \in Arrays, cell \in CellArgs : SessionEvaluate(t, atoms, cell)
  <2>1. ASSUME NEW m \in PlainMethods, NEW atoms \in Arrays, PlainEvaluate(m, atoms)
        PROVE  FALSE
    BY <1>1, <2>1 DEF PlainEvaluate, Reply
  <2>2. ASSUME NEW m \in OnceMethods, NEW atoms \in Arrays, NEW cell \in CellArgs,
               CalculateOnce(m, atoms, cell)
        PROVE  FALSE
    BY <1>1, <2>2 DEF CalculateOnce, Reply
  <2>3. ASSUME \/ \E t \in Sessions :
                     \/ \E m \in SessionMethods : SessionCreate(t, m) \/ SessionSetParams(t, m)
                     \/ SessionDestroy(t)
               \/ \E m \in SessionMethods : SessionCreateFails(m)
               \/ \E m \in PlainMethods : PlainSetParams(m)
               \/ Finalize
        PROVE  FALSE
    BY <2>3 DEF SessionCreate, SessionSetParams, SessionDestroy, SessionCreateFails,
                PlainSetParams, Finalize
  <2> QED BY <2>1, <2>2, <2>3 DEF Next
<1>4. /\ reply'.who = t /\ reply'.method = MethodOf(session[t])
      /\ reply'.atoms = atoms /\ reply'.cell = cell
  <2> DEFINE m == MethodOf(session[t])
  <2>1. \/ \E cached, r : reply' = Reply(t, m, atoms, cell, cached, r)
        \/ \E cached, r, g : reply' = [Reply(t, m, atoms, cell, cached, r) EXCEPT !.grad = g]
    <3>1. CASE TopologyRefused(t, atoms, cell)
      BY <3>1 DEF TopologyRefused
    <3>2. CASE Repeated(t, atoms, cell)
      BY <3>2 DEF Repeated
    <3>3. CASE NotConfigured(t, atoms, cell)
      BY <3>3 DEF NotConfigured
    <3>4. CASE Computed(t, atoms, cell)
      BY <3>4 DEF Computed
    <3> QED BY <1>3, <3>1, <3>2, <3>3, <3>4 DEF SessionEvaluate
  <2> HIDE DEF m
  <2>2. /\ reply'.who = t /\ reply'.method = m
        /\ reply'.atoms = atoms /\ reply'.cell = cell
    <3>1. ASSUME NEW cached, NEW r, reply' = Reply(t, m, atoms, cell, cached, r)
          PROVE  /\ reply'.who = t /\ reply'.method = m
                 /\ reply'.atoms = atoms /\ reply'.cell = cell
      BY <3>1 DEF Reply
    <3>2. ASSUME NEW cached, NEW r, NEW g,
                 reply' = [Reply(t, m, atoms, cell, cached, r) EXCEPT !.grad = g]
          PROVE  /\ reply'.who = t /\ reply'.method = m
                 /\ reply'.atoms = atoms /\ reply'.cell = cell
      BY <3>2 DEF Reply
    <3> QED BY <2>1, <3>1, <3>2
  <2> QED BY <2>2 DEF m
<1>5. SessionEvaluate(s, atoms, cell)
  BY <1>3, <1>4
<1>6. /\ methodBar' = methodBar
      /\ s \in Live' /\ session'[s].agreed = session[s].agreed
  BY <1>5, EvaluateSettles
<1>7. session[s].agreed => MethodOf(session'[s]) = MethodOf(session[s])
  <2>1. session' \in [Sessions -> {None} \cup SessionStates]
    BY <1>1, <1>5, EvaluateInv DEF IInv, TypeOK
  <2>2. session'[s] \in SessionStates
    BY <1>1, <1>6, <2>1 DEF Live
  <2>3. PromisedMethod(session'[s]) = PromisedMethod(session[s])
    BY <1>1, <1>6 DEF methodBar, PromisedMethod, MethodOf
  <2> QED BY <1>2, <1>6, <2>2, <2>3, MethodPromised
<1>9. eng' = eng \/ Computed(s, atoms, cell)
  BY <1>5 DEF SessionEvaluate, TopologyRefused, Repeated, NotConfigured
<1> QED BY <1>4, <1>5, <1>6, <1>7, <1>9

LEMMA FailureStep ==
    ASSUME IInv, Next, LatchedStartsWarm', NEW s \in Live, FailsOnLatch(s)
    PROVE  /\ eng'.latch = eng.latch /\ eng'.setup = eng.setup
           /\ NextStartsWarm(s, reply.atoms, reply.cell)'
<1>1. PICK atoms \in Arrays, cell \in CellArgs :
         /\ reply'.method = MethodOf(session[s])
         /\ reply'.atoms = atoms /\ reply'.cell = cell
         /\ s \in Live' /\ session'[s].agreed = session[s].agreed
         /\ session[s].agreed => MethodOf(session'[s]) = MethodOf(session[s])
         /\ eng' = eng \/ Computed(s, atoms, cell)
  BY ReplyToSession DEF FailsOnLatch
<1>2. eng'.latch = eng.latch /\ eng'.setup = eng.setup
  BY <1>1, ComputedKeepsLatch
<1>4. session'[s].agreed /\ session[s].agreed
  BY <1>1 DEF FailsOnLatch, Trusted
<1>5. Known(reply'.atoms) /\ eng'.latch = AskedBasis(MethodOf(session'[s]), reply'.atoms, reply'.cell)
  BY <1>1, <1>2, <1>4 DEF FailsOnLatch
<1>6. reply'.atoms \in Arrays /\ reply'.cell \in CellArgs
  BY <1>1
<1>7. NextStartsWarm(s, reply.atoms, reply.cell)'
  BY <1>1, <1>4, <1>5, <1>6 DEF LatchedStartsWarm
<1> QED BY <1>2, <1>7

\* A call on the latched basis that fails without a stop keeps the latch and the
\* set-up, and leaves the next call warm, for any number of sessions between the
\* call that latched it and this one.
THEOREM WarmAfterFailure == Spec => FailureKeepsWarmBasis
<1>1. IInv /\ LatchedStartsWarm' /\ [Next]_vars =>
        [\A s \in Live :
            (/\ reply' # None /\ ~reply'.ok /\ reply'.who = s /\ Trusted(reply')
             /\ Known(reply'.atoms)
             /\ eng.latch = AskedBasis(reply'.method, reply'.atoms, reply'.cell)
             /\ eng'.setup # None)
            => /\ eng'.latch = eng.latch /\ eng'.setup = eng.setup
               /\ NextStartsWarm(s, reply.atoms, reply.cell)']_vars
  BY FailureStep DEF FailsOnLatch
<1> QED BY <1>1, InitInv, NextInv, WarmOnLatch, PTL DEF Spec, FailureKeepsWarmBasis

=============================================================================
