------------------------- MODULE RankConsensus_proofs -------------------------
(***************************************************************************)
(* Theorems about RankConsensus, for any number of ranks, positions,       *)
(* energies and calls: types, and the three properties of the answers.     *)
(* Those that need every rank to meet in the first collective have         *)
(* EarlyFailures = FALSE as a hypothesis.                                  *)
(***************************************************************************)
EXTENDS RankConsensus, TLAPS

-----------------------------------------------------------------------------
(* The inductive invariants *)

\* A rank has a result only while it is back in the host, and positions while
\* it is not.
ResultsAreOfTheHost ==
    \A r \in Ranks : /\ result[r] # None => pc[r] = "host"
                     /\ pc[r] # "host" => pos[r] \in Positions

\* Until the SCF of the next call, the snapshots and the stored result of a
\* rank are of one evaluation; from the SCF on, a converged outcome has its
\* own snapshots.
SnapshotsFollow ==
    \A r \in Ranks :
      /\ cache[r] # None /\ pc[r] \in {"host", "repeat?", "configure", "scf"}
           => snap[r] = cache[r].energy
      /\ pc[r] \in {"agree", "share"} /\ local[r].ok => snap[r] = local[r].energy
      /\ pc[r] = "share" => local[r].ok

\* What a rank returned and keeps.
AnswersFollow ==
    \A r \in Ranks : result[r] # None /\ result[r].ok =>
      /\ snap[r] = result[r].energy
      /\ cache[r] # None => result[r].energy = cache[r].energy

\* An SCF that converged has an energy.
ConvergedHasEnergy == \A r \in Ranks : local[r].ok => local[r].energy \in Energies

Inner == {"configure", "scf", "agree"}

\* With consensus, the ranks that are in a call are in the same one, and the
\* others are at its door; past the first collective nobody is.
InStep ==
    \A r, q \in Ranks :
      /\ (pc[r] = "host") = (pc[q] = "host") => call[r] = call[q]
      /\ pc[r] # "host" /\ pc[q] = "host" => pc[r] = "repeat?" /\ call[r] = call[q] + 1
      /\ pc[r] \in Inner => pc[q] \in Inner
      /\ pc[r] = "share" => pc[q] = "share"

\* Ranks that are both back have the same answer, and one energy is stored.
Agreed ==
    \A r, q \in Ranks :
      /\ result[r] # None /\ result[q] # None => result[r] = result[q]
      /\ cache[r] # None /\ cache[q] # None => cache[r].energy = cache[q].energy
      /\ result[r] # None /\ cache[r] # None => result[r].ok

OwnInv == /\ TypeOK /\ ResultsAreOfTheHost /\ ConvergedHasEnergy
          /\ SnapshotsFollow /\ AnswersFollow
SharedInv == on => InStep /\ Agreed

-----------------------------------------------------------------------------
(* Facts about the data *)

LEMMA OutcomeTypes ==
    /\ NoOutcome \in Outcomes
    /\ \A stop \in BOOLEAN : Failed(stop) \in Results /\ ~Failed(stop).ok
    /\ \A e \in Energies, cached \in BOOLEAN :
          /\ Done(e, cached) \in Results
          /\ Done(e, cached).ok /\ Done(e, cached).energy = e
    /\ None \notin Energies
BY NoneIsApart DEF NoOutcome, Outcomes, Results, Failed, Done

-----------------------------------------------------------------------------
(* Types, and what a rank keeps for itself *)

LEMMA InitOwn == ASSUME Init PROVE OwnInv
<1>1. NoOutcome \in Outcomes /\ ~NoOutcome.ok
  BY OutcomeTypes DEF NoOutcome
<1>2. TypeOK
  BY <1>1, NoneIsApart DEF Init, TypeOK, Stages
<1>3. ResultsAreOfTheHost /\ ConvergedHasEnergy
  BY <1>1, NoneIsApart DEF Init, TypeOK, ResultsAreOfTheHost, ConvergedHasEnergy
<1>4. SnapshotsFollow
  BY <1>1, NoneIsApart DEF Init, TypeOK, SnapshotsFollow
<1>5. AnswersFollow
  BY <1>1, NoneIsApart DEF Init, TypeOK, AnswersFollow
<1> QED BY <1>2, <1>3, <1>4, <1>5 DEF OwnInv

LEMMA EnterOwn == ASSUME OwnInv, NEW r \in Ranks, NEW p \in Positions, Enter(r, p) PROVE OwnInv'
<1>1. TypeOK'
  BY DEF OwnInv, Enter, TypeOK, Stages
<1>2. ResultsAreOfTheHost' /\ ConvergedHasEnergy'
  BY DEF OwnInv, Enter, TypeOK, ResultsAreOfTheHost, ConvergedHasEnergy
<1>3. SnapshotsFollow'
  BY DEF OwnInv, Enter, TypeOK, SnapshotsFollow
<1>4. AnswersFollow'
  BY DEF OwnInv, Enter, TypeOK, AnswersFollow
<1> QED BY <1>1, <1>2, <1>3, <1>4 DEF OwnInv

LEMMA RefuseOwn == ASSUME OwnInv, NEW r \in Ranks, Refuse(r) PROVE OwnInv'
<1>1. Failed(FALSE) \in Results /\ ~Failed(FALSE).ok
  BY OutcomeTypes
<1>2. TypeOK'
  <2>1. result' \in [Ranks -> Results \cup {None}]
    BY <1>1 DEF OwnInv, Refuse, TypeOK
  <2>2. call' \in [Ranks -> Nat]
    BY DEF OwnInv, Refuse, TypeOK
  <2> QED BY <2>1, <2>2 DEF OwnInv, Refuse, TypeOK
<1>3. ResultsAreOfTheHost' /\ ConvergedHasEnergy'
  BY <1>1 DEF OwnInv, Refuse, TypeOK, ResultsAreOfTheHost, ConvergedHasEnergy
<1>4. SnapshotsFollow'
  BY <1>1 DEF OwnInv, Refuse, TypeOK, SnapshotsFollow
<1>5. AnswersFollow'
  BY <1>1 DEF OwnInv, Refuse, TypeOK, AnswersFollow
<1> QED BY <1>2, <1>3, <1>4, <1>5 DEF OwnInv

LEMMA ConfigureOwn == ASSUME OwnInv, NEW r \in Ranks, Configure(r) PROVE OwnInv'
<1>1. Failed(FALSE) \in Results /\ ~Failed(FALSE).ok
  BY OutcomeTypes
<1>2. TypeOK'
  BY <1>1 DEF OwnInv, Configure, TypeOK, Stages
<1>3. ResultsAreOfTheHost' /\ ConvergedHasEnergy'
  BY <1>1 DEF OwnInv, Configure, TypeOK, ResultsAreOfTheHost, ConvergedHasEnergy
<1>4. SnapshotsFollow'
  BY <1>1 DEF OwnInv, Configure, TypeOK, SnapshotsFollow
<1>5. AnswersFollow'
  BY <1>1 DEF OwnInv, Configure, TypeOK, AnswersFollow
<1> QED BY <1>2, <1>3, <1>4, <1>5 DEF OwnInv

LEMMA EvaluateOwn == ASSUME OwnInv, NEW r \in Ranks, Evaluate(r) PROVE OwnInv'
<1>1. PICK memory \in BOOLEAN, e \in Energies :
         \/ /\ local' = [local EXCEPT ![r] =
                  [ok |-> TRUE, stop |-> FALSE, memory |-> memory, energy |-> e]]
            /\ snap' = [snap EXCEPT ![r] = e]
         \/ /\ local' = [local EXCEPT ![r] =
                  [ok |-> FALSE, stop |-> FALSE, memory |-> memory, energy |-> None]]
            /\ snap' = [snap EXCEPT ![r] = e] \/ UNCHANGED snap
         \/ /\ local' = [local EXCEPT ![r] =
                  [ok |-> FALSE, stop |-> TRUE, memory |-> memory, energy |-> None]]
            /\ UNCHANGED snap
  BY DEF Evaluate
<1>2. /\ pc[r] = "scf" /\ pc' = [pc EXCEPT ![r] = "agree"]
      /\ spread' = [spread EXCEPT ![r] = None]
      /\ UNCHANGED <<on, call, pos, cache, result>>
  BY DEF Evaluate
<1>3. TypeOK'
  <2>1. local' \in [Ranks -> Outcomes]
    <3>1. /\ [ok |-> TRUE, stop |-> FALSE, memory |-> memory, energy |-> e] \in Outcomes
          /\ [ok |-> FALSE, stop |-> FALSE, memory |-> memory, energy |-> None] \in Outcomes
          /\ [ok |-> FALSE, stop |-> TRUE, memory |-> memory, energy |-> None] \in Outcomes
      BY DEF Outcomes
    <3>2. PICK outcome \in Outcomes : local' = [local EXCEPT ![r] = outcome]
      BY <1>1, <3>1
    <3> QED BY <3>2 DEF OwnInv, TypeOK
  <2>2. snap' \in [Ranks -> Energies \cup {None}]
    BY <1>1 DEF OwnInv, TypeOK
  <2>3. pc' \in [Ranks -> Stages] /\ spread' \in [Ranks -> BOOLEAN \cup {None}]
    BY <1>2 DEF OwnInv, TypeOK, Stages
  <2> QED BY <1>2, <2>1, <2>2, <2>3 DEF OwnInv, TypeOK
<1>4. SnapshotsFollow'
  BY <1>1, <1>2 DEF OwnInv, TypeOK, SnapshotsFollow
<1>5. ResultsAreOfTheHost' /\ ConvergedHasEnergy' /\ AnswersFollow'
  BY <1>1, <1>2 DEF OwnInv, TypeOK, ResultsAreOfTheHost, ConvergedHasEnergy, AnswersFollow
<1> QED BY <1>3, <1>4, <1>5 DEF OwnInv

LEMMA DecideOwn == ASSUME OwnInv, NEW S \in SUBSET Ranks, DecideRepeat(S) PROVE OwnInv'
<1>1. \A r \in S : Repeats(r) => /\ cache[r].energy \in Energies
                                 /\ snap[r] = cache[r].energy
                                 /\ Done(cache[r].energy, TRUE) \in Results
                                 /\ Done(cache[r].energy, TRUE).energy = cache[r].energy
  <2> SUFFICES ASSUME NEW r \in S, Repeats(r)
               PROVE  /\ cache[r].energy \in Energies
                      /\ snap[r] = cache[r].energy
                      /\ Done(cache[r].energy, TRUE) \in Results
                      /\ Done(cache[r].energy, TRUE).energy = cache[r].energy
    OBVIOUS
  <2>1. cache[r] \in Entries /\ cache[r] # None
    BY DEF Repeats, OwnInv, TypeOK
  <2>2. cache[r].energy \in Energies
    BY <2>1 DEF Entries
  <2>3. snap[r] = cache[r].energy
    BY <2>1 DEF OwnInv, SnapshotsFollow, DecideRepeat
  <2> QED BY <2>2, <2>3, OutcomeTypes
<1>2. TypeOK'
  BY <1>1 DEF OwnInv, DecideRepeat, TypeOK, Stages
<1>3. ResultsAreOfTheHost' /\ ConvergedHasEnergy' /\ SnapshotsFollow'
  BY DEF OwnInv, DecideRepeat, TypeOK, ResultsAreOfTheHost, ConvergedHasEnergy, SnapshotsFollow
<1>4. AnswersFollow'
  BY <1>1 DEF OwnInv, DecideRepeat, TypeOK, AnswersFollow
<1> QED BY <1>2, <1>3, <1>4 DEF OwnInv

LEMMA FailureOwn ==
    ASSUME OwnInv, NEW S \in SUBSET Ranks, NEW v \in [ok : BOOLEAN, stop : BOOLEAN],
           ReturnFailure(S, v)
    PROVE  OwnInv'
<1>1. Failed(v.stop) \in Results /\ ~Failed(v.stop).ok
  BY OutcomeTypes
<1>2. TypeOK'
  BY <1>1 DEF OwnInv, ReturnFailure, TypeOK, Stages
<1>3. ResultsAreOfTheHost' /\ ConvergedHasEnergy' /\ SnapshotsFollow' /\ AnswersFollow'
  BY <1>1 DEF OwnInv, ReturnFailure, TypeOK, ResultsAreOfTheHost, ConvergedHasEnergy, SnapshotsFollow, AnswersFollow
<1> QED BY <1>2, <1>3 DEF OwnInv

\* The ranks of S end with energies e, and their snapshots are of them.
LEMMA SuccessOwn ==
    ASSUME OwnInv, NEW S \in SUBSET Ranks, NEW e, \A r \in S : e[r] \in Energies,
           ReturnSuccess(S, e),
           snap' \in [Ranks -> Energies \cup {None}],
           \A r \in Ranks : snap'[r] = IF r \in S THEN e[r] ELSE snap[r],
           spread' \in [Ranks -> BOOLEAN \cup {None}],
           \A r \in S : pc[r] \in {"agree", "share"}
    PROVE  OwnInv'
<1>1. \A r \in S : /\ Done(e[r], FALSE) \in Results
                   /\ Done(e[r], FALSE).energy = e[r]
  BY OutcomeTypes
<1>2. PICK lost \in SUBSET {r \in S : cache[r] = None} :
         cache' = [r \in Ranks |->
                     IF r \notin S THEN cache[r] ELSE IF r \in lost THEN None
                     ELSE [pos |-> pos[r], energy |-> e[r]]]
  BY DEF ReturnSuccess
<1>3. /\ pc' = [r \in Ranks |-> IF r \in S THEN "host" ELSE pc[r]]
      /\ result' = [r \in Ranks |-> IF r \in S THEN Done(e[r], FALSE) ELSE result[r]]
      /\ UNCHANGED <<on, call, pos, local>>
  BY DEF ReturnSuccess
<1>4. \A r \in S : [pos |-> pos[r], energy |-> e[r]] \in Entries
  BY DEF Entries, OwnInv, ResultsAreOfTheHost
<1>5. cache' \in [Ranks -> Entries \cup {None}]
  BY <1>2, <1>4 DEF OwnInv, TypeOK
<1>6. TypeOK'
  BY <1>1, <1>3, <1>5 DEF OwnInv, TypeOK, Stages
<1>7. ResultsAreOfTheHost' /\ ConvergedHasEnergy' /\ SnapshotsFollow'
  BY <1>2, <1>3 DEF OwnInv, TypeOK, ResultsAreOfTheHost, ConvergedHasEnergy, SnapshotsFollow
<1>8. AnswersFollow'
  BY <1>1, <1>2, <1>3 DEF OwnInv, TypeOK, AnswersFollow
<1> QED BY <1>6, <1>7, <1>8 DEF OwnInv

LEMMA ReturnAloneOwn == ASSUME OwnInv, NEW r \in Ranks, ReturnAlone(r) PROVE OwnInv'
<1>1. OwnVerdict(r) \in [ok : BOOLEAN, stop : BOOLEAN] /\ OwnVerdict(r).ok = local[r].ok
  BY DEF OwnVerdict, OwnInv, TypeOK, Outcomes
<1>2. CASE ReturnFailure({r}, OwnVerdict(r))
  BY <1>1, <1>2, FailureOwn
<1>3. CASE /\ local[r].ok
           /\ ReturnSuccess({r}, [q \in {r} |-> local[q].energy])
           /\ UNCHANGED <<snap, spread>>
  <2>1. pc[r] = "agree" /\ snap[r] = local[r].energy
    BY <1>3 DEF ReturnAlone, OwnInv, SnapshotsFollow
  <2>2. local[r].energy \in Energies
    BY <1>3 DEF OwnInv, ConvergedHasEnergy
  <2> DEFINE e == [q \in {r} |-> local[q].energy]
  <2>3. /\ {r} \in SUBSET Ranks
        /\ \A q \in {r} : e[q] \in Energies /\ pc[q] \in {"agree", "share"}
    BY <2>1, <2>2
  <2>4. /\ snap' \in [Ranks -> Energies \cup {None}]
        /\ spread' \in [Ranks -> BOOLEAN \cup {None}]
    BY <1>3 DEF OwnInv, TypeOK
  <2>5. \A q \in Ranks : snap'[q] = IF q \in {r} THEN e[q] ELSE snap[q]
    BY <1>3, <2>1
  <2>6. ReturnSuccess({r}, e)
    BY <1>3
  <2> HIDE DEF e
  <2> QED BY <2>3, <2>4, <2>5, <2>6, SuccessOwn
<1> QED BY <1>1, <1>2, <1>3 DEF ReturnAlone, OwnVerdict

LEMMA AgreeOwn == ASSUME OwnInv, AgreeOnFlags PROVE OwnInv'
<1>1. Verdict(Ranks) \in [ok : BOOLEAN, stop : BOOLEAN]
  BY DEF Verdict
<1>2. CASE ReturnFailure(Ranks, Verdict(Ranks))
  BY <1>1, <1>2, FailureOwn
<1>3. CASE /\ Verdict(Ranks).ok
           /\ pc' = [r \in Ranks |-> "share"]
           /\ UNCHANGED <<on, call, pos, local, cache, snap, spread, result>>
  <2>1. \A r \in Ranks : pc[r] = "agree" /\ local[r].ok
    BY <1>3 DEF AgreeOnFlags, Verdict
  <2> QED
    BY <1>3, <2>1
       DEF OwnInv, TypeOK, ResultsAreOfTheHost, SnapshotsFollow, AnswersFollow, Stages, ConvergedHasEnergy
<1> QED BY <1>2, <1>3 DEF AgreeOnFlags

LEMMA ShareOwn == ASSUME OwnInv, ShareRoot PROVE OwnInv'
<1>1. \A r \in Ranks : pc[r] = "share" /\ local[r].ok
  BY DEF ShareRoot, OwnInv, SnapshotsFollow
<1>2. snap[Root] = local[Root].energy /\ local[Root].energy \in Energies
  BY <1>1, RootIsARank DEF OwnInv, SnapshotsFollow, ConvergedHasEnergy
<1>3. ReturnSuccess(Ranks, [r \in Ranks |-> local[Root].energy])
  BY DEF ShareRoot
<1>4. /\ snap' = [r \in Ranks |-> snap[Root]]
      /\ spread' \in [Ranks -> BOOLEAN \cup {None}]
  BY DEF ShareRoot
<1> QED BY <1>1, <1>2, <1>3, <1>4, SuccessOwn

LEMMA StepOwn == OwnInv /\ [Next]_vars => OwnInv'
<1> SUFFICES ASSUME OwnInv, [Next]_vars PROVE OwnInv'
  OBVIOUS
<1>1. ASSUME NEW r \in Ranks, RankStep(r) PROVE OwnInv'
  BY <1>1, EnterOwn, RefuseOwn, ConfigureOwn, EvaluateOwn, ReturnAloneOwn DEF RankStep
<1>2. CASE RepeatStep
  BY <1>2, DecideOwn DEF RepeatStep
<1>3. CASE AgreeOnFlags
  BY <1>3, AgreeOwn
<1>4. CASE ShareRoot
  BY <1>4, ShareOwn
<1>5. CASE UNCHANGED vars
  BY <1>5
     DEF vars, OwnInv, TypeOK, ResultsAreOfTheHost, SnapshotsFollow, AnswersFollow, ConvergedHasEnergy
<1> QED BY <1>1, <1>2, <1>3, <1>4, <1>5 DEF Next

LEMMA AlwaysOwn == Spec => []OwnInv
<1>1. Init => OwnInv
  BY InitOwn
<1>2. OwnInv /\ [Next]_vars => OwnInv'
  BY StepOwn
<1> QED BY <1>1, <1>2, PTL DEF Spec

-----------------------------------------------------------------------------
(* What the ranks share *)

LEMMA InitShared == Init => SharedInv
BY DEF Init, SharedInv, InStep, Agreed, Inner

LEMMA EnterShared ==
    ASSUME OwnInv, SharedInv, NEW r \in Ranks, NEW p \in Positions, Enter(r, p)
    PROVE  SharedInv'
<1> SUFFICES ASSUME on PROVE InStep' /\ Agreed'
  BY DEF SharedInv, Enter
<1>1. Agreed'
  BY DEF SharedInv, Agreed, Enter, OwnInv, TypeOK
<1>2. InStep'
  BY DEF SharedInv, InStep, Enter, OwnInv, TypeOK, Inner
<1> QED BY <1>1, <1>2

LEMMA ConfigureShared ==
    ASSUME OwnInv, SharedInv, ~EarlyFailures, NEW r \in Ranks, Configure(r)
    PROVE  SharedInv'
<1> SUFFICES ASSUME on PROVE InStep' /\ Agreed'
  BY DEF SharedInv, Configure
<1>1. /\ pc[r] = "configure" /\ pc' = [pc EXCEPT ![r] = "scf"]
      /\ UNCHANGED <<on, call, pos, local, cache, snap, spread, result>>
  BY DEF Configure
<1> QED BY <1>1 DEF SharedInv, InStep, Agreed, OwnInv, TypeOK, Inner

LEMMA EvaluateShared ==
    ASSUME OwnInv, SharedInv, NEW r \in Ranks, Evaluate(r)
    PROVE  SharedInv'
<1>1. /\ pc[r] = "scf" /\ pc' = [pc EXCEPT ![r] = "agree"]
      /\ UNCHANGED <<on, call, cache, result>>
  BY DEF Evaluate
<1> QED BY <1>1 DEF SharedInv, InStep, Agreed, OwnInv, TypeOK, Inner

LEMMA DecideShared ==
    ASSUME OwnInv, SharedInv, on, DecideRepeat(Ranks)
    PROVE  SharedInv'
<1> DEFINE all == \A r \in Ranks : Repeats(r)
<1>1. /\ \A r \in Ranks : pc[r] = "repeat?" /\ result[r] = None
      /\ pc' = [r \in Ranks |-> IF all THEN "host" ELSE "configure"]
      /\ result' = [r \in Ranks |-> IF all THEN Done(cache[r].energy, TRUE) ELSE result[r]]
      /\ UNCHANGED <<on, call, cache>>
  BY DEF DecideRepeat, OwnInv, ResultsAreOfTheHost, TypeOK
<1>2. InStep'
  BY <1>1 DEF SharedInv, InStep, Inner
<1>3. Agreed'
  <2>1. CASE all
    <3>1. \A r, q \in Ranks : cache[r].energy = cache[q].energy
      BY <2>1 DEF Repeats, SharedInv, Agreed
    <3>2. \A r \in Ranks : Done(cache[r].energy, TRUE).ok
      BY DEF Done
    <3> QED BY <1>1, <2>1, <3>1, <3>2 DEF SharedInv, Agreed
  <2>2. CASE ~all
    BY <1>1, <2>2 DEF SharedInv, Agreed
  <2> QED BY <2>1, <2>2
<1> QED BY <1>2, <1>3 DEF SharedInv

LEMMA AgreeShared == ASSUME OwnInv, SharedInv, AgreeOnFlags PROVE SharedInv'
<1>1. on /\ \A r \in Ranks : pc[r] = "agree"
  BY DEF AgreeOnFlags
<1>2. CASE ReturnFailure(Ranks, Verdict(Ranks))
  <2>1. /\ pc' = [r \in Ranks |-> "host"]
        /\ result' = [r \in Ranks |-> Failed(Verdict(Ranks).stop)]
        /\ cache' = [r \in Ranks |-> None]
        /\ UNCHANGED <<on, call>>
    BY <1>2 DEF ReturnFailure
  <2> QED BY <1>1, <2>1 DEF SharedInv, InStep, Agreed, Inner
<1>3. CASE /\ pc' = [r \in Ranks |-> "share"]
           /\ UNCHANGED <<on, call, pos, local, cache, snap, spread, result>>
  BY <1>1, <1>3 DEF SharedInv, InStep, Agreed, Inner
<1> QED BY <1>2, <1>3 DEF AgreeOnFlags

LEMMA ShareShared == ASSUME OwnInv, SharedInv, ShareRoot PROVE SharedInv'
<1> SUFFICES ASSUME on PROVE InStep' /\ Agreed'
  BY DEF SharedInv, ShareRoot, ReturnSuccess
<1> DEFINE e == [r \in Ranks |-> local[Root].energy]
<1>1. /\ \A r \in Ranks : pc[r] = "share"
      /\ pc' = [r \in Ranks |-> "host"]
      /\ result' = [r \in Ranks |-> Done(local[Root].energy, FALSE)]
      /\ UNCHANGED <<on, call>>
  BY DEF ShareRoot, ReturnSuccess
<1>2. \A r \in Ranks : cache'[r] # None => cache'[r].energy = local[Root].energy
  <2>1. PICK lost \in SUBSET {r \in Ranks : cache[r] = None} :
           cache' = [r \in Ranks |->
                       IF r \notin Ranks THEN cache[r] ELSE IF r \in lost THEN None
                       ELSE [pos |-> pos[r], energy |-> e[r]]]
    BY DEF ShareRoot, ReturnSuccess
  <2> QED BY <2>1
<1>3. Done(local[Root].energy, FALSE).ok
  BY DEF Done
<1>4. InStep'
  BY <1>1 DEF SharedInv, InStep, Inner
<1>5. Agreed'
  BY <1>1, <1>2, <1>3 DEF Agreed
<1> QED BY <1>4, <1>5

LEMMA StepShared ==
    ASSUME EarlyFailures = FALSE
    PROVE  OwnInv /\ SharedInv /\ [Next]_vars => SharedInv'
<1> SUFFICES ASSUME OwnInv, SharedInv, [Next]_vars PROVE SharedInv'
  OBVIOUS
<1>1. CASE ~on
  <2>1. ~on'
    BY <1>1 DEF Next, RankStep, RepeatStep, vars, Enter, Refuse, Configure, Evaluate, DecideRepeat,
                ReturnAlone, ReturnFailure, ReturnSuccess, AgreeOnFlags, ShareRoot
  <2> QED BY <2>1 DEF SharedInv
<1>2. CASE on
  <2>1. ASSUME NEW r \in Ranks, RankStep(r) PROVE SharedInv'
    BY <1>2, <2>1, EnterShared, ConfigureShared, EvaluateShared DEF RankStep, Refuse, ReturnAlone
  <2>2. CASE RepeatStep
    BY <1>2, <2>2, DecideShared DEF RepeatStep
  <2>3. CASE AgreeOnFlags \/ ShareRoot
    BY <2>3, AgreeShared, ShareShared
  <2>4. CASE UNCHANGED vars
    BY <2>4 DEF vars, SharedInv, InStep, Agreed
  <2> QED BY <2>1, <2>2, <2>3, <2>4 DEF Next
<1> QED BY <1>1, <1>2

-----------------------------------------------------------------------------
(* The theorems *)

\* Every variable keeps its type for any number of ranks and calls, failures
\* before the first collective included.
THEOREM TypeCorrect == Spec => []TypeOK
<1>1. OwnInv => TypeOK
  BY DEF OwnInv
<1> QED BY <1>1, AlwaysOwn, PTL

\* The snapshots a getter reads after a successful call are of the energy it
\* returned, on every rank, with consensus and without, repeated or computed,
\* whichever ranks failed on their own (energy_gradient_cell_with_params and
\* the broadcast of rank_consensus).
THEOREM SnapshotsOfTheAnswer == Spec => []SnapshotsAreOfTheAnswer
<1>1. OwnInv => SnapshotsAreOfTheAnswer
  BY DEF OwnInv, AnswersFollow, SnapshotsAreOfTheAnswer
<1> QED BY <1>1, AlwaysOwn, PTL

\* While no rank fails before the first collective, ranks that are back from
\* the same call have the same answer (rank_consensus_all, rank_consensus).
THEOREM OneAnswer == ASSUME EarlyFailures = FALSE PROVE Spec => []OneAnswerPerCall
<1>1. Init => OwnInv /\ SharedInv
  BY InitOwn, InitShared
<1>2. (OwnInv /\ SharedInv) /\ [Next]_vars => (OwnInv /\ SharedInv)'
  BY StepOwn, StepShared
<1>3. SharedInv => OneAnswerPerCall
  BY DEF SharedInv, Agreed, OneAnswerPerCall
<1> QED BY <1>1, <1>2, <1>3, PTL DEF Spec

\* While no rank fails before the first collective, what a rank keeps for a
\* repeat is the answer it gave, and after a failed call no rank keeps any.
THEOREM StoreOfTheAnswer == ASSUME EarlyFailures = FALSE PROVE Spec => []StoreIsOfTheAnswer
<1>1. Init => OwnInv /\ SharedInv
  BY InitOwn, InitShared
<1>2. (OwnInv /\ SharedInv) /\ [Next]_vars => (OwnInv /\ SharedInv)'
  BY StepOwn, StepShared
<1>3. OwnInv /\ SharedInv => StoreIsOfTheAnswer
  BY DEF OwnInv, AnswersFollow, SharedInv, Agreed, StoreIsOfTheAnswer
<1> QED BY <1>1, <1>2, <1>3, PTL DEF Spec

\* While no rank fails before the first collective, every rank takes the same
\* branch into the next one (the comment above rank_consensus); the run
\* doc_same_branch shows that the hypothesis is needed.
THEOREM BranchesAgree == ASSUME EarlyFailures = FALSE PROVE Spec => []SameBranch
<1>1. Init => OwnInv /\ SharedInv
  BY InitOwn, InitShared
<1>2. (OwnInv /\ SharedInv) /\ [Next]_vars => (OwnInv /\ SharedInv)'
  BY StepOwn, StepShared
<1>3. SharedInv => SameBranch
  BY DEF SharedInv, InStep, SameBranch
<1> QED BY <1>1, <1>2, <1>3, PTL DEF Spec

=============================================================================
