---------------------------- MODULE RankConsensus ----------------------------
(***************************************************************************)
(* One calculator's ranks with CPMDC_RANK_CONSENSUS (src/src/cpmdc.c,      *)
(* rank_consensus and its callers).  Every rank is a process of its own:   *)
(* the host makes the same sequence of session calls on each of them, with *)
(* positions that may have drifted apart, and each rank takes its own      *)
(* branches between the collectives.                                       *)
(*                                                                         *)
(* A collective is one step that needs every rank to have entered it.  A   *)
(* rank that leaves early only delays its own next step, so nothing is     *)
(* lost by letting all of them leave together.  What CPMD itself does with *)
(* MPI inside an SCF is outside: an evaluation is one local step that      *)
(* returns on each rank, with an outcome of that rank's own.               *)
(*                                                                         *)
(* A definition marked "Fault" is a wrong variant of the one after it.     *)
(***************************************************************************)
EXTENDS Naturals

CONSTANTS
    Ranks,      \* the ranks of the calculator's communicator
    Root,       \* its rank 0
    Positions,  \* position arrays a host may pass on a rank
    Energies,   \* energies an SCF may end with on a rank
    MaxCalls,   \* bound: how many evaluations the host makes
    EarlyFailures, \* whether a rank may fail on its own before the SCF of a call
                   \* that its calculator answers by consensus
    None

ASSUME RootIsARank == Root \in Ranks
ASSUME CallsAreBounded == MaxCalls \in Nat
ASSUME NoneIsApart == None \notin Energies
ASSUME EarlyFailuresIsBoolean == EarlyFailures \in BOOLEAN

VARIABLES
    on,      \* CPMDC_RANK_CONSENSUS=1, the same value on every rank
    pc,      \* where each rank is in its call
    call,    \* how many calls each rank has begun
    pos,     \* the positions of each rank's call
    local,   \* what the SCF of the call gave this rank
    cache,   \* the session's stored result: positions and energy
    snap,    \* the energy of the image's snapshots, None when they are cleared
    spread,  \* g_rank_spread: None, or whether some rank differed from the root
    result   \* what each rank's last call returned, None inside a call

vars == <<on, pc, call, pos, local, cache, snap, spread, result>>

NoOutcome == [ok |-> FALSE, stop |-> FALSE, memory |-> FALSE, energy |-> None]
Outcomes == [ok : BOOLEAN, stop : BOOLEAN, memory : BOOLEAN, energy : Energies \cup {None}]
Results == [ok : BOOLEAN, stop : BOOLEAN, cached : BOOLEAN, energy : Energies \cup {None}]

Failed(stop) == [ok |-> FALSE, stop |-> stop, cached |-> FALSE, energy |-> None]

\* Fault: the two are swapped.
DoneSwapped(energy, cached) == [ok |-> TRUE, stop |-> FALSE, cached |-> energy, energy |-> cached]

Done(energy, cached) == [ok |-> TRUE, stop |-> FALSE, cached |-> cached, energy |-> energy]

Init ==
    /\ on \in BOOLEAN
    /\ pc = [r \in Ranks |-> "host"]
    /\ call = [r \in Ranks |-> 0]
    /\ pos = [r \in Ranks |-> None]
    /\ local = [r \in Ranks |-> NoOutcome]
    /\ cache = [r \in Ranks |-> None]
    /\ snap = [r \in Ranks |-> None]
    /\ spread = [r \in Ranks |-> None]
    /\ result = [r \in Ranks |-> None]

-----------------------------------------------------------------------------
(* session_energy_gradient_cell up to the SCF *)

\* A call enters the library: the early refusals (null session, arguments,
\* topology) are behind it and the stored result has been looked up.
Enter(r, p) ==
    /\ pc[r] = "host" /\ call[r] < MaxCalls
    /\ call' = [call EXCEPT ![r] = @ + 1]
    /\ pos' = [pos EXCEPT ![r] = p]
    /\ pc' = [pc EXCEPT ![r] = "repeat?"]
    /\ result' = [result EXCEPT ![r] = None]
    /\ UNCHANGED <<on, local, cache, snap, spread>>

\* A refusal on this rank alone returns before any collective.
Refuse(r) ==
    /\ on => EarlyFailures
    /\ pc[r] = "host" /\ call[r] < MaxCalls
    /\ call' = [call EXCEPT ![r] = @ + 1]
    /\ result' = [result EXCEPT ![r] = Failed(FALSE)]
    /\ UNCHANGED <<on, pc, pos, local, cache, snap, spread>>

\* session_copy_cached_gradient
Repeats(r) == cache[r] # None /\ cache[r].pos = pos[r]

\* Fault: each rank repeats when it can.
RepeatAlone(S) ==
    /\ \A r \in S : pc[r] = "repeat?"
    /\ pc' = [r \in Ranks |-> IF r \notin S THEN pc[r]
                              ELSE IF Repeats(r) THEN "host" ELSE "configure"]
    /\ result' = [r \in Ranks |-> IF r \in S /\ Repeats(r)
                                  THEN Done(cache[r].energy, TRUE) ELSE result[r]]
    /\ UNCHANGED <<on, call, pos, local, cache, snap, spread>>

\* rank_consensus_all over S, the ranks that decide together.
DecideRepeat(S) ==
    LET all == \A r \in S : Repeats(r)
    IN  /\ \A r \in S : pc[r] = "repeat?"
        /\ pc' = [r \in Ranks |-> IF r \notin S THEN pc[r]
                                  ELSE IF all THEN "host" ELSE "configure"]
        /\ result' = [r \in Ranks |-> IF r \in S /\ all
                                      THEN Done(cache[r].energy, TRUE) ELSE result[r]]
        /\ UNCHANGED <<on, call, pos, local, cache, snap, spread>>

\* configure_embed_from_session, when the session needs it.
Configure(r) ==
    /\ pc[r] = "configure"
    /\ \/ /\ pc' = [pc EXCEPT ![r] = "scf"]
          /\ UNCHANGED result
       \/ /\ on => EarlyFailures
          /\ pc' = [pc EXCEPT ![r] = "host"]
          /\ result' = [result EXCEPT ![r] = Failed(FALSE)]
    /\ UNCHANGED <<on, call, pos, local, cache, snap, spread>>

\* cpmdc_embed_energy_grad on this rank, the spread cleared, and the buffer
\* of the closing collective.  A failed SCF may have written its snapshots.
Evaluate(r) ==
    /\ pc[r] = "scf"
    /\ pc' = [pc EXCEPT ![r] = "agree"]
    /\ spread' = [spread EXCEPT ![r] = None]
    /\ \E memory \in BOOLEAN, e \in Energies :
          \/ /\ local' = [local EXCEPT ![r] =
                   [ok |-> TRUE, stop |-> FALSE, memory |-> memory, energy |-> e]]
             /\ snap' = [snap EXCEPT ![r] = e]
          \/ /\ local' = [local EXCEPT ![r] =
                   [ok |-> FALSE, stop |-> FALSE, memory |-> memory, energy |-> None]]
             /\ snap' = [snap EXCEPT ![r] = e] \/ UNCHANGED snap
          \/ /\ local' = [local EXCEPT ![r] =
                   [ok |-> FALSE, stop |-> TRUE, memory |-> memory, energy |-> None]]
             /\ UNCHANGED snap
    /\ UNCHANGED <<on, call, pos, cache, result>>

-----------------------------------------------------------------------------
(* rank_consensus and what its caller does with the outcome *)

\* Consensus off: the rank keeps its own outcome, whatever the buffer.
OwnVerdict(r) == [ok |-> local[r].ok, stop |-> local[r].stop]

\* The flags after MPI_Allreduce(MAX): one failure or one stop is everyone's.
Verdict(S) ==
    [ok |-> \A r \in S : local[r].ok /\ local[r].memory,
     stop |-> \E r \in S : local[r].stop]

\* Fault: the stored result outlives a failed call.
ReturnKeepsCache(S, v) ==
    /\ pc' = [r \in Ranks |-> IF r \in S THEN "host" ELSE pc[r]]
    /\ result' = [r \in Ranks |-> IF r \in S THEN Failed(v.stop) ELSE result[r]]
    /\ snap' = [r \in Ranks |-> IF r \in S /\ v.stop THEN None ELSE snap[r]]
    /\ UNCHANGED <<on, call, pos, local, cache, spread>>

\* The ranks of S return a failure: a stop resets CPMD and the image.
ReturnFailure(S, v) ==
    /\ pc' = [r \in Ranks |-> IF r \in S THEN "host" ELSE pc[r]]
    /\ result' = [r \in Ranks |-> IF r \in S THEN Failed(v.stop) ELSE result[r]]
    /\ snap' = [r \in Ranks |-> IF r \in S /\ v.stop THEN None ELSE snap[r]]
    /\ cache' = [r \in Ranks |-> IF r \in S THEN None ELSE cache[r]]
    /\ UNCHANGED <<on, call, pos, local, spread>>

\* The ranks of S return energies e.  session_store_cache may lack the memory
\* for its first buffers on any of them.
ReturnSuccess(S, e) ==
    /\ pc' = [r \in Ranks |-> IF r \in S THEN "host" ELSE pc[r]]
    /\ result' = [r \in Ranks |-> IF r \in S THEN Done(e[r], FALSE) ELSE result[r]]
    /\ \E lost \in SUBSET {r \in S : cache[r] = None} :
          cache' = [r \in Ranks |->
                      IF r \notin S THEN cache[r] ELSE IF r \in lost THEN None
                      ELSE [pos |-> pos[r], energy |-> e[r]]]
    /\ UNCHANGED <<on, call, pos, local>>

\* Without consensus a rank returns its own outcome at once.
ReturnAlone(r) ==
    /\ ~on
    /\ pc[r] = "agree"
    /\ LET v == OwnVerdict(r)
       IN  IF v.stop \/ ~v.ok THEN ReturnFailure({r}, v)
           ELSE /\ ReturnSuccess({r}, [q \in {r} |-> local[q].energy])
                /\ UNCHANGED <<snap, spread>>

\* The first collective of rank_consensus.
AgreeOnFlags ==
    /\ on
    /\ \A r \in Ranks : pc[r] = "agree"
    /\ LET v == Verdict(Ranks)
       IN  IF v.stop \/ ~v.ok THEN ReturnFailure(Ranks, v)
           ELSE /\ pc' = [r \in Ranks |-> "share"]
                /\ UNCHANGED <<on, call, pos, local, cache, snap, spread, result>>

\* Fault: the image's snapshots are not broadcast.
ShareNumbersOnly ==
    /\ \A r \in Ranks : pc[r] = "share"
    /\ ReturnSuccess(Ranks, [r \in Ranks |-> local[Root].energy])
    /\ spread' = [r \in Ranks |-> \E q \in Ranks : local[q].energy # local[Root].energy]
    /\ UNCHANGED snap

\* Fault: a rank that differs keeps its own energy.
ShareSpreadOnly ==
    /\ \A r \in Ranks : pc[r] = "share"
    /\ ReturnSuccess(Ranks, [r \in Ranks |-> local[r].energy])
    /\ spread' = [r \in Ranks |-> \E q \in Ranks : local[q].energy # local[Root].energy]
    /\ snap' = [r \in Ranks |-> snap[Root]]

\* The broadcasts of the root's numbers and snapshots, then the spread.
ShareRoot ==
    /\ \A r \in Ranks : pc[r] = "share"
    /\ ReturnSuccess(Ranks, [r \in Ranks |-> local[Root].energy])
    /\ spread' = [r \in Ranks |-> \E q \in Ranks : local[q].energy # local[Root].energy]
    /\ snap' = [r \in Ranks |-> snap[Root]]

RepeatStep == \/ on /\ DecideRepeat(Ranks)
              \/ ~on /\ \E r \in Ranks : DecideRepeat({r})

RankStep(r) ==
    \/ \E p \in Positions : Enter(r, p)
    \/ Refuse(r)
    \/ Configure(r)
    \/ Evaluate(r)
    \/ ReturnAlone(r)

Next == \/ \E r \in Ranks : RankStep(r)
        \/ RepeatStep
        \/ AgreeOnFlags
        \/ ShareRoot

\* The host runs the same program on every rank: a call one rank has begun
\* is begun by the others as well.
FollowsHost(r) == /\ \E q \in Ranks : call[q] > call[r]
                  /\ \E p \in Positions : Enter(r, p)

\* A rank inside a call keeps running, and MPI completes a collective that
\* every rank has entered.
Fairness ==
    /\ \A r \in Ranks : WF_vars(FollowsHost(r)) /\ WF_vars(Configure(r))
                        /\ WF_vars(Evaluate(r)) /\ WF_vars(ReturnAlone(r))
                        /\ WF_vars(~on /\ DecideRepeat({r}))
    /\ WF_vars(on /\ DecideRepeat(Ranks)) /\ WF_vars(AgreeOnFlags) /\ WF_vars(ShareRoot)

Spec == Init /\ [][Next]_vars /\ Fairness

-----------------------------------------------------------------------------
(* Properties *)

Stages == {"host", "repeat?", "configure", "scf", "agree", "share"}
Entries == [pos : Positions, energy : Energies]

\* Every variable keeps the shape of the state it stands for.
TypeOK ==
    /\ on \in BOOLEAN
    /\ pc \in [Ranks -> Stages]
    /\ call \in [Ranks -> Nat]
    /\ pos \in [Ranks -> Positions \cup {None}]
    /\ local \in [Ranks -> Outcomes]
    /\ cache \in [Ranks -> Entries \cup {None}]
    /\ snap \in [Ranks -> Energies \cup {None}]
    /\ spread \in [Ranks -> BOOLEAN \cup {None}]
    /\ result \in [Ranks -> Results \cup {None}]

\* Two ranks that came back from the same call came back with the same
\* answer: both failed or both with the root's energy, both stopped or
\* neither, both from the store or neither (cpmdc.c 1082-1098).
OneAnswerPerCall ==
    on => \A r, q \in Ranks :
            result[r] # None /\ result[q] # None /\ call[r] = call[q]
              => result[r] = result[q]

\* No rank is back from a call in which another one still waits in a
\* collective, or waits for the decision of another collective: every rank
\* takes the same branch into the next collective (cpmdc.c 1082).
SameBranch ==
    on => \A r, q \in Ranks :
            pc[r] \in {"agree", "share"} /\ call[q] = call[r] => pc[q] # "host"

\* The snapshots a getter reads after a success are of the energy the call
\* returned, on every rank and also when the call was answered from the store.
SnapshotsAreOfTheAnswer ==
    \A r \in Ranks : result[r] # None /\ result[r].ok => snap[r] = result[r].energy

\* What a rank keeps for a repeat is the answer it last gave, and a call that
\* failed on one rank leaves no rank with a stored result to repeat from.
StoreIsOfTheAnswer ==
    \A r \in Ranks : result[r] # None /\ cache[r] # None =>
        /\ result[r].ok => result[r].energy = cache[r].energy
        /\ on => result[r].ok

\* Every evaluation comes back on every rank: no collective waits for a rank
\* that took another way (rank_consensus, rank_consensus_all).
EveryCallReturns == \A r \in Ranks : (pc[r] # "host") ~> (pc[r] = "host")

=============================================================================
