----------------------------- MODULE CpmdcPromise -----------------------------
(***************************************************************************)
(* What libcpmdc promises a host, without an engine, images, latches or    *)
(* stored results: a session is a method and, from its first evaluation    *)
(* on, a composition; an evaluation fails or gives the energy of exactly   *)
(* that method, cell and geometry, as if it were computed from scratch.    *)
(* Module CpmdcSession implements it (CpmdcSession!ImplementsPromise).     *)
(***************************************************************************)
EXTENDS EmbedEngine, Sequences

CONSTANTS
    Sessions,   \* sessions a host can hold
    Plain,      \* the calculator of the plain calls
    Arrays,     \* atom arrays a host passes
    Unsettled   \* the method of a session whose last parameter call failed

VARIABLES
    method,  \* each session's method, None when it is not open
    fixed,   \* the topology each session is held to, None before the first call
    reply    \* what the last evaluation returned, None after another call

vars == <<method, fixed, reply>>

Init ==
    /\ method = [s \in Sessions |-> None]
    /\ fixed = [s \in Sessions |-> None]
    /\ reply = None

Open(s, m) ==
    /\ method[s] = None
    /\ method' = [method EXCEPT ![s] = m]
    /\ reply' = None
    /\ UNCHANGED fixed

\* A parameter call, before the first evaluation only.
Settle(s, m) ==
    /\ method[s] # None /\ fixed[s] = None
    /\ method' = [method EXCEPT ![s] = m]
    /\ reply' = None
    /\ UNCHANGED fixed

Close(s) ==
    /\ method[s] # None
    /\ method' = [method EXCEPT ![s] = None]
    /\ fixed' = [fixed EXCEPT ![s] = None]
    /\ reply' = None

\* A call that is no evaluation and leaves every session as it is.
OtherCall == reply' = None /\ UNCHANGED <<method, fixed>>

\* The answer a calculator gives that is set up for this call alone.
FromScratch(r) ==
    LET basis == [knobs |-> r.method, deck |-> r.method,
                  comp |-> Composition(r.atoms), cell |-> r.cell]
    IN  /\ r.energy = Energy(basis, r.atoms)
        /\ r.grad = Gradient(r.energy, r.atoms)

Holds(topology, atoms) ==
    topology = None \/ (topology.known /\ Known(atoms) /\ topology.comp = Composition(atoms))

TopologyOf(atoms) == [known |-> Known(atoms), comp |-> Composition(atoms)]

\* An evaluation in a session: only atoms that hold the session's topology
\* are answered, and they become its topology.
AnswerSession(s, atoms) ==
    /\ method[s] # None
    /\ reply' # None /\ reply'.who = s /\ reply'.atoms = atoms
    /\ method[s] # Unsettled => /\ reply'.method = method[s]
                                /\ reply'.ok => FromScratch(reply')
    /\ \/ /\ Holds(fixed[s], atoms)
          /\ fixed' = [fixed EXCEPT ![s] = TopologyOf(atoms)]
       \/ /\ ~Holds(fixed[s], atoms)
          /\ ~reply'.ok
          /\ UNCHANGED fixed
    /\ UNCHANGED method

\* A plain or one-shot evaluation brings its method along.
AnswerOnce ==
    /\ reply' # None /\ reply'.who \in {Plain, "oneshot"}
    /\ reply'.ok => FromScratch(reply')
    /\ UNCHANGED <<method, fixed>>

Next ==
    \/ \E s \in Sessions :
          \/ \E m \in Methods \cup {Unsettled} : Open(s, m) \/ Settle(s, m)
          \/ Close(s)
          \/ \E atoms \in Arrays : AnswerSession(s, atoms)
    \/ OtherCall
    \/ AnswerOnce

Spec == Init /\ [][Next]_vars

=============================================================================
