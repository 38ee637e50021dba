--------------------------- MODULE CalculatorGroups ---------------------------
(***************************************************************************)
(* Which communicator a rank calculates on: cpmdc_bind_calculator splits   *)
(* MPI_COMM_WORLD itself, cpmdc_adopt_calculator_comm installs one that    *)
(* the host split (src/src/cpmdc_adopt.c, src/src/cpmdc.c 1917-1970,       *)
(* src/src/cpmd_embed_c_api.F90 276-347).                                  *)
(*                                                                         *)
(* Every rank of the world is a process.  A communicator is the set of its *)
(* ranks.  Both calls are collective: a rank that enters waits until every *)
(* rank of the communicator has entered the same call, and while it waits  *)
(* the others go on opening and closing sessions.                          *)
(*                                                                         *)
(* A definition marked "Fault" is a wrong variant of the one after it.     *)
(***************************************************************************)
EXTENDS Integers, FiniteSets, FiniteSetsExt

CONSTANTS
    N,        \* size of MPI_COMM_WORLD
    Comms,    \* communicators the host holds, besides the world
    PerCalc,  \* values a host passes for ranks_per_calc
    MaxLive   \* bound: sessions open on a rank at a time

ASSUME WorldIsNotEmpty == N \in Nat \ {0}

World == 0 .. N - 1

ASSUME CommsAreOfTheWorld == \A g \in Comms : g \subseteq World /\ g # {}
ASSUME ArgumentsAreIntegers == PerCalc \subseteq Int
ASSUME BoundIsPositive == MaxLive \in Nat \ {0}

VARIABLES
    comm,    \* mp_comm_world of the embed, NoComm until one is stored
    live,    \* g_live_sessions
    waits,   \* the collective call a rank is in: its kind, communicator and arguments
    answer   \* what the last bind or adopt returned, NoAnswer after another call

vars == <<comm, live, waits, answer>>

Idle == [call |-> "none", over |-> {}, rpc |-> 0, busy |-> FALSE]
Refused == -1
NoComm == {}
NoAnswer == [call |-> "none", index |-> 0]
Answer(call, index) == [call |-> call, index |-> index]

Init ==
    /\ comm = [r \in World |-> NoComm]
    /\ live = [r \in World |-> 0]
    /\ waits = [r \in World |-> Idle]
    /\ answer = [r \in World |-> NoAnswer]

\* cpmdc_session_create and cpmdc_session_destroy.
SessionOpen(r) ==
    /\ waits[r] = Idle /\ live[r] < MaxLive
    /\ live' = [live EXCEPT ![r] = @ + 1]
    /\ answer' = [answer EXCEPT ![r] = NoAnswer]
    /\ UNCHANGED <<comm, waits>>

SessionClose(r) ==
    /\ waits[r] = Idle /\ live[r] > 0
    /\ live' = [live EXCEPT ![r] = @ - 1]
    /\ answer' = [answer EXCEPT ![r] = NoAnswer]
    /\ UNCHANGED <<comm, waits>>

-----------------------------------------------------------------------------
(* cpmdc_adopt_calculator_comm *)

\* Fault: the argument only has to divide the size.
NotAMultiple(g, rpc) == rpc > 0 /\ Cardinality(g) % rpc # 0

\* The refusal that needs no collective: every rank of g sees the same size.
WrongSize(g, rpc) == rpc > 0 /\ Cardinality(g) # rpc

AdoptRefused(r, g, rpc) ==
    /\ waits[r] = Idle /\ r \in g
    /\ WrongSize(g, rpc)
    /\ answer' = [answer EXCEPT ![r] = Answer("adopt", Refused)]
    /\ UNCHANGED <<comm, live, waits>>

\* A rank enters the collective with what it knows of its own sessions.
AdoptEnter(r, g, rpc) ==
    /\ waits[r] = Idle /\ r \in g
    /\ ~WrongSize(g, rpc)
    /\ waits' = [waits EXCEPT ![r] =
                   [call |-> "adopt", over |-> g, rpc |-> rpc, busy |-> live[r] > 0]]
    /\ answer' = [answer EXCEPT ![r] = NoAnswer]
    /\ UNCHANGED <<comm, live>>

\* Fault: only the width of the block is looked at.
UnalignedBlock(g) == Max(g) - Min(g) + 1 = Cardinality(g)

\* The block test on the lowest and highest world rank of the group.
AlignedBlock(g) ==
    /\ Max(g) - Min(g) + 1 = Cardinality(g)
    /\ Min(g) % Cardinality(g) = 0

\* Fault: each rank looks at its own sessions.
AllowsOwn(r, g) == ~waits[r].busy /\ AlignedBlock(g)

\* The verdict of the MPI_Allreduce, the same on every rank of the group.
Allows(r, g) == (\A q \in g : ~waits[q].busy) /\ AlignedBlock(g)

CalculatorIndex(g) == Min(g) \div Cardinality(g)

\* Every rank of g has entered: the collective completes, and each rank
\* stores the communicator in the embed and in C, or leaves both alone.
AdoptCompletes(g) ==
    /\ \A r \in g : waits[r].call = "adopt" /\ waits[r].over = g
    /\ waits' = [r \in World |-> IF r \in g THEN Idle ELSE waits[r]]
    /\ comm' = [r \in World |-> IF r \in g /\ Allows(r, g) THEN g ELSE comm[r]]
    /\ answer' = [r \in World |->
                    IF r \notin g THEN answer[r]
                    ELSE Answer("adopt", IF Allows(r, g) THEN CalculatorIndex(g) ELSE Refused)]
    /\ UNCHANGED live

-----------------------------------------------------------------------------
(* cpmdc_bind_calculator *)

GroupSize(rpc) == IF rpc <= 0 THEN N ELSE rpc
Divides(rpc) == GroupSize(rpc) <= N /\ N % GroupSize(rpc) = 0
IndexOf(r, rpc) == r \div GroupSize(rpc)

\* A split the world does not divide into, or one that has been made already.
\* The index is computed from this call's argument before the old split is noticed.
BindReturns(r, rpc) ==
    /\ waits[r] = Idle
    /\ ~Divides(rpc) \/ comm[r] # NoComm
    /\ answer' = [answer EXCEPT ![r] =
                    Answer("bind", IF Divides(rpc) THEN IndexOf(r, rpc) ELSE Refused)]
    /\ UNCHANGED <<comm, live, waits>>

\* Assumed of the host, and not checked by the code: every rank of the world
\* passes the same ranks_per_calc.
BindEnter(r, rpc) ==
    /\ waits[r] = Idle
    /\ Divides(rpc) /\ comm[r] = NoComm
    /\ \A q \in World : waits[q].call = "bind" => waits[q].rpc = rpc
    /\ waits' = [waits EXCEPT ![r] =
                   [call |-> "bind", over |-> World, rpc |-> rpc, busy |-> FALSE]]
    /\ answer' = [answer EXCEPT ![r] = NoAnswer]
    /\ UNCHANGED <<comm, live>>

\* MPI_Comm_split groups the ranks that passed the same colour.
Colour(r) == IndexOf(r, waits[r].rpc)
SplitOf(r) == {q \in World : Colour(q) = Colour(r)}

BindCompletes ==
    /\ \A r \in World : waits[r].call = "bind"
    /\ comm' = [r \in World |-> SplitOf(r)]
    /\ answer' = [r \in World |-> Answer("bind", Colour(r))]
    /\ waits' = [r \in World |-> Idle]
    /\ UNCHANGED live

Next ==
    \/ \E r \in World :
          \/ SessionOpen(r)
          \/ SessionClose(r)
          \/ \E g \in Comms \cup {World}, rpc \in PerCalc :
                AdoptRefused(r, g, rpc) \/ AdoptEnter(r, g, rpc)
          \/ \E rpc \in PerCalc : BindReturns(r, rpc) \/ BindEnter(r, rpc)
    \/ \E g \in Comms \cup {World} : AdoptCompletes(g)
    \/ BindCompletes

Spec == Init /\ [][Next]_vars

-----------------------------------------------------------------------------
(* Properties *)

Calls == [call : {"none", "adopt", "bind"}, over : SUBSET World, rpc : Int, busy : BOOLEAN]

\* Every variable keeps the shape of the state it stands for, and no rank
\* enters a call over a communicator of another size than it asked for.
TypeOK ==
    /\ comm \in [World -> SUBSET World]
    /\ live \in [World -> 0 .. MaxLive]
    /\ waits \in [World -> Calls]
    /\ \A r \in World : waits[r].call = "adopt" /\ waits[r].rpc > 0
                        => Cardinality(waits[r].over) = waits[r].rpc
    /\ answer \in [World -> [call : {"none", "adopt", "bind"}, index : Int]]

BlockOf(r, size) == {q \in World : q \div size = r \div size}

\* A calculator is the aligned block of world ranks that holds the rank,
\* whichever of the two calls stored it: cpmdc_adopt.c refuses the rest.
GroupsAreBlocks ==
    \A r \in World : comm[r] # NoComm => comm[r] = BlockOf(r, Cardinality(comm[r]))

\* Among adopted calculators of one size the returned index tells the groups
\* apart (cpmdc.h 304-307).
AdoptedIndexIsUnique ==
    \A r, q \in World :
        LET adopted(p) == answer[p].call = "adopt" /\ answer[p].index >= 0
        IN  adopted(r) /\ adopted(q) /\ Cardinality(comm[r]) = Cardinality(comm[q])
              => (answer[r].index = answer[q].index <=> comm[r] = comm[q])

\* Every calculator is one aligned block of ranks, and the number an adoption
\* returns names it: no other adopted calculator of its size has that number,
\* so two of them cannot write to one directory.  A bind on a rank that has a
\* calculator returns a number of its argument, not of the calculator.
NumberedBlocks == GroupsAreBlocks /\ AdoptedIndexIsUnique

\* A step that stores a communicator stores it on all of its ranks, and
\* replaces one only where no rank of the new group has a session open
\* (cpmdc.h 316-318), although the ranks enter at different times and go on
\* opening sessions until they do.
StoresOnWholeIdleGroup ==
    [][\A r \in World : comm'[r] # comm[r] =>
         /\ \A q \in comm'[r] : comm'[q] = comm'[r]
         /\ comm[r] # NoComm => \A q \in comm'[r] : live[q] = 0]_vars

=============================================================================
