------------------------ MODULE CalculatorGroups_proofs ------------------------
(***************************************************************************)
(* Theorems about CalculatorGroups, for a world of any size, any           *)
(* communicators of the host and any arguments: types, the two properties  *)
(* of the stored communicators, and what a collective may never do.        *)
(***************************************************************************)
EXTENDS CalculatorGroups, WellFoundedInduction, FiniteSetTheorems, TLAPS

-----------------------------------------------------------------------------
(* The inductive invariant *)

\* What a rank that waits in a collective was let in with.  Its sessions are
\* still those it reported, and a communicator it lacked it lacks still.
WaitingAsEntered ==
    \A r \in World :
      /\ waits[r].call = "adopt" => waits[r].busy = (live[r] > 0)
      /\ waits[r].call = "bind" => comm[r] = NoComm /\ Divides(waits[r].rpc)

\* All ranks that wait in a bind passed the same argument.
OneSplit ==
    \A r, q \in World :
      waits[r].call = "bind" /\ waits[q].call = "bind" => waits[r].rpc = waits[q].rpc

\* The number an adoption answered is that of the communicator it stored.
AnswersOwnGroup ==
    \A r \in World : answer[r].call = "adopt" /\ answer[r].index >= 0 =>
      /\ comm[r] # NoComm
      /\ answer[r].index = r \div Cardinality(comm[r])

IInv == /\ TypeOK /\ GroupsAreBlocks
        /\ WaitingAsEntered /\ OneSplit /\ AnswersOwnGroup

-----------------------------------------------------------------------------
(* Numbers and finite sets *)

LEMMA LeastNat ==
    ASSUME NEW S \in SUBSET Nat, S # {}
    PROVE  \E x \in S : \A y \in S : x <= y
<1>1. PICK x \in S : \A y \in S : ~(<<y, x>> \in OpToRel(<, Nat))
  BY NatLessThanWellFounded, WFMin
<1>2. \A y \in S : ~(y < x)
  BY <1>1 DEF OpToRel
<1> QED BY <1>2

\* The largest is the one the least number of steps from the bound.
LEMMA GreatestNat ==
    ASSUME NEW S \in SUBSET Nat, S # {}, NEW n \in Nat, \A x \in S : x <= n
    PROVE  \E x \in S : \A y \in S : x >= y
<1> DEFINE D == {n - x : x \in S}
<1>1. D \in SUBSET Nat /\ D # {}
  <2>1. \A x \in S : n - x \in Nat
    OBVIOUS
  <2> QED BY <2>1
<1>2. PICK d \in D : \A e \in D : d <= e
  BY <1>1, LeastNat
<1>3. PICK x \in S : d = n - x
  OBVIOUS
<1>4. \A y \in S : n - x <= n - y
  BY <1>2, <1>3
<1> QED BY <1>4

LEMMA WorldIsFinite == IsFiniteSet(World) /\ Cardinality(World) = N
BY WorldIsNotEmpty, FS_Interval DEF World

\* A group of ranks has a lowest and a highest one, and a positive size.
LEMMA GroupFacts ==
    ASSUME NEW g \in SUBSET World, g # {}
    PROVE  /\ Min(g) \in g /\ \A x \in g : Min(g) <= x
           /\ Max(g) \in g /\ \A x \in g : x <= Max(g)
           /\ IsFiniteSet(g) /\ Cardinality(g) \in Nat \ {0}
<1>1. g \in SUBSET Nat /\ N \in Nat /\ \A x \in g : x <= N
  BY WorldIsNotEmpty DEF World
<1>2. \E x \in g : \A y \in g : x <= y
  BY <1>1, LeastNat
<1>3. \E x \in g : \A y \in g : x >= y
  BY <1>1, GreatestNat
<1>4. Min(g) \in g /\ \A x \in g : Min(g) <= x
  BY <1>2 DEF Min
<1>5. Max(g) \in g /\ \A x \in g : x <= Max(g)
  BY <1>1, <1>3 DEF Max
<1>6. IsFiniteSet(g)
  BY WorldIsFinite, FS_Subset
<1>7. Cardinality(g) \in Nat \ {0}
  BY <1>6, FS_CardinalityType, FS_EmptySet
<1> QED BY <1>4, <1>5, <1>6, <1>7

\* The numbers with quotient k.
LEMMA Quotient ==
    ASSUME NEW s \in Nat \ {0}, NEW q \in Nat, NEW k \in Nat
    PROVE  (q \div s = k) <=> (k * s <= q /\ q <= k * s + s - 1)
OBVIOUS

LEMMA QuotientIsNat ==
    ASSUME NEW s \in Nat \ {0}, NEW q \in Nat
    PROVE  q \div s \in Nat
OBVIOUS

\* A multiple of s is its quotient times s.
LEMMA Multiple ==
    ASSUME NEW s \in Nat \ {0}, NEW q \in Nat, q % s = 0
    PROVE  q = (q \div s) * s
<1>1. (q \div s) * s + (q % s) = q
  OBVIOUS
<1> QED BY <1>1, QuotientIsNat

\* Below a multiple of s there is room for the whole block.
LEMMA BlockFits ==
    ASSUME NEW s \in Nat \ {0}, NEW n \in Nat, n % s = 0, NEW k \in Nat, k * s < n
    PROVE  k * s + s <= n
<1> DEFINE m == n \div s
<1>1. m \in Nat /\ n = m * s
  BY Multiple, QuotientIsNat
<1> HIDE DEF m
<1>2. k < m
  BY <1>1
<1>3. (k + 1) * s <= m * s
  BY <1>1, <1>2
<1>4. (k + 1) * s = k * s + s
  OBVIOUS
<1> QED BY <1>1, <1>3, <1>4

\* The ranks of an aligned block are those with the block's quotient, so the
\* test in cpmdc_adopt.c on the lowest and the highest rank is enough.
LEMMA AlignedIsBlock ==
    ASSUME NEW g \in SUBSET World, g # {}, AlignedBlock(g), NEW r \in g
    PROVE  /\ g = BlockOf(r, Cardinality(g))
           /\ CalculatorIndex(g) = r \div Cardinality(g)
<1> DEFINE s == Cardinality(g)
           lo == Min(g)
           hi == Max(g)
           k == lo \div s
<1>1. /\ lo \in g /\ hi \in g /\ \A x \in g : lo <= x /\ x <= hi
      /\ s \in Nat \ {0}
      /\ g \in SUBSET Nat
  BY GroupFacts DEF World
<1>2. hi - lo + 1 = s /\ lo % s = 0
  BY DEF AlignedBlock
<1> HIDE DEF s, lo, hi
<1>3. g = lo .. hi
  <2>1. g \in SUBSET (lo .. hi)
    BY <1>1
  <2>2. IsFiniteSet(lo .. hi) /\ Cardinality(lo .. hi) = s
    BY <1>1, <1>2, FS_Interval
  <2> QED BY <2>1, <2>2, FS_Subset DEF s
<1>4. k \in Nat /\ lo = k * s
  BY <1>1, <1>2, QuotientIsNat, Multiple
<1>5. \A q \in Nat : q \in g <=> q \div s = k
  <2> TAKE q \in Nat
  <2>1. (q \div s = k) <=> (k * s <= q /\ q <= k * s + s - 1)
    BY <1>1, <1>4, Quotient
  <2>2. hi = lo + s - 1 /\ hi \in Nat /\ lo \in Nat
    BY <1>1, <1>2
  <2> HIDE DEF k
  <2> QED BY <1>3, <1>4, <2>1, <2>2
<1> HIDE DEF k
<1>6. r \div s = k
  BY <1>1, <1>5
<1>7. World \subseteq Nat
  BY DEF World
<1> QED BY <1>5, <1>6, <1>7 DEF BlockOf, CalculatorIndex, s, lo, k

\* A split into parts that divide the world leaves parts of equal size.
LEMMA BlockSize ==
    ASSUME NEW r \in World, NEW s \in Nat \ {0}, N % s = 0
    PROVE  Cardinality(BlockOf(r, s)) = s /\ r \in BlockOf(r, s)
<1> DEFINE k == r \div s
<1>1. N \in Nat /\ World = 0 .. N - 1 /\ r \in Nat
  BY WorldIsNotEmpty DEF World
<1>2. k \in Nat
  BY <1>1, QuotientIsNat
<1>3. k * s <= r /\ k * s \in Nat
  BY <1>1, <1>2, Quotient
<1>4. k * s + s <= N
  <2> HIDE DEF k
  <2>1. k * s < N
    BY <1>1, <1>3
  <2> QED BY <1>1, <1>2, <2>1, BlockFits
<1>5. BlockOf(r, s) = k * s .. k * s + s - 1
  <2>1. \A q \in Nat : (q \div s = k) <=> (k * s <= q /\ q <= k * s + s - 1)
    BY <1>2, Quotient
  <2> HIDE DEF k
  <2>2. \A q \in Nat : q <= k * s + s - 1 => q \in World
    BY <1>1, <1>2, <1>3, <1>4
  <2>3. BlockOf(r, s) = {q \in World : q \div s = k}
    BY DEF BlockOf, k
  <2>4. \A q \in World : q \in Nat
    BY <1>1
  <2> QED BY <1>3, <2>1, <2>2, <2>3, <2>4
<1> HIDE DEF k
<1>6. Cardinality(k * s .. k * s + s - 1) = s
  BY <1>3, FS_Interval
<1> QED BY <1>5, <1>6 DEF BlockOf

LEMMA GroupSizeFacts ==
    ASSUME NEW rpc \in Int
    PROVE  GroupSize(rpc) \in Nat \ {0}
BY WorldIsNotEmpty DEF GroupSize

LEMMA GroupsOfTheHost ==
    ASSUME NEW g \in Comms \cup {World}
    PROVE  g \in SUBSET World /\ g # {}
<1>1. 0 \in World
  BY WorldIsNotEmpty DEF World
<1> QED BY <1>1, CommsAreOfTheWorld

-----------------------------------------------------------------------------
(* The steps, one lemma each *)

LEMMA InitInv == Init => IInv
BY BoundIsPositive
   DEF Init, IInv, TypeOK, GroupsAreBlocks, WaitingAsEntered, OneSplit, AnswersOwnGroup,
       Calls, Idle, NoComm, NoAnswer

\* Sessions are opened and closed only outside a collective.
LEMMA SessionInv ==
    ASSUME IInv, NEW r \in World, SessionOpen(r) \/ SessionClose(r)
    PROVE  IInv'
<1>1. /\ waits[r] = Idle /\ live' \in [World -> 0 .. MaxLive]
      /\ \A q \in World : q # r => live'[q] = live[q]
      /\ answer' = [answer EXCEPT ![r] = NoAnswer]
      /\ UNCHANGED <<comm, waits>>
  BY BoundIsPositive DEF SessionOpen, SessionClose, IInv, TypeOK
<1>2. TypeOK'
  BY <1>1 DEF IInv, TypeOK, NoAnswer
<1>3. GroupsAreBlocks' /\ WaitingAsEntered' /\ OneSplit'
  BY <1>1 DEF IInv, TypeOK, GroupsAreBlocks, WaitingAsEntered, OneSplit, Idle
<1>4. AnswersOwnGroup'
  BY <1>1 DEF IInv, TypeOK, AnswersOwnGroup, NoAnswer
<1> QED BY <1>2, <1>3, <1>4 DEF IInv

\* A call that returns without a collective stores nothing; a number it
\* answers is not an adoption's.
LEMMA ReturnsInv ==
    ASSUME IInv, NEW r \in World, NEW a \in [call : {"none", "adopt", "bind"}, index : Int],
           a.call = "adopt" => a.index < 0,
           answer' = [answer EXCEPT ![r] = a],
           UNCHANGED <<comm, live, waits>>
    PROVE  IInv'
<1>1. TypeOK'
  BY DEF IInv, TypeOK
<1>2. GroupsAreBlocks' /\ WaitingAsEntered' /\ OneSplit'
  BY DEF IInv, TypeOK, GroupsAreBlocks, WaitingAsEntered, OneSplit
<1>3. AnswersOwnGroup'
  BY DEF IInv, TypeOK, AnswersOwnGroup
<1> QED BY <1>1, <1>2, <1>3 DEF IInv

LEMMA AdoptEnterInv ==
    ASSUME IInv, NEW r \in World, NEW g \in Comms \cup {World}, NEW rpc \in PerCalc,
           AdoptEnter(r, g, rpc)
    PROVE  IInv'
<1> DEFINE w == [call |-> "adopt", over |-> g, rpc |-> rpc, busy |-> live[r] > 0]
<1>1. waits' = [waits EXCEPT ![r] = w] /\ answer' = [answer EXCEPT ![r] = NoAnswer]
      /\ UNCHANGED <<comm, live>> /\ ~WrongSize(g, rpc)
  BY DEF AdoptEnter
<1>2. w \in Calls
  BY ArgumentsAreIntegers, GroupsOfTheHost DEF Calls
<1>3. TypeOK'
  BY <1>1, <1>2 DEF IInv, TypeOK, NoAnswer, WrongSize
<1>4. GroupsAreBlocks' /\ WaitingAsEntered' /\ OneSplit'
  BY <1>1 DEF IInv, TypeOK, GroupsAreBlocks, WaitingAsEntered, OneSplit
<1>5. AnswersOwnGroup'
  BY <1>1 DEF IInv, TypeOK, AnswersOwnGroup, NoAnswer
<1> QED BY <1>3, <1>4, <1>5 DEF IInv

LEMMA BindEnterInv ==
    ASSUME IInv, NEW r \in World, NEW rpc \in PerCalc, BindEnter(r, rpc)
    PROVE  IInv'
<1> DEFINE w == [call |-> "bind", over |-> World, rpc |-> rpc, busy |-> FALSE]
<1>1. waits' = [waits EXCEPT ![r] = w] /\ answer' = [answer EXCEPT ![r] = NoAnswer]
      /\ UNCHANGED <<comm, live>>
  BY DEF BindEnter
<1>2. w \in Calls
  BY ArgumentsAreIntegers DEF Calls
<1>3. TypeOK'
  BY <1>1, <1>2 DEF IInv, TypeOK, NoAnswer
<1>4. GroupsAreBlocks' /\ WaitingAsEntered' /\ OneSplit'
  BY <1>1 DEF IInv, TypeOK, BindEnter, GroupsAreBlocks, WaitingAsEntered, OneSplit
<1>5. AnswersOwnGroup'
  BY <1>1 DEF IInv, TypeOK, AnswersOwnGroup, NoAnswer
<1> QED BY <1>3, <1>4, <1>5 DEF IInv

\* The verdict is one for the whole group.
LEMMA OneVerdict == ASSUME NEW g, NEW r, NEW q PROVE Allows(r, g) = Allows(q, g)
BY DEF Allows

LEMMA AdoptCompletesInv ==
    ASSUME IInv, NEW g \in Comms \cup {World}, AdoptCompletes(g)
    PROVE  IInv'
<1>1. g \in SUBSET World /\ g # {}
  BY GroupsOfTheHost
<1>2. PICK yes \in BOOLEAN : \A r \in g : Allows(r, g) = yes
  BY DEF Allows
<1>3. yes => AlignedBlock(g)
  BY <1>1, <1>2 DEF Allows
<1> DEFINE s == Cardinality(g)
           n == CalculatorIndex(g)
<1>4. s \in Nat \ {0} /\ n \in Int
  <2> DEFINE lo == Min(g)
  <2>1. s \in Nat \ {0} /\ lo \in Nat
    <3>1. s \in Nat \ {0} /\ lo \in g
      BY <1>1, GroupFacts
    <3> HIDE DEF s, lo
    <3> QED BY <1>1, <3>1 DEF World
  <2> HIDE DEF s, lo
  <2>2. lo \div s \in Int
    BY <2>1, QuotientIsNat
  <2> QED BY <2>1, <2>2 DEF CalculatorIndex, s, lo
<1>5. yes => \A r \in g : g = BlockOf(r, s) /\ n = r \div s
  BY <1>1, <1>3, AlignedIsBlock
<1>6. /\ waits' = [r \in World |-> IF r \in g THEN Idle ELSE waits[r]]
      /\ comm' = [r \in World |-> IF r \in g /\ yes THEN g ELSE comm[r]]
      /\ answer' = [r \in World |-> IF r \notin g THEN answer[r]
                                    ELSE Answer("adopt", IF yes THEN n ELSE Refused)]
      /\ UNCHANGED live
  BY <1>2 DEF AdoptCompletes
<1> HIDE DEF s, n
<1>7. TypeOK'
  <2>1. Idle \in Calls /\ Idle.call = "none"
    BY DEF Idle, Calls
  <2>2. Answer("adopt", IF yes THEN n ELSE Refused) \in [call : {"none", "adopt", "bind"}, index : Int]
    BY <1>4 DEF Answer, Refused
  <2> QED BY <1>1, <1>6, <2>1, <2>2 DEF IInv, TypeOK
<1>8. GroupsAreBlocks'
  BY <1>1, <1>5, <1>6 DEF IInv, GroupsAreBlocks, s
<1>9. WaitingAsEntered'
  BY <1>1, <1>6 DEF IInv, WaitingAsEntered, AdoptCompletes, Idle
<1>10. OneSplit'
  BY <1>6 DEF IInv, OneSplit, Idle
<1>11. AnswersOwnGroup'
  BY <1>1, <1>5, <1>6 DEF IInv, AnswersOwnGroup, Answer, Refused, NoComm, s
<1> QED BY <1>7, <1>8, <1>9, <1>10, <1>11 DEF IInv

LEMMA BindCompletesInv == ASSUME IInv, BindCompletes PROVE IInv'
<1>1. \A r \in World : waits[r].call = "bind" /\ Divides(waits[r].rpc)
  BY DEF BindCompletes, IInv, WaitingAsEntered
<1>2. PICK rpc \in Int : (\A r \in World : waits[r].rpc = rpc) /\ Divides(rpc)
  <2>1. 0 \in World
    BY WorldIsNotEmpty DEF World
  <2>2. waits[0].rpc \in Int
    BY <2>1 DEF IInv, TypeOK, Calls
  <2> QED BY <1>1, <2>1, <2>2 DEF IInv, OneSplit
<1> DEFINE s == GroupSize(rpc)
<1>3. s \in Nat \ {0} /\ N % s = 0
  BY <1>2, GroupSizeFacts DEF Divides
<1>4. \A r \in World : Colour(r) = r \div s /\ SplitOf(r) = BlockOf(r, s)
  BY <1>2 DEF Colour, SplitOf, BlockOf, IndexOf
<1> HIDE DEF s
<1>5. \A r \in World : /\ Cardinality(BlockOf(r, s)) = s
                       /\ r \in BlockOf(r, s) /\ BlockOf(r, s) \subseteq World
                       /\ r \div s \in Int
  <2> TAKE r \in World
  <2>1. r \in Nat
    BY DEF World
  <2> QED BY <1>3, <2>1, BlockSize, QuotientIsNat DEF BlockOf
<1>6. /\ comm' = [r \in World |-> BlockOf(r, s)]
      /\ answer' = [r \in World |-> Answer("bind", r \div s)]
      /\ waits' = [r \in World |-> Idle]
      /\ UNCHANGED live
  BY <1>4 DEF BindCompletes
<1>7. TypeOK'
  <2>1. Idle \in Calls /\ Idle.call = "none"
    BY DEF Idle, Calls
  <2>2. \A r \in World : Answer("bind", r \div s) \in [call : {"none", "adopt", "bind"}, index : Int]
    BY <1>5 DEF Answer
  <2> QED BY <1>5, <1>6, <2>1, <2>2 DEF IInv, TypeOK
<1>8. GroupsAreBlocks'
  BY <1>5, <1>6 DEF GroupsAreBlocks
<1>9. WaitingAsEntered' /\ OneSplit' /\ AnswersOwnGroup'
  BY <1>6 DEF WaitingAsEntered, OneSplit, AnswersOwnGroup, Idle, Answer
<1> QED BY <1>7, <1>8, <1>9 DEF IInv

LEMMA NextInv == IInv /\ [Next]_vars => IInv'
<1> SUFFICES ASSUME IInv, [Next]_vars PROVE IInv'
  OBVIOUS
<1>1. ASSUME NEW r \in World, NEW g \in Comms \cup {World}, NEW rpc \in PerCalc,
             AdoptRefused(r, g, rpc)
      PROVE  IInv'
  <2> DEFINE a == Answer("adopt", Refused)
  <2>1. a \in [call : {"none", "adopt", "bind"}, index : Int] /\ a.index < 0
    BY DEF Answer, Refused
  <2>2. answer' = [answer EXCEPT ![r] = a] /\ UNCHANGED <<comm, live, waits>>
    BY <1>1 DEF AdoptRefused
  <2> HIDE DEF a
  <2> QED BY <2>1, <2>2, ReturnsInv
<1>2. ASSUME NEW r \in World, NEW rpc \in PerCalc, BindReturns(r, rpc) PROVE IInv'
  <2> DEFINE a == Answer("bind", IF Divides(rpc) THEN IndexOf(r, rpc) ELSE Refused)
  <2>1. IndexOf(r, rpc) \in Int
    <3>1. rpc \in Int /\ r \in Nat
      BY ArgumentsAreIntegers DEF World
    <3>2. GroupSize(rpc) \in Nat \ {0}
      BY <3>1, GroupSizeFacts
    <3>3. r \div GroupSize(rpc) \in Nat
      BY <3>1, <3>2, QuotientIsNat
    <3> QED BY <3>3 DEF IndexOf
  <2>2. a \in [call : {"none", "adopt", "bind"}, index : Int] /\ a.call # "adopt"
    BY <2>1 DEF Answer, Refused
  <2>3. answer' = [answer EXCEPT ![r] = a] /\ UNCHANGED <<comm, live, waits>>
    BY <1>2 DEF BindReturns
  <2> HIDE DEF a
  <2> QED BY <2>2, <2>3, ReturnsInv
<1>3. ASSUME NEW r \in World, NEW rpc \in PerCalc, BindEnter(r, rpc) PROVE IInv'
  BY <1>3, BindEnterInv
<1>4. ASSUME NEW r \in World, NEW g \in Comms \cup {World}, NEW rpc \in PerCalc,
             AdoptEnter(r, g, rpc)
      PROVE  IInv'
  BY <1>4, AdoptEnterInv
<1>5. ASSUME NEW r \in World, SessionOpen(r) \/ SessionClose(r) PROVE IInv'
  BY <1>5, SessionInv
<1>6. ASSUME NEW g \in Comms \cup {World}, AdoptCompletes(g) PROVE IInv'
  BY <1>6, AdoptCompletesInv
<1>7. CASE BindCompletes
  BY <1>7, BindCompletesInv
<1>8. CASE UNCHANGED vars
  BY <1>8 DEF vars, IInv, TypeOK, GroupsAreBlocks, WaitingAsEntered, OneSplit, AnswersOwnGroup
<1> QED BY <1>1, <1>2, <1>3, <1>4, <1>5, <1>6, <1>7, <1>8 DEF Next

-----------------------------------------------------------------------------
(* The theorems *)

\* Every variable keeps its type, and a rank waits only in a collective over a
\* communicator of the size it asked for, in a world of any size.
THEOREM TypeCorrect == Spec => []TypeOK
<1>1. IInv => TypeOK
  BY DEF IInv
<1> QED BY <1>1, InitInv, NextInv, PTL DEF Spec

\* A stored communicator is an aligned block of the world, and among adopted
\* calculators of one size the answered index names one block, for any
\* communicators a host may offer (cpmdc_adopt_calculator_comm,
\* cpmdc_bind_calculator).
THEOREM BlocksAreNumbered == Spec => []NumberedBlocks
<1>1. IInv => NumberedBlocks
  <2> SUFFICES ASSUME IInv PROVE AdoptedIndexIsUnique
    BY DEF IInv, NumberedBlocks
  <2> SUFFICES ASSUME NEW r \in World, NEW q \in World,
                      answer[r].call = "adopt", answer[r].index >= 0,
                      answer[q].call = "adopt", answer[q].index >= 0,
                      Cardinality(comm[r]) = Cardinality(comm[q])
               PROVE  answer[r].index = answer[q].index <=> comm[r] = comm[q]
    BY DEF AdoptedIndexIsUnique
  <2> DEFINE s == Cardinality(comm[r])
  <2>1. /\ answer[r].index = r \div s /\ answer[q].index = q \div s
        /\ comm[r] = BlockOf(r, s) /\ comm[q] = BlockOf(q, s)
    BY DEF IInv, AnswersOwnGroup, GroupsAreBlocks
  <2> HIDE DEF s
  <2> QED BY <2>1 DEF BlockOf
<1> QED BY <1>1, InitInv, NextInv, PTL DEF Spec

\* A step that stores a communicator stores it on every rank of it, and
\* replaces one only when no rank of the new group has a session open,
\* although the ranks enter at different times.
THEOREM StoredTogetherWhenIdle == Spec => StoresOnWholeIdleGroup
<1> DEFINE Kept == \A r \in World : comm'[r] # comm[r] =>
                     /\ \A q \in comm'[r] : comm'[q] = comm'[r]
                     /\ comm[r] # NoComm => \A q \in comm'[r] : live[q] = 0
<1>1. IInv /\ [Next]_vars => [Kept]_vars
  <2> SUFFICES ASSUME IInv, Next PROVE Kept
    OBVIOUS
  <2>1. CASE UNCHANGED comm
    BY <2>1
  <2>2. ASSUME NEW g \in Comms \cup {World}, AdoptCompletes(g) PROVE Kept
    <3>1. g \in SUBSET World
      BY GroupsOfTheHost
    <3>2. \A r \in World : comm'[r] # comm[r] => /\ r \in g /\ Allows(r, g)
                                               /\ comm'[r] = g
      BY <2>2 DEF AdoptCompletes
    <3>3. \A r, q \in g : Allows(r, g) => comm'[q] = g
      BY <2>2, <3>1 DEF AdoptCompletes, Allows
    <3>4. \A r, q \in g : Allows(r, g) => live[q] = 0
      <4> SUFFICES ASSUME NEW r \in g, NEW q \in g, Allows(r, g) PROVE live[q] = 0
        OBVIOUS
      <4>1. q \in World /\ waits[q].call = "adopt" /\ ~waits[q].busy
        BY <2>2, <3>1 DEF AdoptCompletes, Allows
      <4>2. live[q] \in 0 .. MaxLive /\ ~(live[q] > 0)
        BY <4>1 DEF IInv, TypeOK, WaitingAsEntered
      <4> QED BY <4>2, BoundIsPositive
    <3> QED BY <3>2, <3>3, <3>4
  <2>3. CASE BindCompletes
    <3>1. \A r \in World : comm[r] = NoComm /\ comm'[r] = SplitOf(r)
      BY <2>3 DEF BindCompletes, IInv, WaitingAsEntered
    <3>2. \A r \in World : \A q \in SplitOf(r) : q \in World /\ SplitOf(q) = SplitOf(r)
      BY DEF SplitOf
    <3> QED BY <3>1, <3>2
  <2> QED BY <2>1, <2>2, <2>3
        DEF Next, SessionOpen, SessionClose, AdoptRefused, AdoptEnter, BindReturns, BindEnter
<1>2. Init => IInv
  BY InitInv
<1>3. IInv /\ [Next]_vars => IInv'
  BY NextInv
<1> QED BY <1>1, <1>2, <1>3, PTL DEF Spec, StoresOnWholeIdleGroup
================================================================================
