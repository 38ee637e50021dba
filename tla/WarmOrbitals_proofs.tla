-------------------------- MODULE WarmOrbitals_proofs --------------------------
(***************************************************************************)
(* Theorems about WarmOrbitals, for any keys, geometries and distances     *)
(* between them, any limits and ring size, and any number of calls.        *)
(***************************************************************************)
EXTENDS WarmOrbitals, SequenceTheorems, WellFoundedInduction, TLAPS

-----------------------------------------------------------------------------
(* The inductive invariant *)

\* CopiesAreDescribed, of any state of the orbitals.
Described(o) ==
    /\ o.have => o.store # None /\ o.store.converged
    /\ o.partial => o.store # None /\ ~o.store.converged
    /\ o.store # None => o.geo = o.store.at
    /\ \A k \in Holders(o) : o.slots[k].c0.converged /\ o.slots[k].geo = o.slots[k].c0.at
    /\ o.key # None => o.slots[o.key] = None

\* Of each call whose orbitals no later SCF replaced the copy is there, in the
\* store if its key is the selected one and parked otherwise.
Keeps(o, base) ==
    \A k \in Keys : base[k] # None /\ base[k].kept =>
      /\ k = o.key => /\ o.have /\ o.geo = base[k].geo
                      /\ o.store.key = k /\ o.store.call = base[k].call
      /\ k # o.key => /\ o.slots[k] # None /\ o.slots[k].geo = base[k].geo
                      /\ o.slots[k].c0.key = k /\ o.slots[k].c0.call = base[k].call

\* A copy left by a call under the selected key, or under none while it is
\* selected.
OfTheKey(o, c) == c.key \in {None, o.key}

\* The ring after n calls: the calls up to the last but one in a row, while the
\* store is of the last one and waits to join them (xstate 1).
RingUpTo(o, n) ==
    /\ o.xstate # 0 => o.have
    /\ o.xstate = 0 \/ ~Extrapolate => o.ring = << >>
    /\ \A i \in DOMAIN o.ring : o.ring[i].converged /\ OfTheKey(o, o.ring[i])
    /\ Extrapolate /\ o.xstate = 1 =>
         /\ o.store.call = n /\ OfTheKey(o, o.store)
         /\ \A i \in DOMAIN o.ring : o.ring[i].call = n - 1 - Len(o.ring) + i

Kept(o, base, n) == Described(o) /\ Keeps(o, base) /\ RingUpTo(o, n)

IInv == /\ TypeOK /\ Kept(orb, own, calls)
        /\ StartsFromNearest /\ OwnOrbitalsComeBack /\ RingIsOneTrajectory

Typed(o) == o \in Orbitals /\ Len(o.ring) <= RingSize

-----------------------------------------------------------------------------
(* Numbers and sequences *)

LEMMA LeastNat ==
    ASSUME NEW S \in SUBSET Nat, S # {}
    PROVE  Min(S) \in S /\ \A y \in S : Min(S) <= y
<1>1. PICK x \in S : \A y \in S : ~(<<y, x>> \in OpToRel(<, Nat))
  BY NatLessThanWellFounded, WFMin
<1>2. \A y \in S : ~(y < x)
  BY <1>1 DEF OpToRel
<1>3. \E z \in S : \A y \in S : z <= y
  BY <1>2
<1> QED BY <1>3 DEF Min

\* The last n elements of a sequence, in their order.
LEMMA LastOfFacts ==
    ASSUME NEW T, NEW s \in Seq(T), NEW n \in Nat \ {0}
    PROVE  /\ LastOf(s, n) \in Seq(T)
           /\ Len(LastOf(s, n)) <= n
           /\ Len(LastOf(s, n)) <= Len(s)
           /\ \A i \in DOMAIN LastOf(s, n) :
                 /\ i + (Len(s) - Len(LastOf(s, n))) \in DOMAIN s
                 /\ LastOf(s, n)[i] = s[i + (Len(s) - Len(LastOf(s, n)))]
<1> DEFINE len == Len(s)
           first == IF len > n THEN len - n + 1 ELSE 1
           tail == SubSeq(s, first, len)
<1>1. len \in Nat /\ DOMAIN s = 1 .. len
  OBVIOUS
<1>2. first \in 1 .. len + 1 /\ len - first + 1 \in Nat /\ len - first + 1 <= n
  <2> HIDE DEF len
  <2>1. CASE len > n
    BY <1>1, <2>1
  <2>2. CASE ~(len > n)
    BY <1>1, <2>2
  <2> QED BY <2>1, <2>2
<1>3. LastOf(s, n) = tail
  BY DEF LastOf
<1> HIDE DEF first
<1>4. \A i \in first .. len : s[i] \in T
  BY <1>1, <1>2
<1>5. tail = [i \in 1 .. len - first + 1 |-> s[first + i - 1]]
  BY <1>1, <1>2
<1>6. tail \in Seq(T) /\ Len(tail) = len - first + 1
  <2>1. \A i \in 1 .. len - first + 1 : s[first + i - 1] \in T
    <3> HIDE DEF len
    <3> QED BY <1>1, <1>2, <1>4
  <2> HIDE DEF tail
  <2> QED BY <1>2, <1>5, <2>1
<1>7. \A i \in 1 .. len - first + 1 : tail[i] = s[first + i - 1]
  BY <1>5
<1> HIDE DEF len, tail
<1>8. \A i \in 1 .. len - first + 1 : /\ i + (len - (len - first + 1)) = first + i - 1
                                       /\ first + i - 1 \in 1 .. len
  BY <1>1, <1>2
<1>9. /\ DOMAIN tail = 1 .. len - first + 1
      /\ len - first + 1 <= len
  BY <1>1, <1>2, <1>6
<1> QED BY <1>1, <1>2, <1>3, <1>6, <1>7, <1>8, <1>9 DEF len

-----------------------------------------------------------------------------
(* Fresh orbitals, selecting a key *)

LEMMA FreshKept ==
    ASSUME NEW diis \in BOOLEAN, NEW key \in {None} \cup Keys, NEW n \in Nat
    PROVE  /\ Typed(Fresh(diis, key)) /\ Fresh(diis, key).key = key
           /\ Kept(Fresh(diis, key), NoneOwned, n)
<1> DEFINE f == Fresh(diis, key)
<1>1. f \in Orbitals /\ f.ring = << >>
  BY DEF Fresh, Orbitals
<1>2. Len(f.ring) <= RingSize
  BY <1>1, Bounds
<1>3. Described(f) /\ Keeps(f, NoneOwned) /\ RingUpTo(f, n)
  BY DEF Fresh, Described, Holders, Keeps, NoneOwned, RingUpTo
<1> QED BY <1>1, <1>2, <1>3 DEF Typed, Kept, Fresh

LEMMA BreakHistoryFacts ==
    ASSUME NEW o \in Orbitals
    PROVE  /\ Typed(BreakHistory(o))
           /\ BreakHistory(o).store = o.store /\ BreakHistory(o).geo = o.geo
           /\ BreakHistory(o).have = o.have /\ BreakHistory(o).partial = o.partial
           /\ BreakHistory(o).slots = o.slots /\ BreakHistory(o).key = o.key
           /\ BreakHistory(o).diis = o.diis
           /\ BreakHistory(o).ring = << >> /\ BreakHistory(o).xstate = 0
<1>1. BreakHistory(o) = [o EXCEPT !.ring = << >>, !.xstate = 0]
  BY DEF BreakHistory
<1>2. << >> \in Seq(Copies) /\ 0 \in 0..2 /\ Len(<< >>) <= RingSize
  BY Bounds
<1>3. BreakHistory(o) \in Orbitals
  BY <1>1, <1>2 DEF Orbitals
<1>4. BreakHistory(o).ring = << >> /\ BreakHistory(o).xstate = 0
  BY <1>1 DEF Orbitals
<1> QED BY <1>1, <1>2, <1>3, <1>4 DEF Typed, Orbitals

LEMMA ParkedFacts ==
    ASSUME NEW o \in Orbitals, Described(o)
    PROVE  /\ Parked(o) \in [Keys -> {None} \cup Slots]
           /\ \A k \in Keys :
                 Parked(o)[k] = IF k = o.key /\ o.have THEN [c0 |-> o.store, geo |-> o.geo]
                                ELSE o.slots[k]
<1>1. o.have => o.store \in Copies /\ o.geo \in Geometries
  BY DEF Described, Orbitals, Copies
<1> QED BY <1>1, Flags DEF Parked, Orbitals, Slots

\* Selecting a key keeps every copy a host can count on.
LEMMA SelectKept ==
    ASSUME NEW o, Typed(o), NEW base \in [Keys -> {None} \cup Owned], NEW n \in Nat,
           Kept(o, base, n), NEW k \in Keys
    PROVE  /\ Typed(Select(o, k)) /\ Select(o, k).key = k
           /\ Kept(Select(o, k), base, n)
<1> DEFINE park == Parked(o)
           mine == park[k]
           new == Select(o, k)
<1>1. CASE o.key = k
  BY <1>1 DEF Select
<1>2. CASE o.key # k
  <2>1. /\ park \in [Keys -> {None} \cup Slots]
        /\ \A j \in Keys : park[j] = IF j = o.key /\ o.have THEN [c0 |-> o.store, geo |-> o.geo]
                                     ELSE o.slots[j]
    BY ParkedFacts DEF Typed, Kept
  <2>2. k # None /\ o \in Orbitals
    BY Flags DEF Typed
  <2>3. o.have => [c0 |-> o.store, geo |-> o.geo] # None
    <3>1. o.have => [c0 |-> o.store, geo |-> o.geo] \in Slots
      BY <2>2 DEF Kept, Described, Orbitals, Slots, Copies
    <3> QED BY <3>1, NoneIsApart
  <2> HIDE DEF park
  <2>4. /\ new.ring = << >> /\ new.xstate = 0 /\ new.key = k
        /\ mine = None => /\ new.store = o.store /\ new.geo = o.geo /\ new.have = o.have
                          /\ new.partial = o.partial /\ new.slots = park
        /\ mine # None => /\ new.store = mine.c0 /\ new.geo = mine.geo /\ new.have
                          /\ ~new.partial /\ new.slots = [park EXCEPT ![k] = None]
    BY <1>2, <2>1, <2>2 DEF Select, BreakHistory, Orbitals, park
  <2>5. mine # None => mine = o.slots[k] /\ mine.c0 \in Copies /\ mine.geo \in Geometries
    BY <1>2, <2>1 DEF Slots
  <2>6. new \in Orbitals
    <3> DEFINE b == BreakHistory(o)
    <3>1. b \in Orbitals
      BY <2>2, BreakHistoryFacts DEF Typed
    <3>2. CASE mine = None
      <4>1. new = [b EXCEPT !.slots = park, !.key = k]
        BY <1>2, <3>1, <3>2 DEF Select, park
      <4> HIDE DEF b, new
      <4> QED BY <2>1, <3>1, <4>1 DEF Orbitals
    <3>3. CASE mine # None
      <4>1. new = [b EXCEPT !.slots = [park EXCEPT ![k] = None], !.key = k,
                     !.store = mine.c0, !.geo = mine.geo, !.have = TRUE, !.partial = FALSE]
        BY <1>2, <2>1, <3>1, <3>3 DEF Select, Orbitals, park
      <4>2. [park EXCEPT ![k] = None] \in [Keys -> {None} \cup Slots]
        BY <2>1
      <4>3. mine.c0 \in Copies /\ mine.geo \in Geometries
        BY <2>5, <3>3
      <4> HIDE DEF b, new, mine
      <4> QED BY <3>1, <4>1, <4>2, <4>3 DEF Orbitals
    <3> QED BY <3>2, <3>3
  <2>7. Typed(new)
    BY <2>4, <2>6, Bounds DEF Typed
  <2>8. Described(new)
    <3>1. \A j \in Keys : new.slots[j] = IF j = k THEN None ELSE park[j]
      BY <2>1, <2>4
    <3>2. \A j \in Keys : park[j] # None => /\ park[j].c0.converged
                                           /\ park[j].geo = park[j].c0.at
      BY <2>1, <2>2 DEF Kept, Described, Holders
    <3>3. /\ new.have => new.store # None /\ new.store.converged
          /\ new.partial => new.store # None /\ ~new.store.converged
          /\ new.store # None => new.geo = new.store.at
      BY <2>4, <2>5, <3>2, NoneIsApart DEF Kept, Described
    <3>4. \A j \in Holders(new) : new.slots[j].c0.converged /\ new.slots[j].geo = new.slots[j].c0.at
      BY <3>1, <3>2 DEF Holders
    <3> QED BY <2>2, <2>4, <3>1, <3>3, <3>4 DEF Described
  <2>9. Keeps(new, base)
    <3> SUFFICES ASSUME NEW j \in Keys, base[j] # None, base[j].kept
                 PROVE  /\ j = k => /\ new.have /\ new.geo = base[j].geo
                                   /\ new.store.key = j /\ new.store.call = base[j].call
                        /\ j # k => /\ new.slots[j] # None /\ new.slots[j].geo = base[j].geo
                                   /\ new.slots[j].c0.key = j /\ new.slots[j].c0.call = base[j].call
      BY <2>4 DEF Keeps
    <3>1. /\ j = o.key => /\ o.have /\ o.geo = base[j].geo
                          /\ o.store.key = j /\ o.store.call = base[j].call
          /\ j # o.key => /\ o.slots[j] # None /\ o.slots[j].geo = base[j].geo
                          /\ o.slots[j].c0.key = j /\ o.slots[j].c0.call = base[j].call
      BY DEF Kept, Keeps
    <3>2. CASE j = k
      BY <1>2, <2>1, <2>4, <3>1, <3>2
    <3>3. CASE j # k
      <4>1. new.slots[j] = park[j]
        BY <2>1, <2>4, <3>3
      <4> QED BY <2>1, <2>3, <3>1, <3>3, <4>1
    <3> QED BY <3>2, <3>3
  <2>10. RingUpTo(new, n)
    BY <2>4 DEF RingUpTo
  <2> QED BY <2>4, <2>7, <2>8, <2>9, <2>10 DEF Kept
<1> QED BY <1>1, <1>2

\* The same when a session that never named a key leaves the selected one.
LEMMA SelectedKept ==
    ASSUME IInv, NEW k \in Keys \cup {None}
    PROVE  /\ Typed(Selected(k)) /\ (k # None => Selected(k).key = k)
           /\ Kept(Selected(k), own, calls)
<1>1. Typed(orb) /\ Kept(orb, own, calls) /\ own \in [Keys -> {None} \cup Owned] /\ calls \in Nat
  BY Bounds DEF IInv, TypeOK, Typed
<1> QED BY <1>1, SelectKept DEF Selected

-----------------------------------------------------------------------------
(* Choosing the copy to start from *)

LEMMA DistancesAreNatural ==
    ASSUME NEW o \in Orbitals, Described(o), NEW g \in Geometries
    PROVE  Distances(o, g) \subseteq Nat
<1>1. \A k \in Holders(o) : o.slots[k].geo \in Geometries
  BY DEF Holders, Orbitals, Slots
<1>2. o.have => o.geo \in Geometries
  BY DEF Described, Orbitals, Copies
<1> QED BY <1>1, <1>2, DistanceIsNatural DEF Distances

LEMMA DroppedFacts ==
    ASSUME NEW o \in Orbitals, Described(o), NEW n \in Nat
    PROVE  LET d == DroppedStore(o)
           IN  /\ Typed(d) /\ Described(d) /\ RingUpTo(d, n)
               /\ d.key = o.key /\ d.slots = o.slots
<1> DEFINE b == BreakHistory(o)
           d == DroppedStore(o)
<1>1. /\ b \in Orbitals /\ b.ring = << >> /\ b.xstate = 0 /\ b.store = o.store
      /\ b.geo = o.geo /\ b.key = o.key /\ b.slots = o.slots /\ Len(b.ring) <= RingSize
  BY BreakHistoryFacts DEF Typed
<1>2. d = [b EXCEPT !.have = FALSE, !.partial = FALSE]
  BY DEF DroppedStore
<1> HIDE DEF b, d
<1>3. d \in Orbitals
  BY <1>1, <1>2 DEF Orbitals
<1>4. /\ ~d.have /\ ~d.partial /\ d.ring = << >> /\ d.xstate = 0
      /\ d.store = o.store /\ d.geo = o.geo /\ d.key = o.key /\ d.slots = o.slots
  BY <1>1, <1>2 DEF Orbitals
<1>5. Typed(d)
  BY <1>1, <1>3, <1>4 DEF Typed
<1>6. Described(d) /\ RingUpTo(d, n)
  BY <1>4 DEF Described, Holders, RingUpTo
<1> QED BY <1>4, <1>5, <1>6 DEF d

LEMMA CopiedFacts ==
    ASSUME NEW o \in Orbitals, Described(o), NEW n \in Nat, NEW k \in Holders(o)
    PROVE  LET d == CopiedFrom(o, k)
           IN  /\ Typed(d) /\ Described(d) /\ RingUpTo(d, n)
               /\ d.key = o.key /\ d.slots = o.slots
               /\ d.have /\ d.geo = o.slots[k].geo
<1> DEFINE b == BreakHistory(o)
           d == CopiedFrom(o, k)
           c0 == o.slots[k].c0
           geo == o.slots[k].geo
<1>1. /\ b \in Orbitals /\ b.ring = << >> /\ b.xstate = 0
      /\ b.key = o.key /\ b.slots = o.slots /\ Len(b.ring) <= RingSize
  BY BreakHistoryFacts DEF Typed
<1>2. d = [b EXCEPT !.store = c0, !.geo = geo, !.have = TRUE, !.partial = FALSE]
  BY DEF CopiedFrom
<1>3. c0 \in Copies /\ geo \in Geometries /\ c0.converged /\ geo = c0.at
  BY DEF Described, Holders, Orbitals, Slots
<1> HIDE DEF b, d, c0, geo
<1>4. d \in Orbitals
  BY <1>1, <1>2, <1>3 DEF Orbitals
<1>5. /\ d.have /\ ~d.partial /\ d.ring = << >> /\ d.xstate = 0
      /\ d.store = c0 /\ d.geo = geo /\ d.key = o.key /\ d.slots = o.slots
  BY <1>1, <1>2 DEF Orbitals
<1>6. Typed(d)
  BY <1>1, <1>4, <1>5 DEF Typed
<1>7. Described(d) /\ RingUpTo(d, n)
  BY <1>3, <1>5, NoneIsApart DEF Described, Holders, RingUpTo
<1> QED BY <1>5, <1>6, <1>7 DEF d, geo

\* A choice keeps the invariants of the orbitals, and within a limit of zero or
\* more it starts at least as near as any copy within the limit.
LEMMA ChooseFacts ==
    ASSUME NEW o, Typed(o), Described(o), NEW n \in Nat, RingUpTo(o, n),
           NEW g \in Geometries, NEW rmax \in Limits, NEW c \in ChooseWarmStart(o, g, rmax)
    PROVE  /\ Typed(c.orb) /\ Described(c.orb) /\ RingUpTo(c.orb, n)
           /\ c.orb.key = o.key /\ c.orb.slots = o.slots
           /\ c.source \in -2..1 /\ (c.source = 0 => c.orb = o /\ o.have)
           /\ rmax >= 0 => \A d \in Distances(o, g) :
                 d <= rmax => c.orb.have /\ Distance(c.orb.geo, g) <= d
<1> DEFINE nearest == Min(Distances(o, g))
<1>1. o \in Orbitals /\ rmax \in Int /\ Distances(o, g) \subseteq Nat
  BY Bounds, DistancesAreNatural DEF Typed
<1>2. Distances(o, g) # {} =>
        nearest \in Distances(o, g) /\ \A d \in Distances(o, g) : nearest <= d
  BY <1>1, LeastNat
<1> HIDE DEF nearest
<1>3. CASE c = Start(o, -2) /\ Distances(o, g) = {}
  BY <1>3 DEF Start
<1>4. CASE Distances(o, g) # {} /\ rmax < 0 /\ c = Start(o, IF o.have THEN 0 ELSE -2)
  BY <1>1, <1>4 DEF Start
<1>5. CASE Distances(o, g) # {} /\ ~(rmax < 0) /\ nearest > rmax /\ c = Start(DroppedStore(o), -1)
  <2>1. \A d \in Distances(o, g) : ~(d <= rmax)
    BY <1>1, <1>2, <1>5
  <2>2. c.orb = DroppedStore(o) /\ c.source = -1
    BY <1>5 DEF Start
  <2> QED BY <1>1, <2>1, <2>2, DroppedFacts
<1>6. CASE /\ Distances(o, g) # {} /\ o.have /\ Distance(o.geo, g) = nearest
           /\ c = Start(o, 0)
  BY <1>2, <1>6 DEF Start
<1>7. CASE /\ Distances(o, g) # {}
           /\ \E k \in Holders(o) : /\ Distance(o.slots[k].geo, g) = nearest
                                    /\ c = Start(CopiedFrom(o, k), 1)
  <2>1. PICK k \in Holders(o) : /\ Distance(o.slots[k].geo, g) = nearest
                                /\ c = Start(CopiedFrom(o, k), 1)
    BY <1>7
  <2>2. c.orb = CopiedFrom(o, k) /\ c.source = 1
    BY <2>1 DEF Start
  <2> QED BY <1>1, <1>2, <1>7, <2>1, <2>2, CopiedFacts
<1> QED BY <1>3, <1>4, <1>5, <1>6, <1>7 DEF ChooseWarmStart, nearest

-----------------------------------------------------------------------------
(* One pass *)

\* What a prediction leaves: the same store, and a ring of the calls up to n in
\* a row that the store has joined.
LEMMA ExtrapolatedFacts ==
    ASSUME NEW o, Typed(o), Described(o), NEW n \in Nat, RingUpTo(o, n)
    PROVE  LET e == Extrapolated(o)
           IN  /\ Typed(e) /\ Described(e)
               /\ e.store = o.store /\ e.have = o.have /\ e.geo = o.geo
               /\ e.key = o.key /\ e.slots = o.slots
               /\ Extrapolate => e.xstate # 1
               /\ \A m \in Nat : RingUpTo(e, m)
               /\ \A i \in DOMAIN e.ring : /\ e.ring[i].call = n - Len(e.ring) + i
                                            /\ e.ring[i].converged
                                            /\ OfTheKey(o, e.ring[i])
<1> DEFINE e == Extrapolated(o)
<1>0. o \in Orbitals
  BY DEF Typed
<1>1. CASE ~(Extrapolate /\ o.have)
  <2>1. e = o /\ o.ring = << >> /\ (Extrapolate => o.xstate = 0)
    BY <1>1 DEF Extrapolated, RingUpTo
  <2>2. DOMAIN << >> = {}
    OBVIOUS
  <2> HIDE DEF e
  <2>3. \A m \in Nat : RingUpTo(e, m)
    BY <2>1, <2>2 DEF RingUpTo
  <2> QED BY <2>1, <2>2, <2>3 DEF e
<1>2. CASE Extrapolate /\ o.have /\ o.xstate # 1
  <2>1. e = BreakHistory(o)
    BY <1>2 DEF Extrapolated
  <2>2. DOMAIN << >> = {}
    OBVIOUS
  <2> HIDE DEF e
  <2>3. /\ Typed(e) /\ e.store = o.store /\ e.geo = o.geo /\ e.have = o.have
        /\ e.partial = o.partial /\ e.slots = o.slots /\ e.key = o.key
        /\ e.ring = << >> /\ e.xstate = 0
    BY <1>0, <2>1, BreakHistoryFacts
  <2>4. Described(e) /\ \A m \in Nat : RingUpTo(e, m)
    BY <2>2, <2>3 DEF Described, Holders, RingUpTo
  <2> QED BY <2>2, <2>3, <2>4 DEF e
<1>3. CASE Extrapolate /\ o.have /\ o.xstate = 1
  <2> DEFINE s == Append(o.ring, o.store)
             r == LastOf(s, RingSize)
  <2>1. o.store \in Copies /\ o.ring \in Seq(Copies)
    BY <1>0, <1>3 DEF Described, Orbitals
  <2>2. /\ s \in Seq(Copies) /\ Len(s) = Len(o.ring) + 1 /\ DOMAIN s = 1 .. Len(s)
        /\ \A i \in 1 .. Len(o.ring) : s[i] = o.ring[i]
        /\ s[Len(o.ring) + 1] = o.store
    BY <2>1
  <2>3. /\ Len(o.ring) \in Nat /\ DOMAIN o.ring = 1 .. Len(o.ring)
        /\ \A i \in DOMAIN o.ring : /\ o.ring[i].call = n - 1 - Len(o.ring) + i
                                     /\ o.ring[i].converged /\ OfTheKey(o, o.ring[i])
        /\ o.store.call = n /\ OfTheKey(o, o.store) /\ o.store.converged
    <3>1. Len(o.ring) \in Nat /\ DOMAIN o.ring = 1 .. Len(o.ring)
      BY <2>1
    <3>2. \A i \in DOMAIN o.ring : /\ o.ring[i].call = n - 1 - Len(o.ring) + i
                                   /\ o.ring[i].converged /\ OfTheKey(o, o.ring[i])
      BY <1>3 DEF RingUpTo
    <3>3. o.store.call = n /\ OfTheKey(o, o.store) /\ o.store.converged
      BY <1>3 DEF RingUpTo, Described
    <3> QED BY <3>1, <3>2, <3>3
  <2> HIDE DEF s
  <2>4. \A i \in DOMAIN s : /\ s[i].call = n - Len(s) + i
                            /\ s[i].converged /\ OfTheKey(o, s[i])
    <3> SUFFICES ASSUME NEW i \in 1 .. Len(s)
                 PROVE  s[i].call = n - Len(s) + i /\ s[i].converged /\ OfTheKey(o, s[i])
      BY <2>2
    <3> DEFINE len == Len(o.ring)
    <3>1. len \in Nat /\ Len(s) = len + 1 /\ i \in 1 .. len + 1
      BY <2>2, <2>3
    <3> HIDE DEF len
    <3>2. CASE i <= len
      <4>1. i \in 1 .. len /\ n - 1 - len + i = n - Len(s) + i
        BY <3>1, <3>2
      <4>2. i \in DOMAIN o.ring /\ s[i] = o.ring[i]
        BY <2>2, <2>3, <4>1 DEF len
      <4> QED BY <2>3, <4>1, <4>2 DEF len
    <3>3. CASE i = len + 1
      <4>1. n - Len(s) + i = n
        BY <3>1, <3>3
      <4>2. s[i] = o.store
        BY <2>2, <3>3 DEF len
      <4> QED BY <2>3, <4>1, <4>2
    <3> QED BY <3>1, <3>2, <3>3
  <2>5. /\ r \in Seq(Copies) /\ Len(r) <= RingSize /\ Len(r) \in Nat /\ DOMAIN r = 1 .. Len(r)
        /\ \A i \in DOMAIN r : /\ i + (Len(s) - Len(r)) \in DOMAIN s
                                /\ r[i] = s[i + (Len(s) - Len(r))]
    BY <2>2, Bounds, LastOfFacts
  <2>6. e = [o EXCEPT !.ring = r, !.xstate = 2]
    BY <1>3 DEF Extrapolated, s
  <2> HIDE DEF e, r
  <2>7. \A i \in DOMAIN r : r[i].call = n - Len(r) + i /\ r[i].converged /\ OfTheKey(o, r[i])
    <3> SUFFICES ASSUME NEW i \in DOMAIN r
                 PROVE  r[i].call = n - Len(r) + i /\ r[i].converged /\ OfTheKey(o, r[i])
      OBVIOUS
    <3>1. n - Len(s) + (i + (Len(s) - Len(r))) = n - Len(r) + i
      BY <2>2, <2>3, <2>5
    <3> QED BY <2>4, <2>5, <3>1
  <2>8. e \in Orbitals
    <3>1. 2 \in 0..2
      OBVIOUS
    <3> QED BY <1>0, <2>5, <2>6, <3>1 DEF Orbitals
  <2>9. /\ e.store = o.store /\ e.geo = o.geo /\ e.have = o.have
        /\ e.partial = o.partial /\ e.slots = o.slots /\ e.key = o.key
        /\ e.ring = r /\ e.xstate = 2
    BY <1>0, <2>6 DEF Orbitals
  <2>10. Typed(e)
    BY <2>5, <2>8, <2>9 DEF Typed
  <2>11. Described(e) /\ \A m \in Nat : RingUpTo(e, m)
    BY <1>3, <2>7, <2>9 DEF Described, Holders, RingUpTo, OfTheKey
  <2> QED BY <2>7, <2>9, <2>10, <2>11 DEF e
<1> QED BY <1>1, <1>2, <1>3

\* The converged copy is untouched.
SameStore(p, o) == p.have /\ p.store = o.store /\ p.geo = o.geo

\* A pass at call n + 1: a converged one is the next of the row, an unconverged
\* one leaves a converged copy as it is.
LEMMA PassFacts ==
    ASSUME NEW o, Typed(o), Described(o), RingUpTo(o, calls),
           calls \in 0 .. MaxCalls, calls < MaxCalls,
           NEW g \in Geometries, NEW k \in Keys \cup {None}, k \in {None, o.key},
           NEW converged \in BOOLEAN
    PROVE  LET p == Pass(o, g, k, converged)
           IN  /\ Typed(p) /\ Described(p) /\ RingUpTo(p, calls + 1)
               /\ ~converged => RingUpTo(p, calls)
               /\ p.key = o.key /\ p.slots = o.slots
               /\ converged => /\ p.have /\ p.geo = g /\ p.store.key = k
                               /\ p.store.call = calls + 1
               /\ ~converged /\ o.have => SameStore(p, o)
<1> DEFINE e == Extrapolated(o)
           c0 == [at |-> g, key |-> k, call |-> calls + 1, converged |-> converged]
           p == Pass(o, g, k, converged)
<1>0. calls \in Nat /\ calls + 1 \in Nat /\ calls + 1 \in 1 .. MaxCalls
  BY Bounds
<1>1. c0 \in Copies /\ c0.at = g /\ c0.key = k /\ c0.call = calls + 1 /\ c0.converged = converged
  BY <1>0 DEF Copies
<1>2. /\ Typed(e) /\ Described(e) /\ e.key = o.key /\ e.slots = o.slots
      /\ e.store = o.store /\ e.have = o.have /\ e.geo = o.geo
      /\ Extrapolate => e.xstate # 1
      /\ \A m \in Nat : RingUpTo(e, m)
      /\ \A i \in DOMAIN e.ring : /\ e.ring[i].call = calls - Len(e.ring) + i
                                   /\ e.ring[i].converged
                                   /\ OfTheKey(o, e.ring[i])
  BY <1>0, ExtrapolatedFacts
<1>3. p = Saved(e, c0)
  BY DEF Pass
<1>4. e \in Orbitals
  BY <1>2 DEF Typed
<1>5. c0 # None
  BY <1>1, NoneIsApart
<1> HIDE DEF e, c0, p
<1>6. CASE converged
  <2>1. p = [e EXCEPT !.store = c0, !.geo = c0.at, !.have = TRUE, !.partial = FALSE, !.xstate = 1]
    BY <1>1, <1>3, <1>6 DEF Saved
  <2>2. p \in Orbitals
    <3>1. 1 \in 0..2 /\ c0.at \in Geometries
      BY <1>1
    <3> QED BY <1>1, <1>4, <2>1, <3>1 DEF Orbitals
  <2>3. /\ p.store = c0 /\ p.geo = g /\ p.have /\ ~p.partial /\ p.xstate = 1
        /\ p.slots = o.slots /\ p.key = o.key /\ p.ring = e.ring
    BY <1>1, <1>2, <1>4, <2>1 DEF Orbitals
  <2>4. Typed(p)
    BY <1>2, <2>2, <2>3 DEF Typed
  <2>5. Described(p)
    BY <1>1, <1>2, <1>5, <1>6, <2>3 DEF Described, Holders
  <2>6. RingUpTo(p, calls + 1)
    <3>1. ~Extrapolate => p.ring = << >>
      BY <1>0, <1>2, <2>3 DEF RingUpTo
    <3>2. Len(p.ring) \in Nat /\ DOMAIN p.ring = 1 .. Len(p.ring)
      BY <2>2 DEF Orbitals
    <3>3. \A i \in DOMAIN p.ring : calls - Len(p.ring) + i = (calls + 1) - 1 - Len(p.ring) + i
      BY <1>0, <3>2
    <3>4. p.store.call = calls + 1 /\ OfTheKey(p, p.store)
      BY <1>1, <2>3 DEF OfTheKey
    <3>5. \A i \in DOMAIN p.ring : /\ p.ring[i].converged /\ OfTheKey(p, p.ring[i])
                                   /\ p.ring[i].call = (calls + 1) - 1 - Len(p.ring) + i
      BY <1>2, <2>3, <3>3 DEF OfTheKey
    <3> QED BY <2>3, <3>1, <3>4, <3>5 DEF RingUpTo
  <2> QED BY <1>1, <1>6, <2>3, <2>4, <2>5, <2>6 DEF p
<1>7. CASE ~converged /\ e.have
  <2>1. p = e
    BY <1>1, <1>3, <1>7 DEF Saved
  <2> QED BY <1>0, <1>2, <1>7, <2>1 DEF p, SameStore
<1>8. CASE ~converged /\ ~e.have
  <2> DEFINE b == BreakHistory(e)
  <2>1. p = [b EXCEPT !.store = c0, !.geo = c0.at, !.partial = TRUE]
    BY <1>1, <1>3, <1>8 DEF Saved
  <2>2. /\ b \in Orbitals /\ b.ring = << >> /\ b.xstate = 0 /\ b.have = e.have
        /\ b.key = o.key /\ b.slots = o.slots /\ Len(b.ring) <= RingSize
    BY <1>2, <1>4, BreakHistoryFacts DEF Typed
  <2> HIDE DEF b
  <2>3. p \in Orbitals
    BY <1>1, <2>1, <2>2 DEF Orbitals
  <2>4. /\ p.store = c0 /\ p.geo = g /\ ~p.have /\ p.partial /\ p.xstate = 0
        /\ p.slots = o.slots /\ p.key = o.key /\ p.ring = << >>
    BY <1>1, <1>8, <2>1, <2>2 DEF Orbitals
  <2>5. Typed(p)
    BY <2>2, <2>3, <2>4 DEF Typed
  <2>6. Described(p)
    BY <1>1, <1>2, <1>5, <1>8, <2>4 DEF Described, Holders
  <2>7. \A m \in Nat : RingUpTo(p, m)
    BY <2>4 DEF RingUpTo
  <2> QED BY <1>0, <1>2, <1>8, <2>4, <2>5, <2>6, <2>7 DEF p
<1> QED BY <1>6, <1>7, <1>8

\* The same for the passes of a call: the one, or the continuation of an
\* unconverged ODIIS pass as well.
LEMMA AfterPassesFacts ==
    ASSUME NEW o, Typed(o), Described(o), RingUpTo(o, calls),
           calls \in 0 .. MaxCalls, calls < MaxCalls,
           NEW g \in Geometries, NEW k \in Keys \cup {None}, k \in {None, o.key},
           NEW converged \in BOOLEAN, NEW p \in AfterPasses(o, g, k, converged)
    PROVE  /\ Typed(p) /\ Described(p) /\ RingUpTo(p, calls + 1)
           /\ p.key = o.key /\ p.slots = o.slots
           /\ converged => /\ p.have /\ p.geo = g /\ p.store.key = k
                           /\ p.store.call = calls + 1
           /\ ~converged /\ o.have => SameStore(p, o)
<1> DEFINE u == Pass(o, g, k, FALSE)
<1>1. /\ Typed(u) /\ Described(u) /\ RingUpTo(u, calls) /\ RingUpTo(u, calls + 1)
      /\ u.key = o.key /\ u.slots = o.slots
      /\ o.have => SameStore(u, o)
  <2>1. \A b \in BOOLEAN : ~b =>
          LET q == Pass(o, g, k, b)
          IN  /\ Typed(q) /\ Described(q) /\ RingUpTo(q, calls) /\ RingUpTo(q, calls + 1)
              /\ q.key = o.key /\ q.slots = o.slots
              /\ o.have => SameStore(q, o)
    BY PassFacts
  <2> QED BY <2>1, Zenon
<1>2. p \in {Pass(u, g, k, converged), u} \cup (IF converged THEN {Pass(o, g, k, TRUE)} ELSE {})
  BY DEF AfterPasses
<1>3. p = u => ~converged \/ p = Pass(o, g, k, TRUE) \/ p = Pass(u, g, k, converged)
  BY DEF AfterPasses
<1> HIDE DEF u
<1>4. CASE p = Pass(u, g, k, converged)
  <2>1. LET q == Pass(u, g, k, converged)
        IN  /\ Typed(q) /\ Described(q) /\ RingUpTo(q, calls + 1)
            /\ q.key = u.key /\ q.slots = u.slots
            /\ converged => /\ q.have /\ q.geo = g /\ q.store.key = k
                            /\ q.store.call = calls + 1
            /\ ~converged /\ u.have => SameStore(q, u)
    BY <1>1, PassFacts
  <2> QED BY <1>1, <1>4, <2>1 DEF SameStore
<1>5. CASE converged /\ p = Pass(o, g, k, TRUE)
  <2>1. converged = TRUE
    BY <1>5
  <2>2. p = Pass(o, g, k, converged)
    BY <1>5, <2>1, Zenon
  <2>3. LET q == Pass(o, g, k, converged)
        IN  /\ Typed(q) /\ Described(q) /\ RingUpTo(q, calls + 1)
            /\ q.key = o.key /\ q.slots = o.slots
            /\ converged => /\ q.have /\ q.geo = g /\ q.store.key = k
                            /\ q.store.call = calls + 1
    BY PassFacts
  <2> QED BY <2>1, <2>2, <2>3, Zenon
<1>6. CASE ~converged /\ p = u
  BY <1>1, <1>6
<1> QED BY <1>2, <1>3, <1>4, <1>5, <1>6

-----------------------------------------------------------------------------
(* The calls *)

\* An SCF on orbitals that hold what the host counts on.
LEMMA ScfKeeps ==
    ASSUME NEW o, Typed(o), NEW base \in [Keys -> {None} \cup Owned], Kept(o, base, calls),
           calls \in 0 .. MaxCalls, NEW k \in Keys \cup {None}, k # None => o.key = k,
           NEW g \in Geometries, NEW held \in BOOLEAN, Scf(o, k, g, base, held)
    PROVE  IInv'
<1>1. PICK rmax \in Limits : \E c \in ChooseWarmStart(o, g, rmax), converged \in BOOLEAN :
        /\ orb' \in AfterPasses(c.orb, g, k, converged)
        /\ latched' = (held \/ converged)
        /\ last' = [key |-> k, geo |-> g, source |-> c.source, ok |-> converged, rmax |-> rmax,
                    start |-> Restored(c.orb, ~c.orb.diis),
                    ring |-> Extrapolated(c.orb).ring, own |-> base]
        /\ own' = [j \in Keys |-> IF j # o.key THEN base[j]
                                  ELSE OwnAfter(base[j], k, g, c.source, converged)]
  BY DEF Scf
<1>2. PICK c \in ChooseWarmStart(o, g, rmax), converged \in BOOLEAN :
        /\ orb' \in AfterPasses(c.orb, g, k, converged)
        /\ latched' = (held \/ converged)
        /\ last' = [key |-> k, geo |-> g, source |-> c.source, ok |-> converged, rmax |-> rmax,
                    start |-> Restored(c.orb, ~c.orb.diis),
                    ring |-> Extrapolated(c.orb).ring, own |-> base]
        /\ own' = [j \in Keys |-> IF j # o.key THEN base[j]
                                  ELSE OwnAfter(base[j], k, g, c.source, converged)]
  BY <1>1
<1> DEFINE s == c.orb
           e == Extrapolated(s)
           start == Restored(s, ~s.diis)
<1>3. /\ calls < MaxCalls /\ calls' = calls + 1 /\ calls \in Nat
      /\ calls + 1 \in 1 .. MaxCalls /\ calls' \in 0 .. MaxCalls
  BY Bounds DEF Scf
<1>4. Described(o) /\ Keeps(o, base) /\ RingUpTo(o, calls)
  BY DEF Kept
<1>5. /\ Typed(s) /\ Described(s) /\ RingUpTo(s, calls)
      /\ s.key = o.key /\ s.slots = o.slots
      /\ c.source \in -2..1 /\ (c.source = 0 => s = o /\ o.have)
      /\ rmax >= 0 => \A d \in Distances(o, g) :
            d <= rmax => s.have /\ Distance(s.geo, g) <= d
  BY <1>3, <1>4, ChooseFacts
<1> HIDE DEF s
<1>6. /\ Typed(orb') /\ Described(orb') /\ RingUpTo(orb', calls + 1)
      /\ orb'.key = o.key /\ orb'.slots = o.slots
      /\ converged => /\ orb'.have /\ orb'.geo = g /\ orb'.store.key = k
                      /\ orb'.store.call = calls + 1
      /\ ~converged /\ s.have => SameStore(orb', s)
  BY <1>2, <1>3, <1>5, AfterPassesFacts DEF s
<1>7. /\ Typed(e)
      /\ \A i \in DOMAIN e.ring : /\ e.ring[i].call = calls - Len(e.ring) + i
                                   /\ e.ring[i].converged
                                   /\ OfTheKey(o, e.ring[i])
  BY <1>3, <1>5, ExtrapolatedFacts DEF OfTheKey
<1> HIDE DEF e
<1>8. /\ start \in {None} \cup Copies
      /\ s.have => start = s.store /\ start # None /\ start.at = s.geo
  BY <1>5 DEF Restored, Typed, Orbitals, Described
<1> HIDE DEF start
<1>9. /\ last' # None
      /\ last'.key = k /\ last'.geo = g /\ last'.source = c.source /\ last'.rmax = rmax
      /\ last'.start = start /\ last'.ring = e.ring /\ last'.own = base /\ last' \in Reports
  <2>1. last' = [key |-> k, geo |-> g, source |-> c.source, ok |-> converged, rmax |-> rmax,
                 start |-> start, ring |-> e.ring, own |-> base]
    BY <1>2 DEF s, e, start
  <2>2. e.ring \in Seq(Copies)
    BY <1>7 DEF Typed, Orbitals
  <2>3. last' \in Reports
    BY <1>5, <1>8, <2>1, <2>2 DEF Reports
  <2> QED BY <2>1, <2>3, NoneIsApart
<1>10. /\ own' \in [Keys -> {None} \cup Owned]
       /\ \A j \in Keys : own'[j] # None /\ own'[j].kept =>
             \/ j # o.key /\ own'[j] = base[j]
             \/ /\ j = o.key /\ converged /\ k # None
                /\ own'[j].call = calls + 1 /\ own'[j].geo = g
             \/ /\ j = o.key /\ ~converged /\ c.source = 0 /\ base[j] # None /\ base[j].kept
                /\ own'[j].call = base[j].call /\ own'[j].geo = base[j].geo
  <2> DEFINE new == [call |-> calls + 1, geo |-> g, kept |-> TRUE]
  <2>1. /\ new \in Owned /\ new.call = calls + 1 /\ new.geo = g
        /\ \A m \in Owned, b \in BOOLEAN :
              LET w == [m EXCEPT !.kept = @ /\ b]
              IN  /\ w \in Owned /\ w.call = m.call /\ w.geo = m.geo
                  /\ w.kept = (m.kept /\ b)
    BY <1>3 DEF Owned
  <2> HIDE DEF new
  <2> SUFFICES ASSUME NEW j \in Keys
               PROVE  /\ own'[j] \in {None} \cup Owned
                      /\ own'[j] # None /\ own'[j].kept =>
                           \/ j # o.key /\ own'[j] = base[j]
                           \/ /\ j = o.key /\ converged /\ k # None
                              /\ own'[j].call = calls + 1 /\ own'[j].geo = g
                           \/ /\ j = o.key /\ ~converged /\ c.source = 0
                              /\ base[j] # None /\ base[j].kept
                              /\ own'[j].call = base[j].call /\ own'[j].geo = base[j].geo
    BY <1>2
  <2>2. own'[j] = IF j # o.key THEN base[j]
                  ELSE OwnAfter(base[j], k, g, c.source, converged)
    BY <1>2
  <2>3. CASE j # o.key
    BY <2>2, <2>3
  <2>4. CASE j = o.key /\ converged /\ k # None
    <3>1. own'[j] = new
      BY <2>2, <2>4 DEF OwnAfter, new
    <3> QED BY <2>1, <2>4, <3>1
  <2>5. CASE j = o.key /\ ~(converged /\ k # None) /\ base[j] = None
    BY <2>2, <2>5 DEF OwnAfter
  <2>6. CASE j = o.key /\ ~(converged /\ k # None) /\ base[j] # None
    <3> DEFINE b == ~converged /\ c.source = 0
    <3>1. own'[j] = [base[j] EXCEPT !.kept = @ /\ b]
      BY <2>2, <2>6 DEF OwnAfter
    <3>2. base[j] \in Owned /\ b \in BOOLEAN
      BY <2>6
    <3> HIDE DEF b
    <3>3. /\ own'[j] \in Owned /\ own'[j].call = base[j].call /\ own'[j].geo = base[j].geo
          /\ own'[j].kept = (base[j].kept /\ b)
      BY <2>1, <3>1, <3>2
    <3> QED BY <2>6, <3>3 DEF b
  <2> QED BY <2>3, <2>4, <2>5, <2>6
<1>11. TypeOK'
  BY <1>2, <1>3, <1>6, <1>9, <1>10 DEF TypeOK, Typed
<1>12. Keeps(orb', own')
  <2> SUFFICES ASSUME NEW j \in Keys, own'[j] # None, own'[j].kept
               PROVE  /\ j = o.key => /\ orb'.have /\ orb'.geo = own'[j].geo
                                      /\ orb'.store.key = j /\ orb'.store.call = own'[j].call
                      /\ j # o.key => /\ orb'.slots[j] # None /\ orb'.slots[j].geo = own'[j].geo
                                      /\ orb'.slots[j].c0.key = j
                                      /\ orb'.slots[j].c0.call = own'[j].call
    BY <1>6 DEF Keeps
  <2>1. CASE j = o.key /\ converged
    <3>1. k = j
      BY <1>10, <2>1
    <3> QED BY <1>6, <1>10, <2>1, <3>1
  <2>2. CASE j = o.key /\ ~converged
    <3>1. /\ c.source = 0 /\ base[j] # None /\ base[j].kept
          /\ own'[j].call = base[j].call /\ own'[j].geo = base[j].geo
      BY <1>10, <2>2
    <3>2. s = o /\ o.have /\ SameStore(orb', o)
      BY <1>5, <1>6, <2>2, <3>1
    <3> QED BY <1>4, <2>2, <3>1, <3>2 DEF Keeps, SameStore
  <2>3. CASE j # o.key
    BY <1>4, <1>6, <1>10, <2>3 DEF Keeps
  <2> QED BY <2>1, <2>2, <2>3
<1>13. Kept(orb, own, calls)'
  BY <1>3, <1>6, <1>12 DEF Kept
<1>14. StartsFromNearest'
  <2> SUFFICES ASSUME rmax >= 0, NEW j \in Keys, base[j] # None, base[j].kept,
                      Distance(base[j].geo, g) <= rmax
               PROVE  start # None /\ Distance(start.at, g) <= Distance(base[j].geo, g)
    BY <1>9 DEF StartsFromNearest
  <2>1. Distance(base[j].geo, g) \in Distances(o, g)
    BY <1>4 DEF Keeps, Distances, Holders
  <2> QED BY <1>5, <1>8, <2>1
<1>15. OwnOrbitalsComeBack'
  <2> SUFFICES ASSUME k # None, c.source = 0, base[k] # None, base[k].kept
               PROVE  start.key = k /\ start.call = base[k].call
    BY <1>9 DEF OwnOrbitalsComeBack
  <2> QED BY <1>4, <1>5, <1>8 DEF Keeps
<1>16. RingIsOneTrajectory'
  <2>1. Len(e.ring) \in Nat /\ DOMAIN e.ring = 1 .. Len(e.ring)
    BY <1>7 DEF Typed, Orbitals
  <2>2. \A i \in DOMAIN e.ring : calls - Len(e.ring) + i = calls' - 1 - Len(e.ring) + i
    BY <1>3, <2>1
  <2> QED BY <1>7, <1>9, <2>2, Flags DEF RingIsOneTrajectory, OfTheKey
<1> QED BY <1>11, <1>13, <1>14, <1>15, <1>16 DEF IInv

\* With no call to report, the orbitals are all there is to keep.
LEMMA NothingReported ==
    ASSUME Typed(orb), Kept(orb, own, calls), latched \in BOOLEAN,
           own \in [Keys -> {None} \cup Owned], calls \in 0 .. MaxCalls, last = None
    PROVE  IInv
BY DEF IInv, TypeOK, Typed, StartsFromNearest, OwnOrbitalsComeBack, RingIsOneTrajectory

LEMMA InitInv == Init => IInv
<1> SUFFICES ASSUME Init PROVE IInv
  OBVIOUS
<1>1. calls \in Nat /\ calls \in 0 .. MaxCalls /\ NoneOwned \in [Keys -> {None} \cup Owned]
  BY Bounds DEF Init, NoneOwned
<1>2. PICK diis \in BOOLEAN : orb = Fresh(diis, None)
  BY DEF Init
<1> QED BY <1>1, <1>2, FreshKept, NothingReported DEF Init

LEMMA NextInv == IInv /\ [Next]_vars => IInv'
<1> SUFFICES ASSUME IInv, [Next]_vars PROVE IInv'
  OBVIOUS
<1>1. /\ orb \in Orbitals /\ own \in [Keys -> {None} \cup Owned] /\ calls \in 0 .. MaxCalls
      /\ calls \in Nat /\ latched \in BOOLEAN /\ NoneOwned \in [Keys -> {None} \cup Owned]
  BY Bounds DEF IInv, TypeOK, NoneOwned
<1>2. \A k \in Keys \cup {None} : Selected(k).key \in {None} \cup Keys
  BY SelectedKept DEF Typed, Orbitals
<1>3. ASSUME NEW k \in Keys \cup {None}, NEW g \in Geometries, WarmCall(k, g)
      PROVE  IInv'
  BY <1>1, <1>3, SelectedKept, ScfKeeps DEF WarmCall
<1>4. ASSUME NEW k \in Keys \cup {None}, NEW g \in Geometries, ColdCall(k, g)
      PROVE  IInv'
  <2>1. PICK diis \in BOOLEAN : Scf(Fresh(diis, Selected(k).key), k, g, NoneOwned, FALSE)
    BY <1>4 DEF ColdCall
  <2> DEFINE f == Fresh(diis, Selected(k).key)
  <2>2. Typed(f) /\ f.key = Selected(k).key /\ Kept(f, NoneOwned, calls)
    BY <1>1, <1>2, FreshKept
  <2>3. k # None => f.key = k
    BY <2>2, SelectedKept
  <2> HIDE DEF f
  <2> QED BY <1>1, <2>1, <2>2, <2>3, ScfKeeps DEF f
<1>5. ASSUME NEW k \in Keys \cup {None}, Refused(k)
      PROVE  IInv'
  <2>1. Typed(orb') /\ Kept(orb', own', calls')
    BY <1>5, SelectedKept DEF Refused
  <2>2. /\ latched' \in BOOLEAN /\ own' \in [Keys -> {None} \cup Owned]
        /\ calls' \in 0 .. MaxCalls /\ last' = None
    BY <1>1, <1>5 DEF Refused
  <2> QED BY <2>1, <2>2
        DEF IInv, TypeOK, Typed, StartsFromNearest, OwnOrbitalsComeBack, RingIsOneTrajectory
<1>6. ASSUME NEW k \in Keys \cup {None}, Reset(k)
      PROVE  IInv'
  <2>1. orb.diis \in BOOLEAN
    BY <1>1 DEF Orbitals
  <2>2. Typed(orb') /\ Kept(orb', own', calls')
    BY <1>1, <1>2, <1>6, <2>1, FreshKept DEF Reset
  <2>3. /\ latched' \in BOOLEAN /\ own' \in [Keys -> {None} \cup Owned]
        /\ calls' \in 0 .. MaxCalls /\ last' = None
    BY <1>1, <1>6 DEF Reset
  <2> QED BY <2>2, <2>3
        DEF IInv, TypeOK, Typed, StartsFromNearest, OwnOrbitalsComeBack, RingIsOneTrajectory
<1>7. CASE UNCHANGED vars
  BY <1>7 DEF vars, IInv, TypeOK, Kept, Described, Holders, Keeps, RingUpTo, OfTheKey,
              StartsFromNearest, OwnOrbitalsComeBack, RingIsOneTrajectory
<1> QED BY <1>3, <1>4, <1>5, <1>6, <1>7 DEF Next

LEMMA Invariant == Spec => []IInv
BY InitInv, NextInv, PTL DEF Spec

-----------------------------------------------------------------------------
(* Theorems *)

\* The module variables of rwfopt keep their shape, and the ring its size,
\* whatever the calls.
THEOREM TypeCorrect == Spec => []TypeOK
BY Invariant, PTL DEF IInv

\* Every copy that an SCF may start from is converged and stands beside the
\* geometry it converged at; the selected key has no second, parked copy.
THEOREM CopiesDescribed == Spec => []CopiesAreDescribed
<1>1. IInv => CopiesAreDescribed
  BY DEF IInv, Kept, Described, CopiesAreDescribed
<1> QED BY <1>1, Invariant, PTL

\* Of the orbitals left under every key and not replaced since, the nearest
\* within the limit start the SCF, for any distance between geometries.
THEOREM NearestStarts == Spec => []StartsFromNearest
BY Invariant, PTL DEF IInv

\* An SCF that reports the selected key's orbitals starts from those of the last
\* converged call under that key, whatever happened under other keys meanwhile
\* and after unconverged calls of its own, unless one of these started elsewhere
\* or a session without a key came between.
THEOREM OwnComesBack == Spec => []OwnOrbitalsComeBack
BY Invariant, PTL DEF IInv

\* A prediction is made from converged orbitals of calls in a row up to the last
\* one, and never of two keys.
THEOREM OneTrajectory == Spec => []RingIsOneTrajectory
BY Invariant, PTL DEF IInv
================================================================================
