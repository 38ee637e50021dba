------------------------- MODULE Configuration_proofs -------------------------
(***************************************************************************)
(* Theorems about Configuration, for any sections, set directives,         *)
(* overlay fields, geometries and top-level values, and any buffer.        *)
(***************************************************************************)
EXTENDS Configuration, FiniteSetTheorems, SequenceTheorems, WellFoundedInduction, TLAPS

-----------------------------------------------------------------------------
(* Numbers *)

LEMMA LeastNumber ==
    ASSUME NEW S \in SUBSET Nat, S # {}
    PROVE  \E x \in S : \A y \in S : x <= y
<1>1. PICK x \in S : \A y \in S : ~(<<y, x>> \in OpToRel(<, Nat))
  BY NatLessThanWellFounded, WFMin
<1>2. \A y \in S : ~(y < x)
  BY <1>1 DEF OpToRel
<1> QED BY <1>2

\* Induction, with the set of numbers that have the property.
LEMMA Induction ==
    ASSUME NEW S, 0 \in S, \A n \in Nat : n \in S => n + 1 \in S
    PROVE  Nat \subseteq S
<1> SUFFICES ASSUME Nat \ S # {} PROVE FALSE
  OBVIOUS
<1>1. PICK x \in Nat \ S : \A y \in Nat \ S : x <= y
  BY LeastNumber
<1>2. x - 1 \in Nat /\ ~(x <= x - 1)
  BY <1>1
<1>3. x - 1 \in S
  BY <1>1, <1>2
<1> QED BY <1>1, <1>2, <1>3

\* The first of some places.
LEMMA FirstOf ==
    ASSUME NEW S \in SUBSET Nat, S # {}
    PROVE  Min(S) \in S /\ \A y \in S : Min(S) <= y
<1>1. \E x \in S : \A y \in S : x <= y
  BY LeastNumber
<1> QED BY <1>1 DEF Min

\* The last of some places: one of them that no other exceeds.
LEMMA LastOf ==
    ASSUME NEW S \in SUBSET Nat, NEW x \in S, \A y \in S : y <= x
    PROVE  Max(S) = x
<1>1. Max(S) \in S /\ \A y \in S : Max(S) >= y
  BY DEF Max
<1>2. Max(S) >= x /\ Max(S) <= x /\ Max(S) \in Nat /\ x \in Nat
  BY <1>1
<1> QED BY <1>2

LEMMA LastExists ==
    ASSUME NEW n \in Nat, NEW S \in SUBSET (1 .. n), S # {}
    PROVE  Max(S) \in S /\ \A y \in S : y <= Max(S)
<1> DEFINE D == {d \in Nat : \E x \in S : d = n - x}
<1>1. D \in SUBSET Nat /\ D # {}
  <2>1. PICK x \in S : TRUE
    OBVIOUS
  <2>2. n - x \in D
    OBVIOUS
  <2> QED BY <2>2
<1>2. PICK d \in D : \A y \in D : d <= y
  BY <1>1, LeastNumber
<1>3. PICK x \in S : d = n - x
  BY <1>2
<1>4. \A y \in S : y <= x
  <2> SUFFICES ASSUME NEW y \in S PROVE y <= x
    OBVIOUS
  <2>1. n - y \in D
    OBVIOUS
  <2>2. n - x <= n - y
    BY <1>2, <1>3, <2>1
  <2> QED BY <2>2
<1>5. Max(S) = x
  <2>1. S \in SUBSET Nat
    OBVIOUS
  <2> HIDE DEF D
  <2> QED BY <1>4, <2>1, LastOf
<1> QED BY <1>4, <1>5

-----------------------------------------------------------------------------
(* The two decoders *)

LEMMA WalkedUpToDefined ==
    ASSUME NEW p, NEW first, Len(p.sections) \in Nat
    PROVE  \A n \in 0 .. Len(p.sections) :
             WalkedUpTo(p, first)[n] = IF n = 0 THEN first
                                       ELSE CKnob(WalkedUpTo(p, first)[n - 1], p.sections[n])
<1> DEFINE Is(f, m) == f = [n \in 0 .. m |-> IF n = 0 THEN first
                                            ELSE CKnob(f[n - 1], p.sections[n])]
           S == {m \in Nat : \E f : Is(f, m)}
<1>1. 0 \in S
  <2>1. Is([n \in 0 .. 0 |-> first], 0)
    OBVIOUS
  <2> QED BY <2>1
<1>2. ASSUME NEW m \in Nat, m \in S
      PROVE  m + 1 \in S
  <2>1. PICK f : Is(f, m)
    BY <1>2
  <2> DEFINE g == [n \in 0 .. m + 1 |-> IF n <= m THEN f[n]
                                        ELSE CKnob(f[m], p.sections[m + 1])]
  <2>2. \A n \in 0 .. m : n \in 0 .. m + 1 /\ n <= m /\ (n # 0 => n - 1 \in 0 .. m)
    OBVIOUS
  <2>3. \A n \in 0 .. m : f[n] = IF n = 0 THEN first ELSE CKnob(f[n - 1], p.sections[n])
    BY <2>1
  <2>4. \A n \in 0 .. m : g[n] = f[n]
    BY <2>2
  <2>5. g[m + 1] = CKnob(f[m], p.sections[m + 1])
    OBVIOUS
  <2>6. DOMAIN g = 0 .. m + 1 /\ g = [n \in 0 .. m + 1 |-> g[n]]
    OBVIOUS
  <2> HIDE DEF g
  <2>7. \A n \in 0 .. m + 1 : g[n] = IF n = 0 THEN first
                                     ELSE CKnob(g[n - 1], p.sections[n])
    <3> SUFFICES ASSUME NEW n \in 0 .. m + 1
                 PROVE  g[n] = IF n = 0 THEN first ELSE CKnob(g[n - 1], p.sections[n])
      OBVIOUS
    <3>1. CASE n = m + 1
      <4>1. n # 0 /\ n - 1 = m /\ m \in 0 .. m
        BY <3>1
      <4> QED BY <2>4, <2>5, <3>1, <4>1
    <3>2. CASE n # m + 1
      <4>1. n \in 0 .. m
        BY <3>2
      <4> QED BY <2>2, <2>3, <2>4, <4>1
    <3> QED BY <3>1, <3>2
  <2>8. Is(g, m + 1)
    BY <2>6, <2>7
  <2> QED BY <2>8
<1>3. Nat \subseteq S
  <2> HIDE DEF S
  <2> QED BY <1>1, <1>2, Induction
<1>4. PICK f : Is(f, Len(p.sections))
  BY <1>3
<1>5. Is(WalkedUpTo(p, first), Len(p.sections))
  BY <1>4, Zenon DEF WalkedUpTo
<1> QED BY <1>5

\* The places where a scalar is named, in the first n sections.
Naming(p, n) ==
    LET systems == {i \in TypedIn(p, "SYSTEM") : i <= n}
    IN  [functional |-> {i \in TypedIn(p, "DFT") : i <= n /\ p.sections[i].functional # ""},
         cutoff |-> {i \in systems : p.sections[i].cutoff > 0},
         charge |-> systems,
         mult |-> {i \in systems : p.sections[i].mult > 0}]

Scalars == {"functional", "cutoff", "charge", "mult"}

\* k has every scalar, and no other field.
HasScalars(k) == DOMAIN k = Scalars /\ k = [field \in DOMAIN k |-> k[field]]

\* p.sections is a sequence.
Listed(p) == Len(p.sections) \in Nat /\ DOMAIN p.sections = 1 .. Len(p.sections)

\* A scalar after n sections, and that section n names one.
NamedAt(p, n, field, default) == LastNamed(p, Naming(p, n)[field], field, default)
Names(p, n, field) == n \in Naming(p, n)[field]

\* One section more: it is the last that names a scalar, or nothing changes.
LEMMA NamedOnceMore ==
    ASSUME NEW p, NEW n \in Nat, NEW m \in Nat, m = n + 1,
           Listed(p), m \in DOMAIN p.sections, NEW field \in Scalars, NEW default
    PROVE  /\ Names(p, m, field) => NamedAt(p, m, field, default) = p.sections[m][field]
           /\ ~Names(p, m, field) => NamedAt(p, m, field, default) = NamedAt(p, n, field, default)
<1> DEFINE S == Naming(p, m)[field]
           T == Naming(p, n)[field]
<1>0. \A i \in DOMAIN p.sections : i \in Nat
  BY DEF Listed
<1>1. \A i \in S : i \in DOMAIN p.sections /\ i <= m
  <2>1. CASE field = "functional"
    BY <2>1 DEF Naming, TypedIn
  <2>2. CASE field = "cutoff"
    BY <2>2 DEF Naming, TypedIn
  <2>3. CASE field = "charge"
    BY <2>3 DEF Naming, TypedIn
  <2>4. CASE field = "mult"
    BY <2>4 DEF Naming, TypedIn
  <2> QED BY <2>1, <2>2, <2>3, <2>4 DEF Scalars
<1>2. T = S \ {m}
  <2>1. \A i \in DOMAIN p.sections : i <= m /\ i # m <=> i <= n
    BY <1>0
  <2>2. CASE field = "functional"
    BY <2>1, <2>2 DEF Naming, TypedIn
  <2>3. CASE field = "cutoff"
    BY <2>1, <2>3 DEF Naming, TypedIn
  <2>4. CASE field = "charge"
    BY <2>1, <2>4 DEF Naming, TypedIn
  <2>5. CASE field = "mult"
    BY <2>1, <2>5 DEF Naming, TypedIn
  <2> QED BY <2>2, <2>3, <2>4, <2>5 DEF Scalars
<1> HIDE DEF S, T
<1>3. CASE m \in S
  <2>1. S \in SUBSET Nat
    BY <1>0, <1>1
  <2>2. Max(S) = m
    BY <1>1, <1>3, <2>1, LastOf
  <2> QED BY <1>3, <2>2 DEF LastNamed, S, Names, NamedAt
<1>4. CASE m \notin S
  BY <1>2, <1>4 DEF S, T, Names, NamedAt
<1> QED BY <1>3, <1>4 DEF S, Names

\* CKnob, field by field: a section replaces a scalar where it names it.
LEMMA KnobOfSection ==
    ASSUME NEW p, NEW n \in Nat, n \in DOMAIN p.sections, NEW k, HasScalars(k)
    PROVE  /\ HasScalars(CKnob(k, p.sections[n]))
           /\ \A field \in Scalars :
                CKnob(k, p.sections[n])[field] =
                  IF n \in Naming(p, n)[field] THEN p.sections[n][field] ELSE k[field]
<1> DEFINE s == p.sections[n]
<1>1. /\ n \in TypedIn(p, "SYSTEM") <=> s.kind = "typed" /\ s.name = "SYSTEM"
      /\ n \in TypedIn(p, "DFT") <=> s.kind = "typed" /\ s.name = "DFT"
  BY DEF TypedIn
<1>2. n <= n
  OBVIOUS
<1>3. /\ n \in Naming(p, n).functional <=> s.kind = "typed" /\ s.name = "DFT" /\ s.functional # ""
      /\ n \in Naming(p, n).cutoff <=> s.kind = "typed" /\ s.name = "SYSTEM" /\ s.cutoff > 0
      /\ n \in Naming(p, n).charge <=> s.kind = "typed" /\ s.name = "SYSTEM"
      /\ n \in Naming(p, n).mult <=> s.kind = "typed" /\ s.name = "SYSTEM" /\ s.mult > 0
  BY <1>1, <1>2 DEF Naming
<1> HIDE DEF s
<1>4. CASE s.kind = "typed" /\ s.name = "SYSTEM"
  <2>1. CKnob(k, s) = [k EXCEPT !.cutoff = Later(s.cutoff, @, s.cutoff > 0), !.charge = s.charge,
                                !.mult = Later(s.mult, @, s.mult > 0)]
    BY <1>4 DEF CKnob
  <2>2. /\ HasScalars(CKnob(k, s))
        /\ CKnob(k, s).functional = k.functional
        /\ CKnob(k, s).cutoff = IF s.cutoff > 0 THEN s.cutoff ELSE k.cutoff
        /\ CKnob(k, s).charge = s.charge
        /\ CKnob(k, s).mult = IF s.mult > 0 THEN s.mult ELSE k.mult
    BY <2>1 DEF Later, Scalars, HasScalars
  <2> QED BY <1>3, <1>4, <2>2 DEF Scalars, s
<1>5. CASE s.kind = "typed" /\ s.name = "DFT"
  <2>1. CKnob(k, s) = [k EXCEPT !.functional = Later(s.functional, @, s.functional # "")]
    BY <1>5 DEF CKnob
  <2>2. /\ HasScalars(CKnob(k, s))
        /\ CKnob(k, s).functional = IF s.functional # "" THEN s.functional ELSE k.functional
        /\ CKnob(k, s).cutoff = k.cutoff /\ CKnob(k, s).charge = k.charge /\ CKnob(k, s).mult = k.mult
    BY <2>1 DEF Later, Scalars, HasScalars
  <2> QED BY <1>3, <1>5, <2>2 DEF Scalars, s
<1>6. CASE ~(s.kind = "typed" /\ s.name = "SYSTEM") /\ ~(s.kind = "typed" /\ s.name = "DFT")
  <2>1. CKnob(k, s) = k
    BY <1>6 DEF CKnob
  <2> QED BY <1>3, <1>6, <2>1 DEF Scalars, s
<1> QED BY <1>4, <1>5, <1>6

\* The walk of the sections in C and the scalar by scalar reading in Fortran
\* find the same: after n sections a scalar is the one named last.
LEMMA WalkFindsLast ==
    ASSUME NEW p, NEW first, HasScalars(first),
           Listed(p)
    PROVE  LET walked == WalkedUpTo(p, first)[Len(p.sections)]
               naming == Naming(p, Len(p.sections))
           IN  /\ HasScalars(walked)
               /\ \A field \in Scalars :
                    walked[field] = LastNamed(p, naming[field], field, first[field])
<1> DEFINE W == WalkedUpTo(p, first)
           Found(n, field) == LastNamed(p, Naming(p, n)[field], field, first[field])
           Right(n) == HasScalars(W[n]) /\ \A field \in Scalars : W[n][field] = Found(n, field)
           S == {n \in Nat : n <= Len(p.sections) => Right(n)}
<1>1. \A n \in 0 .. Len(p.sections) :
        W[n] = IF n = 0 THEN first ELSE CKnob(W[n - 1], p.sections[n])
  BY WalkedUpToDefined DEF Listed
<1> HIDE DEF W
<1>2. 0 \in S
  <2>1. W[0] = first
    BY <1>1
  <2>2. ASSUME NEW field \in Scalars
        PROVE  Found(0, field) = first[field]
    <3>1. \A i \in DOMAIN p.sections : ~(i <= 0)
      BY DEF Listed
    <3>2. Naming(p, 0)[field] = {}
      <4>1. CASE field = "functional"
        BY <3>1, <4>1 DEF Naming, TypedIn
      <4>2. CASE field = "cutoff"
        BY <3>1, <4>2 DEF Naming, TypedIn
      <4>3. CASE field = "charge"
        BY <3>1, <4>3 DEF Naming, TypedIn
      <4>4. CASE field = "mult"
        BY <3>1, <4>4 DEF Naming, TypedIn
      <4> QED BY <4>1, <4>2, <4>3, <4>4 DEF Scalars
    <3> QED BY <3>2 DEF LastNamed
  <2> QED BY <2>1, <2>2 DEF HasScalars
<1>3. ASSUME NEW n \in Nat, n \in S
      PROVE  n + 1 \in S
  <2>1. ASSUME n + 1 <= Len(p.sections)
        PROVE  Right(n + 1)
    <3>1. /\ n <= Len(p.sections) /\ n + 1 \in DOMAIN p.sections /\ DOMAIN p.sections \subseteq Nat \ {0}
          /\ n + 1 \in 0 .. Len(p.sections) /\ n + 1 # 0 /\ (n + 1) - 1 = n
      BY <2>1 DEF Listed
    <3>2. W[n + 1] = CKnob(W[n], p.sections[n + 1])
      BY <1>1, <3>1
    <3>3. Right(n)
      BY <1>3, <3>1
    <3>4. /\ HasScalars(CKnob(W[n], p.sections[n + 1]))
          /\ \A field \in Scalars :
               CKnob(W[n], p.sections[n + 1])[field] =
                 IF n + 1 \in Naming(p, n + 1)[field] THEN p.sections[n + 1][field] ELSE W[n][field]
      <4> DEFINE k == W[n]
                 m == n + 1
      <4>1. HasScalars(k) /\ m \in Nat /\ m \in DOMAIN p.sections
        BY <3>1, <3>3
      <4> HIDE DEF k, m
      <4>2. /\ HasScalars(CKnob(k, p.sections[m]))
            /\ \A field \in Scalars :
                 CKnob(k, p.sections[m])[field] =
                   IF m \in Naming(p, m)[field] THEN p.sections[m][field] ELSE k[field]
        BY <4>1, KnobOfSection
      <4> QED BY <4>2 DEF k, m
    <3>5. ASSUME NEW field \in Scalars
          PROVE  W[n + 1][field] = Found(n + 1, field)
      <4>1. Found(n + 1, field) = IF n + 1 \in Naming(p, n + 1)[field] THEN p.sections[n + 1][field]
                                  ELSE Found(n, field)
        <5> DEFINE default == first[field]
                   m == n + 1
        <5>1. m \in Nat /\ m = n + 1 /\ m \in DOMAIN p.sections
          BY <3>1
        <5> HIDE DEF default, m
        <5>2. /\ Names(p, m, field) => NamedAt(p, m, field, default) = p.sections[m][field]
              /\ ~Names(p, m, field) => NamedAt(p, m, field, default) = NamedAt(p, n, field, default)
          BY <5>1, NamedOnceMore
        <5> QED BY <5>2 DEF default, m, Names, NamedAt
      <4> QED BY <3>2, <3>3, <3>4, <4>1
    <3> QED BY <3>2, <3>4, <3>5
  <2> QED BY <2>1
<1>4. Nat \subseteq S
  <2> HIDE DEF S
  <2> QED BY <1>2, <1>3, Induction
<1>5. Right(Len(p.sections))
  BY <1>4 DEF Listed
<1> QED BY <1>5 DEF W

\* cpmdc_params_effective_config and cpmdc_embed_apply_params agree on every
\* message.
LEMMA TwoDecoders ==
    ASSUME NEW p, NEW o, Listed(p)
    PROVE  /\ ApplyParams(p, o) = Overridden(EffectiveConfig(p), o)
           /\ HasScalars(EffectiveConfig(p))
           /\ \A field \in Scalars :
                EffectiveConfig(p)[field] =
                  LastNamed(p, Naming(p, Len(p.sections))[field], field, CTop(p)[field])
<1> DEFINE n == Len(p.sections)
<1>1. HasScalars(CTop(p))
  BY DEF CTop, Scalars, HasScalars
<1>2. /\ HasScalars(EffectiveConfig(p))
      /\ \A field \in Scalars :
           EffectiveConfig(p)[field] = LastNamed(p, Naming(p, n)[field], field, CTop(p)[field])
  <2> DEFINE first == CTop(p)
  <2> HIDE DEF first
  <2>1. /\ HasScalars(WalkedUpTo(p, first)[n])
        /\ \A field \in Scalars :
             WalkedUpTo(p, first)[n][field] = LastNamed(p, Naming(p, n)[field], field, first[field])
    BY <1>1, WalkFindsLast DEF first, HasScalars
  <2> QED BY <2>1 DEF EffectiveConfig, first
<1>3. \A i \in DOMAIN p.sections : i <= n
  BY DEF Listed
<1>4. /\ Naming(p, n).functional = {i \in TypedIn(p, "DFT") : p.sections[i].functional # ""}
      /\ Naming(p, n).cutoff = {i \in TypedIn(p, "SYSTEM") : p.sections[i].cutoff > 0}
      /\ Naming(p, n).charge = TypedIn(p, "SYSTEM")
      /\ Naming(p, n).mult = {i \in TypedIn(p, "SYSTEM") : p.sections[i].mult > 0}
  BY <1>3 DEF Naming, TypedIn
<1>5. ApplyParams(p, o) = Overridden(EffectiveConfig(p), o)
  <2>1. /\ EffectiveConfig(p).functional = LastNamed(p, Naming(p, n).functional, "functional", CTop(p).functional)
        /\ EffectiveConfig(p).cutoff = LastNamed(p, Naming(p, n).cutoff, "cutoff", CTop(p).cutoff)
        /\ EffectiveConfig(p).charge = LastNamed(p, Naming(p, n).charge, "charge", CTop(p).charge)
        /\ EffectiveConfig(p).mult = LastNamed(p, Naming(p, n).mult, "mult", CTop(p).mult)
    BY <1>2 DEF Scalars
  <2> QED BY <1>4, <2>1 DEF ApplyParams, Overridden
<1> QED BY <1>2, <1>5

-----------------------------------------------------------------------------
(* The buffer *)

LEMMA RoomAtDefined ==
    \A n \in 1 .. MaxAttempts : RoomAt[n] = IF n = 1 THEN FirstRoom ELSE 2 * RoomAt[n - 1]
<1> DEFINE Is(f, m) == f = [n \in 1 .. m |-> IF n = 1 THEN FirstRoom ELSE 2 * f[n - 1]]
           S == {m \in Nat : \E f : Is(f, m)}
<1>1. 0 \in S
  <2>1. Is([n \in 1 .. 0 |-> 0], 0)
    OBVIOUS
  <2> QED BY <2>1
<1>2. ASSUME NEW m \in Nat, m \in S
      PROVE  m + 1 \in S
  <2>1. PICK f : Is(f, m)
    BY <1>2
  <2> DEFINE g == [n \in 1 .. m + 1 |-> IF n <= m THEN f[n]
                                        ELSE IF n = 1 THEN FirstRoom ELSE 2 * f[m]]
  <2>2. \A n \in 1 .. m : n \in 1 .. m + 1 /\ n <= m /\ (n # 1 => n - 1 \in 1 .. m)
    OBVIOUS
  <2>3. \A n \in 1 .. m : f[n] = IF n = 1 THEN FirstRoom ELSE 2 * f[n - 1]
    BY <2>1
  <2>4. \A n \in 1 .. m : g[n] = f[n]
    BY <2>2
  <2>5. g[m + 1] = IF m + 1 = 1 THEN FirstRoom ELSE 2 * f[m]
    OBVIOUS
  <2>6. DOMAIN g = 1 .. m + 1 /\ g = [n \in 1 .. m + 1 |-> g[n]]
    OBVIOUS
  <2> HIDE DEF g
  <2>7. \A n \in 1 .. m + 1 : g[n] = IF n = 1 THEN FirstRoom ELSE 2 * g[n - 1]
    <3> SUFFICES ASSUME NEW n \in 1 .. m + 1
                 PROVE  g[n] = IF n = 1 THEN FirstRoom ELSE 2 * g[n - 1]
      OBVIOUS
    <3>1. CASE n = m + 1
      <4>1. n # 1 => n - 1 = m /\ m \in 1 .. m
        BY <3>1
      <4> QED BY <2>4, <2>5, <3>1, <4>1
    <3>2. CASE n # m + 1
      <4>1. n \in 1 .. m
        BY <3>2
      <4> QED BY <2>2, <2>3, <2>4, <4>1
    <3> QED BY <3>1, <3>2
  <2>8. Is(g, m + 1)
    BY <2>6, <2>7
  <2> QED BY <2>8
<1>3. Nat \subseteq S
  <2> HIDE DEF S
  <2> QED BY <1>1, <1>2, Induction
<1>4. PICK f : Is(f, MaxAttempts)
  BY <1>3, Limits
<1>5. Is(RoomAt, MaxAttempts)
  BY <1>4, Zenon DEF RoomAt
<1> QED BY <1>5

LEMMA RoomIsPositive == \A n \in 1 .. MaxAttempts : RoomAt[n] \in Nat \ {0}
<1> DEFINE S == {n \in Nat : n \in 1 .. MaxAttempts => RoomAt[n] \in Nat \ {0}}
<1>1. 0 \in S
  OBVIOUS
<1>2. ASSUME NEW n \in Nat, n \in S
      PROVE  n + 1 \in S
  <2>1. ASSUME n + 1 \in 1 .. MaxAttempts
        PROVE  RoomAt[n + 1] \in Nat \ {0}
    <3>1. RoomAt[n + 1] = IF n + 1 = 1 THEN FirstRoom ELSE 2 * RoomAt[(n + 1) - 1]
      BY <2>1, RoomAtDefined
    <3>2. CASE n = 0
      BY <3>1, <3>2, Limits
    <3>3. CASE n # 0
      <4>1. n \in 1 .. MaxAttempts /\ (n + 1) - 1 = n /\ n + 1 # 1
        BY <2>1, <3>3, Limits
      <4>2. RoomAt[n] \in Nat \ {0}
        BY <1>2, <4>1
      <4> QED BY <3>1, <4>1, <4>2
    <3> QED BY <3>2, <3>3
  <2> QED BY <2>1
<1>3. Nat \subseteq S
  <2> HIDE DEF S
  <2> QED BY <1>1, <1>2, Induction
<1> QED BY <1>3, Limits

\* What an append leaves: a block more and its set directives printed, or a
\* buffer that is full.
Printed(block) ==
    /\ phase' = phase
    /\ deck' = Append(deck, block)
    /\ pending' = pending \ block.sets

LEMMA AppendsAreCounted ==
    ASSUME NEW block, IsFiniteSet(block.sets)
    PROVE  Len(Appends(block)) \in Nat
<1> DEFINE T == {"text", "slice"}
           n == Cardinality(block.sets)
<1>1. n \in Nat
  BY FS_CardinalityType
<1>2. Payload(n) \in Seq(T)
  <2> HIDE DEF n
  <2>1. 2 * n \in Nat
    BY <1>1
  <2>2. Payload(n) \in [1 .. 2 * n -> T]
    BY DEF Payload
  <2> QED BY <2>1, <2>2, SeqDef
<1>3. <<"text">> \in Seq(T) /\ <<"text", "slice">> \in Seq(T)
  OBVIOUS
<1> DEFINE P == Payload(n)
<1>4. /\ <<"text">> \o P \o <<"text">> \in Seq(T)
      /\ <<"text", "slice">> \o P \o <<"text">> \in Seq(T)
  <2> HIDE DEF P, T
  <2>1. P \in Seq(T)
    BY <1>2 DEF P
  <2> QED BY <1>3, <2>1, ConcatProperties
<1>5. Appends(block) \in Seq(T)
  BY <1>3, <1>4 DEF Appends
<1> QED BY <1>5, LenProperties

LEMMA EmitPrintsOrFails ==
    ASSUME NEW block, IsFiniteSet(block.sets), Emit(block), used \in Nat
    PROVE  /\ Printed(block) \/ (phase' = "failed" /\ deck' = deck /\ pending' = pending)
           /\ used' \in Nat /\ (used < Room => used' < Room)
<1>1. Len(Appends(block)) \in Nat
  BY AppendsAreCounted
<1> QED BY <1>1 DEF Emit, Printed

-----------------------------------------------------------------------------
(* Types *)

Overs ==
    [functional : Texts \cup {None}, cutoff : Nat \cup {None}, charge : Int \cup {None},
     mult : Nat \cup {None}]

\* The message may not change any more.
Resolved == phase \in {"starting", "rendering", "failed", "rendered", "installed"}

TypeInv ==
    /\ TypeOK
    /\ ov \in Overs /\ arm \in {"cpmd", "none", "other"} /\ used \in Nat
    /\ phase = "filling" =>
         /\ ov = NoOverrides /\ geom = None /\ knobs = None /\ image = None
         /\ at = 0 /\ has = {} /\ pending = {} /\ deck = << >>
    /\ image # None => geom = None

LEMMA MandatoryAre == ToSet(Mandatory) = {"CPMD", "SYSTEM", "DFT", "ATOMS"}
<1>1. DOMAIN Mandatory = 1 .. 4
  BY DEF Mandatory
<1>2. ToSet(Mandatory) = {Mandatory[i] : i \in 1 .. 4}
  BY <1>1 DEF ToSet
<1> QED BY <1>2 DEF Mandatory

LEMMA MessagesAreListed ==
    ASSUME NEW p \in Messages
    PROVE  /\ Listed(p)
           /\ Len(p.sets) \in Nat /\ DOMAIN p.sets = 1 .. Len(p.sets)
           /\ \A i \in DOMAIN p.sections : SectionTyped(p.sections[i])
<1> DEFINE S == Sections \cup {LoweredCpmd, LoweredVdw, LoweredSystem}
<1>1. p.sections \in Seq(S) /\ p.sets \in Seq(SetKeys)
  BY DEF Messages
<1>2. \A s \in S : SectionTyped(s)
  <2>1. SectionTyped(LoweredCpmd) /\ SectionTyped(LoweredVdw) /\ SectionTyped(LoweredSystem)
    BY DEF SectionTyped, LoweredCpmd, LoweredVdw, LoweredSystem
  <2> QED BY <2>1, InputsTyped
<1> HIDE DEF S
<1>3. Len(p.sections) \in Nat /\ DOMAIN p.sections = 1 .. Len(p.sections)
  BY <1>1, LenProperties
<1>4. Len(p.sets) \in Nat /\ DOMAIN p.sets = 1 .. Len(p.sets)
  BY <1>1, LenProperties
<1>5. \A i \in DOMAIN p.sections : p.sections[i] \in S
  BY <1>1, <1>3, ElementOfSeq
<1> QED BY <1>2, <1>3, <1>4, <1>5 DEF Listed

LEMMA LoweredSectionsAre ==
    ASSUME NEW S, LoweredCpmd \in S, LoweredVdw \in S, Set("kMesh") => LoweredSystem \in S
    PROVE  LoweredSections \in Seq(S)
<1> DEFINE A == When(common \cap {"scf", "smearing"} # {}, LoweredCpmd)
           B == When(Set("vdw"), LoweredVdw)
           C == When(Set("kMesh"), LoweredSystem)
<1>1. \A c, s : (c => s \in S) => When(c, s) \in Seq(S)
  BY DEF When
<1>2. A \in Seq(S) /\ B \in Seq(S) /\ C \in Seq(S)
  BY <1>1
<1> HIDE DEF A, B, C
<1>3. A \o B \in Seq(S)
  BY <1>2, ConcatProperties
<1>4. (A \o B) \o C \in Seq(S)
  BY <1>2, <1>3, ConcatProperties
<1> QED BY <1>4 DEF LoweredSections, A, B, C

LEMMA LoweredIsAMessage == Lowered \in Messages
<1> DEFINE S == Sections \cup {LoweredCpmd, LoweredVdw, LoweredSystem}
<1>1. LoweredSections \in Seq(S)
  <2>1. LoweredCpmd \in S /\ LoweredVdw \in S /\ LoweredSystem \in S
    OBVIOUS
  <2> HIDE DEF S
  <2> QED BY <2>1, LoweredSectionsAre
<1>2. << >> \in Seq(SetKeys)
  OBVIOUS
<1>3. /\ Lowered.functional \in Texts
      /\ Lowered.cutoff \in Nat /\ Lowered.charge \in Int /\ Lowered.mult \in Nat
  <2>1. /\ Lowered.functional = IF Set("xc") THEN OverlayFunctional ELSE ""
        /\ Lowered.cutoff = IF Set("cutoff") THEN OverlayCutoff ELSE 70
        /\ Lowered.charge = IF Set("charge") THEN OverlayCharge ELSE 0
        /\ Lowered.mult = IF Set("mult") THEN OverlayMult ELSE 1
    BY DEF Lowered
  <2>2. Lowered.functional \in Texts
    BY <2>1, InputsTyped
  <2>3. /\ Lowered.cutoff \in {100, 70} /\ Lowered.charge \in {1, 0} /\ Lowered.mult \in {3, 1}
    BY <2>1, Zenon DEF OverlayCutoff, OverlayCharge, OverlayMult
  <2> QED BY <2>2, <2>3
<1> QED BY <1>1, <1>2, <1>3 DEF Lowered, Messages

LEMMA OverriddenTyped ==
    ASSUME NEW p \in Messages, NEW o \in Overs
    PROVE  EffectiveConfig(p) \in Knobs /\ Overridden(EffectiveConfig(p), o) \in Knobs
<1> DEFINE n == Len(p.sections)
           k == EffectiveConfig(p)
<1>1. Listed(p)
  BY MessagesAreListed
<1>2. \A i \in DOMAIN p.sections : SectionTyped(p.sections[i])
  BY MessagesAreListed
<1>3. CTop(p) \in Knobs
  BY InputsTyped DEF CTop, Knobs, Messages
<1>4. ASSUME NEW field \in Scalars, NEW T, CTop(p)[field] \in T,
             \A i \in Naming(p, n)[field] : p.sections[i][field] \in T
      PROVE  k[field] \in T
  <2> DEFINE S == Naming(p, n)[field]
  <2>1. S \in SUBSET (1 .. n)
    <3>1. CASE field = "functional"
      BY <1>1, <3>1 DEF Naming, TypedIn, Listed
    <3>2. CASE field = "cutoff"
      BY <1>1, <3>2 DEF Naming, TypedIn, Listed
    <3>3. CASE field = "charge"
      BY <1>1, <3>3 DEF Naming, TypedIn, Listed
    <3>4. CASE field = "mult"
      BY <1>1, <3>4 DEF Naming, TypedIn, Listed
    <3> QED BY <3>1, <3>2, <3>3, <3>4 DEF Scalars
  <2>2. k[field] = LastNamed(p, S, field, CTop(p)[field])
    <3> HIDE DEF k
    <3> QED BY <1>1, TwoDecoders DEF k
  <2>3. CASE S = {}
    BY <1>4, <2>2, <2>3 DEF LastNamed
  <2>4. CASE S # {}
    <3>1. n \in Nat
      BY <1>1 DEF Listed
    <3> HIDE DEF S, n
    <3>2. Max(S) \in S
      BY <2>1, <2>4, <3>1, LastExists
    <3> QED BY <1>4, <2>2, <2>4, <3>2 DEF LastNamed, S
  <2> QED BY <2>3, <2>4
<1>5. /\ \A i \in Naming(p, n).functional : p.sections[i].functional \in Texts
      /\ \A i \in Naming(p, n).cutoff : p.sections[i].cutoff \in Nat
      /\ \A i \in Naming(p, n).charge : p.sections[i].charge \in Int
      /\ \A i \in Naming(p, n).mult : p.sections[i].mult \in Nat
  <2>1. /\ \A i \in TypedIn(p, "SYSTEM") : /\ p.sections[i].cutoff \in Nat
                                            /\ p.sections[i].charge \in Int
                                            /\ p.sections[i].mult \in Nat
        /\ \A i \in TypedIn(p, "DFT") : p.sections[i].functional \in Texts
    BY <1>2 DEF TypedIn, SectionTyped
  <2> QED BY <2>1 DEF Naming
<1>6. /\ CTop(p).functional \in Texts /\ CTop(p).cutoff \in Nat
      /\ CTop(p).charge \in Int /\ CTop(p).mult \in Nat
  BY <1>3 DEF Knobs
<1>7. k.functional \in Texts /\ k.cutoff \in Nat /\ k.charge \in Int /\ k.mult \in Nat
  <2> HIDE DEF k, n
  <2> QED BY <1>4, <1>5, <1>6 DEF Scalars
<1>8. HasScalars(k)
  BY <1>1, TwoDecoders
<1>9. k \in Knobs
  <2> HIDE DEF k
  <2>1. k = [functional |-> k.functional, cutoff |-> k.cutoff, charge |-> k.charge,
             mult |-> k.mult]
    BY <1>8 DEF HasScalars, Scalars
  <2> QED BY <1>7, <2>1 DEF Knobs
<1>10. Overridden(k, o) \in Knobs
  <2> HIDE DEF k
  <2> QED BY <1>7 DEF Overridden, Or, Knobs, Overs
<1> QED BY <1>9, <1>10

LEMMA SetsAreFinite ==
    ASSUME TypeInv, NEW name
    PROVE  IsFiniteSet(SetsOf(name)) /\ SetsOf(name) \subseteq pending
<1>1. Len(params.sets) \in Nat /\ DOMAIN params.sets = 1 .. Len(params.sets)
  BY MessagesAreListed DEF TypeInv, TypeOK
<1>2. IsFiniteSet(DOMAIN params.sets)
  <2> DEFINE n == Len(params.sets)
  <2>1. n \in Nat
    BY <1>1
  <2> HIDE DEF n
  <2>2. IsFiniteSet(1 .. n)
    BY <2>1, FS_Interval
  <2> QED BY <1>1, <2>2 DEF n
<1>3. SetsOf(name) \subseteq DOMAIN params.sets /\ SetsOf(name) \subseteq pending
  BY DEF SetsOf, TypeInv, TypeOK
<1> QED BY <1>2, <1>3, FS_Subset

LEMMA NothingMissing == Missing = {} => ToSet(Mandatory) \subseteq has
BY DEF Missing, ToSet

LEMMA FirstMissing ==
    ASSUME Missing # {}
    PROVE  Mandatory[Min(Missing)] \in ToSet(Mandatory) \ has
<1>1. DOMAIN Mandatory = 1 .. 4
  BY DEF Mandatory
<1>2. Missing \in SUBSET Nat
  BY <1>1 DEF Missing
<1>3. Min(Missing) \in Missing
  <2> DEFINE S == Missing
  <2>1. S \in SUBSET Nat /\ S # {}
    BY <1>2
  <2> HIDE DEF S
  <2>2. Min(S) \in S
    BY <2>1, FirstOf
  <2> QED BY <2>2 DEF S
<1> QED BY <1>3 DEF Missing, ToSet

\* Types a step of the renderer keeps besides those it may change.
RenderTypes ==
    /\ at \in 0 .. Len(params.sections) + 1
    /\ has \subseteq ToSet(Mandatory) /\ pending \subseteq DOMAIN params.sets
    /\ attempt \in 1 .. MaxAttempts /\ used \in Nat /\ used < Room
    /\ phase \in {"rendering", "failed", "rendered", "refused"}
    /\ phase = "rendered" => has = ToSet(Mandatory) /\ pending = {}

LEMMA RenderTypesNext ==
    ASSUME params' = params, attempt \in 1 .. MaxAttempts, attempt' = attempt,
           at' \in 0 .. Len(params.sections) + 1, has' \subseteq ToSet(Mandatory),
           pending' \subseteq DOMAIN params.sets, used' \in Nat, used' < Room,
           phase' \in {"rendering", "failed", "rendered", "refused"},
           phase' = "rendered" => has' = ToSet(Mandatory) /\ pending' = {}
    PROVE  RenderTypes'
<1>1. Room' = Room
  BY DEF Room
<1> QED BY <1>1 DEF RenderTypes

LEMMA RoomIsThere == ASSUME attempt \in 1 .. MaxAttempts PROVE Room \in Nat \ {0}
BY RoomIsPositive DEF Room

\* What every append does to these types.
LEMMA TypesOfEmit ==
    ASSUME NEW block, IsFiniteSet(block.sets), Emit(block), used \in Nat, used < Room,
           pending \subseteq DOMAIN params.sets, phase = "rendering"
    PROVE  /\ phase' \in {"rendering", "failed"} /\ pending' \subseteq DOMAIN params.sets
           /\ used' \in Nat /\ used' < Room
<1>1. /\ Printed(block) \/ (phase' = "failed" /\ deck' = deck /\ pending' = pending)
      /\ used' \in Nat /\ (used < Room => used' < Room)
  BY EmitPrintsOrFails
<1> QED BY <1>1 DEF Printed

LEMMA TypesOfBegin ==
    ASSUME params \in Messages, NEW n \in 1 .. MaxAttempts, Begin(n)
    PROVE  /\ UNCHANGED <<params, ov, geom>>
           /\ RenderTypes'
<1>1. /\ UNCHANGED <<params, ov, geom>> /\ attempt' = n /\ phase' \in {"failed", "rendering"}
      /\ at' = 0 /\ has' = params.blocks /\ pending' = DOMAIN params.sets /\ used' = 0
  BY DEF Begin, OpenedByBlocks, PendingAtStart
<1>2. RoomAt[n] \in Nat \ {0}
  BY RoomIsPositive
<1>3. Room' \in Nat \ {0}
  BY <1>1, <1>2 DEF Room
<1>4. Len(params.sections) \in Nat /\ params.blocks \subseteq ToSet(Mandatory)
  BY MessagesAreListed DEF Listed, Messages
<1> QED BY <1>1, <1>3, <1>4 DEF RenderTypes

LEMMA TypesOfRendering ==
    ASSUME TypeInv, RenderStep
    PROVE  /\ UNCHANGED <<params, ov, geom>>
           /\ phase \in {"rendering", "failed"}
           /\ RenderTypes'
<1>1. Listed(params) /\ \A i \in DOMAIN params.sections : SectionTyped(params.sections[i])
  BY MessagesAreListed DEF TypeInv, TypeOK
<1>2. /\ params \in Messages /\ at \in 0 .. Len(params.sections) + 1
      /\ has \subseteq ToSet(Mandatory) /\ pending \subseteq DOMAIN params.sets
      /\ attempt \in 1 .. MaxAttempts /\ used \in Nat /\ used < Room
  BY DEF TypeInv, TypeOK
<1>3. IsFiniteSet({})
  BY FS_EmptySet
<1>4. CASE RenderBlocks
  <2> DEFINE b == Block("raw", "", params.blocks, {}, << >>)
  <2>1. /\ UNCHANGED <<params, ov, geom, has, attempt>> /\ phase = "rendering" /\ at = 0 /\ at' = 1
        /\ (UNCHANGED <<phase, pending, deck, used, overflow>> \/ Emit(b))
    BY <1>4 DEF RenderBlocks
  <2>2. IsFiniteSet(b.sets)
    BY <1>3 DEF Block
  <2>3. ASSUME Emit(b)
        PROVE  /\ phase' \in {"rendering", "failed"} /\ pending' \subseteq DOMAIN params.sets
               /\ used' \in Nat /\ used' < Room
    <3> HIDE DEF b
    <3> QED BY <1>2, <2>1, <2>2, <2>3, TypesOfEmit
  <2>4. /\ phase' \in {"rendering", "failed"} /\ pending' \subseteq DOMAIN params.sets
        /\ used' \in Nat /\ used' < Room
    <3> HIDE DEF b
    <3> QED BY <1>2, <2>1, <2>3
  <2>5. at' \in 0 .. Len(params.sections) + 1
    <3>1. Len(params.sections) \in Nat
      BY <1>1 DEF Listed
    <3>2. at' = 1
      BY <2>1
    <3> QED BY <3>1, <3>2
  <2>6. RenderTypes'
    BY <1>2, <2>1, <2>4, <2>5, RenderTypesNext
  <2> QED BY <2>1, <2>6
<1>5. CASE RenderSection
  <2> DEFINE s == params.sections[at]
             b == SectionBlock(s)
  <2>1. /\ UNCHANGED <<params, ov, geom, attempt>> /\ phase = "rendering" /\ at \in DOMAIN params.sections
        /\ \/ SectionRefused(s) /\ Reject
           \/ /\ ~SectionRefused(s) /\ Emit(b) /\ at' = at + 1
              /\ has' = has \cup (CASE s.kind = "typed" -> {s.name} \cap ToSet(Mandatory)
                                    [] s.kind = "raw" -> s.opens
                                    [] OTHER -> {})
    BY <1>5 DEF RenderSection
  <2>2. SectionTyped(s)
    BY <1>1, <2>1
  <2>3. CASE Reject
    <3>1. phase' = "failed" /\ UNCHANGED <<at, has, pending, used>>
      BY <2>3 DEF Reject, renderVars
    <3>2. RenderTypes'
      BY <1>2, <2>1, <3>1, RenderTypesNext
    <3> QED BY <2>1, <3>2
  <2>4. CASE /\ ~SectionRefused(s) /\ Emit(b) /\ at' = at + 1
             /\ has' = has \cup (CASE s.kind = "typed" -> {s.name} \cap ToSet(Mandatory)
                                   [] s.kind = "raw" -> s.opens
                                   [] OTHER -> {})
    <3>1. s.kind \in {"typed", "generic", "raw"}
      BY <2>2, <2>4 DEF SectionTyped, SectionRefused
    <3>2. b.sets = {} \/ b.sets = SetsOf(s.name)
      BY <3>1 DEF SectionBlock, Block
    <3>3. IsFiniteSet(b.sets)
      BY <1>3, <3>2, SetsAreFinite
    <3>4. /\ phase' \in {"rendering", "failed"} /\ pending' \subseteq DOMAIN params.sets
          /\ used' \in Nat /\ used' < Room
      <4> HIDE DEF b, s
      <4> QED BY <1>2, <2>1, <2>4, <3>3, TypesOfEmit
    <3>5. at' \in 0 .. Len(params.sections) + 1
      BY <1>1, <2>1, <2>4 DEF Listed
    <3>6. has' \subseteq ToSet(Mandatory)
      <4>1. CASE s.kind = "typed"
        BY <1>2, <2>4, <4>1
      <4>2. CASE s.kind = "raw"
        BY <1>2, <2>2, <2>4, <4>2 DEF SectionTyped
      <4>3. CASE s.kind = "generic"
        BY <1>2, <2>4, <4>3
      <4> QED BY <3>1, <4>1, <4>2, <4>3
    <3>7. RenderTypes'
      <4> HIDE DEF b, s
      <4> QED BY <1>2, <2>1, <3>4, <3>5, <3>6, RenderTypesNext
    <3> QED BY <2>1, <3>7
  <2> QED BY <2>1, <2>3, <2>4
<1>6. CASE RenderDefault
  <2> DEFINE name == Mandatory[Min(Missing)]
             b == DefaultBlock(name)
  <2>1. /\ UNCHANGED <<params, ov, geom, attempt>> /\ phase = "rendering" /\ Missing # {}
        /\ Reject \/ (Emit(b) /\ has' = has \cup {name} /\ at' = at)
    BY <1>6 DEF RenderDefault
  <2>2. name \in ToSet(Mandatory)
    BY <2>1, FirstMissing
  <2>3. CASE Reject
    <3>1. phase' = "failed" /\ UNCHANGED <<at, has, pending, used>>
      BY <2>3 DEF Reject, renderVars
    <3>2. RenderTypes'
      BY <1>2, <2>1, <3>1, RenderTypesNext
    <3> QED BY <2>1, <3>2
  <2>4. CASE Emit(b) /\ has' = has \cup {name} /\ at' = at
    <3>1. b.sets = SetsOf(name)
      BY DEF DefaultBlock, Block
    <3>2. IsFiniteSet(b.sets)
      BY <3>1, SetsAreFinite
    <3>3. /\ phase' \in {"rendering", "failed"} /\ pending' \subseteq DOMAIN params.sets
          /\ used' \in Nat /\ used' < Room
      <4> HIDE DEF b
      <4> QED BY <1>2, <2>1, <2>4, <3>2, TypesOfEmit
    <3>4. has' \subseteq ToSet(Mandatory)
      BY <1>2, <2>2, <2>4
    <3>5. RenderTypes'
      <4> HIDE DEF b, name
      <4> QED BY <1>2, <2>1, <2>4, <3>3, <3>4, RenderTypesNext
    <3> QED BY <2>1, <3>5
  <2> QED BY <2>1, <2>3, <2>4
<1>7. CASE RenderRemainingSets
  <2> DEFINE name == params.sets[Min(pending)].section
             b == Block("sets", name, {name}, SetsOf(name), << >>)
  <2>1. UNCHANGED <<params, ov, geom, at, has, attempt>> /\ phase = "rendering" /\ Emit(b)
    BY <1>7 DEF RenderRemainingSets
  <2>2. b.sets = SetsOf(name)
    BY DEF Block
  <2>3. IsFiniteSet(b.sets)
    BY <2>2, SetsAreFinite
  <2>4. /\ phase' \in {"rendering", "failed"} /\ pending' \subseteq DOMAIN params.sets
        /\ used' \in Nat /\ used' < Room
    <3> HIDE DEF b
    <3> QED BY <1>2, <2>1, <2>3, TypesOfEmit
  <2>5. RenderTypes'
    <3> HIDE DEF b
    <3> QED BY <1>2, <2>1, <2>4, RenderTypesNext
  <2> QED BY <2>1, <2>5
<1>8. CASE FinishDeck
  <2>1. /\ UNCHANGED <<params, ov, geom, attempt, at, has, pending, used>> /\ phase = "rendering"
        /\ Missing = {} /\ pending = {} /\ phase' = "rendered"
    BY <1>8 DEF FinishDeck, renderVars
  <2>2. has = ToSet(Mandatory)
    BY <1>2, <2>1, NothingMissing
  <2>3. RenderTypes'
    BY <1>2, <2>1, <2>2, RenderTypesNext
  <2> QED BY <2>1, <2>3
<1>9. CASE Retry
  <2>1. phase = "failed" /\ attempt + 1 \in 1 .. MaxAttempts /\ Begin(attempt + 1)
    BY <1>2, <1>9, Limits DEF Retry
  <2> DEFINE n == attempt + 1
  <2> HIDE DEF n
  <2>2. n \in 1 .. MaxAttempts /\ Begin(n)
    BY <2>1 DEF n
  <2>3. UNCHANGED <<params, ov, geom>> /\ RenderTypes'
    BY <1>2, <2>2, TypesOfBegin
  <2> QED BY <2>1, <2>3
<1>10. CASE GiveUp
  <2>1. /\ UNCHANGED <<params, ov, geom, attempt, at, has, pending, used>> /\ phase = "failed"
        /\ phase' = "refused"
    BY <1>10 DEF GiveUp, renderVars
  <2>2. RenderTypes'
    BY <1>2, <2>1, RenderTypesNext
  <2> QED BY <2>1, <2>2
<1> QED BY <1>4, <1>5, <1>6, <1>7, <1>8, <1>9, <1>10 DEF RenderStep

LEMMA InitTypes == Init => TypeInv
<1> SUFFICES ASSUME Init PROVE TypeInv
  OBVIOUS
<1>1. /\ params \in Messages /\ ov = NoOverrides /\ geom = None /\ phase = "filling"
      /\ at = 0 /\ has = {} /\ pending = {} /\ deck = << >> /\ attempt = 1 /\ used = 0
      /\ knobs = None /\ image = None /\ arm \in {"cpmd", "none", "other"}
  BY InputsTyped DEF Init
<1>2. Len(params.sections) \in Nat
  BY <1>1, MessagesAreListed DEF Listed
<1>3. 1 \in 1 .. MaxAttempts /\ attempt \in 1 .. MaxAttempts
  BY <1>1, Limits
<1>4. Room \in Nat \ {0}
  BY <1>3, RoomIsThere
<1>5. ov \in Overs
  BY <1>1 DEF Overs, NoOverrides
<1>6. TypeOK
  BY <1>1, <1>2, <1>3, <1>4 DEF TypeOK, Shown
<1> QED BY <1>1, <1>5, <1>6 DEF TypeInv

\* While a message is filled in, nothing is printed yet.
LEMMA TypesOfFilling ==
    ASSUME TypeInv, Filling, params' \in Messages
    PROVE  TypeInv'
<1>1. /\ UNCHANGED <<ov, geom, phase, at, has, pending, deck, used, attempt, arm, knobs, image>>
      /\ phase = "filling"
  BY DEF Filling, renderVars
<1>2. Len(params.sections)' \in Nat
  BY MessagesAreListed DEF Listed
<1>3. Room' = Room
  BY <1>1 DEF Room
<1>4. at = 0 /\ has = {} /\ pending = {}
  BY <1>1 DEF TypeInv
<1>5. TypeOK'
  BY <1>1, <1>2, <1>3, <1>4 DEF TypeInv, TypeOK, Shown
<1>6. (ov \in Overs)'
  BY <1>1 DEF TypeInv, Overs
<1> QED BY <1>1, <1>5, <1>6 DEF TypeInv, NoOverrides

LEMMA TypesOfAddSection ==
    ASSUME TypeInv, NEW s \in Sections, AddSection(s)
    PROVE  TypeInv'
<1> DEFINE S == Sections \cup {LoweredCpmd, LoweredVdw, LoweredSystem}
           q == Append(params.sections, s)
<1>1. Filling /\ params' = [params EXCEPT !.sections = q]
  BY DEF AddSection
<1>2. params \in Messages
  BY DEF TypeInv, TypeOK
<1>3. params.sections \in Seq(S) /\ s \in S
  BY <1>2 DEF Messages
<1>4. q \in Seq(S)
  <2> HIDE DEF S
  <2> QED BY <1>3, AppendProperties
<1>5. params' \in Messages
  <2> HIDE DEF q
  <2> QED BY <1>1, <1>2, <1>4 DEF Messages
<1> QED BY <1>1, <1>5, TypesOfFilling

LEMMA TypesOfAddSet ==
    ASSUME TypeInv, NEW k \in SetKeys, AddSet(k)
    PROVE  TypeInv'
<1> DEFINE q == Append(params.sets, k)
<1>1. Filling /\ params' = [params EXCEPT !.sets = q]
  BY DEF AddSet
<1>2. params \in Messages
  BY DEF TypeInv, TypeOK
<1>3. params.sets \in Seq(SetKeys)
  BY <1>2 DEF Messages
<1>4. q \in Seq(SetKeys)
  BY <1>3, AppendProperties
<1>5. params' \in Messages
  <2> HIDE DEF q
  <2> QED BY <1>1, <1>2, <1>4 DEF Messages
<1> QED BY <1>1, <1>5, TypesOfFilling

LEMMA OverridesTyped == Overrides \in Overs
<1>1. /\ Overrides.functional \in {OverlayFunctional, None} /\ Overrides.cutoff \in {100, None}
      /\ Overrides.charge \in {1, None} /\ Overrides.mult \in {3, None}
  <2> DEFINE base == EffectiveConfig(params)
  <2> HIDE DEF base
  <2>1. Overrides =
          [functional |-> IF Set("xc") /\ base.functional = "BLYP" THEN OverlayFunctional ELSE None,
           cutoff |-> IF Set("cutoff") /\ base.cutoff = 70 THEN OverlayCutoff ELSE None,
           charge |-> IF Set("charge") /\ base.charge = 0 THEN OverlayCharge ELSE None,
           mult |-> IF Set("mult") /\ base.mult = 1 THEN OverlayMult ELSE None]
    BY DEF Overrides, base
  <2> QED BY <2>1, Zenon DEF OverlayCutoff, OverlayCharge, OverlayMult
<1>2. /\ Overrides.functional \in Texts \cup {None} /\ Overrides.cutoff \in Nat \cup {None}
      /\ Overrides.charge \in Int \cup {None} /\ Overrides.mult \in Nat \cup {None}
  <2>1. OverlayFunctional \in Texts
    BY InputsTyped
  <2>2. Overrides.functional \in Texts \cup {None}
    BY <1>1, <2>1, Zenon
  <2>3. Overrides.cutoff \in Nat \cup {None}
    <3>1. 100 \in Nat
      OBVIOUS
    <3> QED BY <1>1, <3>1, Zenon
  <2>4. Overrides.charge \in Int \cup {None}
    <3>1. 1 \in Int
      OBVIOUS
    <3> QED BY <1>1, <3>1, Zenon
  <2>5. Overrides.mult \in Nat \cup {None}
    <3>1. 3 \in Nat
      OBVIOUS
    <3> QED BY <1>1, <3>1, Zenon
  <2> QED BY <2>2, <2>3, <2>4, <2>5
<1> DEFINE o == Overrides
<1>3. o = [functional |-> o.functional, cutoff |-> o.cutoff, charge |-> o.charge, mult |-> o.mult]
  BY DEF Overrides
<1> HIDE DEF o
<1>4. /\ o.functional \in Texts \cup {None} /\ o.cutoff \in Nat \cup {None}
      /\ o.charge \in Int \cup {None} /\ o.mult \in Nat \cup {None}
  BY <1>2 DEF o
<1>5. o \in Overs
  BY <1>3, <1>4 DEF Overs
<1> QED BY <1>5 DEF o

\* What a message becomes, if it becomes anything.
LEMMA Resolving ==
    ASSUME Resolve, TypeInv
    PROVE  /\ phase = "filling" /\ UNCHANGED <<geom, renderVars, attempt, arm, common, image>>
           /\ \/ phase' \in {"refused", "unchanged"} /\ UNCHANGED <<params, ov, knobs>>
              \/ /\ phase' = "starting" /\ arm = "none" /\ params' = Lowered /\ ov' = NoOverrides
                 /\ knobs' = EffectiveConfig(Lowered)
              \/ /\ phase' = "starting" /\ arm = "cpmd" /\ params' = params /\ ov' = Overrides
                 /\ knobs' = Overridden(EffectiveConfig(params), Overrides)
<1>1. arm \in {"cpmd", "none", "other"} /\ phase = "filling" /\ UNCHANGED <<arm, common, image>>
  BY DEF TypeInv, Resolve
<1>2. CASE arm = "other"
  BY <1>1, <1>2 DEF Resolve, Answer
<1>3. CASE arm = "none" /\ ~Set("present")
  BY <1>1, <1>3 DEF Resolve, Answer
<1>4. CASE arm = "none" /\ Set("present")
  BY <1>1, <1>4 DEF Resolve, Answer, Render
<1>5. CASE arm = "cpmd"
  BY <1>1, <1>5 DEF Resolve, Answer, Render
<1> QED BY <1>1, <1>2, <1>3, <1>4, <1>5

LEMMA TypesOfResolve ==
    ASSUME TypeInv, Resolve
    PROVE  TypeInv'
<1>1. /\ phase = "filling" /\ UNCHANGED <<geom, at, has, pending, used, attempt, arm, image>>
      /\ phase' \in {"refused", "unchanged", "starting"}
  BY Resolving DEF renderVars
<1>2. NoOverrides \in Overs /\ Overrides \in Overs
  BY OverridesTyped DEF NoOverrides, Overs
<1>3. params \in Messages /\ ov \in Overs /\ knobs = None /\ image = None
  BY <1>1 DEF TypeInv, TypeOK
<1>4. params' \in Messages /\ ov' \in Overs
  BY <1>2, <1>3, LoweredIsAMessage, Resolving
<1>5. knobs' \in Knobs \cup {None}
  <2>1. EffectiveConfig(Lowered) \in Knobs
    BY <1>2, LoweredIsAMessage, OverriddenTyped
  <2> DEFINE o == Overrides
  <2> HIDE DEF o
  <2>2. Overridden(EffectiveConfig(params), o) \in Knobs
    BY <1>2, <1>3, OverriddenTyped DEF o
  <2> QED BY <1>3, <2>1, <2>2, Resolving DEF o
<1>6. Len(params'.sections) \in Nat
  BY <1>4, MessagesAreListed DEF Listed
<1>7. Room' = Room
  BY <1>1 DEF Room
<1>8. at = 0 /\ has = {} /\ pending = {}
  BY <1>1 DEF TypeInv
<1>9. TypeOK'
  BY <1>1, <1>3, <1>4, <1>5, <1>6, <1>7, <1>8 DEF TypeInv, TypeOK, Shown
<1>10. (ov \in Overs)'
  BY <1>4 DEF Overs
<1> QED BY <1>1, <1>3, <1>9, <1>10 DEF TypeInv

\* The steps of the renderer and of its start.
LEMMA TypesOfPrinting ==
    ASSUME TypeInv, UNCHANGED <<params, ov, geom, arm, knobs, image>>, RenderTypes',
           phase \in {"starting", "rendering", "failed"}
    PROVE  TypeInv'
<1>1. image = None
  BY DEF TypeInv, TypeOK
<1>2. TypeOK'
  BY <1>1 DEF TypeInv, TypeOK, RenderTypes, Shown
<1>3. (ov \in Overs)'
  BY DEF TypeInv, Overs
<1>4. (phase # "filling" /\ used \in Nat)'
  BY DEF RenderTypes
<1> QED BY <1>1, <1>2, <1>3, <1>4 DEF TypeInv

LEMMA TypesOfInstall ==
    ASSUME TypeInv, Install
    PROVE  TypeInv'
<1>1. /\ UNCHANGED <<params, ov, geom, at, has, pending, used, attempt, arm, knobs>>
      /\ phase = "rendered" /\ geom = None
      /\ \/ phase' = "refused" /\ image' = image
         \/ phase' = "installed" /\ image' = ApplyParams(params, ov)
  BY DEF Install, Answer, renderVars
<1>2. params \in Messages /\ ov \in Overs
  BY DEF TypeInv, TypeOK
<1>3. ApplyParams(params, ov) \in Knobs
  <2>1. ApplyParams(params, ov) = Overridden(EffectiveConfig(params), ov)
    BY <1>2, MessagesAreListed, TwoDecoders
  <2> QED BY <1>2, <2>1, OverriddenTyped
<1>4. ApplyParams(params, ov) # None
  BY <1>3, NoneIsApart
<1>5. Room' = Room
  BY <1>1 DEF Room
<1>6. TypeOK'
  BY <1>1, <1>3, <1>4, <1>5 DEF TypeInv, TypeOK, Shown
<1>7. (ov \in Overs)'
  BY <1>1, <1>2 DEF Overs
<1> QED BY <1>1, <1>6, <1>7 DEF TypeInv

LEMMA TypesAreInductive == TypeInv /\ [Next]_vars => TypeInv'
<1> SUFFICES ASSUME TypeInv, [Next]_vars PROVE TypeInv'
  OBVIOUS
<1>1. ASSUME NEW s \in Sections, AddSection(s) PROVE TypeInv'
  BY <1>1, TypesOfAddSection
<1>2. ASSUME NEW k \in SetKeys, AddSet(k) PROVE TypeInv'
  BY <1>2, TypesOfAddSet
<1>3. ASSUME NEW f \in OverlayFields, AddOverlay(f) PROVE TypeInv'
  <2>1. Filling /\ params' \in Messages
    BY <1>3 DEF AddOverlay, TypeInv, TypeOK
  <2> QED BY <2>1, TypesOfFilling
<1>4. CASE Resolve
  BY <1>4, TypesOfResolve
<1>5. CASE StartDeck
  <2>1. /\ Begin(1) /\ phase = "starting" /\ UNCHANGED <<arm, knobs, image>>
        /\ params \in Messages /\ 1 \in 1 .. MaxAttempts
    BY <1>5, Limits DEF StartDeck, TypeInv, TypeOK
  <2>2. UNCHANGED <<params, ov, geom>> /\ RenderTypes'
    BY <2>1, TypesOfBegin
  <2> QED BY <2>1, <2>2, TypesOfPrinting
<1>6. CASE PrintDeck
  <2>1. RenderStep /\ UNCHANGED <<arm, knobs, image>>
    BY <1>6 DEF PrintDeck
  <2>2. UNCHANGED <<params, ov, geom>> /\ phase \in {"rendering", "failed"} /\ RenderTypes'
    BY <2>1, TypesOfRendering
  <2> QED BY <2>1, <2>2, TypesOfPrinting
<1>7. CASE Install
  BY <1>7, TypesOfInstall
<1>8. ASSUME NEW g \in Geometries, StartGeometryDeck(g) PROVE TypeInv'
  <2>1. /\ phase = "filling" /\ phase' = "starting" /\ geom' = g
        /\ UNCHANGED <<params, ov, at, has, pending, deck, used, attempt, arm, knobs, image>>
    BY <1>8 DEF StartGeometryDeck, renderVars
  <2>2. Room' = Room
    BY <2>1 DEF Room
  <2>3. TypeOK'
    BY <2>1, <2>2 DEF TypeInv, TypeOK, Shown
  <2>4. (ov \in Overs)' /\ image = None
    BY <2>1 DEF TypeInv, Overs
  <2> QED BY <2>1, <2>3, <2>4 DEF TypeInv
<1>9. CASE UNCHANGED vars
  <2>1. UNCHANGED <<params, ov, geom, phase, at, has, pending, deck, used, attempt, arm, knobs, image>>
    BY <1>9 DEF vars, renderVars
  <2>2. Room' = Room
    BY <2>1 DEF Room
  <2>3. TypeOK'
    BY <2>1, <2>2 DEF TypeInv, TypeOK, Shown
  <2>4. (ov \in Overs)'
    BY <2>1 DEF TypeInv, Overs
  <2> QED BY <2>1, <2>3, <2>4 DEF TypeInv, NoOverrides
<1> QED BY <1>1, <1>2, <1>3, <1>4, <1>5, <1>6, <1>7, <1>8, <1>9 DEF Next

\* Types, and that a deck is finished before it is used and an image is
\* installed only with one (TypeOK).
THEOREM TypeCorrect == Spec => []TypeOK
<1>1. TypeInv => TypeOK
  BY DEF TypeInv
<1> QED BY <1>1, InitTypes, TypesAreInductive, PTL DEF Spec

-----------------------------------------------------------------------------
(* The knobs *)

\* What C decoded for the message that is printed and installed.
Settled ==
    \/ arm = "cpmd" /\ ov = Overrides /\ knobs = Overridden(EffectiveConfig(params), ov)
    \/ arm = "none" /\ params = Lowered /\ ov = NoOverrides /\ knobs = EffectiveConfig(Lowered)

KnobInv ==
    /\ TypeInv
    /\ Resolved /\ geom = None => Settled
    /\ phase = "installed" => image = ApplyParams(params, ov)

LEMMA NothingOverridden ==
    ASSUME NEW p \in Messages
    PROVE  Overridden(EffectiveConfig(p), NoOverrides) = EffectiveConfig(p)
<1> DEFINE k == EffectiveConfig(p)
<1>1. NoOverrides \in Overs
  BY DEF NoOverrides, Overs
<1>2. k \in Knobs
  BY <1>1, OverriddenTyped
<1> HIDE DEF k
<1>3. Overridden(k, NoOverrides) = k
  BY <1>2 DEF Overridden, Or, NoOverrides, Knobs
<1> QED BY <1>3 DEF k

\* What is installed is what C decoded, also when it came from an overlay.
LEMMA SettledImage ==
    ASSUME TypeInv, Settled
    PROVE  ApplyParams(params, ov) = knobs
<1>1. params \in Messages /\ Listed(params)
  BY MessagesAreListed DEF TypeInv, TypeOK
<1>2. ApplyParams(params, ov) = Overridden(EffectiveConfig(params), ov)
  BY <1>1, TwoDecoders
<1>3. CASE arm = "cpmd"
  BY <1>2, <1>3 DEF Settled
<1>4. CASE arm = "none" /\ params = Lowered /\ ov = NoOverrides /\ knobs = EffectiveConfig(Lowered)
  <2>1. Overridden(EffectiveConfig(params), NoOverrides) = EffectiveConfig(params)
    BY <1>1, NothingOverridden
  <2> QED BY <1>2, <1>4, <2>1
<1> QED BY <1>3, <1>4 DEF Settled

LEMMA SettledStays ==
    ASSUME Settled, UNCHANGED <<params, ov, arm, common, knobs>>
    PROVE  Settled'
<1>1. Overrides' = Overrides /\ Lowered' = Lowered /\ NoOverrides' = NoOverrides
  BY DEF Overrides, Lowered, LoweredSections, NoOverrides, Set
<1> QED BY <1>1 DEF Settled

LEMMA KnobsAreInductive == KnobInv /\ [Next]_vars => KnobInv'
<1> SUFFICES ASSUME KnobInv, [Next]_vars PROVE KnobInv'
  OBVIOUS
<1>1. TypeInv /\ TypeInv'
  BY TypesAreInductive DEF KnobInv
<1>2. ASSUME Filling
      PROVE  KnobInv'
  <2>1. phase' = "filling"
    BY <1>2 DEF Filling
  <2> QED BY <1>1, <2>1 DEF KnobInv, Resolved
<1>3. ASSUME NEW s \in Sections, AddSection(s) PROVE KnobInv'
  BY <1>2, <1>3 DEF AddSection
<1>4. ASSUME NEW k \in SetKeys, AddSet(k) PROVE KnobInv'
  BY <1>2, <1>4 DEF AddSet
<1>5. ASSUME NEW f \in OverlayFields, AddOverlay(f) PROVE KnobInv'
  BY <1>2, <1>5 DEF AddOverlay
<1>6. CASE Resolve
  <2>1. CASE phase' \in {"refused", "unchanged"}
    BY <1>1, <2>1 DEF KnobInv, Resolved
  <2>2. CASE phase' = "starting"
    <3>1. UNCHANGED <<arm, common>>
      BY <1>1, <1>6, Resolving
    <3>2. Overrides' = Overrides \/ params' # params
      BY <3>1 DEF Overrides, Set
    <3>3. Lowered' = Lowered /\ NoOverrides' = NoOverrides
      BY <3>1 DEF Lowered, LoweredSections, NoOverrides, Set
    <3>4. \/ /\ arm = "none" /\ params' = Lowered /\ ov' = NoOverrides
             /\ knobs' = EffectiveConfig(Lowered)
          \/ /\ arm = "cpmd" /\ params' = params /\ ov' = Overrides
             /\ knobs' = Overridden(EffectiveConfig(params), Overrides)
      BY <1>1, <1>6, <2>2, Resolving
    <3>5. Settled'
      BY <3>1, <3>2, <3>3, <3>4 DEF Settled
    <3> QED BY <1>1, <2>2, <3>5 DEF KnobInv
  <2> QED BY <1>1, <1>6, <2>1, <2>2, Resolving
<1>7. ASSUME UNCHANGED <<params, ov, geom, arm, common, knobs>>, Resolved, phase' # "installed"
      PROVE  KnobInv'
  <2>1. geom' = None => Settled'
    BY <1>7, SettledStays DEF KnobInv
  <2> QED BY <1>1, <1>7, <2>1 DEF KnobInv
<1>8. CASE StartDeck
  <2>1. UNCHANGED <<params, ov, geom, arm, common, knobs>> /\ phase = "starting" /\ phase' # "installed"
    BY <1>8 DEF StartDeck, Begin
  <2> QED BY <1>7, <2>1 DEF Resolved
<1>9. CASE PrintDeck
  <2>1. RenderStep /\ UNCHANGED <<arm, common, knobs>>
    BY <1>9 DEF PrintDeck
  <2>2. /\ UNCHANGED <<params, ov, geom>> /\ phase \in {"rendering", "failed"}
        /\ phase' \in {"rendering", "failed", "rendered", "refused"}
    BY <1>1, <2>1, TypesOfRendering DEF RenderTypes
  <2> QED BY <1>7, <2>1, <2>2 DEF Resolved
<1>10. CASE Install
  <2>1. /\ UNCHANGED <<params, ov, geom, arm, common, knobs>> /\ phase = "rendered" /\ geom = None
        /\ phase' = "refused" \/ (phase' = "installed" /\ image' = ApplyParams(params, ov))
    BY <1>10 DEF Install, Answer
  <2>2. Settled'
    BY <2>1, SettledStays DEF KnobInv, Resolved
  <2>3. ApplyParams(params, ov)' = ApplyParams(params, ov)
    BY <2>1
  <2> QED BY <1>1, <2>1, <2>2, <2>3 DEF KnobInv
<1>11. ASSUME NEW g \in Geometries, StartGeometryDeck(g) PROVE KnobInv'
  <2>1. phase' = "starting" /\ geom' # None
    BY <1>11, NoneIsApart DEF StartGeometryDeck
  <2> QED BY <1>1, <2>1 DEF KnobInv
<1>12. CASE UNCHANGED vars
  <2>1. UNCHANGED <<params, ov, geom, arm, common, knobs, phase, image>>
    BY <1>12 DEF vars
  <2>2. Resolved' /\ geom' = None => Settled'
    BY <2>1, SettledStays DEF KnobInv, Resolved
  <2>3. ApplyParams(params, ov)' = ApplyParams(params, ov)
    BY <2>1
  <2> QED BY <1>1, <2>1, <2>2, <2>3 DEF KnobInv
<1> QED BY <1>3, <1>4, <1>5, <1>6, <1>8, <1>9, <1>10, <1>11, <1>12 DEF Next

LEMMA InitKnobs == Init => KnobInv
BY InitTypes DEF Init, KnobInv, Resolved

\* What an overlay alone is lowered to names each of its scalars, the charge
\* next to a kMesh section apart.
LEMMA LoweredKnobs ==
    LET k == EffectiveConfig(Lowered)
    IN  /\ Set("xc") => k.functional = OverlayFunctional
        /\ Set("cutoff") => k.cutoff = OverlayCutoff
        /\ Set("charge") /\ ~Set("kMesh") => k.charge = OverlayCharge
        /\ Set("mult") => k.mult = OverlayMult
<1> DEFINE k == EffectiveConfig(Lowered)
           n == Len(Lowered.sections)
           S == {LoweredCpmd, LoweredVdw} \cup (IF Set("kMesh") THEN {LoweredSystem} ELSE {})
<1>1. Listed(Lowered)
  BY LoweredIsAMessage, MessagesAreListed
<1>2. \A i \in DOMAIN Lowered.sections : Lowered.sections[i] \in S
  <2>1. LoweredCpmd \in S /\ LoweredVdw \in S /\ (Set("kMesh") => LoweredSystem \in S)
    OBVIOUS
  <2> HIDE DEF S
  <2>2. LoweredSections \in Seq(S)
    BY <2>1, LoweredSectionsAre
  <2>3. DOMAIN LoweredSections = 1 .. Len(LoweredSections)
    BY <2>2, LenProperties
  <2>4. \A i \in DOMAIN LoweredSections : LoweredSections[i] \in S
    BY <2>2, <2>3, ElementOfSeq
  <2> QED BY <2>4 DEF Lowered
<1>3. \A field \in Scalars : k[field] = LastNamed(Lowered, Naming(Lowered, n)[field], field, CTop(Lowered)[field])
  BY <1>1, TwoDecoders
<1>4. /\ \A s \in S : s.name # "DFT"
      /\ \A s \in S : s.name = "SYSTEM" => s = LoweredSystem /\ Set("kMesh")
  BY DEF LoweredCpmd, LoweredVdw, LoweredSystem
<1>5. /\ Naming(Lowered, n).functional = {}
      /\ Naming(Lowered, n).cutoff = {}
      /\ Naming(Lowered, n).mult = {}
      /\ ~Set("kMesh") => Naming(Lowered, n).charge = {}
  <2> HIDE DEF S
  <2>1. TypedIn(Lowered, "DFT") = {} /\ (~Set("kMesh") => TypedIn(Lowered, "SYSTEM") = {})
    BY <1>2, <1>4 DEF TypedIn
  <2>2. \A i \in TypedIn(Lowered, "SYSTEM") : Lowered.sections[i].cutoff = 0 /\ Lowered.sections[i].mult = 0
    BY <1>2, <1>4 DEF TypedIn, LoweredSystem
  <2>3. Naming(Lowered, n).functional = {} /\ (~Set("kMesh") => Naming(Lowered, n).charge = {})
    BY <2>1 DEF Naming
  <2>4. Naming(Lowered, n).cutoff = {}
    BY <2>2, ~(0 > 0) DEF Naming
  <2>5. Naming(Lowered, n).mult = {}
    BY <2>2, ~(0 > 0) DEF Naming
  <2> QED BY <2>3, <2>4, <2>5
<1>6. /\ k.functional = CTop(Lowered).functional /\ k.cutoff = CTop(Lowered).cutoff
      /\ k.mult = CTop(Lowered).mult /\ (~Set("kMesh") => k.charge = CTop(Lowered).charge)
  <2> HIDE DEF k, n, S
  <2> QED BY <1>3, <1>5 DEF Scalars, LastNamed
<1>7. /\ Set("xc") => CTop(Lowered).functional = OverlayFunctional
      /\ Set("cutoff") => CTop(Lowered).cutoff = OverlayCutoff
      /\ Set("charge") => CTop(Lowered).charge = OverlayCharge
      /\ Set("mult") => CTop(Lowered).mult = OverlayMult
  <2>1. /\ Set("xc") => Lowered.functional = OverlayFunctional
        /\ Set("cutoff") => Lowered.cutoff = OverlayCutoff
        /\ Set("charge") => Lowered.charge = OverlayCharge
        /\ Set("mult") => Lowered.mult = OverlayMult
    BY DEF Lowered
  <2>2. OverlayFunctional # "" /\ OverlayCutoff > 0 /\ OverlayMult > 0
    BY DEF OverlayFunctional, OverlayCutoff, OverlayMult
  <2> QED BY <2>1, <2>2 DEF CTop
<1> QED BY <1>6, <1>7

\* The functional C checked is the one Fortran installs, and so are cutoff,
\* charge and multiplicity: the two decoders walk the message differently and
\* agree on every message, with and without an overlay (DecodersAgree).
THEOREM DecodersFindTheSame == Spec => []DecodersAgree
<1>1. KnobInv => DecodersAgree
  <2> SUFFICES ASSUME KnobInv, phase = "installed" PROVE image = knobs
    BY DEF DecodersAgree
  <2>1. image # None
    BY DEF KnobInv, TypeInv, TypeOK
  <2>2. Settled /\ TypeInv /\ image = ApplyParams(params, ov)
    BY <2>1 DEF KnobInv, TypeInv, Resolved
  <2> QED BY <2>2, SettledImage
<1> QED BY <1>1, InitKnobs, KnobsAreInductive, PTL DEF Spec

\* Next to an arm an overlay fills in exactly the scalars that the arm leaves at
\* the schema's default or sets to it; alone it gives every scalar it sets, but
\* for a charge next to a k-mesh (OverlayFillsDefaults).
THEOREM OverlayFillsIn == Spec => []OverlayFillsDefaults
<1>1. KnobInv => OverlayFillsDefaults
  <2> SUFFICES ASSUME KnobInv, phase = "installed" PROVE OverlayFillsDefaults
    BY DEF OverlayFillsDefaults
  <2>1. image # None
    BY DEF KnobInv, TypeInv, TypeOK
  <2>2. Settled /\ TypeInv /\ image = knobs
    BY <2>1, SettledImage DEF KnobInv, TypeInv, Resolved
  <2>3. CASE arm = "cpmd"
    <3> DEFINE base == EffectiveConfig(params)
    <3> HIDE DEF base
    <3>1. image = Overridden(base, Overrides)
      BY <2>2, <2>3 DEF Settled, base
    <3>2. Overrides =
            [functional |-> IF Set("xc") /\ base.functional = "BLYP" THEN OverlayFunctional ELSE None,
             cutoff |-> IF Set("cutoff") /\ base.cutoff = 70 THEN OverlayCutoff ELSE None,
             charge |-> IF Set("charge") /\ base.charge = 0 THEN OverlayCharge ELSE None,
             mult |-> IF Set("mult") /\ base.mult = 1 THEN OverlayMult ELSE None]
      BY DEF Overrides, base
    <3>3. /\ image.functional = IF Set("xc") /\ base.functional = "BLYP"
                                THEN OverlayFunctional ELSE base.functional
          /\ image.cutoff = IF Set("cutoff") /\ base.cutoff = 70
                            THEN OverlayCutoff ELSE base.cutoff
          /\ image.charge = IF Set("charge") /\ base.charge = 0
                            THEN OverlayCharge ELSE base.charge
          /\ image.mult = IF Set("mult") /\ base.mult = 1
                          THEN OverlayMult ELSE base.mult
      BY <3>1, <3>2, OverlaysAreValues DEF Overridden, Or
    <3> QED BY <2>3, <3>3 DEF OverlayFillsDefaults, base
  <2>4. CASE arm # "cpmd"
    <3>1. image = EffectiveConfig(Lowered)
      BY <2>2, <2>4 DEF Settled
    <3> QED BY <2>4, <3>1, LoweredKnobs DEF OverlayFillsDefaults
  <2> QED BY <2>3, <2>4
<1> QED BY <1>1, InitKnobs, KnobsAreInductive, PTL DEF Spec

-----------------------------------------------------------------------------
(* The deck *)

\* Where the blocks of the sections start.
Off == IF params.blocks = {} THEN 0 ELSE 1

\* What &SYSTEM says because of the cell and of other sections.
SystemFits(body) ==
    /\ HasCell => body.cell = geom.cell
    /\ HasCell /\ body.symmetry = "none" => body.vectors
    /\ HasCell /\ body.symmetry = "isolated" =>
         geom.cell = "degenerate" \/ \E k \in DOMAIN params.sets : params.sets[k].section = "SYSTEM"
    /\ body.solver = "HOCKNEY" => ~DeckNeedsClusterHfx

SystemSays(body, s) ==
    /\ body.cutoff = IF s.cutoff > 0 THEN s.cutoff ELSE Cutoff
    /\ body.charge = IF s.charge # 0 THEN s.charge ELSE Charge
    /\ body.mult = IF s.mult > 1 THEN s.mult ELSE DeckMultiplicity
    /\ SystemFits(body)

TypedSays(body, s) ==
    /\ s.name = "SYSTEM" => SystemSays(body, s)
    /\ s.name = "DFT" => body = DftBody(s.functional)
    /\ s.name = "CPMD" => body = CpmdBody(s.lsd)
    /\ s.name = "ATOMS" => body = AtomsBody(s.psps) /\ ~AtomsRefused(s.psps)

DefaultSays(body, name) ==
    /\ name = "SYSTEM" => /\ body.cutoff = Cutoff /\ body.charge = Charge
                          /\ body.mult = DeckMultiplicity /\ SystemFits(body)
    /\ name = "DFT" => body = DftBody("")
    /\ name = "CPMD" => body = CpmdBody(FALSE)
    /\ name = "ATOMS" => body = AtomsBody(<< >>) /\ ~AtomsRefused(<< >>)

\* A section, or anything the caller gave, opens a section CPMD needs.
Opens(s, name) == (s.kind = "raw" /\ name \in s.opens) \/ (s.kind = "typed" /\ s.name = name)
Given(name) ==
    name \in params.blocks \/ \E i \in DOMAIN params.sections : Opens(params.sections[i], name)
GivenRaw(name) ==
    \/ name \in params.blocks
    \/ \E i \in DOMAIN params.sections : params.sections[i].kind = "raw" /\ name \in params.sections[i].opens

OfSection(b, s) ==
    /\ s.kind \in {"typed", "generic", "raw"} /\ b.from = s.kind
    /\ s.kind = "raw" => b.name = "" /\ b.opens = s.opens
    /\ s.kind # "raw" => b.name = s.name /\ b.opens = {s.name}
    /\ s.kind = "typed" => TypedSays(b.body, s)

OfBlocks(b) == b.from = "raw" /\ b.name = "" /\ b.opens = params.blocks

OfDefault(b) ==
    /\ b.from = "default" /\ b.name \in ToSet(Mandatory) /\ b.opens = {b.name}
    /\ ~Given(b.name) /\ DefaultSays(b.body, b.name)

OfSets(b) ==
    /\ b.from = "sets" /\ b.opens = {b.name}
    /\ b.name \in ToSet(Mandatory) => GivenRaw(b.name)
    /\ \E k \in DOMAIN params.sets : params.sets[k].section = b.name

\* The blocks of d: raw input, the sections before a, then what was added.
Layout(d, a) ==
    /\ Off + a - 1 <= Len(d)
    /\ Off = 1 => OfBlocks(d[1])
    /\ \A i \in 1 .. a - 1 : OfSection(d[Off + i], params.sections[i])
    /\ \A i \in DOMAIN d : i > Off + a - 1 =>
         a = Len(params.sections) + 1 /\ (OfDefault(d[i]) \/ OfSets(d[i]))

\* h: what the renderer takes for opened is, and what CPMD will find is in h.
Noted(d, a, h) ==
    /\ params.blocks \subseteq h /\ (a = 0 => h = params.blocks)
    /\ \A i \in 1 .. a - 1, name \in ToSet(Mandatory) :
         Opens(params.sections[i], name) => name \in h
    /\ \A i \in DOMAIN d : d[i].from = "default" => d[i].name \in h
    /\ a # 0 => \A name \in h : \E i \in DOMAIN d : name \in d[i].opens
    /\ \A i, j \in DOMAIN d :
         d[i].from = "default" /\ d[j].from = "default" /\ d[i].name = d[j].name => i = j

\* A set directive is pending or in one block, and never waits behind a block
\* of its section.
Placed(d, rest) ==
    /\ \A k \in DOMAIN params.sets : k \in rest \/ \E i \in DOMAIN d : k \in d[i].sets
    /\ \A k \in rest, i \in DOMAIN d : k \notin d[i].sets
    /\ \A k : \A i, j \in DOMAIN d : k \in d[i].sets /\ k \in d[j].sets => i = j
    /\ \A k : \A i \in DOMAIN d : k \in d[i].sets =>
         k \in DOMAIN params.sets /\ params.sets[k].section = d[i].name
    /\ \A i \in DOMAIN d, k \in rest : d[i].from # "raw" => params.sets[k].section # d[i].name

IsDeck(d) == \E S : d \in Seq(S)

DeckOK(d, a, h, rest) ==
    /\ IsDeck(d)
    /\ a = 0 => d = << >>
    /\ a # 0 => Layout(d, a)
    /\ Noted(d, a, h)
    /\ Placed(d, rest)

DeckInv ==
    /\ phase \in {"rendering", "rendered", "installed"} => DeckOK(deck, at, has, pending)
    /\ Shown => at = Len(params.sections) + 1

-----------------------------------------------------------------------------
(* One block more *)

\* e is d, of length n, with one block more.
Longer(d, n, b, e) ==
    /\ n \in Nat /\ Len(d) = n /\ DOMAIN d = 1 .. n
    /\ Len(e) = n + 1 /\ DOMAIN e = 1 .. n + 1
    /\ \A i \in 1 .. n : e[i] = d[i]
    /\ e[n + 1] = b

LEMMA AppendIsLonger ==
    ASSUME NEW d, IsDeck(d), NEW b
    PROVE  IsDeck(Append(d, b)) /\ Longer(d, Len(d), b, Append(d, b))
<1>1. PICK S : d \in Seq(S)
  BY DEF IsDeck
<1>2. d \in Seq(S \cup {b}) /\ b \in S \cup {b}
  BY <1>1
<1> DEFINE T == S \cup {b}
           e == Append(d, b)
<1> HIDE DEF T
<1>3. d \in Seq(T) /\ b \in T
  BY <1>2 DEF T
<1>4. /\ e \in Seq(T) /\ Len(e) = Len(d) + 1
      /\ \A i \in 1 .. Len(d) : e[i] = d[i]
      /\ e[Len(d) + 1] = b
  BY <1>3, AppendProperties
<1>5. Len(d) \in Nat /\ DOMAIN d = 1 .. Len(d)
  BY <1>3, LenProperties
<1>6. DOMAIN e = 1 .. Len(e)
  BY <1>4, LenProperties
<1> HIDE DEF e
<1>7. IsDeck(e) /\ Longer(d, Len(d), b, e)
  BY <1>4, <1>5, <1>6 DEF IsDeck, Longer
<1> QED BY <1>7 DEF e

\* A block takes every pending directive of its section, raw text takes none.
LEMMA PlacedAfter ==
    ASSUME NEW d, NEW n, NEW b, NEW e, Longer(d, n, b, e), NEW rest, rest \subseteq DOMAIN params.sets,
           Placed(d, rest),
           \/ b.from = "raw" /\ b.sets = {}
           \/ b.sets = {k \in rest : params.sets[k].section = b.name}
    PROVE  Placed(e, rest \ b.sets)
<1>1. \A i \in DOMAIN e : \/ i \in DOMAIN d /\ e[i] = d[i]
                          \/ i = n + 1 /\ i \notin DOMAIN d /\ e[i] = b
  BY DEF Longer
<1>2. \A i \in DOMAIN d : i \in DOMAIN e /\ e[i] = d[i]
  BY DEF Longer
<1>3. n + 1 \in DOMAIN e /\ e[n + 1] = b
  BY DEF Longer
<1>4. \A k \in b.sets : k \in rest /\ params.sets[k].section = b.name
  OBVIOUS
<1>5. b.from # "raw" => \A k \in rest \ b.sets : params.sets[k].section # b.name
  OBVIOUS
<1>6. \A k \in DOMAIN params.sets : k \in rest \ b.sets \/ \E i \in DOMAIN e : k \in e[i].sets
  BY <1>2, <1>3 DEF Placed
<1>7. \A k \in rest \ b.sets, i \in DOMAIN e : k \notin e[i].sets
  BY <1>1 DEF Placed
<1>8. \A k : \A i, j \in DOMAIN e : k \in e[i].sets /\ k \in e[j].sets => i = j
  BY <1>1, <1>4 DEF Placed
<1>9. \A k : \A i \in DOMAIN e : k \in e[i].sets =>
        k \in DOMAIN params.sets /\ params.sets[k].section = e[i].name
  BY <1>1, <1>4 DEF Placed
<1>10. \A i \in DOMAIN e, k \in rest \ b.sets : e[i].from # "raw" => params.sets[k].section # e[i].name
  BY <1>1, <1>5 DEF Placed
<1> QED BY <1>6, <1>7, <1>8, <1>9, <1>10 DEF Placed

\* The first block.
LEMMA LayoutOfBlocks ==
    ASSUME NEW d, NEW n, NEW b, NEW e, Longer(d, n, b, e), n = 0, params.blocks # {}, OfBlocks(b)
    PROVE  Layout(e, 1)
<1>1. Off = 1 /\ Len(e) = 1 /\ DOMAIN e = 1 .. 1 /\ e[1] = b
  BY DEF Longer, Off
<1>2. \A i \in 1 .. 1 : ~(i > Off + 1 - 1)
  BY <1>1
<1> QED BY <1>1, <1>2 DEF Layout

LEMMA LayoutOfNothing ==
    ASSUME params.blocks = {}
    PROVE  Layout(<< >>, 1)
<1>1. Off = 0 /\ Len(<< >>) = 0 /\ DOMAIN << >> = {}
  BY DEF Off
<1> QED BY <1>1 DEF Layout

\* The block of a section stands at the section's place.
LEMMA LayoutOfSection ==
    ASSUME NEW d, NEW n, NEW b, NEW e, Longer(d, n, b, e), NEW a \in DOMAIN params.sections,
           Listed(params), Layout(d, a), OfSection(b, params.sections[a])
    PROVE  Layout(e, a + 1)
<1>1. /\ Off \in {0, 1} /\ a \in Nat \ {0} /\ a # Len(params.sections) + 1 /\ n \in Nat
      /\ DOMAIN d = 1 .. n /\ Len(d) = n
  BY DEF Off, Longer, Listed
<1>2. n = Off + a - 1
  <2>1. Off + a - 1 <= n
    BY <1>1 DEF Layout
  <2>2. CASE n > Off + a - 1
    <3>1. n \in DOMAIN d
      BY <1>1, <2>2
    <3> QED BY <1>1, <2>2, <3>1 DEF Layout
  <2> QED BY <1>1, <2>1, <2>2
<1>3. /\ Len(e) = n + 1 /\ DOMAIN e = 1 .. n + 1 /\ e[n + 1] = b
      /\ \A i \in 1 .. n : e[i] = d[i]
  BY DEF Longer
<1>4. Off + (a + 1) - 1 <= Len(e)
  BY <1>1, <1>2, <1>3
<1>5. Off = 1 => OfBlocks(e[1])
  <2>1. Off = 1 => 1 \in 1 .. n
    BY <1>1, <1>2
  <2> QED BY <1>3, <2>1 DEF Layout
<1>6. \A i \in 1 .. (a + 1) - 1 : OfSection(e[Off + i], params.sections[i])
  <2> SUFFICES ASSUME NEW i \in 1 .. (a + 1) - 1 PROVE OfSection(e[Off + i], params.sections[i])
    OBVIOUS
  <2>1. CASE i = a
    <3>1. Off + i = n + 1
      BY <1>1, <1>2, <2>1
    <3> QED BY <1>3, <2>1, <3>1
  <2>2. CASE i # a
    <3>1. i \in 1 .. a - 1 /\ Off + i \in 1 .. n
      BY <1>1, <1>2, <2>2
    <3> QED BY <1>3, <3>1 DEF Layout
  <2> QED BY <2>1, <2>2
<1>7. \A i \in DOMAIN e : ~(i > Off + (a + 1) - 1)
  BY <1>1, <1>2, <1>3
<1> QED BY <1>4, <1>5, <1>6, <1>7 DEF Layout

\* After the sections, what is added.
LEMMA LayoutOfAdded ==
    ASSUME NEW d, NEW n, NEW b, NEW e, Longer(d, n, b, e), NEW a, a = Len(params.sections) + 1,
           Listed(params), Layout(d, a), OfDefault(b) \/ OfSets(b)
    PROVE  Layout(e, a)
<1>1. /\ Off \in {0, 1} /\ a \in Nat \ {0} /\ n \in Nat /\ DOMAIN d = 1 .. n /\ Len(d) = n
  BY DEF Off, Longer, Listed
<1>2. Off + a - 1 <= n
  BY <1>1 DEF Layout
<1>3. /\ Len(e) = n + 1 /\ DOMAIN e = 1 .. n + 1 /\ e[n + 1] = b
      /\ \A i \in 1 .. n : e[i] = d[i]
  BY DEF Longer
<1>4. Off + a - 1 <= Len(e)
  BY <1>1, <1>2, <1>3
<1>5. Off = 1 => OfBlocks(e[1])
  <2>1. Off = 1 => 1 \in 1 .. n
    BY <1>1, <1>2
  <2> QED BY <1>3, <2>1 DEF Layout
<1>6. \A i \in 1 .. a - 1 : OfSection(e[Off + i], params.sections[i])
  <2>1. \A i \in 1 .. a - 1 : Off + i \in 1 .. n
    BY <1>1, <1>2
  <2> QED BY <1>3, <2>1 DEF Layout
<1>7. \A i \in DOMAIN e : i > Off + a - 1 =>
        a = Len(params.sections) + 1 /\ (OfDefault(e[i]) \/ OfSets(e[i]))
  <2> SUFFICES ASSUME NEW i \in DOMAIN e, i > Off + a - 1
               PROVE  a = Len(params.sections) + 1 /\ (OfDefault(e[i]) \/ OfSets(e[i]))
    OBVIOUS
  <2>1. CASE i = n + 1
    BY <1>3, <2>1
  <2>2. CASE i # n + 1
    <3>1. i \in DOMAIN d /\ e[i] = d[i]
      BY <1>1, <1>3, <2>2
    <3> QED BY <3>1 DEF Layout
  <2> QED BY <2>1, <2>2
<1> QED BY <1>4, <1>5, <1>6, <1>7 DEF Layout

LEMMA NotedAtBlocks ==
    ASSUME NEW d, NEW n, NEW b, NEW e, Longer(d, n, b, e), n = 0, NEW h, Noted(d, 0, h), OfBlocks(b)
    PROVE  Noted(e, 1, h)
<1>1. DOMAIN e = 1 .. 1 /\ e[1] = b /\ b.from # "default" /\ b.opens = params.blocks /\ h \subseteq params.blocks
  <2>1. DOMAIN e = 1 .. 1 /\ e[1] = b
    BY DEF Longer
  <2>2. b.from # "default" /\ b.opens = params.blocks
    BY DEF OfBlocks
  <2>3. h \subseteq params.blocks
    BY DEF Noted
  <2> QED BY <2>1, <2>2, <2>3
<1>2. \A name \in h : 1 \in DOMAIN e /\ name \in e[1].opens
  BY <1>1
<1>3. \A i \in DOMAIN e : e[i].from # "default"
  BY <1>1
<1>4. 1 .. 1 - 1 = {} /\ params.blocks \subseteq h
  BY DEF Noted
<1> QED BY <1>2, <1>3, <1>4 DEF Noted

LEMMA NotedAtNothing ==
    ASSUME NEW h, Noted(<< >>, 0, h), params.blocks = {}
    PROVE  Noted(<< >>, 1, h)
<1>1. DOMAIN << >> = {} /\ 1 .. 1 - 1 = {} /\ h = {} /\ params.blocks \subseteq h
  BY DEF Noted
<1> QED BY <1>1 DEF Noted

LEMMA NotedAtSection ==
    ASSUME NEW d, NEW n, NEW b, NEW e, Longer(d, n, b, e), NEW a \in Nat \ {0}, NEW h, Noted(d, a, h),
           OfSection(b, params.sections[a]), NEW more,
           \A name : name \in more <=> /\ Opens(params.sections[a], name)
                                       /\ params.sections[a].kind = "typed" => name \in ToSet(Mandatory)
    PROVE  Noted(e, a + 1, h \cup more)
<1> DEFINE s == params.sections[a]
<1>1. /\ \A i \in DOMAIN e : (i \in DOMAIN d /\ e[i] = d[i]) \/ (i = n + 1 /\ e[i] = b)
      /\ \A i \in DOMAIN d : i \in DOMAIN e /\ e[i] = d[i]
      /\ n + 1 \in DOMAIN e /\ e[n + 1] = b
  BY DEF Longer
<1>2. b.from # "default" /\ \A name \in more : name \in b.opens
  BY DEF OfSection, Opens
<1>3. params.blocks \subseteq h \cup more
  BY DEF Noted
<1>4. ASSUME NEW i \in 1 .. (a + 1) - 1, NEW name \in ToSet(Mandatory), Opens(params.sections[i], name)
      PROVE  name \in h \cup more
  <2>1. CASE i = a
    BY <1>4, <2>1
  <2>2. CASE i # a
    <3>1. i \in 1 .. a - 1
      BY <2>2
    <3> QED BY <1>4, <3>1 DEF Noted
  <2> QED BY <2>1, <2>2
<1>5. \A i \in DOMAIN e : e[i].from = "default" => i \in DOMAIN d /\ e[i] = d[i]
  BY <1>1, <1>2
<1>6. \A name \in h \cup more : \E i \in DOMAIN e : name \in e[i].opens
  <2>1. \A name \in h : \E i \in DOMAIN e : name \in e[i].opens
    BY <1>1 DEF Noted
  <2>2. \A name \in more : name \in e[n + 1].opens
    BY <1>1, <1>2
  <2> QED BY <1>1, <2>1, <2>2
<1>7. a + 1 # 0
  OBVIOUS
<1>8. \A i \in DOMAIN e : e[i].from = "default" => e[i].name \in h \cup more
  BY <1>5 DEF Noted
<1>9. \A i, j \in DOMAIN e :
        e[i].from = "default" /\ e[j].from = "default" /\ e[i].name = e[j].name => i = j
  BY <1>5 DEF Noted
<1> HIDE DEF s
<1> QED BY <1>3, <1>4, <1>6, <1>7, <1>8, <1>9 DEF Noted

LEMMA NotedAtDefault ==
    ASSUME NEW d, NEW n, NEW b, NEW e, Longer(d, n, b, e), NEW a \in Nat \ {0}, NEW h, Noted(d, a, h),
           OfDefault(b), b.name \notin h
    PROVE  Noted(e, a, h \cup {b.name})
<1>1. /\ \A i \in DOMAIN e : (i \in DOMAIN d /\ e[i] = d[i]) \/ (i = n + 1 /\ e[i] = b)
      /\ \A i \in DOMAIN d : i \in DOMAIN e /\ e[i] = d[i]
      /\ n + 1 \in DOMAIN e /\ e[n + 1] = b
  BY DEF Longer
<1>2. b.name \in b.opens
  BY DEF OfDefault
<1>3. \A name \in h \cup {b.name} : \E i \in DOMAIN e : name \in e[i].opens
  <2>1. \A name \in h : \E i \in DOMAIN e : name \in e[i].opens
    BY <1>1 DEF Noted
  <2>2. b.name \in e[n + 1].opens
    BY <1>1, <1>2
  <2> QED BY <1>1, <2>1, <2>2
<1>4. \A i \in DOMAIN e : e[i].from = "default" => e[i].name \in h \cup {b.name}
  BY <1>1 DEF Noted
<1>5. \A i, j \in DOMAIN e :
        e[i].from = "default" /\ e[j].from = "default" /\ e[i].name = e[j].name => i = j
  BY <1>1 DEF Noted
<1>6. /\ params.blocks \subseteq h \cup {b.name}
      /\ \A i \in 1 .. a - 1, name \in ToSet(Mandatory) :
           Opens(params.sections[i], name) => name \in h \cup {b.name}
  BY DEF Noted
<1> QED BY <1>3, <1>4, <1>5, <1>6 DEF Noted

LEMMA NotedAtSets ==
    ASSUME NEW d, NEW n, NEW b, NEW e, Longer(d, n, b, e), NEW a \in Nat \ {0}, NEW h, Noted(d, a, h),
           OfSets(b)
    PROVE  Noted(e, a, h)
<1>1. /\ \A i \in DOMAIN e : (i \in DOMAIN d /\ e[i] = d[i]) \/ (i = n + 1 /\ e[i] = b)
      /\ \A i \in DOMAIN d : i \in DOMAIN e /\ e[i] = d[i]
      /\ b.from # "default"
  BY DEF Longer, OfSets
<1>2. \A i \in DOMAIN e : e[i].from = "default" => i \in DOMAIN d /\ e[i] = d[i]
  BY <1>1
<1>3. \A name \in h : \E i \in DOMAIN e : name \in e[i].opens
  BY <1>1 DEF Noted
<1>4. \A i \in DOMAIN e : e[i].from = "default" => e[i].name \in h
  BY <1>2 DEF Noted
<1>5. \A i, j \in DOMAIN e :
        e[i].from = "default" /\ e[j].from = "default" /\ e[i].name = e[j].name => i = j
  BY <1>2 DEF Noted
<1>6. /\ params.blocks \subseteq h
      /\ \A i \in 1 .. a - 1, name \in ToSet(Mandatory) : Opens(params.sections[i], name) => name \in h
  BY DEF Noted
<1> QED BY <1>3, <1>4, <1>5, <1>6 DEF Noted

-----------------------------------------------------------------------------
(* What a block says *)

LEMMA SetNamesOfSystem ==
    ASSUME TypeInv, CallerAskedIsolated
    PROVE  \E k \in DOMAIN params.sets : params.sets[k].section = "SYSTEM"
<1>1. PICK k \in SetsOf("SYSTEM") : TRUE
  BY DEF CallerAskedIsolated, SetNames
<1>2. SetsOf("SYSTEM") \subseteq pending /\ pending \subseteq DOMAIN params.sets
  BY SetsAreFinite DEF TypeInv, TypeOK
<1> QED BY <1>1, <1>2 DEF SetsOf

\* Hockney is chosen only where no cluster exchange needs another solver.
LEMMA SolverOfBody ==
    ASSUME NEW s, NEW emit, NEW force
    PROVE  SystemBody(s, emit, force).solver = "HOCKNEY" => ~DeckNeedsClusterHfx
BY DEF SystemBody

LEMMA TypedSystemSays ==
    ASSUME NEW s, SectionTyped(s), s.kind = "typed", s.name = "SYSTEM"
    PROVE  SystemSays(SystemBody(s, TRUE, HasCell), s)
<1> DEFINE force == HasCell
           body == SystemBody(s, TRUE, force)
<1>1. HasCell => body.cell = geom.cell /\ body.vectors /\ body.symmetry = "none"
  BY DEF SystemBody
<1> HIDE DEF force
<1>2. body.solver = "HOCKNEY" => ~DeckNeedsClusterHfx
  BY SolverOfBody
<1>3. /\ body.cutoff = IF s.cutoff > 0 THEN s.cutoff ELSE Cutoff
      /\ body.charge = IF s.charge # 0 THEN s.charge ELSE Charge
      /\ body.mult = IF s.mult > 1 THEN s.mult ELSE DeckMultiplicity
  BY DEF SystemBody
<1> HIDE DEF body
<1>4. SystemFits(body)
  BY <1>1, <1>2 DEF SystemFits
<1>5. SystemSays(body, s)
  BY <1>3, <1>4 DEF SystemSays
<1> QED BY <1>5 DEF body, force

LEMMA DefaultSystemSays ==
    ASSUME TypeInv
    PROVE  DefaultSays(DefaultSystemBody, "SYSTEM")
<1> DEFINE body == DefaultSystemBody
           Says(t) == t.cutoff = Cutoff /\ t.charge = Charge /\ t.mult = DeckMultiplicity
<1>1. ASSUME NEW symmetry, NEW emit \in BOOLEAN, NEW force \in BOOLEAN
      PROVE  LET t == SystemBody(PlainSystem(symmetry), emit, force)
             IN  /\ Says(t)
                 /\ t.solver = "HOCKNEY" => ~DeckNeedsClusterHfx
                 /\ HasCell => /\ t.cell = geom.cell /\ (t.vectors <=> force)
                               /\ t.symmetry = IF emit /\ ~force THEN symmetry ELSE "none"
  <2> DEFINE s == PlainSystem(symmetry)
             t == SystemBody(s, emit, force)
  <2>1. s.solver \in BOOLEAN /\ s.cutoff = Cutoff /\ s.charge = Charge /\ s.mult = DeckMultiplicity
        /\ s.symmetry = symmetry
    BY DEF PlainSystem
  <2> HIDE DEF s
  <2>2. t.solver = "HOCKNEY" => ~DeckNeedsClusterHfx
    BY <2>1, SolverOfBody
  <2>3. Says(t)
    BY <2>1 DEF SystemBody
  <2>4. HasCell => /\ t.cell = geom.cell /\ (t.vectors <=> force)
                   /\ t.symmetry = IF emit /\ ~force THEN symmetry ELSE "none"
    BY <2>1 DEF SystemBody
  <2> QED BY <2>2, <2>3, <2>4 DEF s
<1>2. CASE geom = None
  <2> DEFINE emit == CallerAskedIsolated \/ DeckNeedsClusterHfx
  <2>1. body = SystemBody(PlainSystem("isolated"), emit, FALSE) /\ ~HasCell
    BY <1>2 DEF DefaultSystemBody, HasCell
  <2>2. emit \in BOOLEAN
    BY DEF CallerAskedIsolated, SetNames, DeckNeedsClusterHfx
  <2> HIDE DEF emit, body
  <2>3. Says(body) /\ (body.solver = "HOCKNEY" => ~DeckNeedsClusterHfx)
    BY <1>1, <2>1, <2>2
  <2> QED BY <2>1, <2>3 DEF DefaultSays, SystemFits, body
<1>3. CASE geom # None /\ (CallerAskedIsolated \/ PeriodicSymmetry = "isolated")
  <2>1. body = SystemBody(PlainSystem("isolated"), TRUE, FALSE)
    BY <1>3 DEF DefaultSystemBody
  <2>2. HasCell => geom.cell = "degenerate" \/ CallerAskedIsolated
    BY <1>3 DEF HasCell, PeriodicSymmetry
  <2>3. HasCell => geom.cell = "degenerate"
                   \/ \E k \in DOMAIN params.sets : params.sets[k].section = "SYSTEM"
    BY <2>2, SetNamesOfSystem
  <2> HIDE DEF body
  <2>4. /\ Says(body) /\ (body.solver = "HOCKNEY" => ~DeckNeedsClusterHfx)
        /\ HasCell => body.cell = geom.cell /\ body.symmetry = "isolated"
    BY <1>1, <2>1
  <2> QED BY <2>3, <2>4 DEF DefaultSays, SystemFits, body
<1>4. CASE geom # None /\ ~CallerAskedIsolated /\ PeriodicSymmetry = "tilted"
  <2>1. body = SystemBody(PlainSystem("isolated"), FALSE, TRUE)
    BY <1>4 DEF DefaultSystemBody
  <2> HIDE DEF body
  <2>2. /\ Says(body) /\ (body.solver = "HOCKNEY" => ~DeckNeedsClusterHfx)
        /\ HasCell => body.cell = geom.cell /\ body.vectors /\ body.symmetry = "none"
    BY <1>1, <2>1
  <2> QED BY <2>2 DEF DefaultSays, SystemFits, body
<1>5. CASE /\ geom # None /\ ~CallerAskedIsolated
           /\ PeriodicSymmetry # "isolated" /\ PeriodicSymmetry # "tilted"
  <2> DEFINE symmetry == PeriodicSymmetry
  <2>1. body = SystemBody(PlainSystem(symmetry), TRUE, FALSE)
    BY <1>5 DEF DefaultSystemBody
  <2>2. symmetry # "none" /\ symmetry # "isolated"
    BY <1>5 DEF PeriodicSymmetry
  <2> HIDE DEF body, symmetry
  <2>3. /\ Says(body) /\ (body.solver = "HOCKNEY" => ~DeckNeedsClusterHfx)
        /\ HasCell => body.cell = geom.cell /\ body.symmetry = symmetry
    BY <1>1, <2>1
  <2> QED BY <2>2, <2>3 DEF DefaultSays, SystemFits, body
<1> QED BY <1>2, <1>3, <1>4, <1>5

LEMMA SectionBlockSays ==
    ASSUME NEW s, SectionTyped(s), ~SectionRefused(s)
    PROVE  OfSection(SectionBlock(s), s)
<1>1. s.kind \in {"typed", "generic", "raw"}
  BY DEF SectionTyped, SectionRefused
<1>2. CASE s.kind = "raw"
  BY <1>2 DEF SectionBlock, Block, OfSection
<1>3. CASE s.kind = "generic"
  BY <1>3 DEF SectionBlock, Block, OfSection
<1>4. CASE s.kind = "typed"
  <2> DEFINE body == SectionBody(s)
  <2>1. SectionBlock(s) = Block("typed", s.name, {s.name}, SetsOf(s.name), body)
    BY <1>4 DEF SectionBlock
  <2>2. TypedSays(body, s)
    <3>1. CASE s.name = "SYSTEM"
      <4>1. body = SystemBody(s, TRUE, HasCell)
        BY <3>1 DEF SectionBody
      <4> HIDE DEF body
      <4>2. SystemSays(body, s)
        BY <1>4, <3>1, <4>1, TypedSystemSays
      <4> QED BY <3>1, <4>2 DEF TypedSays
    <3>2. CASE s.name # "SYSTEM"
      BY <1>4, <3>2 DEF SectionBody, TypedSays, SectionRefused
    <3> QED BY <3>1, <3>2
  <2> HIDE DEF body
  <2> QED BY <1>4, <2>1, <2>2 DEF Block, OfSection
<1> QED BY <1>1, <1>2, <1>3, <1>4

LEMMA DefaultBlockSays ==
    ASSUME TypeInv, NEW name \in ToSet(Mandatory), ~Given(name),
           ~(name = "ATOMS" /\ AtomsRefused(<< >>))
    PROVE  OfDefault(DefaultBlock(name))
<1> DEFINE b == DefaultBlock(name)
<1>1. /\ b.from = "default" /\ b.name = name /\ b.opens = {name} /\ b.body = DefaultBody(name)
  BY DEF DefaultBlock, Block
<1>2. DefaultSays(DefaultBody(name), name)
  <2>1. CASE name = "SYSTEM"
    BY <2>1, DefaultSystemSays DEF DefaultBody
  <2>2. CASE name # "SYSTEM"
    BY <2>2, MandatoryAre DEF DefaultBody, DefaultSays
  <2> QED BY <2>1, <2>2
<1> HIDE DEF b
<1>3. OfDefault(b)
  BY <1>1, <1>2 DEF OfDefault
<1> QED BY <1>3 DEF b

-----------------------------------------------------------------------------
(* The deck of the next state *)

\* What a section says follows from the message, the overlay and the geometry.
LEMMA StaticStays ==
    ASSUME UNCHANGED <<params, ov, geom>>
    PROVE  /\ Cutoff' = Cutoff /\ Charge' = Charge /\ Functional' = Functional
           /\ DeckMultiplicity' = DeckMultiplicity
           /\ SpinPolarized' = SpinPolarized
           /\ DeckNeedsClusterHfx' = DeckNeedsClusterHfx
           /\ HasCell' = HasCell
           /\ Off' = Off
           /\ \A psps : AtomsRefused(psps)' = AtomsRefused(psps) /\ AtomsBody(psps)' = AtomsBody(psps)
           /\ \A name : (Given(name)' <=> Given(name)) /\ (GivenRaw(name)' <=> GivenRaw(name))
<1>1. Cutoff' = Cutoff /\ Charge' = Charge /\ Functional' = Functional /\ TopMultiplicity' = TopMultiplicity
  BY DEF Cutoff, Charge, Functional, TopMultiplicity
<1>2. DeckMultiplicity' = DeckMultiplicity
  BY <1>1 DEF DeckMultiplicity, Typed, TypedIn
<1>3. SpinPolarized' = SpinPolarized
  BY <1>2 DEF SpinPolarized, Typed, TypedIn
<1>4. DeckNeedsClusterHfx' = DeckNeedsClusterHfx
  BY <1>1 DEF DeckNeedsClusterHfx, Typed, TypedIn
<1>5. HasCell' = HasCell
  BY DEF HasCell
<1>6. Off' = Off
  BY DEF Off
<1>7. ASSUME NEW psps PROVE AtomsRefused(psps)' = AtomsRefused(psps) /\ AtomsBody(psps)' = AtomsBody(psps)
  BY DEF AtomsRefused, AtomsBody, AtomsPrinted, AtomsOf, Covered
<1>8. ASSUME NEW name PROVE (Given(name)' <=> Given(name)) /\ (GivenRaw(name)' <=> GivenRaw(name))
  BY DEF Given, GivenRaw, Opens
<1> QED BY <1>1, <1>2, <1>3, <1>4, <1>5, <1>6, <1>7, <1>8

LEMMA DeckStays ==
    ASSUME UNCHANGED <<params, ov, geom>>, DeckOK(deck', at', has', pending')
    PROVE  DeckOK(deck, at, has, pending)'
<1>1. IsDeck(deck)' /\ (at' = 0 => deck' = << >>)
  BY DEF DeckOK, IsDeck
<1>2. Placed(deck, pending)'
  BY DEF DeckOK, Placed
<1>3. Noted(deck, at, has)'
  BY DEF DeckOK, Noted, Opens
<1>4. ASSUME NEW body
      PROVE  SystemFits(body)' <=> SystemFits(body)
  BY StaticStays DEF SystemFits
<1>5. ASSUME NEW body, NEW s
      PROVE  TypedSays(body, s)' <=> TypedSays(body, s)
  <2>1. SystemSays(body, s)' <=> SystemSays(body, s)
    BY <1>4, StaticStays DEF SystemSays
  <2>2. \A f : DftBody(f)' = DftBody(f) /\ CpmdBody(f)' = CpmdBody(f)
    BY StaticStays DEF DftBody, CpmdBody
  <2>3. \A psps : AtomsRefused(psps)' = AtomsRefused(psps) /\ AtomsBody(psps)' = AtomsBody(psps)
    BY StaticStays
  <2> QED BY <2>1, <2>2, <2>3 DEF TypedSays
<1>6. ASSUME NEW body, NEW name
      PROVE  DefaultSays(body, name)' <=> DefaultSays(body, name)
  BY <1>4, StaticStays DEF DefaultSays, DftBody, CpmdBody
<1>7. ASSUME NEW b, NEW s
      PROVE  OfSection(b, s)' <=> OfSection(b, s)
  BY <1>5 DEF OfSection
<1>8. ASSUME NEW b
      PROVE  (OfDefault(b)' <=> OfDefault(b)) /\ (OfSets(b)' <=> OfSets(b)) /\ (OfBlocks(b)' <=> OfBlocks(b))
  BY <1>6, StaticStays DEF OfDefault, OfSets, OfBlocks
<1>9. at' # 0 => Layout(deck, at)'
  BY <1>7, <1>8, StaticStays DEF DeckOK, Layout
<1> QED BY <1>1, <1>2, <1>3, <1>9 DEF DeckOK

-----------------------------------------------------------------------------
(* Every block of a deck is one of four *)

LEMMA DecksAreListed ==
    ASSUME NEW d, IsDeck(d)
    PROVE  Len(d) \in Nat /\ DOMAIN d = 1 .. Len(d)
<1>1. PICK S : d \in Seq(S)
  BY DEF IsDeck
<1> QED BY <1>1, LenProperties

LEMMA BlockKinds ==
    ASSUME NEW d, IsDeck(d), NEW a, a = Len(params.sections) + 1, Listed(params), Layout(d, a),
           NEW i \in DOMAIN d
    PROVE  \/ i = 1 /\ Off = 1 /\ OfBlocks(d[i])
           \/ \E j \in DOMAIN params.sections : i = Off + j /\ OfSection(d[i], params.sections[j])
           \/ i > Off + Len(params.sections) /\ OfDefault(d[i])
           \/ i > Off + Len(params.sections) /\ OfSets(d[i])
<1> DEFINE m == Len(params.sections)
<1>1. m \in Nat /\ DOMAIN params.sections = 1 .. m /\ Off \in {0, 1} /\ a = m + 1
  BY DEF Listed, Off
<1>2. i \in Nat /\ i >= 1
  BY DecksAreListed
<1>3. /\ Off = 1 => OfBlocks(d[1])
      /\ \A j \in 1 .. a - 1 : OfSection(d[Off + j], params.sections[j])
      /\ i > Off + a - 1 => OfDefault(d[i]) \/ OfSets(d[i])
  BY DEF Layout
<1> HIDE DEF m
<1>4. CASE i > Off + m
  <2>1. i > Off + a - 1
    BY <1>1, <1>2, <1>4
  <2> QED BY <1>3, <1>4, <2>1 DEF m
<1>5. CASE i = 1 /\ Off = 1
  BY <1>3, <1>5
<1>6. CASE ~(i > Off + m) /\ ~(i = 1 /\ Off = 1)
  <2> DEFINE j == i - Off
  <2>1. j \in 1 .. a - 1 /\ j \in DOMAIN params.sections /\ i = Off + j
    BY <1>1, <1>2, <1>6
  <2> HIDE DEF j
  <2> QED BY <1>3, <2>1
<1> QED BY <1>4, <1>5, <1>6

\* Nothing but raw text opens a section without its name.
LEMMA OpenersAreNamed ==
    ASSUME NEW d, IsDeck(d), NEW a, a = Len(params.sections) + 1, Listed(params), Layout(d, a),
           NEW i \in DOMAIN d, NEW name \in d[i].opens
    PROVE  (d[i].from # "raw" /\ d[i].name = name) \/ GivenRaw(name)
<1>1. CASE OfBlocks(d[i])
  BY <1>1 DEF OfBlocks, GivenRaw
<1>2. CASE \E j \in DOMAIN params.sections : i = Off + j /\ OfSection(d[i], params.sections[j])
  <2>1. PICK j \in DOMAIN params.sections : OfSection(d[i], params.sections[j])
    BY <1>2
  <2>2. CASE params.sections[j].kind = "raw"
    BY <2>1, <2>2 DEF OfSection, GivenRaw
  <2>3. CASE params.sections[j].kind # "raw"
    BY <2>1, <2>3 DEF OfSection
  <2> QED BY <2>2, <2>3
<1>3. CASE OfDefault(d[i])
  BY <1>3 DEF OfDefault
<1>4. CASE OfSets(d[i])
  BY <1>4 DEF OfSets
<1> QED BY <1>1, <1>2, <1>3, <1>4, BlockKinds

-----------------------------------------------------------------------------
(* The deck grows *)

LEMMA PrintedBlock ==
    ASSUME TypeInv, DeckOK(deck, at, has, pending), NEW b, Printed(b),
           (b.from = "raw" /\ b.sets = {}) \/ b.sets = SetsOf(b.name)
    PROVE  /\ Longer(deck, Len(deck), b, deck') /\ IsDeck(deck')
           /\ Placed(deck', pending')
<1>1. deck' = Append(deck, b) /\ pending' = pending \ b.sets
  BY DEF Printed
<1>2. IsDeck(deck) /\ Placed(deck, pending)
  BY DEF DeckOK
<1>3. Longer(deck, Len(deck), b, deck') /\ IsDeck(deck')
  BY <1>1, <1>2, AppendIsLonger
<1>4. pending \subseteq DOMAIN params.sets
  BY DEF TypeInv, TypeOK
<1>5. SetsOf(b.name) = {k \in pending : params.sets[k].section = b.name}
  BY DEF SetsOf
<1>6. Placed(deck', pending \ b.sets)
  BY <1>2, <1>3, <1>4, <1>5, PlacedAfter
<1> QED BY <1>1, <1>3, <1>6

\* What printing a block means if the buffer is large enough.
LEMMA EmitPrints ==
    ASSUME TypeInv, NEW b, Emit(b), phase' = "rendering", b.sets = {} \/ \E name : b.sets = SetsOf(name)
    PROVE  Printed(b)
<1>1. used \in Nat
  BY DEF TypeInv
<1>2. IsFiniteSet(b.sets)
  BY FS_EmptySet, SetsAreFinite
<1> QED BY <1>1, <1>2, EmitPrintsOrFails

LEMMA DeckOfBlocks ==
    ASSUME TypeInv, DeckOK(deck, at, has, pending), RenderBlocks, phase' = "rendering"
    PROVE  DeckOK(deck', at', has', pending')
<1> DEFINE b == Block("raw", "", params.blocks, {}, << >>)
<1>1. /\ at = 0 /\ at' = 1 /\ has' = has
      /\ \/ params.blocks = {} /\ deck' = deck /\ pending' = pending
         \/ params.blocks # {} /\ Emit(b)
  BY DEF RenderBlocks
<1>2. deck = << >> /\ Noted(deck, 0, has) /\ Placed(deck, pending) /\ IsDeck(deck)
  BY <1>1 DEF DeckOK
<1>3. CASE params.blocks = {} /\ deck' = deck /\ pending' = pending
  <2>1. Layout(deck', 1) /\ Noted(deck', 1, has)
    BY <1>2, <1>3, LayoutOfNothing, NotedAtNothing
  <2> QED BY <1>1, <1>2, <1>3, <2>1 DEF DeckOK
<1>4. CASE params.blocks # {} /\ Emit(b)
  <2>1. b.sets = {} /\ b.from = "raw" /\ OfBlocks(b)
    BY DEF Block, OfBlocks
  <2> HIDE DEF b
  <2>2. Printed(b)
    BY <1>4, <2>1, EmitPrints
  <2>3. Longer(deck, Len(deck), b, deck') /\ IsDeck(deck') /\ Placed(deck', pending')
    BY <2>1, <2>2, PrintedBlock
  <2>4. Len(deck) = 0
    BY <1>2
  <2>5. Longer(deck, 0, b, deck')
    BY <2>3, <2>4
  <2>6. Layout(deck', 1)
    BY <1>4, <2>1, <2>5, LayoutOfBlocks
  <2>7. Noted(deck', 1, has)
    BY <1>2, <2>1, <2>5, NotedAtBlocks
  <2> QED BY <1>1, <2>3, <2>6, <2>7 DEF DeckOK
<1> QED BY <1>1, <1>3, <1>4

LEMMA DeckOfSection ==
    ASSUME TypeInv, DeckOK(deck, at, has, pending), RenderSection, phase' = "rendering"
    PROVE  DeckOK(deck', at', has', pending')
<1> DEFINE s == params.sections[at]
           b == SectionBlock(s)
           more == CASE s.kind = "typed" -> {s.name} \cap ToSet(Mandatory)
                     [] s.kind = "raw" -> s.opens
                     [] OTHER -> {}
<1>1. /\ at \in DOMAIN params.sections /\ ~SectionRefused(s)
      /\ Emit(b) /\ at' = at + 1 /\ has' = has \cup more
  BY DEF RenderSection, Reject
<1>2. Listed(params) /\ SectionTyped(s)
  BY <1>1, MessagesAreListed DEF TypeInv, TypeOK
<1>3. at \in Nat \ {0} /\ at + 1 # 0
  BY <1>1, <1>2 DEF Listed
<1>4. s.kind \in {"typed", "generic", "raw"}
  BY <1>1, <1>2 DEF SectionTyped, SectionRefused
<1>5. OfSection(b, s)
  BY <1>1, <1>2, SectionBlockSays
<1>6. (b.from = "raw" /\ b.sets = {}) \/ b.sets = SetsOf(b.name)
  BY <1>4 DEF SectionBlock, Block
<1>7. \A name : name \in more <=> /\ Opens(s, name)
                                  /\ s.kind = "typed" => name \in ToSet(Mandatory)
  <2>1. CASE s.kind = "typed"
    BY <2>1 DEF Opens
  <2>2. CASE s.kind = "raw"
    BY <2>2 DEF Opens
  <2>3. CASE s.kind = "generic"
    BY <2>3 DEF Opens
  <2> QED BY <1>4, <2>1, <2>2, <2>3
<1>8. Layout(deck, at) /\ Noted(deck, at, has)
  BY <1>3 DEF DeckOK
<1> HIDE DEF b, more
<1>9. Printed(b)
  BY <1>1, <1>6, EmitPrints
<1>10. Longer(deck, Len(deck), b, deck') /\ IsDeck(deck') /\ Placed(deck', pending')
  BY <1>6, <1>9, PrintedBlock
<1>11. Layout(deck', at + 1)
  BY <1>1, <1>2, <1>5, <1>8, <1>10, LayoutOfSection
<1>12. Noted(deck', at + 1, has \cup more)
  BY <1>3, <1>5, <1>7, <1>8, <1>10, NotedAtSection
<1> QED BY <1>1, <1>3, <1>10, <1>11, <1>12 DEF DeckOK

LEMMA DeckOfDefault ==
    ASSUME TypeInv, DeckOK(deck, at, has, pending), RenderDefault, phase' = "rendering"
    PROVE  DeckOK(deck', at', has', pending')
<1> DEFINE name == Mandatory[Min(Missing)]
           b == DefaultBlock(name)
<1>1. /\ at = Len(params.sections) + 1 /\ Missing # {} /\ ~(name = "ATOMS" /\ AtomsRefused(<< >>))
      /\ Emit(b) /\ at' = at /\ has' = has \cup {name}
  BY DEF RenderDefault, Reject
<1>2. name \in ToSet(Mandatory) /\ name \notin has
  BY <1>1, FirstMissing
<1> HIDE DEF name
<1>3. Listed(params)
  BY MessagesAreListed DEF TypeInv, TypeOK
<1>4. at \in Nat \ {0} /\ 1 .. at - 1 = DOMAIN params.sections
  BY <1>1, <1>3 DEF Listed
<1>5. Layout(deck, at) /\ Noted(deck, at, has)
  BY <1>4 DEF DeckOK
<1>6. ~Given(name)
  <2>1. name \notin params.blocks
    BY <1>2, <1>5 DEF Noted
  <2>2. \A i \in 1 .. at - 1 : ~Opens(params.sections[i], name)
    BY <1>2, <1>5 DEF Noted
  <2> QED BY <1>4, <2>1, <2>2 DEF Given
<1>7. OfDefault(b)
  BY <1>1, <1>2, <1>6, DefaultBlockSays
<1>8. b.sets = SetsOf(b.name) /\ b.name = name
  BY DEF DefaultBlock, Block
<1> HIDE DEF b
<1>9. Printed(b)
  BY <1>1, <1>8, EmitPrints
<1>10. Longer(deck, Len(deck), b, deck') /\ IsDeck(deck') /\ Placed(deck', pending')
  BY <1>8, <1>9, PrintedBlock
<1>11. Layout(deck', at)
  BY <1>1, <1>3, <1>5, <1>7, <1>10, LayoutOfAdded
<1>12. Noted(deck', at, has \cup {b.name})
  BY <1>2, <1>4, <1>5, <1>7, <1>8, <1>10, NotedAtDefault
<1> QED BY <1>1, <1>4, <1>8, <1>10, <1>11, <1>12 DEF DeckOK

LEMMA DeckOfRemainingSets ==
    ASSUME TypeInv, DeckOK(deck, at, has, pending), RenderRemainingSets, phase' = "rendering"
    PROVE  DeckOK(deck', at', has', pending')
<1> DEFINE k == Min(pending)
           name == params.sets[k].section
           b == Block("sets", name, {name}, SetsOf(name), << >>)
<1>1. /\ at = Len(params.sections) + 1 /\ Missing = {} /\ pending # {}
      /\ Emit(b) /\ at' = at /\ has' = has
  BY DEF RenderRemainingSets
<1>2. Listed(params) /\ pending \in SUBSET Nat /\ pending \subseteq DOMAIN params.sets
  BY MessagesAreListed DEF TypeInv, TypeOK
<1>3. k \in pending /\ k \in DOMAIN params.sets
  BY <1>1, <1>2, FirstOf
<1> HIDE DEF k
<1>4. at \in Nat \ {0}
  BY <1>1, <1>2 DEF Listed
<1>5. Layout(deck, at) /\ Noted(deck, at, has) /\ IsDeck(deck) /\ Placed(deck, pending)
  BY <1>4 DEF DeckOK
<1>6. name \in ToSet(Mandatory) => GivenRaw(name)
  <2> HIDE DEF b
  <2>1. ASSUME name \in has
        PROVE  GivenRaw(name)
    <3>1. PICK i \in DOMAIN deck : name \in deck[i].opens
      BY <1>4, <1>5, <2>1 DEF Noted
    <3>2. deck[i].from # "raw" => name # deck[i].name
      BY <1>3, <1>5 DEF Placed
    <3> HIDE DEF name
    <3> QED BY <1>1, <1>2, <1>5, <3>1, <3>2, OpenersAreNamed
  <2> QED BY <1>1, <2>1, NothingMissing
<1>7. OfSets(b)
  <2>1. b.from = "sets" /\ b.opens = {b.name} /\ b.name = name
    BY DEF Block
  <2> HIDE DEF b
  <2> QED BY <1>3, <1>6, <2>1 DEF OfSets
<1>8. b.sets = SetsOf(b.name)
  BY DEF Block
<1> HIDE DEF b
<1>9. Printed(b)
  BY <1>1, <1>8, EmitPrints
<1>10. Longer(deck, Len(deck), b, deck') /\ IsDeck(deck') /\ Placed(deck', pending')
  BY <1>8, <1>9, PrintedBlock
<1>11. Layout(deck', at)
  BY <1>1, <1>2, <1>5, <1>7, <1>10, LayoutOfAdded
<1>12. Noted(deck', at, has)
  BY <1>4, <1>5, <1>7, <1>10, NotedAtSets
<1> QED BY <1>1, <1>4, <1>10, <1>11, <1>12 DEF DeckOK

LEMMA EmptyDeck ==
    DeckOK(<< >>, 0, params.blocks, DOMAIN params.sets)
<1>1. IsDeck(<< >>)
  <2>1. << >> \in Seq({})
    OBVIOUS
  <2> QED BY <2>1 DEF IsDeck
<1>2. DOMAIN << >> = {} /\ 1 .. 0 - 1 = {}
  OBVIOUS
<1>3. Noted(<< >>, 0, params.blocks)
  BY <1>2 DEF Noted
<1>4. Placed(<< >>, DOMAIN params.sets)
  BY <1>2 DEF Placed
<1> QED BY <1>1, <1>3, <1>4 DEF DeckOK

LEMMA DeckOfBegin ==
    ASSUME NEW n, Begin(n)
    PROVE  DeckInv'
<1>1. /\ UNCHANGED <<params, ov, geom>> /\ deck' = << >> /\ at' = 0 /\ has' = params.blocks
      /\ pending' = DOMAIN params.sets
  BY DEF Begin, OpenedByBlocks, PendingAtStart
<1>2. DeckOK(deck', at', has', pending')
  BY <1>1, EmptyDeck
<1>3. phase' \in {"failed", "rendering"}
  BY DEF Begin
<1> QED BY <1>1, <1>2, <1>3, DeckStays DEF DeckInv, Shown

\* A deck that is not touched stays what it is.
LEMMA DeckUntouched ==
    ASSUME DeckInv, UNCHANGED <<params, ov, geom, at, has, pending, deck>>,
           phase \in {"rendering", "rendered", "installed"},
           phase = "rendering" => at = Len(params.sections) + 1 \/ phase' = "rendering"
    PROVE  DeckInv'
<1>1. DeckOK(deck', at', has', pending')
  BY DEF DeckInv
<1>2. Shown' => at = Len(params.sections) + 1
  BY DEF DeckInv, Shown
<1> QED BY <1>1, <1>2, DeckStays DEF DeckInv, Shown

LEMMA DeckIsInductive == TypeInv /\ DeckInv /\ [Next]_vars => DeckInv'
<1> SUFFICES ASSUME TypeInv, DeckInv, [Next]_vars PROVE DeckInv'
  OBVIOUS
<1>1. ASSUME phase' \in {"filling", "starting", "failed", "refused", "unchanged"}
      PROVE  DeckInv'
  BY <1>1 DEF DeckInv, Shown
<1>2. ASSUME NEW s \in Sections, AddSection(s) PROVE DeckInv'
  BY <1>1, <1>2 DEF AddSection, Filling
<1>3. ASSUME NEW k \in SetKeys, AddSet(k) PROVE DeckInv'
  BY <1>1, <1>3 DEF AddSet, Filling
<1>4. ASSUME NEW f \in OverlayFields, AddOverlay(f) PROVE DeckInv'
  BY <1>1, <1>4 DEF AddOverlay, Filling
<1>5. CASE Resolve
  BY <1>1, <1>5, Resolving
<1>6. CASE StartDeck
  BY <1>6, DeckOfBegin DEF StartDeck
<1>7. ASSUME DeckOK(deck, at, has, pending), phase = "rendering",
             RenderBlocks \/ RenderSection \/ RenderDefault \/ RenderRemainingSets
      PROVE  DeckInv'
  <2>1. UNCHANGED <<params, ov, geom>>
    BY <1>7 DEF RenderBlocks, RenderSection, RenderDefault, RenderRemainingSets
  <2>2. phase' \in {"rendering", "failed"}
    BY <1>7 DEF RenderBlocks, RenderSection, RenderDefault, RenderRemainingSets, Reject, Emit
  <2>3. CASE phase' = "failed"
    BY <1>1, <2>3
  <2>4. CASE phase' = "rendering"
    <3>1. DeckOK(deck', at', has', pending')
      BY <1>7, <2>4, DeckOfBlocks, DeckOfSection, DeckOfDefault, DeckOfRemainingSets
    <3> QED BY <2>1, <2>4, <3>1, DeckStays DEF DeckInv, Shown
  <2> QED BY <2>2, <2>3, <2>4
<1>8. CASE PrintDeck
  <2>1. phase = "rendering" => DeckOK(deck, at, has, pending)
    BY DEF DeckInv
  <2>2. CASE RenderBlocks \/ RenderSection \/ RenderDefault \/ RenderRemainingSets
    <3>1. phase = "rendering"
      BY <2>2 DEF RenderBlocks, RenderSection, RenderDefault, RenderRemainingSets
    <3> QED BY <1>7, <2>1, <2>2, <3>1
  <2>3. CASE FinishDeck
    <3>1. /\ UNCHANGED <<params, ov, geom, at, has, pending, deck>> /\ phase = "rendering"
          /\ at = Len(params.sections) + 1
      BY <2>3 DEF FinishDeck, renderVars
    <3> QED BY <3>1, DeckUntouched
  <2>4. CASE Retry
    <3> DEFINE n == attempt + 1
    <3>1. Begin(n)
      BY <2>4 DEF Retry
    <3> HIDE DEF n
    <3> QED BY <3>1, DeckOfBegin
  <2>5. CASE GiveUp
    BY <1>1, <2>5 DEF GiveUp
  <2> QED BY <1>8, <2>2, <2>3, <2>4, <2>5 DEF PrintDeck, RenderStep
<1>9. CASE Install
  <2>1. UNCHANGED <<params, ov, geom, at, has, pending, deck>> /\ phase = "rendered"
    BY <1>9 DEF Install, Answer, renderVars
  <2> QED BY <2>1, DeckUntouched
<1>10. ASSUME NEW g \in Geometries, StartGeometryDeck(g) PROVE DeckInv'
  BY <1>1, <1>10 DEF StartGeometryDeck
<1>11. CASE UNCHANGED vars
  <2>1. UNCHANGED <<params, ov, geom, phase, at, has, pending, deck>>
    BY <1>11 DEF vars, renderVars
  <2>2. phase \in {"rendering", "rendered", "installed"} => DeckInv'
    BY <2>1, DeckUntouched
  <2> QED BY <2>1, <2>2 DEF DeckInv, Shown
<1> QED BY <1>2, <1>3, <1>4, <1>5, <1>6, <1>8, <1>9, <1>10, <1>11 DEF Next

LEMMA InitDeck == Init => DeckInv
BY DEF Init, DeckInv, Shown

-----------------------------------------------------------------------------
(* What the blocks of a finished deck say *)

\* What the deck and the types give together.
FinishedInv == TypeInv /\ DeckInv /\ Shown

LEMMA FinishedDeck ==
    ASSUME FinishedInv
    PROVE  /\ Listed(params) /\ IsDeck(deck) /\ at = Len(params.sections) + 1
           /\ Layout(deck, at) /\ Noted(deck, at, ToSet(Mandatory)) /\ Placed(deck, {})
           /\ \A i \in DOMAIN params.sections : SectionTyped(params.sections[i])
<1>1. Listed(params) /\ \A i \in DOMAIN params.sections : SectionTyped(params.sections[i])
  BY MessagesAreListed DEF FinishedInv, TypeInv, TypeOK
<1>2. has = ToSet(Mandatory) /\ pending = {}
  BY DEF FinishedInv, TypeInv, TypeOK
<1>3. DeckOK(deck, at, has, pending) /\ at = Len(params.sections) + 1
  BY DEF FinishedInv, DeckInv, Shown
<1>4. at # 0
  BY <1>1, <1>3 DEF Listed
<1> QED BY <1>1, <1>2, <1>3, <1>4 DEF DeckOK

LEMMA OursSay ==
    ASSUME FinishedInv, NEW name, NEW b \in Ours(name)
    PROVE  \/ \E j \in Typed(name) : TypedSays(b.body, params.sections[j])
           \/ ~Given(name) /\ Typed(name) = {} /\ DefaultSays(b.body, name)
<1>1. PICK i \in DOMAIN deck : b = deck[i] /\ b.name = name /\ b.from \in {"typed", "default"}
  BY DEF Ours, Blocks
<1>2. CASE \E j \in DOMAIN params.sections : i = Off + j /\ OfSection(deck[i], params.sections[j])
  <2>1. PICK j \in DOMAIN params.sections : OfSection(deck[i], params.sections[j])
    BY <1>2
  <2>2. params.sections[j].kind = "typed"
    BY <1>1, <2>1 DEF OfSection
  <2>3. params.sections[j].name = name /\ TypedSays(b.body, params.sections[j])
    BY <1>1, <2>1, <2>2 DEF OfSection
  <2>4. j \in Typed(name)
    BY <2>2, <2>3 DEF Typed, TypedIn
  <2> QED BY <2>3, <2>4
<1>3. CASE OfDefault(deck[i])
  <2>1. ~Given(name) /\ DefaultSays(b.body, name)
    BY <1>1, <1>3 DEF OfDefault
  <2>2. Typed(name) = {}
    BY <2>1 DEF Given, Opens, Typed, TypedIn
  <2> QED BY <2>1, <2>2
<1>4. ~OfBlocks(deck[i]) /\ ~OfSets(deck[i])
  BY <1>1 DEF OfBlocks, OfSets
<1> QED BY <1>2, <1>3, <1>4, BlockKinds, FinishedDeck

LEMMA TypedIsListed ==
    ASSUME Listed(params), NEW name
    PROVE  Typed(name) \in SUBSET Nat /\ IsFiniteSet(Typed(name))
<1> DEFINE n == Len(params.sections)
<1>1. n \in Nat /\ DOMAIN params.sections = 1 .. n
  BY DEF Listed
<1>2. Typed(name) \in SUBSET (1 .. n)
  BY <1>1 DEF Typed, TypedIn
<1> HIDE DEF n
<1>3. IsFiniteSet(1 .. n)
  BY <1>1, FS_Interval
<1>4. Typed(name) \in SUBSET Nat
  BY <1>1, <1>2
<1> DEFINE T == Typed(name)
<1>5. T \in SUBSET (1 .. n)
  BY <1>2
<1> HIDE DEF T
<1>6. IsFiniteSet(T)
  BY <1>3, <1>5, FS_Subset
<1> QED BY <1>4, <1>6 DEF T

\* A set of one member at most.
LEMMA AtMostOne ==
    ASSUME NEW S, IsFiniteSet(S), Cardinality(S) <= 1, NEW x \in S
    PROVE  S = {x}
<1>1. Cardinality(S) \in Nat /\ Cardinality(S) # 0
  BY FS_CardinalityType, FS_EmptySet
<1>2. Cardinality(S) = 1
  BY <1>1
<1>3. PICK y : S = {y}
  BY <1>2, FS_Singleton
<1> QED BY <1>3

LEMMA LeastOfOne ==
    ASSUME NEW j \in Nat
    PROVE  Min({j}) = j /\ Max({j}) = j
<1> DEFINE S == {j}
<1>1. S \in SUBSET Nat /\ S # {} /\ j \in S /\ (\A y \in S : y <= j)
  OBVIOUS
<1>2. \A y \in S : y = j
  OBVIOUS
<1> HIDE DEF S
<1>3. Min(S) \in S /\ Max(S) = j
  BY <1>1, FirstOf, LastOf
<1> QED BY <1>2, <1>3 DEF S

LEMMA MultiplicityIsANumber ==
    ASSUME TypeInv
    PROVE  DeckMultiplicity \in Int /\ TopMultiplicity \in Int
<1> DEFINE above == {i \in Typed("SYSTEM") : params.sections[i].mult > 1}
<1>1. params \in Messages /\ ov \in Overs
  BY DEF TypeInv, TypeOK
<1>2. params.mult \in Nat /\ ov.mult \in Nat \cup {None}
  BY <1>1 DEF Messages, Overs
<1>3. TopMultiplicity \in Int
  BY <1>2 DEF TopMultiplicity, Or
<1>4. ASSUME above # {}
      PROVE  params.sections[Min(above)].mult \in Int
  <2>1. above \in SUBSET Nat /\ above \subseteq Typed("SYSTEM")
    BY <1>1, MessagesAreListed, TypedIsListed
  <2> HIDE DEF above
  <2>2. Min(above) \in Typed("SYSTEM")
    BY <1>4, <2>1, FirstOf
  <2>3. \A i \in Typed("SYSTEM") : params.sections[i].mult \in Nat
    BY <1>1, MessagesAreListed DEF Typed, TypedIn, SectionTyped
  <2> QED BY <2>2, <2>3
<1> QED BY <1>3, <1>4 DEF DeckMultiplicity

\* A &SYSTEM above a singlet makes the whole deck spin polarized.
LEMMA SystemsFollowTheDeck ==
    ASSUME FinishedInv, NEW s \in Ours("SYSTEM"), ~(DeckMultiplicity > 1)
    PROVE  s.body.mult = DeckMultiplicity
<1> DEFINE above == {i \in Typed("SYSTEM") : params.sections[i].mult > 1}
<1>1. ASSUME NEW j \in Typed("SYSTEM")
      PROVE  ~(params.sections[j].mult > 1)
  <2> SUFFICES ASSUME params.sections[j].mult > 1 PROVE FALSE
    OBVIOUS
  <2>1. above # {} /\ above \in SUBSET Nat
    BY <1>1, FinishedDeck, TypedIsListed
  <2>2. DeckMultiplicity = params.sections[Min(above)].mult
    BY <2>1 DEF DeckMultiplicity
  <2>3. \A i \in above : params.sections[i].mult > 1
    OBVIOUS
  <2> HIDE DEF above
  <2>4. Min(above) \in above
    BY <2>1, FirstOf
  <2> QED BY <2>2, <2>3, <2>4
<1>2. CASE \E j \in Typed("SYSTEM") : TypedSays(s.body, params.sections[j])
  <2>1. PICK j \in Typed("SYSTEM") : TypedSays(s.body, params.sections[j])
    BY <1>2
  <2>2. params.sections[j].name = "SYSTEM"
    BY DEF Typed, TypedIn
  <2> QED BY <1>1, <2>1, <2>2 DEF TypedSays, SystemSays
<1>3. CASE DefaultSays(s.body, "SYSTEM")
  BY <1>3 DEF DefaultSays
<1> QED BY <1>2, <1>3, OursSay

LEMMA SystemsFit ==
    ASSUME FinishedInv, NEW s \in Ours("SYSTEM")
    PROVE  SystemFits(s.body)
<1>1. CASE \E j \in Typed("SYSTEM") : TypedSays(s.body, params.sections[j])
  <2>1. PICK j \in Typed("SYSTEM") : TypedSays(s.body, params.sections[j])
    BY <1>1
  <2>2. params.sections[j].name = "SYSTEM"
    BY DEF Typed, TypedIn
  <2> QED BY <2>1, <2>2 DEF TypedSays, SystemSays
<1>2. CASE DefaultSays(s.body, "SYSTEM")
  BY <1>2 DEF DefaultSays
<1> QED BY <1>1, <1>2, OursSay

LEMMA SpinFollows == FinishedInv => SpinFollowsMultiplicity
<1> SUFFICES ASSUME FinishedInv, NEW c \in Ours("CPMD")
             PROVE  \/ c.body.lsd
                    \/ /\ \A s \in Ours("SYSTEM") : s.body.mult <= 1
                       /\ \A i \in Typed("DFT") : ~params.sections[i].lsd
  BY DEF SpinFollowsMultiplicity
<1>1. \E lsd : c.body = CpmdBody(lsd)
  <2>1. CASE \E j \in Typed("CPMD") : TypedSays(c.body, params.sections[j])
    <3>1. PICK j \in Typed("CPMD") : TypedSays(c.body, params.sections[j])
      BY <2>1
    <3>2. params.sections[j].name = "CPMD"
      BY DEF Typed, TypedIn
    <3> QED BY <3>1, <3>2 DEF TypedSays
  <2>2. CASE DefaultSays(c.body, "CPMD")
    BY <2>2 DEF DefaultSays
  <2> QED BY <2>1, <2>2, OursSay
<1>2. CASE SpinPolarized
  <2>1. \A lsd : CpmdBody(lsd) = [lsd |-> TRUE]
    BY <1>2, Zenon DEF CpmdBody
  <2>2. c.body.lsd = TRUE
    BY <1>1, <2>1
  <2> QED BY <2>2
<1>3. CASE ~SpinPolarized
  <2>1. ~(DeckMultiplicity > 1) /\ \A i \in Typed("DFT") : ~params.sections[i].lsd
    BY <1>3 DEF SpinPolarized
  <2>2. DeckMultiplicity <= 1
    BY <2>1, MultiplicityIsANumber DEF FinishedInv
  <2>3. \A s \in Ours("SYSTEM") : s.body.mult <= 1
    BY <2>1, <2>2, SystemsFollowTheDeck
  <2> QED BY <2>1, <2>3
<1> QED BY <1>2, <1>3

LEMMA SolverSuits == FinishedInv => SolverSuitsExchange
<1> SUFFICES ASSUME FinishedInv, Cardinality(Typed("DFT")) <= 1,
                    NEW d \in Ours("DFT"), NEW s \in Ours("SYSTEM"),
                    d.body.functional \in Hybrids
             PROVE  s.body.solver # "HOCKNEY"
  BY DEF SolverSuitsExchange
<1> DEFINE naming == {i \in Typed("DFT") : params.sections[i].functional # ""}
<1>1. DeckNeedsClusterHfx
  <2>1. CASE \E j \in Typed("DFT") : TypedSays(d.body, params.sections[j])
    <3>1. PICK j \in Typed("DFT") : TypedSays(d.body, params.sections[j])
      BY <2>1
    <3>2. params.sections[j].name = "DFT"
      BY DEF Typed, TypedIn
    <3> DEFINE f == params.sections[j].functional
    <3>3. d.body.functional = IF f = "" THEN Functional ELSE f
      <4>1. d.body = DftBody(f)
        BY <3>1, <3>2 DEF TypedSays
      <4>2. \A g : DftBody(g).functional = IF g = "" THEN Functional ELSE g
        BY DEF DftBody
      <4> HIDE DEF f
      <4> QED BY <4>1, <4>2
    <3>4. Typed("DFT") = {j} /\ j \in Nat
      <4>1. Typed("DFT") \in SUBSET Nat /\ IsFiniteSet(Typed("DFT"))
        BY FinishedDeck, TypedIsListed
      <4> DEFINE T == Typed("DFT")
      <4>2. IsFiniteSet(T) /\ Cardinality(T) <= 1 /\ j \in T
        BY <4>1
      <4> HIDE DEF T
      <4>3. T = {j}
        BY <4>2, AtMostOne
      <4> QED BY <4>1, <4>3 DEF T
    <3>5. CASE f = ""
      <4>1. naming = {}
        BY <3>4, <3>5
      <4> QED BY <3>3, <3>5, <4>1 DEF DeckNeedsClusterHfx
    <3>6. CASE f # ""
      <4>1. naming = {j}
        BY <3>4, <3>6
      <4>2. Min(naming) = j
        BY <3>4, <4>1, LeastOfOne
      <4> QED BY <3>3, <3>6, <4>1, <4>2 DEF DeckNeedsClusterHfx
    <3> QED BY <3>5, <3>6
  <2>2. CASE Typed("DFT") = {} /\ DefaultSays(d.body, "DFT")
    <3>1. d.body.functional = Functional
      BY <2>2 DEF DefaultSays, DftBody
    <3> QED BY <2>2, <3>1 DEF DeckNeedsClusterHfx
  <2> QED BY <2>1, <2>2, OursSay
<1> QED BY <1>1, SystemsFit DEF SystemFits

LEMMA PeriodicStays == FinishedInv => PeriodicStaysPeriodic
BY SystemsFit DEF PeriodicStaysPeriodic, SystemFits

\* Spin, exchange and boundary agree between the sections of every deck, in
\* whatever order the message has them (SectionsAgree).
THEOREM SectionsFitTogether == Spec => []SectionsAgree
<1>1. TypeInv /\ DeckInv => SectionsAgree
  <2>1. CASE FinishedInv
    BY <2>1, SpinFollows, SolverSuits, PeriodicStays DEF SectionsAgree
  <2>2. CASE ~Shown
    BY <2>2 DEF SectionsAgree, SpinFollowsMultiplicity, SolverSuitsExchange, PeriodicStaysPeriodic
  <2> QED BY <2>1, <2>2 DEF FinishedInv
<1> QED BY <1>1, InitTypes, InitDeck, TypesAreInductive, DeckIsInductive, PTL DEF Spec

-----------------------------------------------------------------------------
(* The deck's method and the installed one *)

LEMMA OursAreFinite ==
    ASSUME FinishedInv, NEW name
    PROVE  IsFiniteSet(Ours(name))
<1> DEFINE T == {i \in DOMAIN deck : deck[i].name = name /\ deck[i].from \in {"typed", "default"}}
           f == [i \in T |-> deck[i]]
           n == Len(deck)
<1>1. n \in Nat /\ DOMAIN deck = 1 .. n
  BY FinishedDeck, DecksAreListed
<1>2. T \in SUBSET (1 .. n) /\ Ours(name) = {deck[i] : i \in T}
  BY <1>1 DEF Ours, Blocks
<1>3. f \in Surjection(T, Ours(name))
  BY <1>2 DEF Surjection
<1> HIDE DEF T, f, n
<1>4. IsFiniteSet(1 .. n)
  BY <1>1, FS_Interval
<1>5. IsFiniteSet(T)
  BY <1>2, <1>4, FS_Subset
<1> QED BY <1>3, <1>5, FS_Surjection

LEMMA SectionIsPrinted ==
    ASSUME FinishedInv, NEW name, NEW j \in Typed(name)
    PROVE  \E b \in Ours(name) : TypedSays(b.body, params.sections[j])
<1> DEFINE i == Off + j
           m == Len(params.sections)
<1>1. j \in DOMAIN params.sections /\ params.sections[j].kind = "typed" /\ params.sections[j].name = name
  BY DEF Typed, TypedIn
<1>2. /\ m \in Nat /\ DOMAIN params.sections = 1 .. m /\ at = m + 1 /\ Off \in {0, 1}
      /\ Len(deck) \in Nat /\ DOMAIN deck = 1 .. Len(deck)
  BY FinishedDeck, DecksAreListed DEF Listed, Off
<1>3. Off + at - 1 <= Len(deck) /\ \A l \in 1 .. at - 1 : OfSection(deck[Off + l], params.sections[l])
  BY FinishedDeck DEF Layout
<1> HIDE DEF m
<1>4. j \in 1 .. at - 1 /\ i \in DOMAIN deck
  BY <1>1, <1>2, <1>3
<1>5. OfSection(deck[i], params.sections[j])
  BY <1>3, <1>4
<1> HIDE DEF i
<1>6. deck[i].name = name /\ deck[i].from = "typed" /\ TypedSays(deck[i].body, params.sections[j])
  BY <1>1, <1>5 DEF OfSection
<1>7. deck[i] \in Ours(name)
  BY <1>4, <1>6 DEF Ours, Blocks
<1> QED BY <1>6, <1>7

\* Where functionals and cutoffs are named.
NamingFunctional == {i \in Typed("DFT") : params.sections[i].functional # ""}
NamingCutoff == {i \in Typed("SYSTEM") : params.sections[i].cutoff > 0}
NamingMult == {i \in Typed("SYSTEM") : params.sections[i].mult > 0}

LEMMA ImageSays ==
    ASSUME KnobInv, phase = "installed"
    PROVE  /\ image.functional = Or(ov.functional, LastNamed(params, NamingFunctional, "functional", CTop(params).functional))
           /\ image.cutoff = Or(ov.cutoff, LastNamed(params, NamingCutoff, "cutoff", CTop(params).cutoff))
           /\ image.charge = Or(ov.charge, LastNamed(params, Typed("SYSTEM"), "charge", CTop(params).charge))
           /\ image.mult = Or(ov.mult, LastNamed(params, NamingMult, "mult", CTop(params).mult))
<1>1. image = ApplyParams(params, ov)
  BY DEF KnobInv
<1> QED BY <1>1 DEF ApplyParams, Overridden, NamingFunctional, NamingCutoff, NamingMult, Typed

LEMMA TopSays ==
    /\ Functional = Or(ov.functional, CTop(params).functional)
    /\ Cutoff = Or(ov.cutoff, CTop(params).cutoff)
    /\ Charge = Or(ov.charge, CTop(params).charge)
    /\ TopMultiplicity = Or(ov.mult, CTop(params).mult)
BY DEF Functional, Cutoff, Charge, TopMultiplicity, CTop

\* Without a section of a name, the defaults are printed and installed.
LEMMA DefaultsMatch ==
    ASSUME KnobInv, phase = "installed"
    PROVE  /\ Typed("DFT") = {} => image.functional = Functional
           /\ Typed("SYSTEM") = {} => /\ image.cutoff = Cutoff /\ image.charge = Charge
                                      /\ image.mult = DeckMultiplicity
<1>1. Typed("DFT") = {} => NamingFunctional = {}
  BY DEF NamingFunctional
<1>2. Typed("SYSTEM") = {} => /\ NamingCutoff = {} /\ NamingMult = {}
                              /\ DeckMultiplicity = TopMultiplicity
  BY DEF NamingCutoff, NamingMult, DeckMultiplicity
<1> QED BY <1>1, <1>2, ImageSays, TopSays DEF LastNamed

\* The one &DFT block has the functional of every &DFT section, so of the last.
LEMMA FunctionalMatches ==
    ASSUME KnobInv, DeckInv, phase = "installed", ov.functional = None \/ Typed("DFT") = {},
           Cardinality(Ours("DFT")) = 1, NEW d \in Ours("DFT")
    PROVE  d.body.functional = image.functional
<1>1. FinishedInv
  BY DEF KnobInv, FinishedInv, Shown
<1>2. CASE Typed("DFT") = {}
  <2>1. DefaultSays(d.body, "DFT")
    BY <1>1, <1>2, OursSay
  <2>2. d.body.functional = Functional
    BY <2>1 DEF DefaultSays, DftBody
  <2> QED BY <1>2, <2>2, DefaultsMatch
<1>3. CASE Typed("DFT") # {} /\ ov.functional = None
  <2> DEFINE Named(f) == IF f = "" THEN Functional ELSE f
  <2>1. Ours("DFT") = {d}
    <3> DEFINE S == Ours("DFT")
    <3>1. IsFiniteSet(S) /\ Cardinality(S) <= 1 /\ d \in S
      BY <1>1, OursAreFinite
    <3> HIDE DEF S
    <3>2. S = {d}
      BY <3>1, AtMostOne
    <3> QED BY <3>2 DEF S
  <2>2. \A g : DftBody(g).functional = IF g = "" THEN Functional ELSE g
    BY DEF DftBody
  <2>3. ASSUME NEW j \in Typed("DFT")
        PROVE  d.body = DftBody(params.sections[j].functional)
    <3>1. TypedSays(d.body, params.sections[j]) /\ params.sections[j].name = "DFT"
      BY <1>1, <2>1, SectionIsPrinted DEF Typed, TypedIn
    <3> QED BY <3>1 DEF TypedSays
  <2>4. CASE NamingFunctional = {}
    <3>1. PICK j \in Typed("DFT") : params.sections[j].functional = ""
      BY <1>3, <2>4 DEF NamingFunctional
    <3>2. d.body.functional = Functional
      BY <2>2, <2>3, <3>1
    <3>3. image.functional = Functional
      BY <2>4, ImageSays, TopSays DEF LastNamed
    <3> QED BY <3>2, <3>3
  <2>5. CASE NamingFunctional # {}
    <3> DEFINE m == Max(NamingFunctional)
    <3>1. m \in NamingFunctional
      <4> DEFINE S == NamingFunctional
                 n == Len(params.sections)
      <4>1. n \in Nat /\ S \in SUBSET (1 .. n) /\ S # {}
        BY <1>1, <2>5, FinishedDeck DEF NamingFunctional, Typed, TypedIn, Listed
      <4> HIDE DEF S, n
      <4>2. Max(S) \in S
        BY <4>1, LastExists
      <4> QED BY <4>2 DEF S
    <3>2. image.functional = params.sections[m].functional
      BY <1>3, <2>5, ImageSays DEF LastNamed, Or
    <3> HIDE DEF m
    <3>3. m \in Typed("DFT") /\ params.sections[m].functional # ""
      BY <3>1 DEF NamingFunctional
    <3>4. d.body.functional = params.sections[m].functional
      BY <2>2, <2>3, <3>3
    <3> QED BY <3>2, <3>4
  <2> QED BY <2>4, <2>5
<1> QED BY <1>2, <1>3

LEMMA CutoffMatches ==
    ASSUME KnobInv, DeckInv, phase = "installed", ov.cutoff = None \/ Typed("SYSTEM") = {},
           Cardinality(Typed("SYSTEM")) <= 1, NEW s \in Ours("SYSTEM")
    PROVE  s.body.cutoff = image.cutoff
<1>1. FinishedInv
  BY DEF KnobInv, FinishedInv, Shown
<1>2. CASE Typed("SYSTEM") = {}
  <2>1. DefaultSays(s.body, "SYSTEM")
    BY <1>1, <1>2, OursSay
  <2>2. s.body.cutoff = Cutoff
    BY <2>1 DEF DefaultSays
  <2> QED BY <1>2, <2>2, DefaultsMatch
<1>3. CASE Typed("SYSTEM") # {} /\ ov.cutoff = None
  <2>1. PICK j \in Typed("SYSTEM") : TypedSays(s.body, params.sections[j])
    BY <1>1, <1>3, OursSay
  <2>2. params.sections[j].name = "SYSTEM" /\ j \in Nat
    BY <1>1, FinishedDeck DEF Typed, TypedIn, Listed
  <2> DEFINE c == params.sections[j].cutoff
  <2>3. s.body.cutoff = IF c > 0 THEN c ELSE Cutoff
    BY <2>1, <2>2 DEF TypedSays, SystemSays
  <2>4. Typed("SYSTEM") = {j}
    <3> DEFINE T == Typed("SYSTEM")
    <3>1. IsFiniteSet(T) /\ Cardinality(T) <= 1 /\ j \in T
      BY <1>1, FinishedDeck, TypedIsListed
    <3> HIDE DEF T
    <3>2. T = {j}
      BY <3>1, AtMostOne
    <3> QED BY <3>2 DEF T
  <2>5. CASE c > 0
    <3>1. NamingCutoff = {j}
      BY <2>4, <2>5 DEF NamingCutoff
    <3>2. Max(NamingCutoff) = j
      BY <2>2, <3>1, LeastOfOne
    <3>3. image.cutoff = c
      BY <1>3, <3>1, <3>2, ImageSays DEF LastNamed, Or
    <3> QED BY <2>3, <2>5, <3>3
  <2>6. CASE ~(c > 0)
    <3>1. NamingCutoff = {}
      BY <2>4, <2>6 DEF NamingCutoff
    <3>2. image.cutoff = Cutoff
      BY <3>1, ImageSays, TopSays DEF LastNamed
    <3> QED BY <2>3, <2>6, <3>2
  <2> QED BY <2>5, <2>6
<1> QED BY <1>2, <1>3

\* The sections an overlay alone is lowered to have no multiplicity.
LEMMA LoweredSystems ==
    \A i \in TypedIn(Lowered, "SYSTEM") : Lowered.sections[i].mult = 0
<1> DEFINE S == {LoweredCpmd, LoweredVdw, LoweredSystem}
<1>1. LoweredCpmd \in S /\ LoweredVdw \in S /\ LoweredSystem \in S
  OBVIOUS
<1>2. \A s \in S : s.name = "SYSTEM" => s.mult = 0
  BY DEF LoweredCpmd, LoweredVdw, LoweredSystem
<1> HIDE DEF S
<1>3. LoweredSections \in Seq(S)
  BY <1>1, LoweredSectionsAre
<1>4. DOMAIN LoweredSections = 1 .. Len(LoweredSections)
  BY <1>3, LenProperties
<1>5. \A i \in DOMAIN LoweredSections : LoweredSections[i] \in S
  BY <1>3, <1>4, ElementOfSeq
<1>6. Lowered.sections = LoweredSections
  BY DEF Lowered
<1> QED BY <1>2, <1>5, <1>6 DEF TypedIn

LEMMA MultiplicityMatches ==
    ASSUME KnobInv, DeckInv, phase = "installed", arm = "none", NEW s \in Ours("SYSTEM")
    PROVE  s.body.mult = image.mult
<1>1. FinishedInv
  BY DEF KnobInv, FinishedInv, Shown
<1>2. params = Lowered
  <2>1. image # None
    BY DEF KnobInv, TypeInv, TypeOK
  <2>2. Settled
    BY <2>1 DEF KnobInv, TypeInv, Resolved
  <2> QED BY <2>2 DEF Settled
<1>3. \A i \in Typed("SYSTEM") : params.sections[i].mult = 0
  BY <1>2, LoweredSystems DEF Typed
<1>4. ~(0 > 0) /\ ~(0 > 1)
  OBVIOUS
<1>5. NamingMult = {} /\ {i \in Typed("SYSTEM") : params.sections[i].mult > 1} = {}
  BY <1>3, <1>4 DEF NamingMult
<1>6. image.mult = DeckMultiplicity
  BY <1>5, ImageSays, TopSays DEF LastNamed, DeckMultiplicity
<1>7. CASE \E j \in Typed("SYSTEM") : TypedSays(s.body, params.sections[j])
  <2>1. PICK j \in Typed("SYSTEM") : TypedSays(s.body, params.sections[j])
    BY <1>7
  <2>2. params.sections[j].name = "SYSTEM" /\ ~(params.sections[j].mult > 1)
    BY <1>3, <1>4 DEF Typed, TypedIn
  <2> QED BY <1>6, <2>1, <2>2 DEF TypedSays, SystemSays
<1>8. CASE DefaultSays(s.body, "SYSTEM")
  BY <1>6, <1>8 DEF DefaultSays
<1> QED BY <1>1, <1>7, <1>8, OursSay

LEMMA DefaultSystemMatches ==
    ASSUME KnobInv, DeckInv, phase = "installed", Typed("SYSTEM") = {},
           NEW s \in Blocks("SYSTEM", {"default"})
    PROVE  s.body.charge = image.charge /\ s.body.mult = image.mult
<1>1. FinishedInv
  BY DEF KnobInv, FinishedInv, Shown
<1>2. s \in Ours("SYSTEM")
  BY DEF Ours, Blocks
<1>3. DefaultSays(s.body, "SYSTEM")
  BY <1>1, <1>2, OursSay
<1>4. s.body.charge = Charge /\ s.body.mult = DeckMultiplicity
  BY <1>3 DEF DefaultSays
<1> QED BY <1>4, DefaultsMatch

\* The method the deck names is the one that is installed, wherever the two
\* are derived from the same fields (DeckMatchesKnobs).
THEOREM DeckSaysWhatIsInstalled == Spec => []DeckMatchesKnobs
<1>1. KnobInv /\ DeckInv => DeckMatchesKnobs
  <2> SUFFICES ASSUME KnobInv, DeckInv, phase = "installed" PROVE DeckMatchesKnobs
    BY DEF DeckMatchesKnobs
  <2> QED BY FunctionalMatches, CutoffMatches, DefaultSystemMatches, MultiplicityMatches
          DEF DeckMatchesKnobs
<1>2. KnobInv /\ DeckInv /\ [Next]_vars => (KnobInv /\ DeckInv)'
  <2>1. KnobInv => TypeInv
    BY DEF KnobInv
  <2> QED BY <2>1, KnobsAreInductive, DeckIsInductive
<1> QED BY <1>1, <1>2, InitKnobs, InitDeck, PTL DEF Spec

-----------------------------------------------------------------------------
(* The deck is whole *)

LEMMA SetsLand == FinishedInv => SetsLandOnce
<1> SUFFICES ASSUME FinishedInv, NEW k \in DOMAIN params.sets
             PROVE  LET taking == {i \in DOMAIN deck : k \in deck[i].sets}
                    IN  /\ Cardinality(taking) = 1
                        /\ \A i \in taking : deck[i].name = params.sets[k].section
  BY DEF SetsLandOnce
<1> DEFINE taking == {i \in DOMAIN deck : k \in deck[i].sets}
<1>1. PICK i \in DOMAIN deck : k \in deck[i].sets
  BY FinishedDeck DEF Placed
<1>2. taking = {i}
  BY <1>1, FinishedDeck DEF Placed
<1>3. \A j \in taking : deck[j].name = params.sets[k].section
  BY FinishedDeck DEF Placed
<1>4. Cardinality(taking) = 1
  <2> HIDE DEF taking
  <2> QED BY <1>2, FS_Singleton
<1> QED BY <1>3, <1>4

\* The sections of the message that open a name, as CPMD reads them.
Opening(name) ==
    {i \in DOMAIN params.sections :
       LET s == params.sections[i] IN IF s.kind = "raw" THEN name \in s.opens ELSE s.name = name}

LEMMA OpenedTwiceSays ==
    ASSUME NEW name
    PROVE  OpenedTwice(name) <=>
             \/ Cardinality(Opening(name)) + (IF name \in params.blocks THEN 1 ELSE 0) > 1
             \/ \E i \in Opening(name) : params.sections[i].kind = "generic"
             \/ /\ \/ name \in params.blocks
                   \/ \E i \in Opening(name) : params.sections[i].kind = "raw"
                /\ \E k \in DOMAIN params.sets : params.sets[k].section = name
BY DEF OpenedTwice, Opening

LEMMA OpeningsAreFinite ==
    ASSUME FinishedInv, NEW name
    PROVE  /\ IsFiniteSet(Opening(name))
           /\ IsFiniteSet({i \in DOMAIN deck : name \in deck[i].opens})
<1> DEFINE n == Len(params.sections)
           m == Len(deck)
           S == Opening(name)
           T == {i \in DOMAIN deck : name \in deck[i].opens}
<1>1. n \in Nat /\ m \in Nat /\ S \in SUBSET (1 .. n) /\ T \in SUBSET (1 .. m)
  BY FinishedDeck, DecksAreListed DEF Listed, Opening
<1> HIDE DEF n, m, S, T
<1>2. IsFiniteSet(1 .. n) /\ IsFiniteSet(1 .. m)
  BY <1>1, FS_Interval
<1>3. IsFiniteSet(S) /\ IsFiniteSet(T)
  BY <1>1, <1>2, FS_Subset
<1> QED BY <1>3 DEF S, T

\* Where a block that opens a name comes from.
FromBlocks(i, name) == i = 1 /\ Off = 1 /\ name \in params.blocks
FromSection(i, name) == \E j \in Opening(name) : i = Off + j
FromDefault(i, name) == ~Given(name) /\ deck[i].from = "default" /\ deck[i].name = name
FromSets(name) == GivenRaw(name) /\ \E k \in DOMAIN params.sets : params.sets[k].section = name

LEMMA WhereOpened ==
    ASSUME FinishedInv, NEW name \in ToSet(Mandatory), NEW i \in DOMAIN deck, name \in deck[i].opens
    PROVE  FromBlocks(i, name) \/ FromSection(i, name) \/ FromDefault(i, name) \/ FromSets(name)
<1>1. CASE i = 1 /\ Off = 1 /\ OfBlocks(deck[i])
  BY <1>1 DEF OfBlocks, FromBlocks
<1>2. CASE \E j \in DOMAIN params.sections : i = Off + j /\ OfSection(deck[i], params.sections[j])
  <2>1. PICK j \in DOMAIN params.sections : i = Off + j /\ OfSection(deck[i], params.sections[j])
    BY <1>2
  <2>2. j \in Opening(name)
    BY <2>1 DEF OfSection, Opening
  <2> QED BY <2>1, <2>2 DEF FromSection
<1>3. CASE OfDefault(deck[i])
  BY <1>3 DEF OfDefault, FromDefault
<1>4. CASE OfSets(deck[i])
  BY <1>4 DEF OfSets, FromSets
<1> QED BY <1>1, <1>2, <1>3, <1>4, BlockKinds, FinishedDeck

LEMMA TwoOpenings ==
    ASSUME FinishedInv, NEW name, NEW i \in Opening(name),
           name \in params.blocks \/ \E j \in Opening(name) : i # j
    PROVE  OpenedTwice(name)
<1> DEFINE S == Opening(name)
           c == IF name \in params.blocks THEN 1 ELSE 0
<1>1. IsFiniteSet(S) /\ i \in S /\ (name \in params.blocks \/ \E j \in S : i # j)
  BY OpeningsAreFinite
<1>2. c \in Nat /\ (name \in params.blocks => c = 1)
  OBVIOUS
<1> HIDE DEF S, c
<1>3. Cardinality(S) \in Nat /\ Cardinality(S) # 0
  BY <1>1, FS_CardinalityType, FS_EmptySet
<1>4. CASE name \in params.blocks
  <2>1. Cardinality(S) + c > 1
    BY <1>2, <1>3, <1>4
  <2> QED BY <2>1, OpenedTwiceSays DEF S, c
<1>5. CASE \E j \in S : i # j
  <2>1. ~(Cardinality(S) <= 1)
    <3> SUFFICES ASSUME Cardinality(S) <= 1 PROVE FALSE
      OBVIOUS
    <3>1. S = {i}
      BY <1>1, AtMostOne
    <3> QED BY <1>5, <3>1
  <2>2. Cardinality(S) + c > 1
    BY <1>2, <1>3, <2>1
  <2> QED BY <2>2, OpenedTwiceSays DEF S, c
<1> QED BY <1>1, <1>4, <1>5

LEMMA TakesSets ==
    ASSUME NEW name, FromSets(name)
    PROVE  OpenedTwice(name)
<1>1. name \in params.blocks \/ \E i \in Opening(name) : params.sections[i].kind = "raw"
  BY DEF FromSets, GivenRaw, Opening
<1> QED BY <1>1, OpenedTwiceSays DEF FromSets

\* A section opens the name, or is a generic one and does not count.
LEMMA OpeningIsGiven ==
    ASSUME FinishedInv, NEW name, NEW j \in Opening(name), ~Given(name)
    PROVE  OpenedTwice(name) \/ params.sections[j].kind = "unknown"
<1>1. SectionTyped(params.sections[j]) /\ j \in DOMAIN params.sections
  BY FinishedDeck DEF Opening
<1>2. params.sections[j].kind \notin {"raw", "typed"}
  BY DEF Opening, Given, Opens
<1>3. params.sections[j].kind \in {"generic", "unknown"}
  BY <1>1, <1>2 DEF SectionTyped
<1> QED BY <1>3, OpenedTwiceSays

LEMMA NothingUnknown ==
    ASSUME FinishedInv, NEW j \in DOMAIN params.sections
    PROVE  params.sections[j].kind # "unknown"
<1>1. j \in 1 .. at - 1
  BY FinishedDeck DEF Listed
<1>2. OfSection(deck[Off + j], params.sections[j])
  BY <1>1, FinishedDeck DEF Layout
<1> QED BY <1>2 DEF OfSection

LEMMA OpenedOnce ==
    ASSUME FinishedInv, NEW name \in ToSet(Mandatory), ~OpenedTwice(name),
           NEW i \in DOMAIN deck, NEW j \in DOMAIN deck, name \in deck[i].opens, name \in deck[j].opens
    PROVE  i = j
<1>1. ~FromSets(name)
  BY TakesSets
<1>2. \A l \in Opening(name) : Given(name) /\ name \notin params.blocks /\ \A k \in Opening(name) : k = l
  <2> SUFFICES ASSUME NEW l \in Opening(name)
               PROVE  Given(name) /\ name \notin params.blocks /\ \A k \in Opening(name) : k = l
    OBVIOUS
  <2>1. Given(name)
    BY OpeningIsGiven, NothingUnknown DEF Opening
  <2> QED BY <2>1, TwoOpenings
<1>3. name \in params.blocks => Given(name)
  BY DEF Given
<1>4. FromBlocks(i, name) \/ FromSection(i, name) \/ FromDefault(i, name)
  BY <1>1, WhereOpened
<1>5. FromBlocks(j, name) \/ FromSection(j, name) \/ FromDefault(j, name)
  BY <1>1, WhereOpened
<1>6. CASE FromBlocks(i, name)
  BY <1>2, <1>3, <1>5, <1>6 DEF FromBlocks, FromSection, FromDefault
<1>7. CASE FromSection(i, name)
  <2>1. FromSection(j, name)
    BY <1>2, <1>5, <1>7 DEF FromBlocks, FromSection, FromDefault
  <2> QED BY <1>2, <1>7, <2>1 DEF FromSection
<1>8. CASE FromDefault(i, name)
  <2>1. FromDefault(j, name)
    BY <1>2, <1>3, <1>5, <1>8 DEF FromBlocks, FromSection, FromDefault
  <2> QED BY <1>8, <2>1, FinishedDeck DEF FromDefault, Noted
<1> QED BY <1>4, <1>6, <1>7, <1>8

LEMMA SectionsAreThere == FinishedInv => SectionsOnce
<1> SUFFICES ASSUME FinishedInv, NEW name \in ToSet(Mandatory)
             PROVE  Openings(name) >= 1 /\ (Openings(name) > 1 => OpenedTwice(name))
  BY DEF SectionsOnce
<1> DEFINE T == {i \in DOMAIN deck : name \in deck[i].opens}
<1>1. T # {}
  <2>1. at # 0
    BY FinishedDeck DEF Listed
  <2> QED BY <2>1, FinishedDeck DEF Noted
<1>2. IsFiniteSet(T)
  BY OpeningsAreFinite
<1>3. ~OpenedTwice(name) => \E i : T = {i}
  <2> SUFFICES ASSUME ~OpenedTwice(name) PROVE \E i : T = {i}
    OBVIOUS
  <2>1. \A i, j \in T : i = j
    BY OpenedOnce
  <2>2. PICK i \in T : TRUE
    BY <1>1
  <2> HIDE DEF T
  <2>3. T = {i}
    BY <2>1, <2>2
  <2> QED BY <2>3
<1>4. Openings(name) = Cardinality(T)
  BY DEF Openings
<1> HIDE DEF T
<1>5. Cardinality(T) \in Nat /\ Cardinality(T) # 0
  BY <1>1, <1>2, FS_CardinalityType, FS_EmptySet
<1>6. ~OpenedTwice(name) => Cardinality(T) = 1
  BY <1>3, FS_Singleton
<1> QED BY <1>4, <1>5, <1>6

-----------------------------------------------------------------------------
(* The atoms *)

LEMMA CoveredUpToDefined ==
    ASSUME NEW printed, Len(printed) \in Nat
    PROVE  \A n \in 0 .. Len(printed) :
             CoveredUpTo(printed)[n] = IF n = 0 THEN 0
                                       ELSE CoveredUpTo(printed)[n - 1] + Cardinality(printed[n])
<1> DEFINE Is(f, m) == f = [n \in 0 .. m |-> IF n = 0 THEN 0 ELSE f[n - 1] + Cardinality(printed[n])]
           S == {m \in Nat : \E f : Is(f, m)}
<1>1. 0 \in S
  <2>1. Is([n \in 0 .. 0 |-> 0], 0)
    OBVIOUS
  <2> QED BY <2>1
<1>2. ASSUME NEW m \in Nat, m \in S
      PROVE  m + 1 \in S
  <2>1. PICK f : Is(f, m)
    BY <1>2
  <2> DEFINE g == [n \in 0 .. m + 1 |-> IF n <= m THEN f[n] ELSE f[m] + Cardinality(printed[m + 1])]
  <2>2. \A n \in 0 .. m : n \in 0 .. m + 1 /\ n <= m /\ (n # 0 => n - 1 \in 0 .. m)
    OBVIOUS
  <2>3. \A n \in 0 .. m : f[n] = IF n = 0 THEN 0 ELSE f[n - 1] + Cardinality(printed[n])
    BY <2>1
  <2>4. \A n \in 0 .. m : g[n] = f[n]
    BY <2>2
  <2>5. g[m + 1] = f[m] + Cardinality(printed[m + 1])
    OBVIOUS
  <2>6. DOMAIN g = 0 .. m + 1 /\ g = [n \in 0 .. m + 1 |-> g[n]]
    OBVIOUS
  <2> HIDE DEF g
  <2>7. \A n \in 0 .. m + 1 : g[n] = IF n = 0 THEN 0 ELSE g[n - 1] + Cardinality(printed[n])
    <3> SUFFICES ASSUME NEW n \in 0 .. m + 1
                 PROVE  g[n] = IF n = 0 THEN 0 ELSE g[n - 1] + Cardinality(printed[n])
      OBVIOUS
    <3>1. CASE n = m + 1
      <4>1. n # 0 /\ n - 1 = m /\ m \in 0 .. m
        BY <3>1
      <4> QED BY <2>4, <2>5, <3>1, <4>1
    <3>2. CASE n # m + 1
      <4>1. n \in 0 .. m
        BY <3>2
      <4> QED BY <2>2, <2>3, <2>4, <4>1
    <3> QED BY <3>1, <3>2
  <2>8. Is(g, m + 1)
    BY <2>6, <2>7
  <2> QED BY <2>8
<1>3. Nat \subseteq S
  <2> HIDE DEF S
  <2> QED BY <1>1, <1>2, Induction
<1>4. PICK f : Is(f, Len(printed))
  BY <1>3
<1>5. Is(CoveredUpTo(printed), Len(printed))
  BY <1>4, Zenon DEF CoveredUpTo
<1> QED BY <1>5

\* What covered counts when no species has an atom of another one.
LEMMA CoveredIsCounted ==
    ASSUME NEW printed, Len(printed) \in Nat, NEW A, IsFiniteSet(A),
           \A i \in 1 .. Len(printed) : printed[i] \subseteq A,
           \A i, j \in 1 .. Len(printed) : i # j => printed[i] \cap printed[j] = {}
    PROVE  Covered(printed) = Cardinality({x \in A : \E i \in 1 .. Len(printed) : x \in printed[i]})
<1> DEFINE U(n) == {x \in A : \E i \in 1 .. n : x \in printed[i]}
           c == CoveredUpTo(printed)
           l == Len(printed)
           S == {n \in Nat : n <= l => c[n] = Cardinality(U(n))}
<1>1. \A n \in 0 .. l : c[n] = IF n = 0 THEN 0 ELSE c[n - 1] + Cardinality(printed[n])
  BY CoveredUpToDefined
<1>2. l \in Nat
  OBVIOUS
<1> HIDE DEF c, l
<1>3. 0 \in S
  <2>1. c[0] = 0
    BY <1>1, <1>2
  <2>2. U(0) = {}
    OBVIOUS
  <2>3. Cardinality(U(0)) = 0
    BY <2>2, FS_EmptySet
  <2> QED BY <2>1, <2>3
<1>4. ASSUME NEW n \in Nat, n \in S
      PROVE  n + 1 \in S
  <2> SUFFICES ASSUME n + 1 <= l PROVE c[n + 1] = Cardinality(U(n + 1))
    OBVIOUS
  <2> DEFINE m == n + 1
             P == printed[m]
             V == U(n)
             W == U(m)
  <2>1. m \in 0 .. l /\ m # 0 /\ m - 1 = n /\ m \in 1 .. l /\ n <= l
    BY <1>2
  <2>2. c[n] = Cardinality(V)
    BY <1>4, <2>1
  <2>3. P \subseteq A
    BY <2>1 DEF l
  <2>4. W = V \cup P
    <3>1. \A i : i \in 1 .. m <=> i \in 1 .. n \/ i = m
      OBVIOUS
    <3> HIDE DEF m
    <3> QED BY <2>3, <3>1
  <2>5. V \cap P = {}
    <3>1. \A i \in 1 .. n : i \in 1 .. l /\ i # m
      BY <1>2, <2>1
    <3> HIDE DEF m
    <3>2. \A i \in 1 .. n : printed[i] \cap printed[m] = {}
      BY <2>1, <3>1 DEF l
    <3> QED BY <3>2
  <2>6. V \in SUBSET A /\ P \in SUBSET A
    BY <2>3
  <2>7. c[m] = c[n] + Cardinality(P)
    <3> HIDE DEF m, P
    <3>1. c[m] = c[m - 1] + Cardinality(printed[m])
      BY <1>1, <2>1
    <3> QED BY <2>1, <3>1 DEF P
  <2> HIDE DEF P, V, W
  <2>8. IsFiniteSet(V) /\ IsFiniteSet(P)
    BY <2>6, FS_Subset
  <2>9. Cardinality(V \cup P) = Cardinality(V) + Cardinality(P) - Cardinality(V \cap P)
    BY <2>8, FS_Union
  <2>10. Cardinality(V \cap P) = 0
    BY <2>5, FS_EmptySet
  <2>11. Cardinality(V) \in Nat /\ Cardinality(P) \in Nat
    BY <2>8, FS_CardinalityType
  <2>12. Cardinality(V \cup P) = Cardinality(V) + Cardinality(P)
    BY <2>9, <2>10, <2>11
  <2> QED BY <2>2, <2>4, <2>7, <2>12 DEF W
<1>5. Nat \subseteq S
  <2> HIDE DEF S
  <2> QED BY <1>3, <1>4, Induction
<1>6. c[l] = Cardinality(U(l))
  BY <1>2, <1>5
<1> QED BY <1>6 DEF Covered, c, l

\* Each atom is printed once, where no element has two pseudopotentials.
LEMMA AtomsPrintedOnce ==
    ASSUME TypeInv, geom # None, NEW psps \in Seq(STRING), IsInjective(psps), ~AtomsRefused(psps),
           NEW j \in DOMAIN geom.atoms
    PROVE  Cardinality({i \in DOMAIN AtomsPrinted(psps) : j \in AtomsPrinted(psps)[i]}) = 1
<1> DEFINE species == SpeciesOf(psps)
           printed == AtomsPrinted(psps)
           A == DOMAIN geom.atoms
           n == Len(geom.atoms)
           U == {x \in A : \E i \in 1 .. Len(printed) : x \in printed[i]}
<1>1. n \in Nat /\ A = 1 .. n
  <2>1. geom.atoms \in Seq(STRING)
    BY InputsTyped DEF TypeInv, TypeOK
  <2> QED BY <2>1, LenProperties
<1>2. IsFiniteSet(A) /\ Cardinality(A) = n
  <2> HIDE DEF A, n
  <2>1. IsFiniteSet(1 .. n) /\ Cardinality(1 .. n) = n
    BY <1>1, FS_Interval
  <2> QED BY <1>1, <2>1
<1>3. IsInjective(species) /\ DOMAIN species = 1 .. Len(species) /\ Len(species) \in Nat
  <2>1. CASE psps = << >>
    <3> DEFINE two == <<"O", "H">>
    <3>1. species = two
      BY <2>1 DEF SpeciesOf
    <3>2. Len(two) = 2 /\ DOMAIN two = 1 .. 2 /\ two[1] # two[2]
      OBVIOUS
    <3>3. \A i \in 1 .. 2 : i = 1 \/ i = 2
      OBVIOUS
    <3> HIDE DEF two
    <3>4. IsInjective(two)
      BY <3>2, <3>3 DEF IsInjective
    <3> QED BY <3>1, <3>2, <3>4
  <2>2. CASE psps # << >>
    <3>1. species = psps
      BY <2>2 DEF SpeciesOf
    <3> QED BY <3>1, LenProperties
  <2> QED BY <2>1, <2>2
<1>4. DOMAIN printed = DOMAIN species /\ \A i \in DOMAIN species : printed[i] = AtomsOf(species[i])
  BY DEF AtomsPrinted
<1> HIDE DEF species
<1>5. Len(printed) \in Nat /\ DOMAIN printed = 1 .. Len(printed)
  <2> DEFINE m == Len(species)
  <2>1. printed \in [1 .. m -> SUBSET A]
    BY <1>3 DEF AtomsPrinted, AtomsOf, species
  <2>2. m \in Nat
    BY <1>3
  <2> HIDE DEF m, printed, A
  <2>3. printed \in Seq(SUBSET A)
    BY <2>1, <2>2, SeqDef
  <2> QED BY <2>3, LenProperties
<1>6. \A i \in DOMAIN printed : printed[i] \subseteq A
  BY <1>4 DEF AtomsOf
<1>7. \A i, k \in DOMAIN printed : i # k => printed[i] \cap printed[k] = {}
  BY <1>3, <1>4 DEF AtomsOf, IsInjective
<1>8. Covered(printed) = n
  BY DEF AtomsRefused
<1> HIDE DEF printed, A, n
<1>9. Covered(printed) = Cardinality(U)
  <2>1. /\ \A i \in 1 .. Len(printed) : printed[i] \subseteq A
        /\ \A i, k \in 1 .. Len(printed) : i # k => printed[i] \cap printed[k] = {}
    BY <1>5, <1>6, <1>7
  <2> QED BY <1>2, <1>5, <2>1, CoveredIsCounted
<1>10. U = A
  <2>1. U \in SUBSET A /\ Cardinality(U) = Cardinality(A)
    BY <1>2, <1>8, <1>9
  <2> HIDE DEF U
  <2> QED BY <1>2, <2>1, FS_Subset
<1>11. PICK i \in DOMAIN printed : j \in printed[i]
  <2>1. j \in U
    BY <1>10 DEF A
  <2> QED BY <1>5, <2>1
<1> DEFINE T == {k \in DOMAIN printed : j \in printed[k]}
<1>12. T = {i}
  BY <1>7, <1>11
<1>13. Cardinality(T) = 1
  <2> HIDE DEF T
  <2> QED BY <1>12, FS_Singleton
<1> QED BY <1>13 DEF printed

LEMMA AtomsAreThere == FinishedInv => AtomsOnce
<1> SUFFICES ASSUME FinishedInv, geom # None, NEW b \in Ours("ATOMS"),
                    \A i \in Typed("ATOMS") : IsInjective(params.sections[i].psps),
                    NEW j \in DOMAIN geom.atoms
             PROVE  Cardinality({i \in DOMAIN b.body.atoms : j \in b.body.atoms[i]}) = 1
  BY DEF AtomsOnce
<1>1. \E psps \in Seq(STRING) : b.body = AtomsBody(psps) /\ ~AtomsRefused(psps) /\ IsInjective(psps)
  <2>1. CASE \E k \in Typed("ATOMS") : TypedSays(b.body, params.sections[k])
    <3>1. PICK k \in Typed("ATOMS") : TypedSays(b.body, params.sections[k])
      BY <2>1
    <3>2. /\ k \in DOMAIN params.sections /\ params.sections[k].name = "ATOMS"
          /\ params.sections[k].kind = "typed"
      BY DEF Typed, TypedIn
    <3> DEFINE psps == params.sections[k].psps
    <3>3. psps \in Seq(STRING)
      BY <3>2, FinishedDeck DEF SectionTyped
    <3>4. b.body = AtomsBody(psps) /\ ~AtomsRefused(psps)
      BY <3>1, <3>2 DEF TypedSays
    <3> QED BY <3>1, <3>3, <3>4
  <2>2. CASE DefaultSays(b.body, "ATOMS")
    <3>1. b.body = AtomsBody(<< >>) /\ ~AtomsRefused(<< >>)
      BY <2>2 DEF DefaultSays
    <3>2. << >> \in Seq(STRING) /\ IsInjective(<< >>)
      BY DEF IsInjective
    <3> QED BY <3>1, <3>2
  <2> QED BY <2>1, <2>2, OursSay
<1>2. PICK psps \in Seq(STRING) : b.body = AtomsBody(psps) /\ ~AtomsRefused(psps) /\ IsInjective(psps)
  BY <1>1
<1>3. b.body.atoms = AtomsPrinted(psps)
  BY <1>2 DEF AtomsBody
<1>4. TypeInv
  BY DEF FinishedInv
<1> QED BY <1>2, <1>3, <1>4, AtomsPrintedOnce

\* Every deck that is printed to its end has each set directive in one block
\* of its section, each section CPMD needs, once where the message does not
\* open it twice, and each atom once, whatever the buffer's size and however
\* often it was printed (DeckIsWhole).
THEOREM DecksAreWhole == Spec => []DeckIsWhole
<1>1. TypeInv /\ DeckInv => DeckIsWhole
  <2>1. CASE FinishedInv
    BY <2>1, SetsLand, SectionsAreThere, AtomsAreThere DEF DeckIsWhole
  <2>2. CASE ~Shown
    BY <2>2 DEF DeckIsWhole, SetsLandOnce, SectionsOnce, AtomsOnce
  <2> QED BY <2>1, <2>2 DEF FinishedInv
<1> QED BY <1>1, InitTypes, InitDeck, TypesAreInductive, DeckIsInductive, PTL DEF Spec
=============================================================================
