---------------------------- MODULE ColdDeck_proofs ----------------------------
(***************************************************************************)
(* Theorems about ColdDeck, for any decks of an image, any atoms and boxes *)
(* of a call and any pseudopotential table.                                *)
(***************************************************************************)
EXTENDS ColdDeck, FiniteSetTheorems, SequenceTheorems, WellFoundedInduction, TLAPS

-----------------------------------------------------------------------------
(* Numbers *)

LEMMA LeastNat ==
    ASSUME NEW S \in SUBSET Nat, S # {}
    PROVE  \E x \in S : \A y \in S : x <= y
<1>1. PICK x \in S : \A y \in S : ~(<<y, x>> \in OpToRel(<, Nat))
  BY NatLessThanWellFounded, WFMin
<1>2. \A y \in S : ~(y < x)
  BY <1>1 DEF OpToRel
<1> QED BY <1>2

\* Induction, with the set of numbers that have the property.
LEMMA InductionOverNat ==
    ASSUME NEW S, 0 \in S, \A n \in Nat : n \in S => n + 1 \in S
    PROVE  Nat \subseteq S
<1> SUFFICES ASSUME Nat \ S # {} PROVE FALSE
  OBVIOUS
<1>1. PICK x \in Nat \ S : \A y \in Nat \ S : x <= y
  BY LeastNat
<1>2. x - 1 \in Nat /\ ~(x <= x - 1)
  BY <1>1
<1>3. x - 1 \in S
  BY <1>1, <1>2
<1> QED BY <1>1, <1>2, <1>3

-----------------------------------------------------------------------------
(* The two recursive functions *)

LEMMA SpeciesUpToDefined ==
    ASSUME Len(call.atoms) \in Nat
    PROVE  \A n \in 0 .. Len(call.atoms) :
             SpeciesUpTo[n] = IF n = 0 THEN << >>
                              ELSE AddElement(SpeciesUpTo[n - 1], call.atoms[n])
<1> DEFINE Is(f, m) == f = [n \in 0 .. m |-> IF n = 0 THEN << >>
                                            ELSE AddElement(f[n - 1], call.atoms[n])]
           S == {m \in Nat : \E f : Is(f, m)}
<1>1. 0 \in S
  <2>1. Is([n \in 0 .. 0 |-> << >>], 0)
    OBVIOUS
  <2> QED BY <2>1
<1>2. ASSUME NEW m \in Nat, m \in S
      PROVE  m + 1 \in S
  <2>1. PICK f : Is(f, m)
    BY <1>2
  <2> DEFINE g == [n \in 0 .. m + 1 |-> IF n <= m THEN f[n]
                                        ELSE AddElement(f[m], call.atoms[m + 1])]
  <2>2. \A n \in 0 .. m : n \in 0 .. m + 1 /\ n <= m /\ (n # 0 => n - 1 \in 0 .. m)
    OBVIOUS
  <2>3. \A n \in 0 .. m : f[n] = IF n = 0 THEN << >> ELSE AddElement(f[n - 1], call.atoms[n])
    BY <2>1
  <2>4. \A n \in 0 .. m : g[n] = f[n]
    BY <2>2
  <2>5. g[m + 1] = AddElement(f[m], call.atoms[m + 1])
    OBVIOUS
  <2>6. DOMAIN g = 0 .. m + 1 /\ g = [n \in 0 .. m + 1 |-> g[n]]
    OBVIOUS
  <2> HIDE DEF g
  <2>7. \A n \in 0 .. m + 1 : g[n] = IF n = 0 THEN << >>
                                     ELSE AddElement(g[n - 1], call.atoms[n])
    <3> SUFFICES ASSUME NEW n \in 0 .. m + 1
                 PROVE  g[n] = IF n = 0 THEN << >> ELSE AddElement(g[n - 1], call.atoms[n])
      OBVIOUS
    <3>1. CASE n = m + 1
      <4>1. n # 0 /\ n - 1 = m /\ m \in 0 .. m
        BY <3>1
      <4> QED BY <2>4, <2>5, <3>1, <4>1
    <3>2. CASE n # m + 1
      <4>1. n \in 0 .. m
        BY <3>2
      <4> QED BY <2>2, <2>3, <2>4, <4>1
    <3> QED BY <3>1, <3>2
  <2>8. Is(g, m + 1)
    BY <2>6, <2>7
  <2> QED BY <2>8
<1>3. Nat \subseteq S
  <2> HIDE DEF S
  <2> QED BY <1>1, <1>2, InductionOverNat
<1>4. PICK f : Is(f, Len(call.atoms))
  BY <1>3
<1>5. Is(SpeciesUpTo, Len(call.atoms))
  BY <1>4, Zenon DEF SpeciesUpTo
<1> QED BY <1>5

LEMMA CopiedUpToDefined ==
    ASSUME NEW lines, Len(lines) \in Nat
    PROVE  \A n \in 0 .. Len(lines) :
             CopiedUpTo(lines)[n] = IF n = 0 THEN Copied(<< >>, 0)
                              ELSE CopyLine(CopiedUpTo(lines)[n - 1], lines[n])
<1> DEFINE Is(f, m) == f = [n \in 0 .. m |-> IF n = 0 THEN Copied(<< >>, 0)
                                            ELSE CopyLine(f[n - 1], lines[n])]
           S == {m \in Nat : \E f : Is(f, m)}
<1>1. 0 \in S
  <2>1. Is([n \in 0 .. 0 |-> Copied(<< >>, 0)], 0)
    OBVIOUS
  <2> QED BY <2>1
<1>2. ASSUME NEW m \in Nat, m \in S
      PROVE  m + 1 \in S
  <2>1. PICK f : Is(f, m)
    BY <1>2
  <2> DEFINE g == [n \in 0 .. m + 1 |-> IF n <= m THEN f[n]
                                        ELSE CopyLine(f[m], lines[m + 1])]
  <2>2. \A n \in 0 .. m : n \in 0 .. m + 1 /\ n <= m /\ (n # 0 => n - 1 \in 0 .. m)
    OBVIOUS
  <2>3. \A n \in 0 .. m : f[n] = IF n = 0 THEN Copied(<< >>, 0) ELSE CopyLine(f[n - 1], lines[n])
    BY <2>1
  <2>4. \A n \in 0 .. m : g[n] = f[n]
    BY <2>2
  <2>5. g[m + 1] = CopyLine(f[m], lines[m + 1])
    OBVIOUS
  <2>6. DOMAIN g = 0 .. m + 1 /\ g = [n \in 0 .. m + 1 |-> g[n]]
    OBVIOUS
  <2> HIDE DEF g
  <2>7. \A n \in 0 .. m + 1 : g[n] = IF n = 0 THEN Copied(<< >>, 0)
                                     ELSE CopyLine(g[n - 1], lines[n])
    <3> SUFFICES ASSUME NEW n \in 0 .. m + 1
                 PROVE  g[n] = IF n = 0 THEN Copied(<< >>, 0) ELSE CopyLine(g[n - 1], lines[n])
      OBVIOUS
    <3>1. CASE n = m + 1
      <4>1. n # 0 /\ n - 1 = m /\ m \in 0 .. m
        BY <3>1
      <4> QED BY <2>4, <2>5, <3>1, <4>1
    <3>2. CASE n # m + 1
      <4>1. n \in 0 .. m
        BY <3>2
      <4> QED BY <2>2, <2>3, <2>4, <4>1
    <3> QED BY <3>1, <3>2
  <2>8. Is(g, m + 1)
    BY <2>6, <2>7
  <2> QED BY <2>8
<1>3. Nat \subseteq S
  <2> HIDE DEF S
  <2> QED BY <1>1, <1>2, InductionOverNat
<1>4. PICK f : Is(f, Len(lines))
  BY <1>3
<1>5. Is(CopiedUpTo(lines), Len(lines))
  BY <1>4, Zenon DEF CopiedUpTo
<1> QED BY <1>5

-----------------------------------------------------------------------------
(* The atoms *)

LEMMA ToSetIs ==
    ASSUME NEW s
    PROVE  \A x : x \in ToSet(s) <=> \E i \in DOMAIN s : s[i] = x
BY DEF ToSet

LEMMA CallIs ==
    ASSUME call \in Calls
    PROVE  /\ call.atoms \in Seq(Texts) /\ Len(call.atoms) \in Nat
           /\ DOMAIN call.atoms = 1 .. Len(call.atoms)
           /\ call.box \in {None} \cup Boxes
BY CallsAreArrays

\* Each element of the call, once.
LEMMA SpeciesFacts ==
    ASSUME call \in Calls
    PROVE  /\ Species \in Seq(Texts)
           /\ \A i, j \in DOMAIN Species : Species[i] = Species[j] => i = j
           /\ ToSet(Species) = ToSet(call.atoms)
<1> DEFINE atoms == call.atoms
           Good(n) == LET s == SpeciesUpTo[n]
                      IN  /\ s \in Seq(Texts)
                          /\ \A i, j \in DOMAIN s : s[i] = s[j] => i = j
                          /\ \A x : x \in ToSet(s) <=> \E i \in 1 .. n : atoms[i] = x
           S == {n \in Nat : n <= Len(atoms) => Good(n)}
<1>1. atoms \in Seq(Texts) /\ Len(atoms) \in Nat /\ DOMAIN atoms = 1 .. Len(atoms)
  BY CallIs
<1>2. \A n \in 0 .. Len(atoms) :
        SpeciesUpTo[n] = IF n = 0 THEN << >> ELSE AddElement(SpeciesUpTo[n - 1], atoms[n])
  BY <1>1, SpeciesUpToDefined
<1>3. 0 \in S
  <2>1. SpeciesUpTo[0] = << >>
    BY <1>1, <1>2
  <2>2. << >> \in Seq(Texts) /\ DOMAIN << >> = {} /\ 1 .. 0 = {}
    OBVIOUS
  <2>3. Good(0)
    BY <2>1, <2>2, ToSetIs
  <2> QED BY <2>3
<1>4. ASSUME NEW n \in Nat, n \in S
      PROVE  n + 1 \in S
  <2> SUFFICES ASSUME n + 1 <= Len(atoms) PROVE Good(n + 1)
    OBVIOUS
  <2> DEFINE s == SpeciesUpTo[n]
             t == SpeciesUpTo[n + 1]
             z == atoms[n + 1]
  <2>1. n <= Len(atoms) /\ n + 1 \in 0 .. Len(atoms) /\ n + 1 # 0 /\ (n + 1) - 1 = n
    BY <1>1
  <2>2. Good(n)
    BY <1>4, <2>1
  <2>3. t = AddElement(s, z) /\ z \in Texts
    BY <1>1, <1>2, <2>1
  <2>4. s \in Seq(Texts) /\ DOMAIN s = 1 .. Len(s) /\ Len(s) \in Nat
    BY <2>2
  <2>5. \A i, j \in DOMAIN s : s[i] = s[j] => i = j
    BY <2>2
  <2>6. \A x : x \in ToSet(s) <=> \E i \in 1 .. n : atoms[i] = x
    BY <2>2
  <2>7. \A x : (\E i \in 1 .. n + 1 : atoms[i] = x) <=> (\E i \in 1 .. n : atoms[i] = x) \/ x = z
    <3>1. \A i \in 1 .. n + 1 : i \in 1 .. n \/ i = n + 1
      OBVIOUS
    <3>2. n + 1 \in 1 .. n + 1 /\ \A i \in 1 .. n : i \in 1 .. n + 1
      OBVIOUS
    <3> QED BY <3>1, <3>2
  <2> HIDE DEF s, t, z
  <2>8. CASE z \in ToSet(s)
    <3>1. t = s
      BY <2>3, <2>8 DEF AddElement
    <3> QED BY <2>4, <2>5, <2>6, <2>7, <2>8, <3>1 DEF t
  <2>9. CASE z \notin ToSet(s)
    <3>1. t = Append(s, z)
      BY <2>3, <2>9 DEF AddElement
    <3>2. /\ t \in Seq(Texts) /\ DOMAIN t = 1 .. Len(s) + 1
          /\ \A i \in 1 .. Len(s) : t[i] = s[i]
          /\ t[Len(s) + 1] = z
      BY <2>3, <2>4, <3>1
    <3>3. \A i \in DOMAIN t : i \in DOMAIN s \/ i = Len(s) + 1
      BY <2>4, <3>2
    <3>4. \A i \in DOMAIN s : s[i] # z /\ t[i] = s[i] /\ i \in DOMAIN t
      BY <2>4, <2>9, <3>2, ToSetIs
    <3>5. Len(s) + 1 \in DOMAIN t
      BY <2>4, <3>2
    <3>6. \A i, j \in DOMAIN t : t[i] = t[j] => i = j
      BY <2>5, <3>2, <3>3, <3>4
    <3>7. \A x : x \in ToSet(t) <=> x \in ToSet(s) \/ x = z
      BY <3>2, <3>3, <3>4, <3>5, ToSetIs
    <3> QED BY <2>6, <2>7, <3>2, <3>6, <3>7 DEF t
  <2> QED BY <2>8, <2>9
<1>5. Nat \subseteq S
  <2> HIDE DEF S
  <2> QED BY <1>3, <1>4, InductionOverNat
<1>6. Good(Len(atoms))
  <2> HIDE DEF Good
  <2>1. Len(atoms) \in S /\ Len(atoms) <= Len(atoms)
    BY <1>1, <1>5
  <2> QED BY <2>1
<1>7. ToSet(Species) = ToSet(atoms)
  <2>1. \A x : x \in ToSet(Species) <=> \E i \in 1 .. Len(atoms) : atoms[i] = x
    BY <1>6 DEF Species
  <2>2. \A x : x \in ToSet(Species) <=> x \in ToSet(atoms)
    BY <1>1, <2>1, ToSetIs
  <2> QED BY <2>2
<1> QED BY <1>6, <1>7 DEF Species

\* What &ATOMS is rebuilt with.
LEMMA BlocksFacts ==
    ASSUME call \in Calls, ~MissingPseudopotential
    PROVE  AtomsBlocks \in Seq(Blocks) /\ HasAtomsOfTheCall(AtomsBlocks)
<1>1. /\ Species \in Seq(Texts) /\ DOMAIN Species = 1 .. Len(Species) /\ Len(Species) \in Nat
      /\ \A i, j \in DOMAIN Species : Species[i] = Species[j] => i = j
      /\ ToSet(Species) = ToSet(call.atoms)
  BY SpeciesFacts
<1>2. \A z \in ToSet(call.atoms) : Pseudopotential(z) \in Sources
  BY ToSetIs DEF MissingPseudopotential, Pseudopotential, Sources
<1>3. \A z : Cardinality(AtomsOf(z)) \in Nat
  <2> SUFFICES ASSUME NEW z PROVE Cardinality(AtomsOf(z)) \in Nat
    OBVIOUS
  <2>1. 0 \in Int /\ 1 \in Int /\ Len(call.atoms) \in Int /\ DOMAIN call.atoms = 1 .. Len(call.atoms)
    BY CallIs
  <2>2. AtomsOf(z) \subseteq 1 .. Len(call.atoms)
    BY <2>1 DEF AtomsOf
  <2>3. IsFiniteSet(AtomsOf(z))
    BY <2>1, <2>2, FS_Interval, FS_Subset
  <2> QED BY <2>3, FS_CardinalityType
<1>4. \A i \in DOMAIN Species : Species[i] \in ToSet(call.atoms) /\ Species[i] \in Texts
  BY <1>1, ToSetIs
<1>5. /\ DOMAIN AtomsBlocks = DOMAIN Species
      /\ \A i \in DOMAIN Species :
            /\ AtomsBlocks[i].z = Species[i]
            /\ AtomsBlocks[i].pp = Pseudopotential(Species[i])
            /\ AtomsBlocks[i].count = Cardinality(AtomsOf(Species[i]))
            /\ AtomsBlocks[i] \in Blocks
  BY <1>2, <1>3, <1>4 DEF AtomsBlocks, Block, Blocks
<1>6. AtomsBlocks \in Seq(Blocks)
  BY <1>1, <1>5 DEF AtomsBlocks
<1>7. ASSUME NEW z \in ToSet(call.atoms)
      PROVE  \E i \in DOMAIN AtomsBlocks :
               /\ \A j \in DOMAIN AtomsBlocks : AtomsBlocks[j].z = z <=> j = i
               /\ AtomsBlocks[i].count = Cardinality(AtomsOf(z))
               /\ z \in MessagePps => AtomsBlocks[i].pp = "message"
  <2>1. PICK i \in DOMAIN Species : Species[i] = z
    BY <1>1, <1>7, ToSetIs
  <2>2. z \in MessagePps => Pseudopotential(z) = "message"
    BY DEF Pseudopotential
  <2> QED BY <1>1, <1>5, <2>1, <2>2
<1> QED BY <1>4, <1>5, <1>6, <1>7 DEF HasAtomsOfTheCall

-----------------------------------------------------------------------------
(* Lines *)

LEMMA Concatenation ==
    ASSUME NEW T, NEW s \in Seq(T), NEW t \in Seq(T)
    PROVE  /\ s \o t \in Seq(T)
           /\ DOMAIN s = 1 .. Len(s) /\ DOMAIN t = 1 .. Len(t)
           /\ Len(s) \in Nat /\ Len(t) \in Nat
           /\ DOMAIN (s \o t) = 1 .. Len(s) + Len(t) /\ Len(s \o t) = Len(s) + Len(t)
           /\ \A i \in 1 .. Len(s) : (s \o t)[i] = s[i]
           /\ \A i \in Len(s) + 1 .. Len(s) + Len(t) : (s \o t)[i] = t[i - Len(s)]
OBVIOUS

LEMMA OneInSequence ==
    ASSUME NEW T, NEW a \in T
    PROVE  <<a>> \in Seq(T) /\ Len(<<a>>) = 1 /\ <<a>>[1] = a
OBVIOUS

LEMMA FourInSequence ==
    ASSUME NEW T, NEW a \in T, NEW b \in T, NEW c \in T, NEW d \in T
    PROVE  /\ <<a>> \in Seq(T) /\ <<a, b>> \in Seq(T)
           /\ <<a, b, c, d>> \in Seq(T) /\ DOMAIN <<a, b, c, d>> = 1 .. 4
           /\ Len(<<a, b, c, d>>) = 4
OBVIOUS

LEMMA EightInSequence ==
    ASSUME NEW T, NEW a \in T, NEW b \in T, NEW c \in T, NEW d \in T,
           NEW e \in T, NEW f \in T, NEW g \in T, NEW h \in T
    PROVE  <<a, b, c, d, e, f, g, h>> \in Seq(T) /\ DOMAIN <<a, b, c, d, e, f, g, h>> = 1 .. 8
OBVIOUS

LEMMA WordIsLine ==
    ASSUME NEW w \in Texts
    PROVE  Word(w) \in Lines /\ Word(w).word = w
<1>1. << >> \in Seq(Texts)
  OBVIOUS
<1>2. Word(w) \in [word : Texts, data : Seq(Texts)] /\ Word(w).word = w
  BY <1>1 DEF Word
<1>3. IsLine(Word(w))
  BY <1>2 DEF IsLine
<1> QED BY <1>2, <1>3 DEF Lines

LEMMA DataIsLine ==
    ASSUME NEW d \in Seq(Texts), d # << >>
    PROVE  Data(d) \in Lines /\ Data(d).word = "" /\ Data(d).data = d
<1>1. "" \in Texts
  BY TextsOfTheCode
<1>2. Data(d) \in [word : Texts, data : Seq(Texts)] /\ Data(d).word = "" /\ Data(d).data = d
  BY <1>1 DEF Data
<1>3. IsLine(Data(d))
  BY <1>2 DEF IsLine
<1> QED BY <1>2, <1>3 DEF Lines

\* The second pass copies no keyword of a cell or a symmetry, and nothing but
\* lines of the deck; ANGSTROM is copied if no keyword takes it along.
LEMMA KeptFacts ==
    ASSUME NEW lines \in Seq(Lines)
    PROVE  /\ Kept(lines) \in Seq(Lines)
           /\ \A j \in DOMAIN Kept(lines) : Skipped(Kept(lines)[j]) = 0
           /\ \A j \in DOMAIN Kept(lines) : \E i \in DOMAIN lines : Kept(lines)[j] = lines[i]
           /\ (\A i \in DOMAIN lines : \A n \in 1 .. Skipped(lines[i]) :
                  i + n \in DOMAIN lines => lines[i + n].word # "ANGSTROM")
              => \A i \in DOMAIN lines : lines[i].word = "ANGSTROM" =>
                   \E j \in DOMAIN Kept(lines) : Kept(lines)[j].word = "ANGSTROM"
<1> DEFINE f == CopiedUpTo(lines)
           Free == \A i \in DOMAIN lines : \A n \in 1 .. Skipped(lines[i]) :
                     i + n \in DOMAIN lines => lines[i + n].word # "ANGSTROM"
           Good(n) ==
             /\ f[n].lines \in Seq(Lines) /\ f[n].skip \in Nat
             /\ \A j \in DOMAIN f[n].lines : Skipped(f[n].lines[j]) = 0
             /\ \A j \in DOMAIN f[n].lines : \E i \in DOMAIN lines : f[n].lines[j] = lines[i]
             /\ Free => \A m \in n + 1 .. n + f[n].skip :
                   m \in DOMAIN lines => lines[m].word # "ANGSTROM"
             /\ Free => \A i \in 1 .. n : lines[i].word = "ANGSTROM" =>
                   \E j \in DOMAIN f[n].lines : f[n].lines[j].word = "ANGSTROM"
           S == {n \in Nat : n <= Len(lines) => Good(n)}
<1>1. Len(lines) \in Nat /\ DOMAIN lines = 1 .. Len(lines)
  OBVIOUS
<1>2. \A n \in 0 .. Len(lines) :
        f[n] = IF n = 0 THEN Copied(<< >>, 0) ELSE CopyLine(f[n - 1], lines[n])
  BY <1>1, CopiedUpToDefined
<1> HIDE DEF f
<1>3. 0 \in S
  <2>1. f[0].lines = << >> /\ f[0].skip = 0
    BY <1>1, <1>2 DEF Copied
  <2>2. << >> \in Seq(Lines) /\ DOMAIN << >> = {} /\ 1 .. 0 = {}
    OBVIOUS
  <2>3. Good(0)
    BY <2>1, <2>2
  <2> QED BY <2>3
<1>4. ASSUME NEW n \in Nat, n \in S
      PROVE  n + 1 \in S
  <2> SUFFICES ASSUME n + 1 <= Len(lines) PROVE Good(n + 1)
    OBVIOUS
  <2> DEFINE kept == f[n].lines
             skip == f[n].skip
             line == lines[n + 1]
             new == f[n + 1]
  <2>1. n <= Len(lines) /\ n + 1 \in 0 .. Len(lines) /\ n + 1 # 0 /\ (n + 1) - 1 = n
        /\ n + 1 \in DOMAIN lines
    BY <1>1
  <2>2. Good(n)
    BY <1>4, <2>1
  <2>3. new = CopyLine(f[n], line) /\ line \in Lines
    BY <1>1, <1>2, <2>1
  <2>4. /\ kept \in Seq(Lines) /\ skip \in Nat
        /\ \A j \in DOMAIN kept : Skipped(kept[j]) = 0
        /\ \A j \in DOMAIN kept : \E i \in DOMAIN lines : kept[j] = lines[i]
    BY <2>2
  <2>5. Free => \A m \in n + 1 .. n + skip : m \in DOMAIN lines => lines[m].word # "ANGSTROM"
    BY <2>2
  <2>6. Free => \A i \in 1 .. n : lines[i].word = "ANGSTROM" =>
          \E j \in DOMAIN kept : kept[j].word = "ANGSTROM"
    BY <2>2
  <2>7. \A i \in 1 .. n + 1 : i \in 1 .. n \/ i = n + 1
    OBVIOUS
  <2>8. Skipped(line) \in Nat
    BY DEF Skipped
  <2> HIDE DEF kept, skip, line, new, Free
  <2>9. CASE skip > 0
    <3>1. new.lines = kept /\ new.skip = skip - 1
      BY <2>3, <2>9 DEF CopyLine, Copied, kept, skip
    <3>2. /\ skip - 1 \in Nat /\ n + 1 \in n + 1 .. n + skip
          /\ \A m \in (n + 1) + 1 .. (n + 1) + (skip - 1) : m \in n + 1 .. n + skip
      BY <2>4, <2>9
    <3>3. Free => \A i \in 1 .. n + 1 : lines[i].word = "ANGSTROM" =>
            \E j \in DOMAIN kept : kept[j].word = "ANGSTROM"
      BY <2>1, <2>5, <2>6, <2>7, <3>2
    <3> QED BY <2>4, <2>5, <3>1, <3>2, <3>3 DEF new
  <2>10. CASE ~(skip > 0) /\ Skipped(line) > 0
    <3>1. new.lines = kept /\ new.skip = Skipped(line)
      BY <2>3, <2>10 DEF CopyLine, Copied, kept, skip
    <3>2. line.word # "ANGSTROM"
      <4>1. line.word = "ANGSTROM" => Skipped(line) = 0
        BY DEF Skipped
      <4> QED BY <2>10, <4>1
    <3>3. Free => \A i \in 1 .. n + 1 : lines[i].word = "ANGSTROM" =>
            \E j \in DOMAIN kept : kept[j].word = "ANGSTROM"
      BY <2>6, <2>7, <3>2 DEF line
    <3>4. Free => \A m \in (n + 1) + 1 .. (n + 1) + Skipped(line) :
            m \in DOMAIN lines => lines[m].word # "ANGSTROM"
      <4> SUFFICES ASSUME Free, NEW m \in (n + 1) + 1 .. (n + 1) + Skipped(line), m \in DOMAIN lines
                   PROVE  lines[m].word # "ANGSTROM"
        OBVIOUS
      <4>1. m - (n + 1) \in 1 .. Skipped(line) /\ (n + 1) + (m - (n + 1)) = m
        <5> DEFINE k == Skipped(line)
        <5>1. k \in Nat /\ m \in (n + 1) + 1 .. (n + 1) + k
          BY <2>8
        <5> HIDE DEF k
        <5>2. m - (n + 1) \in 1 .. k /\ (n + 1) + (m - (n + 1)) = m
          BY <5>1
        <5> QED BY <5>2 DEF k
      <4> QED BY <2>1, <4>1 DEF Free, line
    <3> QED BY <2>4, <2>8, <3>1, <3>3, <3>4 DEF new
  <2>11. CASE ~(skip > 0) /\ ~(Skipped(line) > 0)
    <3>1. new.lines = Append(kept, line) /\ new.skip = 0
      BY <2>3, <2>11 DEF CopyLine, Copied, kept, skip
    <3>2. /\ new.lines \in Seq(Lines) /\ DOMAIN new.lines = 1 .. Len(kept) + 1
          /\ DOMAIN kept = 1 .. Len(kept) /\ Len(kept) \in Nat
          /\ \A j \in 1 .. Len(kept) : new.lines[j] = kept[j]
          /\ new.lines[Len(kept) + 1] = line
      BY <2>3, <2>4, <3>1
    <3>3. /\ \A j \in DOMAIN new.lines : j \in DOMAIN kept \/ j = Len(kept) + 1
          /\ Len(kept) + 1 \in DOMAIN new.lines
          /\ \A j \in DOMAIN kept : j \in DOMAIN new.lines /\ new.lines[j] = kept[j]
      BY <3>2
    <3>4. Skipped(line) = 0
      BY <2>8, <2>11
    <3>5. \A j \in DOMAIN new.lines : /\ Skipped(new.lines[j]) = 0
                                      /\ \E i \in DOMAIN lines : new.lines[j] = lines[i]
      BY <2>1, <2>4, <3>2, <3>3, <3>4 DEF line
    <3>6. Free => \A i \in 1 .. n + 1 : lines[i].word = "ANGSTROM" =>
            \E j \in DOMAIN new.lines : new.lines[j].word = "ANGSTROM"
      BY <2>6, <2>7, <3>2, <3>3 DEF line
    <3>7. \A m : m \notin (n + 1) + 1 .. (n + 1) + 0
      OBVIOUS
    <3> QED BY <3>1, <3>2, <3>5, <3>6, <3>7 DEF new
  <2> QED BY <2>9, <2>10, <2>11
<1>5. Nat \subseteq S
  <2> HIDE DEF S
  <2> QED BY <1>3, <1>4, InductionOverNat
<1>6. Good(Len(lines))
  <2> HIDE DEF Good
  <2>1. Len(lines) \in S /\ Len(lines) <= Len(lines)
    BY <1>1, <1>5
  <2> QED BY <2>1
<1>7. Kept(lines) = f[Len(lines)].lines
  BY DEF Kept, f
<1> QED BY <1>1, <1>6, <1>7

-----------------------------------------------------------------------------
(* The deck that is composed *)

LEMMA MinimalFacts ==
    ASSUME call \in Calls, ~MissingPseudopotential
    PROVE  Minimal \in Decks /\ AsRendered(Minimal) /\ Minimal.atoms = AtomsBlocks
<1> DEFINE l1 == Word("SYMMETRY")
           l2 == Data(<<"0">>)
           l3 == Word("ANGSTROM")
           l4 == Word("CELL")
           l5 == Data(<<"default", "Angstrom">>)
           l6 == Word("CUTOFF")
           l7 == Data(<<"70">>)
           l8 == Word("POISSON SOLVER")
           sys == <<l1, l2, l3, l4, l5, l6, l7, l8>>
<1>1. l1 \in Lines /\ l3 \in Lines /\ l4 \in Lines /\ l6 \in Lines /\ l8 \in Lines
  BY TextsOfTheCode, WordIsLine
<1>2. /\ <<"0">> \in Seq(Texts) /\ <<"default", "Angstrom">> \in Seq(Texts)
      /\ <<"70">> \in Seq(Texts)
  <2>1. "0" \in Texts /\ "70" \in Texts /\ "default" \in Texts /\ "Angstrom" \in Texts
    BY TextsOfTheCode
  <2> QED BY <2>1, FourInSequence
<1>3. l2 \in Lines /\ l5 \in Lines /\ l7 \in Lines
  BY <1>2, DataIsLine
<1>4. sys \in Seq(Lines) /\ DOMAIN sys = 1 .. 8
  <2> HIDE DEF l1, l2, l3, l4, l5, l6, l7, l8
  <2> QED BY <1>1, <1>3, EightInSequence
<1>5. /\ sys[1].word = "SYMMETRY" /\ sys[2].word = "" /\ sys[3].word = "ANGSTROM"
      /\ sys[4].word = "CELL" /\ sys[5].word = "" /\ sys[6].word = "CUTOFF"
      /\ sys[7].word = "" /\ sys[8].word = "POISSON SOLVER"
  BY DEF Word, Data
<1>6. /\ Minimal.system = sys /\ Minimal.elsewhere = {} /\ Minimal.atoms = AtomsBlocks
      /\ Minimal = [cpmd |-> {"MAXITER"}, elsewhere |-> {}, system |-> sys, atoms |-> AtomsBlocks]
  BY DEF Minimal
<1> HIDE DEF sys
<1>7. Minimal \in Decks
  <2>1. {"MAXITER"} \in SUBSET Texts /\ {} \in SUBSET Texts
    BY TextsOfTheCode
  <2>2. AtomsBlocks \in Seq(Blocks)
    BY BlocksFacts
  <2> QED BY <1>4, <1>6, <2>1, <2>2 DEF Decks
<1>8. \A i \in 1 .. 8 : i = 1 \/ i = 2 \/ i = 3 \/ i = 4 \/ i = 5 \/ i = 6 \/ i = 7 \/ i = 8
  OBVIOUS
<1>9. \A i \in 1 .. 8 : /\ sys[i].word = "SYMMETRY" => i = 1
                        /\ sys[i].word # "CELL VECTORS"
                        /\ sys[i].word = "ANGSTROM" => i = 3
  BY <1>5, <1>8
<1>10. HasOneSymmetry(Minimal) /\ \A i \in Places(Minimal, {"SYMMETRY"}) : i + 1 \in 1 .. 8
  <2>1. \A i \in Places(Minimal, {"SYMMETRY"}) : i = 1
    BY <1>4, <1>6, <1>9 DEF Places
  <2>2. "CELL VECTORS" \notin Words(Minimal)
    BY <1>4, <1>6, <1>9 DEF Words
  <2>3. 1 + 1 \in 1 .. 8
    OBVIOUS
  <2> QED BY <2>1, <2>2, <2>3 DEF HasOneSymmetry
<1>11. ASSUME NEW i \in 1 .. 8, NEW n \in 1 .. Skipped(sys[i]), i + n \in 1 .. 8
       PROVE  sys[i + n].word # "ANGSTROM"
  <2>1. Skipped(sys[i]) = IF i = 1 \/ i = 4 THEN 1 ELSE 0
    BY <1>5, <1>8 DEF Skipped
  <2>2. i + n # 3
    <3>1. CASE i = 1 \/ i = 4
      BY <2>1, <3>1
    <3>2. CASE ~(i = 1 \/ i = 4)
      BY <2>1, <3>2
    <3> QED BY <3>1, <3>2
  <2> QED BY <1>9, <1>11, <2>2
<1> QED BY <1>4, <1>6, <1>7, <1>10, <1>11 DEF AsRendered

LEMMA InputFacts ==
    ASSUME input \in Inputs, input # None, NEW atoms \in {None} \cup Seq(Blocks)
    PROVE  LET d == [input EXCEPT !.atoms = atoms]
           IN  /\ d \in Decks /\ d.atoms = atoms
               /\ d.system = input.system /\ d.elsewhere = input.elsewhere
<1>1. input \in [cpmd : SUBSET Texts, elsewhere : SUBSET Texts, system : Seq(Lines),
                atoms : MessageAtoms]
  BY InputsAreDecks
<1> QED BY <1>1 DEF Decks

-----------------------------------------------------------------------------
(* The symmetry of a deck *)

LEMMA SymmetryOfFacts ==
    ASSUME NEW d, d.system \in Seq(Lines), HasOneSymmetry(d)
    PROVE  /\ \A i \in Places(d, {"SYMMETRY"}) : SymmetryOf(d) = d.system[i + 1].data[1]
           /\ Places(d, {"SYMMETRY"}) = {} => SymmetryOf(d) = None
<1> DEFINE I == {i \in 1 .. Len(d.system) : d.system[i].word = "SYMMETRY"}
           at == SelectInSeq(d.system, LAMBDA line : line.word = "SYMMETRY")
<1>1. at = IF I # {} THEN Min(I) ELSE 0
  BY DEF SelectInSeq
<1>2. I = Places(d, {"SYMMETRY"})
  BY DEF Places
<1>3. SymmetryOf(d) = IF at = 0 THEN None ELSE d.system[at + 1].data[1]
  BY DEF SymmetryOf
<1>4. ASSUME NEW i \in I
      PROVE  at = i /\ i # 0
  <2>1. I = {i} /\ i \in Nat /\ i # 0
    <3>1. i \in 1 .. Len(d.system) /\ Len(d.system) \in Nat
      OBVIOUS
    <3> HIDE DEF I
    <3>2. \A j \in I : j = i
      <4>1. i \in Places(d, {"SYMMETRY"})
        BY <1>2, <1>4
      <4>2. \A j \in Places(d, {"SYMMETRY"}) : j = i
        BY <4>1 DEF HasOneSymmetry
      <4> QED BY <1>2, <4>2
    <3>3. i \in Nat /\ i # 0
      BY <3>1
    <3> QED BY <1>4, <3>2, <3>3
  <2> HIDE DEF I, at
  <2>2. Min({i}) = i
    BY <2>1 DEF Min
  <2> QED BY <1>1, <2>1, <2>2
<1> HIDE DEF at, I
<1> QED BY <1>1, <1>2, <1>3, <1>4

-----------------------------------------------------------------------------
(* The box of the call *)

LEMMA BoxLinesFacts ==
    ASSUME call \in Calls, BoxGiven, NEW d
    PROVE  /\ BoxLines(d) \in Seq(Lines) /\ DOMAIN BoxLines(d) = 1 .. 4 /\ Len(BoxLines(d)) = 4
           /\ Diagonal(call.box) =>
                 /\ BoxLines(d)[1].word = "SYMMETRY" /\ BoxLines(d)[2].word = ""
                 /\ BoxLines(d)[2].data[1] = SymmetryCode(d)
                 /\ BoxLines(d)[3].word = "CELL" /\ BoxLines(d)[4].word = ""
                 /\ BoxLines(d)[4].data = <<call.box, UnitOf(d)>>
           /\ ~Diagonal(call.box) =>
                 /\ BoxLines(d)[1].word = "CELL VECTORS" /\ BoxLines(d)[2].word = ""
                 /\ BoxLines(d)[3].word = "" /\ BoxLines(d)[4].word = ""
                 /\ BoxLines(d)[2].data = <<call.box, UnitOf(d)>>
<1> DEFINE box == Data(<<call.box, UnitOf(d)>>)
           code == Data(<<SymmetryCode(d)>>)
           sym == Word("SYMMETRY")
           cell == Word("CELL")
           vectors == Word("CELL VECTORS")
<1>1. call.box \in Texts /\ UnitOf(d) \in Texts /\ SymmetryCode(d) \in Texts
  BY CallIs, TextsOfTheCode DEF BoxGiven, Boxes, UnitOf, SymmetryCode
<1>2. <<call.box, UnitOf(d)>> \in Seq(Texts) /\ <<SymmetryCode(d)>> \in Seq(Texts)
  BY <1>1
<1>3. /\ box \in Lines /\ box.word = "" /\ box.data = <<call.box, UnitOf(d)>>
      /\ code \in Lines /\ code.word = "" /\ code.data[1] = SymmetryCode(d)
  <2>1. <<call.box, UnitOf(d)>> # << >> /\ <<SymmetryCode(d)>> # << >>
    OBVIOUS
  <2>2. code.data = <<SymmetryCode(d)>>
    BY <1>2, <2>1, DataIsLine
  <2>3. code.data[1] = SymmetryCode(d)
    BY <2>2
  <2>4. /\ box \in Lines /\ box.word = "" /\ box.data = <<call.box, UnitOf(d)>>
        /\ code \in Lines /\ code.word = ""
    BY <1>2, <2>1, DataIsLine
  <2> QED BY <2>3, <2>4
<1>4. /\ sym \in Lines /\ cell \in Lines /\ vectors \in Lines
      /\ sym.word = "SYMMETRY" /\ cell.word = "CELL" /\ vectors.word = "CELL VECTORS"
  BY TextsOfTheCode, WordIsLine
<1>5. BoxLines(d) = IF Diagonal(call.box) THEN <<sym, code, cell, box>>
                    ELSE <<vectors, box, box, box>>
  BY DEF BoxLines
<1> HIDE DEF box, code, sym, cell, vectors
<1>6. CASE Diagonal(call.box)
  <2>1. BoxLines(d) = <<sym, code, cell, box>>
    BY <1>5, <1>6
  <2>2. BoxLines(d) \in Seq(Lines) /\ DOMAIN BoxLines(d) = 1 .. 4 /\ Len(BoxLines(d)) = 4
    <3>1. box \in Lines /\ code \in Lines /\ sym \in Lines /\ cell \in Lines /\ vectors \in Lines
      BY <1>3, <1>4
    <3>2. LET b == <<sym, code, cell, box>>
          IN  b \in Seq(Lines) /\ DOMAIN b = 1 .. 4 /\ Len(b) = 4
      BY <3>1, FourInSequence
    <3> QED BY <2>1, <3>2
  <2>3. /\ BoxLines(d)[1] = sym /\ BoxLines(d)[2] = code
        /\ BoxLines(d)[3] = cell /\ BoxLines(d)[4] = box
    BY <2>1
  <2> QED BY <1>3, <1>4, <1>6, <2>2, <2>3
<1>7. CASE ~Diagonal(call.box)
  <2>1. BoxLines(d) = <<vectors, box, box, box>>
    BY <1>5, <1>7
  <2>2. BoxLines(d) \in Seq(Lines) /\ DOMAIN BoxLines(d) = 1 .. 4 /\ Len(BoxLines(d)) = 4
    <3>1. box \in Lines /\ code \in Lines /\ sym \in Lines /\ cell \in Lines /\ vectors \in Lines
      BY <1>3, <1>4
    <3>2. LET b == <<vectors, box, box, box>>
          IN  b \in Seq(Lines) /\ DOMAIN b = 1 .. 4 /\ Len(b) = 4
      BY <3>1, FourInSequence
    <3> QED BY <2>1, <3>2
  <2>3. /\ BoxLines(d)[1] = vectors /\ BoxLines(d)[2] = box
        /\ BoxLines(d)[3] = box /\ BoxLines(d)[4] = box
    BY <2>1
  <2> QED BY <1>3, <1>4, <1>7, <2>2, <2>3
<1> QED BY <1>6, <1>7

\* What the box of the call leaves: one cell, its own, in the deck's unit; and a
\* symmetry that fits it, or none.
LEMMA ImposedFacts ==
    ASSUME call \in Calls, BoxGiven, NEW d \in Decks
    PROVE  LET n == [d EXCEPT !.system = Kept(@) \o BoxLines(d)]
           IN  /\ n \in Decks /\ n.atoms = d.atoms
               /\ AsRendered(d) => HasCellOfTheCall(n)
               /\ HasOneSymmetry(n)
               /\ Diagonal(call.box) => SymmetryOf(n) = SymmetryCode(d) /\ "CELL VECTORS" \notin Words(n)
               /\ ~Diagonal(call.box) => SymmetryOf(n) = None
<1> DEFINE K == Kept(d.system)
           B == BoxLines(d)
           sys == K \o B
           n == [d EXCEPT !.system = Kept(@) \o BoxLines(d)]
           len == Len(K)
<1>1. d.system \in Seq(Lines)
  BY DEF Decks
<1>2. /\ K \in Seq(Lines) /\ B \in Seq(Lines) /\ Len(B) = 4
      /\ \A j \in DOMAIN K : K[j].word \notin {"CELL", "CELL VECTORS", "SYMMETRY"}
  <2>1. \A j \in DOMAIN K : Skipped(K[j]) = 0
    BY <1>1, KeptFacts
  <2>2. ASSUME NEW line
        PROVE  Skipped(line) = 0 => line.word \notin {"CELL", "CELL VECTORS", "SYMMETRY"}
    <3>1. line.word = "CELL VECTORS" => Skipped(line) = 3
      BY DEF Skipped
    <3>2. line.word \in {"CELL", "SYMMETRY"} => Skipped(line) = 1
      BY DEF Skipped
    <3>3. 3 # 0 /\ 1 # 0
      OBVIOUS
    <3> QED BY <3>1, <3>2, <3>3
  <2> QED BY <1>1, <2>1, <2>2, KeptFacts, BoxLinesFacts
<1>3. n = [d EXCEPT !.system = sys]
  OBVIOUS
<1> HIDE DEF K, B
<1>4. /\ sys \in Seq(Lines) /\ DOMAIN sys = 1 .. len + 4 /\ len \in Nat /\ DOMAIN K = 1 .. len
      /\ \A i \in 1 .. len : sys[i] = K[i]
      /\ sys[len + 1] = B[1] /\ sys[len + 2] = B[2] /\ sys[len + 3] = B[3] /\ sys[len + 4] = B[4]
  <2>1. /\ sys \in Seq(Lines) /\ DOMAIN sys = 1 .. len + 4 /\ len \in Nat /\ DOMAIN K = 1 .. len
        /\ \A i \in 1 .. len : sys[i] = K[i]
        /\ \A i \in len + 1 .. len + 4 : sys[i] = B[i - len]
    <3>1. /\ K \o B \in Seq(Lines) /\ DOMAIN K = 1 .. Len(K) /\ Len(K) \in Nat
          /\ DOMAIN (K \o B) = 1 .. Len(K) + Len(B)
          /\ \A i \in 1 .. Len(K) : (K \o B)[i] = K[i]
          /\ \A i \in Len(K) + 1 .. Len(K) + Len(B) : (K \o B)[i] = B[i - Len(K)]
      <4>1. K \in Seq(Lines) /\ B \in Seq(Lines)
        BY <1>2
      <4> QED BY <4>1, Concatenation
    <3> QED BY <1>2, <3>1
  <2> HIDE DEF sys, len
  <2>2. /\ len + 1 \in len + 1 .. len + 4 /\ len + 2 \in len + 1 .. len + 4
        /\ len + 3 \in len + 1 .. len + 4 /\ len + 4 \in len + 1 .. len + 4
        /\ (len + 1) - len = 1 /\ (len + 2) - len = 2 /\ (len + 3) - len = 3 /\ (len + 4) - len = 4
    BY <2>1
  <2> QED BY <2>1, <2>2
<1> HIDE DEF sys, n, len
<1>5. n \in Decks /\ n.system = sys /\ n.atoms = d.atoms /\ n.elsewhere = d.elsewhere
  BY <1>3, <1>4 DEF Decks
<1>6. \A i \in 1 .. len + 4 : \/ i \in 1 .. len
                             \/ i = len + 1 \/ i = len + 2 \/ i = len + 3 \/ i = len + 4
  BY <1>4
<1>7. /\ len + 1 \in 1 .. len + 4 /\ len + 2 \in 1 .. len + 4 /\ len + 3 \in 1 .. len + 4
      /\ len + 4 \in 1 .. len + 4 /\ (len + 1) + 1 = len + 2 /\ (len + 3) + 1 = len + 4
      /\ \A i \in 1 .. len : i \in 1 .. len + 4
  BY <1>4
<1>8. AsRendered(d) => ("ANGSTROM" \in Words(n) <=> "ANGSTROM" \in Words(d))
  <2> SUFFICES ASSUME AsRendered(d)
               PROVE  "ANGSTROM" \in Words(n) <=> "ANGSTROM" \in Words(d)
    OBVIOUS
  <2>1. \A i \in 1 .. len + 4 : sys[i].word = "ANGSTROM" => i \in 1 .. len
    BY <1>4, <1>6, BoxLinesFacts DEF B
  <2>2. \A j \in DOMAIN K : \E i \in DOMAIN d.system : K[j] = d.system[i]
    BY <1>1, KeptFacts DEF K
  <2>3. \A i \in DOMAIN d.system : d.system[i].word = "ANGSTROM" =>
          \E j \in DOMAIN K : K[j].word = "ANGSTROM"
    BY <1>1, KeptFacts DEF K, AsRendered
  <2>4. "ANGSTROM" \in Words(n) => "ANGSTROM" \in Words(d)
    BY <1>4, <1>5, <2>1, <2>2 DEF Words
  <2>5. "ANGSTROM" \in Words(d) => "ANGSTROM" \in Words(n)
    BY <1>4, <1>5, <1>7, <2>3 DEF Words
  <2> QED BY <2>4, <2>5
<1>9. AsRendered(d) => UnitOf(d) = IF "ANGSTROM" \in Words(n) THEN "Angstrom" ELSE "Bohr"
  BY <1>8 DEF UnitOf
<1>10. CASE Diagonal(call.box)
  <2>1. /\ B[1].word = "SYMMETRY" /\ B[2].word = "" /\ B[2].data[1] = SymmetryCode(d)
        /\ B[3].word = "CELL" /\ B[4].word = "" /\ B[4].data = <<call.box, UnitOf(d)>>
    BY <1>10, BoxLinesFacts DEF B
  <2>2. \A i \in 1 .. len + 4 : /\ sys[i].word \in {"CELL", "CELL VECTORS"} <=> i = len + 3
                                /\ sys[i].word = "SYMMETRY" <=> i = len + 1
                                /\ sys[i].word # "CELL VECTORS"
    BY <1>2, <1>4, <1>6, <2>1
  <2>3. /\ Places(n, {"CELL", "CELL VECTORS"}) = {len + 3}
        /\ Places(n, {"SYMMETRY"}) = {len + 1}
        /\ "CELL VECTORS" \notin Words(n)
    BY <1>4, <1>5, <1>7, <2>2 DEF Places, Words
  <2>4. HasOneSymmetry(n)
    BY <2>3 DEF HasOneSymmetry
  <2>5. SymmetryOf(n) = SymmetryCode(d)
    <3>1. SymmetryOf(n) = n.system[(len + 1) + 1].data[1]
      <4>1. n.system \in Seq(Lines) /\ len + 1 \in Places(n, {"SYMMETRY"})
        BY <1>4, <1>5, <2>3
      <4> QED BY <2>4, <4>1, SymmetryOfFacts
    <3> QED BY <1>4, <1>5, <1>7, <2>1, <3>1
  <2>6. AsRendered(d) => HasCellOfTheCall(n)
    <3>1. /\ len + 3 \in DOMAIN n.system /\ (len + 3) + 1 \in DOMAIN n.system
          /\ n.system[(len + 3) + 1].data = <<call.box, UnitOf(d)>>
      BY <1>4, <1>5, <1>7, <2>1
    <3> QED BY <1>9, <2>3, <3>1 DEF HasCellOfTheCall
  <2> QED BY <1>5, <1>10, <2>3, <2>4, <2>5, <2>6 DEF n
<1>11. CASE ~Diagonal(call.box)
  <2>1. /\ B[1].word = "CELL VECTORS" /\ B[2].word = "" /\ B[3].word = "" /\ B[4].word = ""
        /\ B[2].data = <<call.box, UnitOf(d)>>
    BY <1>11, BoxLinesFacts DEF B
  <2>2. \A i \in 1 .. len + 4 : /\ sys[i].word \in {"CELL", "CELL VECTORS"} <=> i = len + 1
                                /\ sys[i].word # "SYMMETRY"
    BY <1>2, <1>4, <1>6, <2>1
  <2>3. /\ Places(n, {"CELL", "CELL VECTORS"}) = {len + 1}
        /\ Places(n, {"SYMMETRY"}) = {} /\ "SYMMETRY" \notin Words(n)
    BY <1>4, <1>5, <1>7, <2>2 DEF Places, Words
  <2>4. HasOneSymmetry(n)
    BY <2>3 DEF HasOneSymmetry
  <2>5. SymmetryOf(n) = None
    <3>1. n.system \in Seq(Lines)
      BY <1>4, <1>5
    <3> QED BY <2>3, <2>4, <3>1, SymmetryOfFacts
  <2>6. AsRendered(d) => HasCellOfTheCall(n)
    <3>1. /\ len + 1 \in DOMAIN n.system /\ (len + 1) + 1 \in DOMAIN n.system
          /\ n.system[(len + 1) + 1].data = <<call.box, UnitOf(d)>>
      BY <1>4, <1>5, <1>7, <2>1
    <3> QED BY <1>9, <2>3, <3>1 DEF HasCellOfTheCall
  <2> QED BY <1>5, <1>11, <2>4, <2>5, <2>6 DEF n
<1> QED BY <1>10, <1>11

-----------------------------------------------------------------------------
(* No box, and the symmetry *)

\* Two lines put in after a line, or before the first.
Inserted(s, at, c, v) == SubSeq(s, 1, at) \o <<c, v>> \o SubSeq(s, at + 1, Len(s))

LEMMA InsertedLines ==
    ASSUME NEW s \in Seq(Lines), NEW at \in 0 .. Len(s), NEW c \in Lines, NEW v \in Lines
    PROVE  LET n == Inserted(s, at, c, v)
           IN  /\ n \in Seq(Lines) /\ DOMAIN n = 1 .. Len(s) + 2 /\ DOMAIN s = 1 .. Len(s)
               /\ Len(s) \in Nat
               /\ \A i \in 1 .. at : n[i] = s[i]
               /\ n[at + 1] = c /\ n[at + 2] = v
               /\ \A i \in at + 1 .. Len(s) : n[i + 2] = s[i]
<1> DEFINE A == SubSeq(s, 1, at)
           X == <<c, v>>
           Z == SubSeq(s, at + 1, Len(s))
           len == Len(s)
           n == Inserted(s, at, c, v)
<1>1. len \in Nat /\ at \in Nat /\ at <= len /\ DOMAIN s = 1 .. len
  OBVIOUS
<1>2. \A i \in 1 .. len : s[i] \in Lines
  BY <1>1
<1>3. A \in Seq(Lines) /\ Len(A) = at /\ \A i \in 1 .. at : A[i] = s[i]
  <2>1. A = [i \in 1 .. at |-> s[i]]
    BY <1>1
  <2>2. \A i \in 1 .. at : s[i] \in Lines
    BY <1>1, <1>2
  <2> HIDE DEF A
  <2> QED BY <1>1, <2>1, <2>2
<1>4. Z \in Seq(Lines) /\ Len(Z) = len - at /\ \A i \in 1 .. len - at : Z[i] = s[at + i]
  <2>1. Z = [i \in 1 .. len - at |-> s[at + i]]
    <3>1. Z = [i \in 1 .. len - (at + 1) + 1 |-> s[(at + 1) + i - 1]]
      BY <1>1
    <3>2. len - (at + 1) + 1 = len - at /\ \A i \in 1 .. len - at : (at + 1) + i - 1 = at + i
      BY <1>1
    <3> HIDE DEF Z, len
    <3> QED BY <3>1, <3>2
  <2> HIDE DEF len
  <2>2. \A i \in 1 .. len - at : s[at + i] \in Lines
    <3>1. \A i \in 1 .. len - at : at + i \in 1 .. len
      BY <1>1
    <3> QED BY <1>2, <3>1
  <2>3. len - at \in Nat
    BY <1>1
  <2> HIDE DEF Z
  <2> QED BY <2>1, <2>2, <2>3
<1>5. X \in Seq(Lines) /\ Len(X) = 2 /\ X[1] = c /\ X[2] = v
  OBVIOUS
<1> DEFINE AX == A \o X
<1>0. n = AX \o Z
  BY DEF Inserted
<1> HIDE DEF n
<1> HIDE DEF A, X, Z, len
<1>6. /\ AX \in Seq(Lines) /\ Len(AX) = at + 2
      /\ \A i \in 1 .. at : AX[i] = s[i]
      /\ AX[at + 1] = c /\ AX[at + 2] = v
  <2>1. /\ AX \in Seq(Lines) /\ Len(AX) = at + 2
        /\ \A i \in 1 .. at : AX[i] = A[i]
        /\ \A i \in at + 1 .. at + 2 : AX[i] = X[i - at]
    <3>1. A \in Seq(Lines) /\ X \in Seq(Lines)
      BY <1>3, <1>5
    <3>2. /\ AX \in Seq(Lines) /\ Len(AX) = Len(A) + Len(X)
          /\ \A i \in 1 .. Len(A) : AX[i] = A[i]
          /\ \A i \in Len(A) + 1 .. Len(A) + Len(X) : AX[i] = X[i - Len(A)]
      BY <3>1, Concatenation
    <3> HIDE DEF AX
    <3> QED BY <1>3, <1>5, <3>2
  <2> HIDE DEF AX
  <2>2. at + 1 \in at + 1 .. at + 2 /\ at + 2 \in at + 1 .. at + 2
        /\ (at + 1) - at = 1 /\ (at + 2) - at = 2
    BY <1>1
  <2> QED BY <1>3, <1>5, <2>1, <2>2
<1> HIDE DEF AX
<1>7. /\ n \in Seq(Lines) /\ DOMAIN n = 1 .. (at + 2) + (len - at)
      /\ \A i \in 1 .. at + 2 : n[i] = AX[i]
      /\ \A i \in (at + 2) + 1 .. (at + 2) + (len - at) : n[i] = Z[i - (at + 2)]
  <2>1. AX \in Seq(Lines) /\ Z \in Seq(Lines)
    BY <1>4, <1>6
  <2>2. /\ n \in Seq(Lines) /\ DOMAIN n = 1 .. Len(AX) + Len(Z)
        /\ \A i \in 1 .. Len(AX) : n[i] = AX[i]
        /\ \A i \in Len(AX) + 1 .. Len(AX) + Len(Z) : n[i] = Z[i - Len(AX)]
    BY <1>0, <2>1, Concatenation
  <2> QED BY <1>4, <1>6, <2>2
<1>8. /\ (at + 2) + (len - at) = len + 2
      /\ \A i \in 1 .. at : i \in 1 .. at + 2
      /\ at + 1 \in 1 .. at + 2 /\ at + 2 \in 1 .. at + 2
      /\ \A i \in at + 1 .. len : /\ i + 2 \in (at + 2) + 1 .. (at + 2) + (len - at)
                                  /\ (i + 2) - (at + 2) = i - at
                                  /\ i - at \in 1 .. len - at /\ at + (i - at) = i
  BY <1>1
<1>9. \A i \in at + 1 .. len : n[i + 2] = s[i]
  BY <1>4, <1>7, <1>8
<1>10. /\ n \in Seq(Lines) /\ DOMAIN n = 1 .. len + 2
       /\ \A i \in 1 .. at : n[i] = s[i]
       /\ n[at + 1] = c /\ n[at + 2] = v
  BY <1>6, <1>7, <1>8
<1> QED BY <1>1, <1>9, <1>10 DEF len, n

\* The line after which a cell is put in.
LEMMA AngstromPlace ==
    ASSUME NEW s \in Seq(Lines)
    PROVE  LET at == SelectInSeq(s, LAMBDA line : line.word = "ANGSTROM")
           IN  at \in 0 .. Len(s) /\ (at # 0 => s[at].word = "ANGSTROM")
<1> DEFINE I == {i \in 1 .. Len(s) : s[i].word = "ANGSTROM"}
           at == SelectInSeq(s, LAMBDA line : line.word = "ANGSTROM")
<1>1. at = IF I # {} THEN Min(I) ELSE 0
  BY DEF SelectInSeq
<1>2. I \subseteq Nat /\ Len(s) \in Nat
  OBVIOUS
<1>3. I # {} => Min(I) \in I
  <2> HIDE DEF I
  <2> QED BY <1>2, LeastNat DEF Min
<1> HIDE DEF at
<1> QED BY <1>1, <1>2, <1>3 DEF at

\* A cell that is put in where there is none leaves the symmetry as it is.
LEMMA InjectedFacts ==
    ASSUME call \in Calls, ~BoxGiven, NEW d \in Decks
    PROVE  LET n == [d EXCEPT !.system = InjectedCell(d)]
           IN  /\ n \in Decks /\ n.atoms = d.atoms
               /\ AsRendered(d) /\ ~NamesCell(d) =>
                    /\ HasCellOfTheCall(n) /\ HasOneSymmetry(n)
                    /\ IsolatedDeck(d) => IsolatedDeck(n)
                    /\ "CELL VECTORS" \notin Words(n)
<1> DEFINE at == SelectInSeq(d.system, LAMBDA line : line.word = "ANGSTROM")
           c == Word("CELL")
           v == Data(<<"default", "deck">>)
           s == d.system
           t == InjectedCell(d)
           n == [d EXCEPT !.system = t]
           len == Len(s)
<1>1. s \in Seq(Lines) /\ at \in 0 .. len /\ (at # 0 => s[at].word = "ANGSTROM") /\ len \in Nat
  BY AngstromPlace DEF Decks
<1>2. c \in Lines /\ c.word = "CELL" /\ v \in Lines /\ v.word = ""
  <2>1. "default" \in Texts /\ "deck" \in Texts /\ "CELL" \in Texts
    BY TextsOfTheCode
  <2>2. <<"default", "deck">> \in Seq(Texts) /\ <<"default", "deck">> # << >>
    BY <2>1, FourInSequence
  <2> QED BY <2>1, <2>2, WordIsLine, DataIsLine
<1>3. t = Inserted(s, at, c, v)
  BY DEF InjectedCell, Inserted
<1> HIDE DEF at, c, v, t
<1>4. /\ t \in Seq(Lines) /\ DOMAIN t = 1 .. len + 2 /\ DOMAIN s = 1 .. len
      /\ \A i \in 1 .. at : t[i] = s[i]
      /\ t[at + 1] = c /\ t[at + 2] = v
      /\ \A i \in at + 1 .. len : t[i + 2] = s[i]
  <2>1. s \in Seq(Lines) /\ at \in 0 .. Len(s) /\ c \in Lines /\ v \in Lines
    BY <1>1, <1>2
  <2> HIDE DEF s, len
  <2> DEFINE m == Inserted(s, at, c, v)
  <2>2. m \in Seq(Lines) /\ DOMAIN m = 1 .. Len(s) + 2 /\ DOMAIN s = 1 .. Len(s)
    BY <2>1, InsertedLines
  <2>3. \A i \in 1 .. at : m[i] = s[i]
    BY <2>1, InsertedLines
  <2>4. m[at + 1] = c /\ m[at + 2] = v
    BY <2>1, InsertedLines
  <2>5. \A i \in at + 1 .. Len(s) : m[i + 2] = s[i]
    BY <2>1, InsertedLines
  <2> HIDE DEF m
  <2> QED BY <1>3, <2>2, <2>3, <2>4, <2>5 DEF len, m
<1> HIDE DEF n
<1>5. n \in Decks /\ n.system = t /\ n.atoms = d.atoms /\ n.elsewhere = d.elsewhere
  BY <1>4 DEF Decks, n
<1>6. \A i \in 1 .. len + 2 : \/ i \in 1 .. at
                             \/ i = at + 1 \/ i = at + 2
                             \/ (i - 2 \in at + 1 .. len /\ (i - 2) + 2 = i)
  BY <1>1
<1>7. /\ at + 1 \in 1 .. len + 2 /\ at \in Nat
      /\ \A i \in 1 .. at : i \in 1 .. len + 2 /\ i \in 1 .. len
      /\ \A i \in at + 1 .. len : i + 2 \in 1 .. len + 2 /\ i \in 1 .. len
      /\ \A i \in 1 .. len : i \in 1 .. at \/ i \in at + 1 .. len
  BY <1>1
\* Every line but the two is one of the deck.
<1>8. \A i \in 1 .. len + 2 : i # at + 1 /\ i # at + 2 =>
        t[i] = s[IF i \in 1 .. at THEN i ELSE i - 2] /\ (IF i \in 1 .. at THEN i ELSE i - 2) \in 1 .. len
  <2> SUFFICES ASSUME NEW i \in 1 .. len + 2, i # at + 1, i # at + 2
               PROVE  /\ t[i] = s[IF i \in 1 .. at THEN i ELSE i - 2]
                      /\ (IF i \in 1 .. at THEN i ELSE i - 2) \in 1 .. len
    OBVIOUS
  <2>1. CASE i \in 1 .. at
    BY <1>4, <1>7, <2>1
  <2>2. CASE i \notin 1 .. at
    <3>1. i - 2 \in at + 1 .. len /\ (i - 2) + 2 = i
      BY <1>6, <2>2
    <3>2. t[i] = s[i - 2] /\ i - 2 \in 1 .. len
      BY <1>4, <1>7, <3>1
    <3> QED BY <2>2, <3>2
  <2> QED BY <2>1, <2>2
<1>9. HasCellOfTheCall(n)
  <2>1. at + 1 \in Places(n, {"CELL", "CELL VECTORS"})
    BY <1>2, <1>4, <1>5, <1>7 DEF Places
  <2> QED BY <2>1 DEF HasCellOfTheCall
<1>10. ASSUME AsRendered(d), ~NamesCell(d)
       PROVE  /\ HasOneSymmetry(n)
              /\ IsolatedDeck(d) => IsolatedDeck(n)
              /\ "CELL VECTORS" \notin Words(n)
  <2>1. \A i \in 1 .. len : s[i].word \notin {"CELL", "CELL VECTORS"}
    BY <1>4, <1>10 DEF NamesCell, CellWords, Words
  <2>2. \A i \in 1 .. len + 2 : t[i].word # "CELL VECTORS"
    BY <1>2, <1>4, <1>8, <2>1
  <2>3. "CELL VECTORS" \notin Words(n)
    BY <1>4, <1>5, <2>2 DEF Words
  <2>4. \A i, j \in 1 .. len : s[i].word = "SYMMETRY" /\ s[j].word = "SYMMETRY" => i = j
    BY <1>4, <1>10 DEF AsRendered, HasOneSymmetry, Places
  <2>5. \A i \in 1 .. len + 2 : t[i].word = "SYMMETRY" =>
          /\ i # at + 1 /\ i # at + 2
          /\ s[IF i \in 1 .. at THEN i ELSE i - 2].word = "SYMMETRY"
          /\ (IF i \in 1 .. at THEN i ELSE i - 2) \in 1 .. len
    BY <1>2, <1>4, <1>8
  <2>6. HasOneSymmetry(n)
    <3> SUFFICES ASSUME NEW i \in 1 .. len + 2, NEW j \in 1 .. len + 2,
                        t[i].word = "SYMMETRY", t[j].word = "SYMMETRY"
                 PROVE  i = j
      BY <1>4, <1>5, <2>3 DEF HasOneSymmetry, Places
    <3>1. (IF i \in 1 .. at THEN i ELSE i - 2) = (IF j \in 1 .. at THEN j ELSE j - 2)
      BY <2>4, <2>5
    <3>2. i \notin 1 .. at => i - 2 \in at + 1 .. len
      BY <1>6, <2>5
    <3>3. j \notin 1 .. at => j - 2 \in at + 1 .. len
      BY <1>6, <2>5
    <3> QED BY <1>1, <1>7, <3>1, <3>2, <3>3
  <2>7. ASSUME IsolatedDeck(d)
        PROVE  IsolatedDeck(n)
    <3>1. HasOneSymmetry(d) /\ \A i \in Places(d, {"SYMMETRY"}) : i + 1 \in 1 .. len
      BY <1>4, <1>10 DEF AsRendered
    <3>2. Places(d, {"SYMMETRY"}) # {}
      <4>1. None \notin {"0", "ISOLATED"}
        BY NoneIsApart, TextsOfTheCode
      <4> QED BY <1>1, <2>7, <3>1, <4>1, SymmetryOfFacts DEF IsolatedDeck
    <3>3. PICK p \in 1 .. len : s[p].word = "SYMMETRY"
      BY <1>4, <3>2 DEF Places
    <3>4. p \in Places(d, {"SYMMETRY"}) /\ p + 1 \in 1 .. len
      BY <1>4, <3>1, <3>3 DEF Places
    <3>5. SymmetryOf(d) = s[p + 1].data[1]
      BY <1>1, <3>1, <3>4, SymmetryOfFacts
    <3>6. \E q \in 1 .. len + 2 : t[q] = s[p] /\ t[q + 1] = s[p + 1]
      <4>1. CASE p \in 1 .. at
        <5>1. p # at
          BY <1>1, <3>3, <4>1
        <5>2. p + 1 \in 1 .. at
          BY <1>1, <4>1, <5>1
        <5> QED BY <1>4, <1>7, <4>1, <5>2
      <4>2. CASE p \notin 1 .. at
        <5>1. p \in at + 1 .. len /\ p + 1 \in at + 1 .. len /\ (p + 2) + 1 = (p + 1) + 2
          BY <1>7, <3>4, <4>2
        <5> QED BY <1>4, <1>7, <5>1
      <4> QED BY <4>1, <4>2
    <3>7. PICK q \in 1 .. len + 2 : t[q] = s[p] /\ t[q + 1] = s[p + 1]
      BY <3>6
    <3>8. q \in Places(n, {"SYMMETRY"}) /\ n.system \in Seq(Lines)
      BY <1>4, <1>5, <3>3, <3>7 DEF Places
    <3>9. SymmetryOf(n) = n.system[q + 1].data[1]
      BY <2>6, <3>8, SymmetryOfFacts
    <3> QED BY <1>5, <2>7, <3>5, <3>7, <3>9 DEF IsolatedDeck
  <2> QED BY <2>3, <2>6, <2>7
<1> QED BY <1>5, <1>9, <1>10 DEF n, t

\* Lines put in before the first and after the last.
Wrapped(s, c, v, end) == <<c, v>> \o s \o end

LEMMA WrappedLines ==
    ASSUME NEW s \in Seq(Lines), NEW c \in Lines, NEW v \in Lines, NEW end \in Seq(Lines)
    PROVE  LET n == Wrapped(s, c, v, end)
           IN  /\ n \in Seq(Lines) /\ DOMAIN n = 1 .. Len(s) + 2 + Len(end)
               /\ n[1] = c /\ n[2] = v
               /\ \A i \in 1 .. Len(s) : n[i + 2] = s[i]
               /\ \A i \in Len(s) + 3 .. Len(s) + 2 + Len(end) : n[i] = end[i - (Len(s) + 2)]
<1> DEFINE X == <<c, v>>
           Y == X \o s
           n == Wrapped(s, c, v, end)
           len == Len(s)
<1>1. X \in Seq(Lines) /\ Len(X) = 2 /\ X[1] = c /\ X[2] = v
  OBVIOUS
<1>2. len \in Nat /\ Len(end) \in Nat
  OBVIOUS
<1>3. n = Y \o end
  BY DEF Wrapped
<1> HIDE DEF X, n
<1>4. /\ Y \in Seq(Lines) /\ Len(Y) = 2 + len
      /\ \A i \in 1 .. 2 : Y[i] = X[i]
      /\ \A i \in 2 + 1 .. 2 + len : Y[i] = s[i - 2]
  <2>1. /\ Y \in Seq(Lines) /\ Len(Y) = Len(X) + Len(s)
        /\ \A i \in 1 .. Len(X) : Y[i] = X[i]
        /\ \A i \in Len(X) + 1 .. Len(X) + Len(s) : Y[i] = s[i - Len(X)]
    BY <1>1, Concatenation
  <2> HIDE DEF Y
  <2> QED BY <1>1, <2>1
<1> HIDE DEF Y
<1>5. /\ n \in Seq(Lines) /\ DOMAIN n = 1 .. (2 + len) + Len(end)
      /\ \A i \in 1 .. 2 + len : n[i] = Y[i]
      /\ \A i \in (2 + len) + 1 .. (2 + len) + Len(end) : n[i] = end[i - (2 + len)]
  <2> DEFINE m == Y \o end
  <2>1. Y \in Seq(Lines)
    BY <1>4
  <2>2. /\ m \in Seq(Lines) /\ DOMAIN m = 1 .. Len(Y) + Len(end)
        /\ \A i \in 1 .. Len(Y) : m[i] = Y[i]
        /\ \A i \in Len(Y) + 1 .. Len(Y) + Len(end) : m[i] = end[i - Len(Y)]
    BY <2>1, Concatenation
  <2>3. n = m
    BY <1>3
  <2> HIDE DEF len, m
  <2> QED BY <1>4, <2>2, <2>3
<1> HIDE DEF len
<1>6. /\ 1 \in 1 .. 2 /\ 2 \in 1 .. 2 /\ 1 \in 1 .. 2 + len /\ 2 \in 1 .. 2 + len
      /\ 2 + len = len + 2 /\ (2 + len) + 1 = len + 3
      /\ \A i \in 1 .. len : /\ i + 2 \in 2 + 1 .. 2 + len /\ i + 2 \in 1 .. 2 + len
                             /\ (i + 2) - 2 = i
  BY <1>2
<1>7. n[1] = c /\ n[2] = v
  BY <1>1, <1>4, <1>5, <1>6
<1>8. \A i \in 1 .. len : n[i + 2] = s[i]
  BY <1>4, <1>5, <1>6
<1>9. /\ n \in Seq(Lines) /\ DOMAIN n = 1 .. len + 2 + Len(end)
      /\ \A i \in len + 3 .. len + 2 + Len(end) : n[i] = end[i - (len + 2)]
  BY <1>5, <1>6
<1> QED BY <1>7, <1>8, <1>9 DEF len, n

\* A deck whose periodicity is open names no symmetry.
LEMMA OpenPeriodicity ==
    ASSUME NEW d \in Decks, ~PeriodicityIsSet(d)
    PROVE  /\ \A i \in DOMAIN d.system :
                 d.system[i].word \notin {"POISSON SOLVER", "SYMMETRY", "CELL VECTORS"}
           /\ HasOneSymmetry(d) => ~IsolatedDeck(d)
<1>1. \A i \in DOMAIN d.system :
        d.system[i].word \notin {"POISSON SOLVER", "SYMMETRY", "CELL VECTORS"}
  BY DEF PeriodicityIsSet, Words
<1>2. ASSUME HasOneSymmetry(d)
      PROVE  ~IsolatedDeck(d)
  <2>1. d.system \in Seq(Lines) /\ Places(d, {"SYMMETRY"}) = {}
    BY <1>1 DEF Decks, Places
  <2>2. SymmetryOf(d) = None
    BY <1>2, <2>1, SymmetryOfFacts
  <2>3. None \notin {"0", "ISOLATED"}
    BY NoneIsApart, TextsOfTheCode
  <2> QED BY <2>2, <2>3 DEF IsolatedDeck
<1> QED BY <1>1, <1>2

\* A symmetry that is put in where none is stated is the box's.
LEMMA PeriodicityFacts ==
    ASSUME call \in Calls, NEW d \in Decks, ~PeriodicityIsSet(d), CodeOfBox # None
    PROVE  LET n == [d EXCEPT !.system =
                       <<Word("SYMMETRY"), Data(<<CodeOfBox>>)>> \o @
                         \o IF CodeOfBox = "0" THEN <<Word("POISSON SOLVER")>> ELSE << >>]
           IN  /\ n \in Decks /\ n.atoms = d.atoms
               /\ HasCellOfTheCall(d) => HasCellOfTheCall(n)
               /\ HasOneSymmetry(n)
               /\ BoxGiven /\ SymmetryOf(n) = "1" => call.box = "cubic"
<1> DEFINE s == d.system
           c == Word("SYMMETRY")
           v == Data(<<CodeOfBox>>)
           poisson == Word("POISSON SOLVER")
           end == IF CodeOfBox = "0" THEN <<poisson>> ELSE << >>
           t == Wrapped(s, c, v, end)
           n == [d EXCEPT !.system = t]
           len == Len(s)
<1>1. s \in Seq(Lines) /\ len \in Nat /\ DOMAIN s = 1 .. len
  BY DEF Decks
<1>2. CodeOfBox \in {"0", "1", "8"} /\ (BoxGiven /\ CodeOfBox = "1" => call.box = "cubic")
  BY CallIs DEF CodeOfBox, Boxes, BoxGiven
<1>3. /\ c \in Lines /\ c.word = "SYMMETRY" /\ poisson \in Lines /\ poisson.word = "POISSON SOLVER"
      /\ v \in Lines /\ v.word = "" /\ v.data[1] = CodeOfBox
  <2>1. CodeOfBox \in Texts /\ "SYMMETRY" \in Texts /\ "POISSON SOLVER" \in Texts
    BY <1>2, TextsOfTheCode
  <2>2. <<CodeOfBox>> \in Seq(Texts) /\ <<CodeOfBox>> # << >> /\ <<CodeOfBox>>[1] = CodeOfBox
    <3>1. <<CodeOfBox>> \in Seq(Texts)
      BY <2>1, FourInSequence
    <3>2. <<CodeOfBox>> # << >> /\ <<CodeOfBox>>[1] = CodeOfBox
      OBVIOUS
    <3> QED BY <3>1, <3>2
  <2>3. v \in Lines /\ v.word = "" /\ v.data = <<CodeOfBox>>
    BY <2>2, DataIsLine
  <2>4. v.data[1] = CodeOfBox
    BY <2>2, <2>3
  <2>5. c \in Lines /\ c.word = "SYMMETRY" /\ poisson \in Lines /\ poisson.word = "POISSON SOLVER"
    BY <2>1, WordIsLine
  <2> QED BY <2>3, <2>4, <2>5
<1> HIDE DEF c, v, poisson
<1>4. end \in Seq(Lines) /\ Len(end) \in Nat /\ \A i \in 1 .. Len(end) : end[i].word = "POISSON SOLVER"
  <2>1. CASE CodeOfBox = "0"
    <3>1. end = <<poisson>>
      BY <2>1, Zenon
    <3>2. <<poisson>> \in Seq(Lines) /\ Len(<<poisson>>) = 1 /\ <<poisson>>[1] = poisson
      <4>1. poisson \in Lines
        BY <1>3
      <4> QED BY <4>1, OneInSequence
    <3>3. \A i \in 1 .. 1 : i = 1
      OBVIOUS
    <3> HIDE DEF end
    <3>4. end \in Seq(Lines) /\ Len(end) = 1 /\ end[1] = poisson
      BY <3>1, <3>2
    <3>5. \A i \in 1 .. Len(end) : end[i] = poisson
      BY <3>3, <3>4
    <3>6. Len(end) \in Nat
      BY <3>4
    <3> QED BY <1>3, <3>4, <3>5, <3>6
  <2>2. CASE CodeOfBox # "0"
    <3>1. end = << >>
      BY <2>2
    <3> HIDE DEF end
    <3> QED BY <3>1
  <2> QED BY <2>1, <2>2
<1>5. [d EXCEPT !.system = <<Word("SYMMETRY"), Data(<<CodeOfBox>>)>> \o @
                  \o IF CodeOfBox = "0" THEN <<Word("POISSON SOLVER")>> ELSE << >>] = n
  BY DEF Wrapped, c, v, poisson
<1> HIDE DEF end, s
<1>6. /\ t \in Seq(Lines) /\ DOMAIN t = 1 .. len + 2 + Len(end)
      /\ t[1] = c /\ t[2] = v
  <2>1. s \in Seq(Lines) /\ c \in Lines /\ v \in Lines /\ end \in Seq(Lines)
    BY <1>1, <1>3, <1>4
  <2>2. t \in Seq(Lines) /\ DOMAIN t = 1 .. len + 2 + Len(end)
    BY <2>1, WrappedLines
  <2>3. t[1] = c /\ t[2] = v
    BY <2>1, WrappedLines
  <2> QED BY <2>2, <2>3
<1>7. s \in Seq(Lines) /\ c \in Lines /\ v \in Lines /\ end \in Seq(Lines)
  BY <1>1, <1>3, <1>4
<1>8. \A i \in 1 .. len : t[i + 2] = s[i]
  BY <1>7, WrappedLines
<1>9. \A i \in len + 3 .. len + 2 + Len(end) : t[i] = end[i - (len + 2)]
  BY <1>7, WrappedLines
<1> HIDE DEF t, n, len
<1>10. n \in Decks /\ n.system = t /\ n.atoms = d.atoms /\ n.elsewhere = d.elsewhere /\ d.system = s
  BY <1>6 DEF Decks, n, s
<1>11. /\ 1 \in DOMAIN t /\ 2 \in DOMAIN t /\ 1 + 1 = 2
       /\ \A i \in 1 .. len : i + 2 \in DOMAIN t
       /\ \A i \in DOMAIN t : \/ i = 1 \/ i = 2
                              \/ (i - 2 \in 1 .. len /\ (i - 2) + 2 = i)
                              \/ (i \in len + 3 .. len + 2 + Len(end) /\ i - (len + 2) \in 1 .. Len(end))
  <2>1. len \in Nat /\ Len(end) \in Nat /\ DOMAIN t = 1 .. len + 2 + Len(end)
    BY <1>1, <1>4, <1>6
  <2> QED BY <2>1
\* A line of the new section is one of the deck's, or names neither a cell nor a unit.
<1>12. \A i \in DOMAIN t : \/ (i = 1 /\ t[i].word = "SYMMETRY")
                           \/ (i # 1 /\ t[i].word \in {"", "POISSON SOLVER"})
                           \/ (i # 1 /\ i - 2 \in 1 .. len /\ (i - 2) + 2 = i /\ t[i] = s[i - 2])
  <2> SUFFICES ASSUME NEW i \in DOMAIN t
               PROVE  \/ (i = 1 /\ t[i].word = "SYMMETRY")
                      \/ (i # 1 /\ t[i].word \in {"", "POISSON SOLVER"})
                      \/ (i # 1 /\ i - 2 \in 1 .. len /\ (i - 2) + 2 = i /\ t[i] = s[i - 2])
    OBVIOUS
  <2>1. CASE i = 1 \/ i = 2
    BY <1>3, <1>6, <2>1
  <2>2. CASE i - 2 \in 1 .. len /\ (i - 2) + 2 = i
    <3>1. t[i] = s[i - 2]
      BY <1>8, <2>2
    <3>2. i # 1
      BY <1>1, <2>2
    <3> QED BY <2>2, <3>1, <3>2
  <2>3. CASE i \in len + 3 .. len + 2 + Len(end) /\ i - (len + 2) \in 1 .. Len(end)
    <3>1. t[i].word = "POISSON SOLVER"
      BY <1>4, <1>9, <2>3
    <3>2. len \in Nat
      BY <1>1
    <3>3. i # 1
      BY <2>3, <3>2
    <3> QED BY <3>1, <3>3
  <2> QED BY <1>11, <2>1, <2>2, <2>3
<1>13. \A i \in 1 .. len : s[i].word \notin {"POISSON SOLVER", "SYMMETRY", "CELL VECTORS"}
  BY <1>1, <1>10, OpenPeriodicity
<1>14. HasOneSymmetry(n)
  <2>1. \A i \in DOMAIN t : t[i].word = "SYMMETRY" => i = 1
    BY <1>12, <1>13
  <2>2. \A i \in DOMAIN t : t[i].word # "CELL VECTORS"
    BY <1>12, <1>13
  <2> QED BY <1>10, <2>1, <2>2 DEF HasOneSymmetry, Places, Words
<1>15. SymmetryOf(n) = CodeOfBox
  <2>1. n.system \in Seq(Lines) /\ 1 \in Places(n, {"SYMMETRY"})
    BY <1>3, <1>6, <1>10, <1>11 DEF Places
  <2>2. SymmetryOf(n) = n.system[1 + 1].data[1]
    BY <1>14, <2>1, SymmetryOfFacts
  <2> QED BY <1>3, <1>6, <1>10, <1>11, <2>2
<1>16. Words(d) \subseteq Words(n)
  BY <1>1, <1>8, <1>10, <1>11 DEF Words
<1>17. "ANGSTROM" \in Words(n) <=> "ANGSTROM" \in Words(d)
  <2>1. ASSUME NEW i \in DOMAIN t, t[i].word = "ANGSTROM"
        PROVE  i - 2 \in DOMAIN s /\ s[i - 2].word = "ANGSTROM"
    BY <1>1, <1>12, <2>1
  <2>2. "ANGSTROM" \in Words(n) => "ANGSTROM" \in Words(d)
    BY <1>10, <2>1 DEF Words
  <2> QED BY <1>16, <2>2
<1>18. ASSUME HasCellOfTheCall(d)
       PROVE  HasCellOfTheCall(n)
  <2> DEFINE words == {"CELL", "CELL VECTORS"}
  <2>1. \A i \in 1 .. len : s[i].word \in words => i + 2 \in Places(n, words)
    BY <1>1, <1>8, <1>10, <1>11 DEF Places
  <2>2. \A i \in Places(n, words) : i - 2 \in Places(d, words) /\ (i - 2) + 2 = i
    BY <1>1, <1>10, <1>12 DEF Places
  <2>3. CASE BoxGiven
    <3>1. PICK at \in 1 .. len :
            /\ Places(d, words) = {at} /\ at + 1 \in 1 .. len
            /\ s[at + 1].data =
                 <<call.box, IF "ANGSTROM" \in Words(d) THEN "Angstrom" ELSE "Bohr">>
      BY <1>1, <1>10, <1>18, <2>3 DEF HasCellOfTheCall
    <3>2. s[at].word \in words
      <4>1. at \in Places(d, words)
        BY <3>1
      <4> QED BY <1>10, <4>1 DEF Places
    <3>3. Places(n, words) = {at + 2}
      <4>1. at + 2 \in Places(n, words)
        BY <2>1, <3>2
      <4>2. \A i \in Places(n, words) : i = at + 2
        BY <2>2, <3>1
      <4> QED BY <4>1, <4>2
    <3>4. at + 2 \in DOMAIN t /\ (at + 2) + 1 \in DOMAIN t /\ t[(at + 2) + 1] = s[at + 1]
      <4>1. (at + 1) + 2 \in DOMAIN t /\ t[(at + 1) + 2] = s[at + 1] /\ at + 2 \in DOMAIN t
        BY <1>8, <1>11, <3>1
      <4>2. (at + 1) + 2 = (at + 2) + 1
        OBVIOUS
      <4> QED BY <4>1, <4>2
    <3>5. n.system[(at + 2) + 1].data =
            <<call.box, IF "ANGSTROM" \in Words(n) THEN "Angstrom" ELSE "Bohr">>
      BY <1>10, <1>17, <3>1, <3>4
    <3> QED BY <1>10, <2>3, <3>3, <3>4, <3>5 DEF HasCellOfTheCall
  <2>4. CASE ~BoxGiven
    <3>1. CASE Places(d, words) # {}
      <4>1. PICK i \in 1 .. len : s[i].word \in words
        BY <1>1, <1>10, <3>1 DEF Places
      <4>2. Places(n, words) # {}
        BY <2>1, <4>1
      <4> QED BY <2>4, <4>2 DEF HasCellOfTheCall
    <3>2. CASE (Words(d) \cup d.elsewhere) \cap (CellWords \ words) # {}
      <4>1. (Words(n) \cup n.elsewhere) \cap (CellWords \ words) # {}
        BY <1>10, <1>16, <3>2
      <4> QED BY <2>4, <4>1 DEF HasCellOfTheCall
    <3> QED BY <1>18, <2>4, <3>1, <3>2 DEF HasCellOfTheCall
  <2> QED BY <2>3, <2>4
<1> HIDE DEF n
<1>19. BoxGiven /\ SymmetryOf(n) = "1" => call.box = "cubic"
  BY <1>2, <1>15
<1> QED BY <1>5, <1>10, <1>14, <1>18, <1>19

-----------------------------------------------------------------------------
(* What only the section says *)

LEMMA SameSection ==
    ASSUME NEW a, NEW b, a.system = b.system
    PROVE  /\ Words(a) = Words(b) /\ SymmetryOf(a) = SymmetryOf(b)
           /\ IsolatedDeck(a) <=> IsolatedDeck(b)
           /\ \A words : Places(a, words) = Places(b, words)
           /\ HasOneSymmetry(a) <=> HasOneSymmetry(b)
<1>1. Words(a) = Words(b) /\ \A words : Places(a, words) = Places(b, words)
  BY DEF Words, Places
<1>2. SymmetryOf(a) = SymmetryOf(b)
  BY DEF SymmetryOf
<1> QED BY <1>1, <1>2 DEF IsolatedDeck, HasOneSymmetry

LEMMA SameDeck ==
    ASSUME NEW a, NEW b, a.system = b.system, a.elsewhere = b.elsewhere
    PROVE  /\ AsRendered(a) => AsRendered(b)
           /\ HasCellOfTheCall(a) => HasCellOfTheCall(b)
           /\ SymmetryFits(a) => SymmetryFits(b)
<1>1. AsRendered(a) => AsRendered(b)
  BY SameSection DEF AsRendered
<1>2. HasCellOfTheCall(a) => HasCellOfTheCall(b)
  BY SameSection DEF HasCellOfTheCall
<1>3. SymmetryFits(a) => SymmetryFits(b)
  BY SameSection DEF SymmetryFits
<1> QED BY <1>1, <1>2, <1>3

\* A deck that says isolated has no CELL VECTORS, and does say so in a line.
LEMMA IsolatedFacts ==
    ASSUME NEW d, d.system \in Seq(Lines), HasOneSymmetry(d), IsolatedDeck(d)
    PROVE  "CELL VECTORS" \notin Words(d)
<1>1. Places(d, {"SYMMETRY"}) # {}
  <2>1. None \notin {"0", "ISOLATED"}
    BY NoneIsApart, TextsOfTheCode
  <2> QED BY <2>1, SymmetryOfFacts DEF IsolatedDeck
<1>2. "SYMMETRY" \in Words(d)
  BY <1>1 DEF Places, Words
<1> QED BY <1>2 DEF HasOneSymmetry

-----------------------------------------------------------------------------
(* The method lines *)

LEMMA MethodUpToDefined ==
    ASSUME NEW lines, Len(lines) \in Nat
    PROVE  \A n \in 0 .. Len(lines) :
             MethodUpTo(lines)[n] = IF n = 0 THEN Method(<< >>, "cell")
                              ELSE MethodLine(MethodUpTo(lines)[n - 1], lines[n])
<1> DEFINE Is(f, m) == f = [n \in 0 .. m |-> IF n = 0 THEN Method(<< >>, "cell")
                                            ELSE MethodLine(f[n - 1], lines[n])]
           S == {m \in Nat : \E f : Is(f, m)}
<1>1. 0 \in S
  <2>1. Is([n \in 0 .. 0 |-> Method(<< >>, "cell")], 0)
    OBVIOUS
  <2> QED BY <2>1
<1>2. ASSUME NEW m \in Nat, m \in S
      PROVE  m + 1 \in S
  <2>1. PICK f : Is(f, m)
    BY <1>2
  <2> DEFINE g == [n \in 0 .. m + 1 |-> IF n <= m THEN f[n]
                                        ELSE MethodLine(f[m], lines[m + 1])]
  <2>2. \A n \in 0 .. m : n \in 0 .. m + 1 /\ n <= m /\ (n # 0 => n - 1 \in 0 .. m)
    OBVIOUS
  <2>3. \A n \in 0 .. m : f[n] = IF n = 0 THEN Method(<< >>, "cell") ELSE MethodLine(f[n - 1], lines[n])
    BY <2>1
  <2>4. \A n \in 0 .. m : g[n] = f[n]
    BY <2>2
  <2>5. g[m + 1] = MethodLine(f[m], lines[m + 1])
    OBVIOUS
  <2>6. DOMAIN g = 0 .. m + 1 /\ g = [n \in 0 .. m + 1 |-> g[n]]
    OBVIOUS
  <2> HIDE DEF g
  <2>7. \A n \in 0 .. m + 1 : g[n] = IF n = 0 THEN Method(<< >>, "cell")
                                     ELSE MethodLine(g[n - 1], lines[n])
    <3> SUFFICES ASSUME NEW n \in 0 .. m + 1
                 PROVE  g[n] = IF n = 0 THEN Method(<< >>, "cell") ELSE MethodLine(g[n - 1], lines[n])
      OBVIOUS
    <3>1. CASE n = m + 1
      <4>1. n # 0 /\ n - 1 = m /\ m \in 0 .. m
        BY <3>1
      <4> QED BY <2>4, <2>5, <3>1, <4>1
    <3>2. CASE n # m + 1
      <4>1. n \in 0 .. m
        BY <3>2
      <4> QED BY <2>2, <2>3, <2>4, <4>1
    <3> QED BY <3>1, <3>2
  <2>8. Is(g, m + 1)
    BY <2>6, <2>7
  <2> HIDE DEF Is
  <2> QED BY <2>8
<1>3. Nat \subseteq S
  <2> HIDE DEF S
  <2> QED BY <1>1, <1>2, InductionOverNat
<1>4. PICK f : Is(f, Len(lines))
  BY <1>3
<1>5. Is(MethodUpTo(lines), Len(lines))
  BY <1>4, Zenon DEF MethodUpTo
<1> QED BY <1>5

\* What is read from a whole section.
MethodOf(lines) == MethodUpTo(lines)[Len(lines)]

LEMMA SkippedSays ==
    ASSUME NEW x
    PROVE  /\ Skipped(x) \in Nat
           /\ Skipped(x) > 0 => x.word \in {"CELL", "CELL VECTORS", "SYMMETRY"}
           /\ ~(Skipped(x) > 0) => x.word \notin {"CELL", "CELL VECTORS", "SYMMETRY"}
           /\ x.word = "" => Skipped(x) = 0
<1>1. CASE x.word \in {"CELL", "CELL VECTORS", "SYMMETRY"}
  <2>1. Skipped(x) = 1 \/ Skipped(x) = 3
    BY <1>1 DEF Skipped
  <2>2. Skipped(x) \in Nat /\ Skipped(x) > 0
    BY <2>1
  <2>3. x.word # ""
    BY <1>1
  <2> QED BY <1>1, <2>2, <2>3, Zenon
<1>2. CASE x.word \notin {"CELL", "CELL VECTORS", "SYMMETRY"}
  <2>1. Skipped(x) = 0
    BY <1>2 DEF Skipped
  <2>2. Skipped(x) \in Nat /\ ~(Skipped(x) > 0)
    BY <2>1
  <2> QED BY <1>2, <2>1, <2>2, Zenon
<1> QED BY <1>1, <1>2

LEMMA KeywordThatGoes ==
    ASSUME NEW r, NEW x, Skipped(x) > 0
    PROVE  MethodLine(r, x).lines = r.lines /\ MethodLine(r, x).under = "cell"
<1>1. x.word \in {"CELL", "CELL VECTORS", "SYMMETRY"}
  BY SkippedSays
<1> QED BY <1>1 DEF MethodLine, Method

LEMMA KeywordThatStays ==
    ASSUME NEW r, NEW x, ~(Skipped(x) > 0), x.word # ""
    PROVE  MethodLine(r, x).lines = Append(r.lines, x) /\ MethodLine(r, x).under = "method"
<1>1. x.word \notin {"CELL", "CELL VECTORS", "SYMMETRY"}
  BY SkippedSays
<1> QED BY <1>1 DEF MethodLine, Method

LEMMA RecordThatStays ==
    ASSUME NEW r, NEW x, x.word = "", r.under = "method"
    PROVE  MethodLine(r, x).lines = Append(r.lines, x) /\ MethodLine(r, x).under = "method"
<1>1. x.word \notin {"CELL", "CELL VECTORS", "SYMMETRY"}
  OBVIOUS
<1> QED BY <1>1 DEF MethodLine, Method

LEMMA RecordThatGoes ==
    ASSUME NEW r, NEW x, x.word = "", r.under = "cell"
    PROVE  MethodLine(r, x) = r
<1>1. x.word \notin {"CELL", "CELL VECTORS", "SYMMETRY"}
  OBVIOUS
<1> QED BY <1>1 DEF MethodLine, Method

LEMMA MethodLineTyped ==
    ASSUME NEW r, r.lines \in Seq(Lines), r.under \in {"cell", "method"}, NEW x \in Lines
    PROVE  MethodLine(r, x).lines \in Seq(Lines) /\ MethodLine(r, x).under \in {"cell", "method"}
<1>1. Append(r.lines, x) \in Seq(Lines)
  OBVIOUS
<1>2. \/ /\ MethodLine(r, x).lines = r.lines
         /\ MethodLine(r, x).under \in {"cell", r.under}
      \/ /\ MethodLine(r, x).lines = Append(r.lines, x)
         /\ MethodLine(r, x).under = "method"
  BY DEF MethodLine, Method
<1> QED BY <1>1, <1>2

LEMMA MethodTyped ==
    ASSUME NEW lines \in Seq(Lines)
    PROVE  \A n \in 0 .. Len(lines) :
             /\ MethodUpTo(lines)[n].lines \in Seq(Lines)
             /\ MethodUpTo(lines)[n].under \in {"cell", "method"}
<1> DEFINE g == MethodUpTo(lines)
           Good(n) == g[n].lines \in Seq(Lines) /\ g[n].under \in {"cell", "method"}
           S == {n \in Nat : n <= Len(lines) => Good(n)}
<1>1. Len(lines) \in Nat /\ DOMAIN lines = 1 .. Len(lines)
  OBVIOUS
<1>2. \A n \in 0 .. Len(lines) :
        g[n] = IF n = 0 THEN Method(<< >>, "cell") ELSE MethodLine(g[n - 1], lines[n])
  BY <1>1, MethodUpToDefined
<1> HIDE DEF g
<1>3. 0 \in S
  <2>1. g[0].lines = << >> /\ g[0].under = "cell"
    BY <1>1, <1>2 DEF Method
  <2>2. << >> \in Seq(Lines)
    OBVIOUS
  <2>3. Good(0)
    BY <2>1, <2>2
  <2> QED BY <2>3
<1>4. ASSUME NEW n \in Nat, n \in S
      PROVE  n + 1 \in S
  <2> SUFFICES ASSUME n + 1 <= Len(lines) PROVE Good(n + 1)
    OBVIOUS
  <2>1. n <= Len(lines) /\ n + 1 \in 0 .. Len(lines) /\ n + 1 # 0 /\ (n + 1) - 1 = n
        /\ n + 1 \in DOMAIN lines
    BY <1>1
  <2>2. Good(n)
    BY <1>4, <2>1
  <2>3. g[n + 1] = MethodLine(g[n], lines[n + 1]) /\ lines[n + 1] \in Lines
    BY <1>1, <1>2, <2>1
  <2> QED BY <2>2, <2>3, MethodLineTyped
<1>5. Nat \subseteq S
  <2> HIDE DEF S
  <2> QED BY <1>3, <1>4, InductionOverNat
<1> QED BY <1>1, <1>5 DEF g

LEMMA MethodOfTyped ==
    ASSUME NEW lines \in Seq(Lines)
    PROVE  MethodOf(lines).lines \in Seq(Lines) /\ MethodOf(lines).under \in {"cell", "method"}
<1>1. Len(lines) \in 0 .. Len(lines)
  OBVIOUS
<1> QED BY <1>1, MethodTyped DEF MethodOf

\* Two readings that agree at a place agree as long as the lines do.
LEMMA SameLinesSameMethod ==
    ASSUME NEW s \in Seq(Lines), NEW t \in Seq(Lines),
           NEW a \in 0 .. Len(s), NEW b \in 0 .. Len(t), NEW m \in Nat,
           a + m <= Len(s), b + m <= Len(t),
           MethodUpTo(s)[a] = MethodUpTo(t)[b],
           \A k \in 1 .. m : s[a + k] = t[b + k]
    PROVE  MethodUpTo(s)[a + m] = MethodUpTo(t)[b + m]
<1> DEFINE f == MethodUpTo(s)
           g == MethodUpTo(t)
           S == {n \in Nat : n <= m => f[a + n] = g[b + n]}
<1>1. Len(s) \in Nat /\ Len(t) \in Nat
  OBVIOUS
<1>2. /\ \A n \in 0 .. Len(s) :
           f[n] = IF n = 0 THEN Method(<< >>, "cell") ELSE MethodLine(f[n - 1], s[n])
      /\ \A n \in 0 .. Len(t) :
           g[n] = IF n = 0 THEN Method(<< >>, "cell") ELSE MethodLine(g[n - 1], t[n])
  BY <1>1, MethodUpToDefined
<1>3. f[a] = g[b]
  OBVIOUS
<1> HIDE DEF f, g
<1>4. 0 \in S
  <2>1. a + 0 = a /\ b + 0 = b
    BY <1>1
  <2> QED BY <1>3, <2>1
<1>5. ASSUME NEW n \in Nat, n \in S
      PROVE  n + 1 \in S
  <2> SUFFICES ASSUME n + 1 <= m PROVE f[a + (n + 1)] = g[b + (n + 1)]
    OBVIOUS
  <2>1. /\ a + (n + 1) \in 0 .. Len(s) /\ a + (n + 1) # 0 /\ (a + (n + 1)) - 1 = a + n
        /\ b + (n + 1) \in 0 .. Len(t) /\ b + (n + 1) # 0 /\ (b + (n + 1)) - 1 = b + n
        /\ n <= m /\ n + 1 \in 1 .. m
    BY <1>1
  <2>2. f[a + n] = g[b + n]
    BY <1>5, <2>1
  <2>3. s[a + (n + 1)] = t[b + (n + 1)]
    BY <2>1
  <2> QED BY <1>2, <2>1, <2>2, <2>3
<1>6. Nat \subseteq S
  <2> HIDE DEF S
  <2> QED BY <1>4, <1>5, InductionOverNat
<1> QED BY <1>6 DEF f, g

LEMMA MethodOfNothing ==
    ASSUME NEW lines \in Seq(Lines)
    PROVE  MethodUpTo(lines)[0] = Method(<< >>, "cell")
<1>1. Len(lines) \in Nat /\ 0 \in 0 .. Len(lines)
  OBVIOUS
<1> QED BY <1>1, MethodUpToDefined

LEMMA MethodOfMore ==
    ASSUME NEW s \in Seq(Lines), NEW x \in Lines
    PROVE  MethodOf(Append(s, x)) = MethodLine(MethodOf(s), x)
<1> DEFINE t == Append(s, x)
<1>1. /\ t \in Seq(Lines) /\ Len(t) = Len(s) + 1 /\ Len(s) \in Nat
      /\ \A k \in 1 .. Len(s) : s[k] = t[k]
      /\ t[Len(s) + 1] = x
  OBVIOUS
<1> HIDE DEF t
<1>2. MethodUpTo(s)[0] = MethodUpTo(t)[0]
  BY <1>1, MethodOfNothing
<1>3. /\ 0 \in 0 .. Len(s) /\ 0 \in 0 .. Len(t) /\ 0 + Len(s) = Len(s) /\ Len(s) <= Len(s)
      /\ Len(s) <= Len(t)
      /\ \A k \in 1 .. Len(s) : 0 + k = k
  BY <1>1
<1>4. MethodUpTo(s)[Len(s)] = MethodUpTo(t)[Len(s)]
  <2>1. \A k \in 1 .. Len(s) : s[0 + k] = t[0 + k]
    BY <1>1, <1>3
  <2>2. 0 + Len(s) <= Len(s) /\ 0 + Len(s) <= Len(t)
    BY <1>1
  <2>3. MethodUpTo(s)[0 + Len(s)] = MethodUpTo(t)[0 + Len(s)]
    BY <1>1, <1>2, <1>3, <2>1, <2>2, SameLinesSameMethod
  <2> QED BY <1>3, <2>3
<1>5. MethodUpTo(t)[Len(s) + 1] = MethodLine(MethodUpTo(t)[Len(s)], t[Len(s) + 1])
  <2>1. Len(s) + 1 \in 0 .. Len(t) /\ Len(s) + 1 # 0 /\ (Len(s) + 1) - 1 = Len(s)
    BY <1>1
  <2> QED BY <1>1, <2>1, MethodUpToDefined
<1> QED BY <1>1, <1>4, <1>5 DEF MethodOf, t

\* A keyword that goes takes the records below it along, and no other line.
TakesItsRecords(lines) ==
    \A i \in DOMAIN lines : Skipped(lines[i]) > 0 =>
      /\ \A k \in 1 .. Skipped(lines[i]) : i + k \in DOMAIN lines => lines[i + k].word = ""
      /\ i + Skipped(lines[i]) + 1 \in DOMAIN lines => lines[i + Skipped(lines[i]) + 1].word # ""

\* impose_box_cell copies every method line of a section whose records are
\* whole, and none of another line.
LEMMA KeptMethod ==
    ASSUME NEW lines \in Seq(Lines), TakesItsRecords(lines)
    PROVE  MethodOf(Kept(lines)).lines = MethodLines(lines)
<1> DEFINE f == CopiedUpTo(lines)
           g == MethodUpTo(lines)
           Good(n) ==
             /\ f[n].lines \in Seq(Lines) /\ f[n].skip \in Nat
             /\ MethodOf(f[n].lines).lines = g[n].lines
             /\ f[n].skip > 0 =>
                  /\ g[n].under = "cell"
                  /\ \A k \in 1 .. f[n].skip : n + k \in DOMAIN lines => lines[n + k].word = ""
                  /\ n + f[n].skip + 1 \in DOMAIN lines => lines[n + f[n].skip + 1].word # ""
             /\ f[n].skip = 0 =>
                  \/ g[n].under = MethodOf(f[n].lines).under
                  \/ n + 1 \in DOMAIN lines => lines[n + 1].word # ""
           S == {n \in Nat : n <= Len(lines) => Good(n)}
<1>1. Len(lines) \in Nat /\ DOMAIN lines = 1 .. Len(lines)
  OBVIOUS
<1>2. /\ \A n \in 0 .. Len(lines) :
           f[n] = IF n = 0 THEN Copied(<< >>, 0) ELSE CopyLine(f[n - 1], lines[n])
      /\ \A n \in 0 .. Len(lines) :
           g[n] = IF n = 0 THEN Method(<< >>, "cell") ELSE MethodLine(g[n - 1], lines[n])
      /\ \A n \in 0 .. Len(lines) : g[n].lines \in Seq(Lines) /\ g[n].under \in {"cell", "method"}
  BY <1>1, CopiedUpToDefined, MethodUpToDefined, MethodTyped
<1> HIDE DEF f, g
<1>3. 0 \in S
  <2>1. f[0].lines = << >> /\ f[0].skip = 0 /\ g[0] = Method(<< >>, "cell")
    BY <1>1, <1>2 DEF Copied
  <2>2. << >> \in Seq(Lines) /\ Len(<< >>) = 0
    OBVIOUS
  <2>3. MethodOf(<< >>) = Method(<< >>, "cell")
    BY <2>2, MethodOfNothing DEF MethodOf
  <2>4. MethodOf(f[0].lines) = g[0] /\ f[0].skip = 0 /\ f[0].lines \in Seq(Lines)
    BY <2>1, <2>2, <2>3
  <2>5. ~(f[0].skip > 0) /\ f[0].skip \in Nat /\ g[0].under = MethodOf(f[0].lines).under
        /\ MethodOf(f[0].lines).lines = g[0].lines
    BY <2>4
  <2>7. f[0].skip > 0 =>
          /\ g[0].under = "cell"
          /\ \A k \in 1 .. f[0].skip : 0 + k \in DOMAIN lines => lines[0 + k].word = ""
          /\ 0 + f[0].skip + 1 \in DOMAIN lines => lines[0 + f[0].skip + 1].word # ""
    BY <2>5
  <2>6. Good(0)
    BY <2>4, <2>5, <2>7, Zenon
  <2> QED BY <2>6
<1>4. ASSUME NEW n \in Nat, n \in S
      PROVE  n + 1 \in S
  <2> HIDE DEF Good
  <2> SUFFICES ASSUME n + 1 <= Len(lines) PROVE Good(n + 1)
    OBVIOUS
  <2> USE DEF Good
  <2> DEFINE kept == f[n].lines
             skip == f[n].skip
             line == lines[n + 1]
             s == Skipped(line)
  <2>1. n <= Len(lines) /\ n + 1 \in 0 .. Len(lines) /\ n + 1 # 0 /\ (n + 1) - 1 = n
        /\ n + 1 \in DOMAIN lines /\ n \in 0 .. Len(lines)
    BY <1>1
  <2>2. Good(n)
    BY <1>4, <2>1
  <2>3. f[n + 1] = CopyLine(f[n], line) /\ g[n + 1] = MethodLine(g[n], line) /\ line \in Lines
    BY <1>1, <1>2, <2>1
  <2>4. kept \in Seq(Lines) /\ skip \in Nat /\ MethodOf(kept).lines = g[n].lines
        /\ g[n].under \in {"cell", "method"}
    BY <1>2, <2>1, <2>2
  <2>5. skip > 0 => /\ g[n].under = "cell"
                    /\ \A k \in 1 .. skip : n + k \in DOMAIN lines => lines[n + k].word = ""
                    /\ n + skip + 1 \in DOMAIN lines => lines[n + skip + 1].word # ""
    BY <2>2
  <2>6. skip = 0 => \/ g[n].under = MethodOf(kept).under
                    \/ n + 1 \in DOMAIN lines => line.word # ""
    BY <2>2
  <2>7. s \in Nat /\ (line.word = "" => s = 0)
    BY SkippedSays
  <2>8. s > 0 =>
        /\ \A k \in 1 .. s : (n + 1) + k \in DOMAIN lines => lines[(n + 1) + k].word = ""
        /\ (n + 1) + s + 1 \in DOMAIN lines => lines[(n + 1) + s + 1].word # ""
    BY <2>1 DEF TakesItsRecords
  <2>9. CASE skip > 0
    <3>1. f[n + 1].lines = kept /\ f[n + 1].skip = skip - 1
      BY <2>3, <2>9 DEF CopyLine, Copied
    <3>2. line.word = ""
      <4>1. 1 \in 1 .. skip
        BY <2>4, <2>9
      <4> QED BY <2>1, <2>5, <2>9, <4>1
    <3>3. g[n + 1] = g[n] /\ g[n + 1].under = "cell"
      BY <2>3, <2>5, <2>9, <3>2 DEF MethodLine
    <3>4. skip - 1 \in Nat
      BY <2>4, <2>9
    <3> HIDE DEF kept, skip, line, s
    <3>5. \A k \in 1 .. skip - 1 : (n + 1) + k \in DOMAIN lines => lines[(n + 1) + k].word = ""
      <4> SUFFICES ASSUME NEW k \in 1 .. skip - 1, (n + 1) + k \in DOMAIN lines
                   PROVE  lines[(n + 1) + k].word = ""
        OBVIOUS
      <4>1. k + 1 \in 1 .. skip /\ n + (k + 1) = (n + 1) + k
        BY <2>4, <3>4
      <4> QED BY <2>5, <2>9, <4>1
    <3>6. (n + 1) + (skip - 1) + 1 = n + skip + 1
      BY <2>4
    <3>7. (n + 1) + (skip - 1) + 1 \in DOMAIN lines => lines[(n + 1) + (skip - 1) + 1].word # ""
      BY <2>5, <2>9, <3>6
    <3>8. skip - 1 = 0 => ((n + 1) + 1 \in DOMAIN lines => lines[(n + 1) + 1].word # "")
      <4>1. skip - 1 = 0 => n + skip + 1 = (n + 1) + 1
        BY <2>4
      <4> QED BY <2>5, <2>9, <4>1
    <3>9. MethodOf(kept).lines = g[n + 1].lines
      BY <2>4, <3>3
    <3> QED BY <2>4, <3>1, <3>3, <3>4, <3>5, <3>7, <3>8, <3>9
  <2>10. CASE skip = 0 /\ s > 0
    <3>1. f[n + 1].lines = kept /\ f[n + 1].skip = s
      BY <2>3, <2>10 DEF CopyLine, Copied
    <3>2. g[n + 1].lines = g[n].lines /\ g[n + 1].under = "cell"
      BY <2>3, <2>10, KeywordThatGoes
    <3> HIDE DEF kept, skip, line, s
    <3>3. MethodOf(kept).lines = g[n + 1].lines
      BY <2>4, <3>2
    <3>4. f[n + 1].lines \in Seq(Lines) /\ f[n + 1].skip \in Nat /\ ~(f[n + 1].skip = 0)
          /\ MethodOf(f[n + 1].lines).lines = g[n + 1].lines
      <4>1. s \in Nat /\ s > 0
        BY <2>7, <2>10
      <4>2. s \in Nat /\ ~(s = 0)
        BY <4>1
      <4> QED BY <2>4, <3>1, <3>3, <4>2
    <3>5. /\ \A k \in 1 .. f[n + 1].skip :
               (n + 1) + k \in DOMAIN lines => lines[(n + 1) + k].word = ""
          /\ (n + 1) + f[n + 1].skip + 1 \in DOMAIN lines
               => lines[(n + 1) + f[n + 1].skip + 1].word # ""
      BY <2>8, <2>10, <3>1
    <3> QED BY <3>2, <3>4, <3>5, Zenon
  <2>11. CASE skip = 0 /\ ~(s > 0)
    <3>1. f[n + 1].lines = Append(kept, line) /\ f[n + 1].skip = 0
      BY <2>3, <2>11 DEF CopyLine, Copied
    <3>2. MethodOf(Append(kept, line)) = MethodLine(MethodOf(kept), line)
          /\ Append(kept, line) \in Seq(Lines)
      BY <2>3, <2>4, MethodOfMore
    \* The two readings agree on this line.
    <3>3. ASSUME NEW a, NEW b, MethodLine(g[n], line).lines = a, MethodLine(g[n], line).under = b,
                 MethodLine(MethodOf(kept), line).lines = a,
                 MethodLine(MethodOf(kept), line).under = b
          PROVE  Good(n + 1)
      <4>1. MethodOf(f[n + 1].lines).lines = g[n + 1].lines
            /\ MethodOf(f[n + 1].lines).under = g[n + 1].under
        BY <2>3, <3>1, <3>2, <3>3
      <4>2. f[n + 1].lines \in Seq(Lines) /\ f[n + 1].skip = 0
        BY <3>1, <3>2
      <4>3. ~(f[n + 1].skip > 0) /\ f[n + 1].skip \in Nat
        BY <4>2
      <4>4. f[n + 1].skip > 0 =>
              /\ g[n + 1].under = "cell"
              /\ \A k \in 1 .. f[n + 1].skip :
                   (n + 1) + k \in DOMAIN lines => lines[(n + 1) + k].word = ""
              /\ (n + 1) + f[n + 1].skip + 1 \in DOMAIN lines
                   => lines[(n + 1) + f[n + 1].skip + 1].word # ""
        BY <4>3
      <4> HIDE DEF kept, skip, line, s
      <4> QED BY <4>1, <4>2, <4>3, <4>4, Zenon
    <3>4. CASE line.word # ""
      <4>1. ~(Skipped(line) > 0)
        BY <2>11
      <4>2. /\ MethodLine(g[n], line).lines = Append(g[n].lines, line)
            /\ MethodLine(g[n], line).under = "method"
            /\ MethodLine(MethodOf(kept), line).lines = Append(MethodOf(kept).lines, line)
            /\ MethodLine(MethodOf(kept), line).under = "method"
        BY <3>4, <4>1, KeywordThatStays
      <4>3. Append(g[n].lines, line) = Append(MethodOf(kept).lines, line)
        BY <2>4
      <4> HIDE DEF kept, skip, line, s, Good
      <4> QED BY <3>3, <4>2, <4>3
    <3>5. CASE line.word = "" /\ g[n].under = "method"
      <4>1. MethodOf(kept).under = "method"
        BY <2>1, <2>6, <2>11, <3>5
      <4>2. /\ MethodLine(g[n], line).lines = Append(g[n].lines, line)
            /\ MethodLine(g[n], line).under = "method"
            /\ MethodLine(MethodOf(kept), line).lines = Append(MethodOf(kept).lines, line)
            /\ MethodLine(MethodOf(kept), line).under = "method"
        BY <3>5, <4>1, RecordThatStays
      <4>3. Append(g[n].lines, line) = Append(MethodOf(kept).lines, line)
        BY <2>4
      <4> HIDE DEF kept, skip, line, s, Good
      <4> QED BY <3>3, <4>2, <4>3
    <3>6. CASE line.word = "" /\ g[n].under = "cell"
      <4>1. MethodOf(kept).under = "cell"
        BY <2>1, <2>6, <2>11, <3>6
      <4>2. MethodLine(g[n], line) = g[n] /\ MethodLine(MethodOf(kept), line) = MethodOf(kept)
        BY <3>6, <4>1, RecordThatGoes
      <4>3. MethodOf(kept).lines = g[n].lines /\ MethodOf(kept).under = g[n].under
        BY <2>4, <3>6, <4>1
      <4> HIDE DEF kept, skip, line, s, Good
      <4> QED BY <3>3, <4>2, <4>3
    <3> QED BY <2>4, <3>4, <3>5, <3>6
  <2>12. skip = 0 \/ skip > 0
    BY <2>4
  <2> QED BY <2>9, <2>10, <2>11, <2>12
<1>5. Nat \subseteq S
  <2> HIDE DEF S
  <2> QED BY <1>3, <1>4, InductionOverNat
<1>6. Good(Len(lines))
  <2> HIDE DEF Good
  <2>1. Len(lines) \in S /\ Len(lines) <= Len(lines)
    BY <1>1, <1>5
  <2> QED BY <2>1
<1> QED BY <1>6 DEF Kept, MethodLines, f, g

\* With three rows below every CELL VECTORS, every keyword that goes takes
\* just its records along.
LEMMA WholeRecords ==
    ASSUME NEW d, d.system \in Seq(Lines), RecordsWhole(d), ~VectorsInOneRecord(d)
    PROVE  TakesItsRecords(d.system)
<1> DEFINE s == d.system
<1>1. DOMAIN s = 1 .. Len(s) /\ Len(s) \in Nat
  OBVIOUS
<1> SUFFICES ASSUME NEW i \in DOMAIN s, Skipped(s[i]) > 0
             PROVE  /\ \A k \in 1 .. Skipped(s[i]) : i + k \in DOMAIN s => s[i + k].word = ""
                    /\ i + Skipped(s[i]) + 1 \in DOMAIN s => s[i + Skipped(s[i]) + 1].word # ""
  BY DEF TakesItsRecords
<1>2. \/ Below(s, i, Skipped(s[i]))
      \/ s[i].word = "CELL VECTORS" /\ Below(s, i, 1)
  BY DEF RecordsWhole
<1>3. CASE Below(s, i, Skipped(s[i]))
  BY <1>3 DEF Below
<1>4. CASE s[i].word = "CELL VECTORS" /\ Below(s, i, 1)
  <2>1. Skipped(s[i]) = 3
    BY <1>4 DEF Skipped
  <2>2. i \in Nat /\ i + 1 + 1 = i + 2 /\ i + 3 + 1 = i + 4
    BY <1>1
  <2>3. s[i + 1].word = "" /\ (i + 2 \in DOMAIN s => s[i + 2].word # "")
    <3>1. 1 \in 1 .. 1
      OBVIOUS
    <3> QED BY <1>4, <2>2, <3>1 DEF Below
  <2>4. i + 2 \notin DOMAIN s
    BY <1>4, <2>3 DEF VectorsInOneRecord
  <2>5. i + 3 \notin DOMAIN s /\ i + 4 \notin DOMAIN s
    BY <1>1, <2>2, <2>4
  <2>6. \A k \in 1 .. 3 : k = 1 \/ k = 2 \/ k = 3
    OBVIOUS
  <2> HIDE DEF s
  <2> QED BY <2>1, <2>2, <2>3, <2>4, <2>5, <2>6
<1> QED BY <1>2, <1>3, <1>4

LEMMA MethodOfFourMore ==
    ASSUME NEW s \in Seq(Lines), NEW t \in Seq(Lines), Len(t) = 4
    PROVE  MethodOf(s \o t) =
             MethodLine(MethodLine(MethodLine(MethodLine(MethodOf(s), t[1]), t[2]), t[3]), t[4])
<1> DEFINE n == s \o t
           f == MethodUpTo(n)
           len == Len(s)
<1>1. /\ n \in Seq(Lines) /\ Len(n) = len + 4 /\ len \in Nat
      /\ \A i \in 1 .. len : n[i] = s[i]
      /\ \A i \in len + 1 .. len + 4 : n[i] = t[i - len]
  <2>1. /\ n \in Seq(Lines) /\ Len(s) \in Nat /\ Len(n) = Len(s) + Len(t)
        /\ \A i \in 1 .. Len(s) : n[i] = s[i]
        /\ \A i \in Len(s) + 1 .. Len(s) + Len(t) : n[i] = t[i - Len(s)]
    BY Concatenation
  <2> HIDE DEF n, f
  <2> QED BY <2>1
<1> HIDE DEF n
<1>2. f[len] = MethodOf(s)
  <2>1. /\ 0 \in 0 .. len /\ 0 \in 0 .. Len(n) /\ 0 + len = len /\ len <= len /\ len <= Len(n)
        /\ \A k \in 1 .. len : 0 + k = k
    BY <1>1
  <2>2. MethodUpTo(s)[0] = MethodUpTo(n)[0]
    BY <1>1, MethodOfNothing
  <2>3. \A k \in 1 .. len : s[0 + k] = n[0 + k]
    BY <1>1, <2>1
  <2>4. 0 + len <= len /\ 0 + len <= Len(n)
    BY <1>1
  <2>5. MethodUpTo(s)[0 + len] = MethodUpTo(n)[0 + len]
    BY <1>1, <2>1, <2>2, <2>3, <2>4, SameLinesSameMethod
  <2> QED BY <2>1, <2>5 DEF MethodOf
<1>3. \A i \in 0 .. Len(n) :
        f[i] = IF i = 0 THEN Method(<< >>, "cell") ELSE MethodLine(f[i - 1], n[i])
  BY <1>1, MethodUpToDefined
<1> HIDE DEF f, len
<1>4. /\ len + 1 \in 0 .. Len(n) /\ len + 1 # 0 /\ (len + 1) - 1 = len
      /\ len + 2 \in 0 .. Len(n) /\ len + 2 # 0 /\ (len + 2) - 1 = len + 1
      /\ len + 3 \in 0 .. Len(n) /\ len + 3 # 0 /\ (len + 3) - 1 = len + 2
      /\ len + 4 \in 0 .. Len(n) /\ len + 4 # 0 /\ (len + 4) - 1 = len + 3
  BY <1>1
<1>5. /\ len + 1 \in len + 1 .. len + 4 /\ (len + 1) - len = 1
      /\ len + 2 \in len + 1 .. len + 4 /\ (len + 2) - len = 2
      /\ len + 3 \in len + 1 .. len + 4 /\ (len + 3) - len = 3
      /\ len + 4 \in len + 1 .. len + 4 /\ (len + 4) - len = 4
  BY <1>1
<1>6. n[len + 1] = t[1] /\ n[len + 2] = t[2] /\ n[len + 3] = t[3] /\ n[len + 4] = t[4]
  BY <1>1, <1>5
<1>7. f[len + 1] = MethodLine(f[len], t[1])
  BY <1>3, <1>4, <1>6
<1>8. f[len + 2] = MethodLine(f[len + 1], t[2])
  BY <1>3, <1>4, <1>6
<1>9. f[len + 3] = MethodLine(f[len + 2], t[3])
  BY <1>3, <1>4, <1>6
<1>10. f[len + 4] = MethodLine(f[len + 3], t[4])
  BY <1>3, <1>4, <1>6
<1>11. MethodOf(n) = f[len + 4]
  BY <1>1 DEF MethodOf, f
<1> QED BY <1>2, <1>7, <1>8, <1>9, <1>10, <1>11 DEF n

\* A record of data, as the provers see it beside numbers.
IsRecord(line) == line.word = ""

\* A keyword of a cell or a symmetry, and the record below it.
LEMMA CellLineGoes ==
    ASSUME NEW r, NEW x,
           Skipped(x) > 0 \/ (IsRecord(x) /\ r.under = "cell")
    PROVE  MethodLine(r, x).lines = r.lines /\ MethodLine(r, x).under = "cell"
<1>1. CASE Skipped(x) > 0
  BY <1>1, KeywordThatGoes
<1>2. CASE IsRecord(x) /\ r.under = "cell"
  <2>1. MethodLine(r, x) = r
    BY <1>2, RecordThatGoes DEF IsRecord
  <2> QED BY <1>2, <2>1
<1> QED BY <1>1, <1>2

\* The lines of the box are none of the method's.
LEMMA BoxMethod ==
    ASSUME call \in Calls, BoxGiven, NEW d, NEW s \in Seq(Lines)
    PROVE  MethodOf(s \o BoxLines(d)).lines = MethodOf(s).lines
<1>1. PICK b : b = BoxLines(d)
  OBVIOUS
<1>2. PICK r : r = MethodOf(s)
  OBVIOUS
<1>3. b \in Seq(Lines) /\ Len(b) = 4
  BY <1>1, BoxLinesFacts
<1>4. /\ Skipped(b[1]) > 0 /\ IsRecord(b[2]) /\ IsRecord(b[4])
      /\ Skipped(b[3]) > 0 \/ IsRecord(b[3])
  <2>1. CASE Diagonal(call.box)
    <3>1. b[1].word = "SYMMETRY" /\ b[2].word = "" /\ b[3].word = "CELL" /\ b[4].word = ""
      BY <1>1, <2>1, BoxLinesFacts
    <3>2. b[1].word \in {"CELL", "CELL VECTORS", "SYMMETRY"} /\ b[3].word \in {"CELL", "CELL VECTORS", "SYMMETRY"}
      BY <3>1
    <3> QED BY <3>1, <3>2, SkippedSays DEF IsRecord
  <2>2. CASE ~Diagonal(call.box)
    <3>1. b[1].word = "CELL VECTORS" /\ b[2].word = "" /\ b[3].word = "" /\ b[4].word = ""
      BY <1>1, <2>2, BoxLinesFacts
    <3>2. b[1].word \in {"CELL", "CELL VECTORS", "SYMMETRY"}
      BY <3>1
    <3> QED BY <3>1, <3>2, SkippedSays DEF IsRecord
  <2> QED BY <2>1, <2>2
<1>5. PICK r1 : r1 = MethodLine(r, b[1])
  OBVIOUS
<1>6. PICK r2 : r2 = MethodLine(r1, b[2])
  OBVIOUS
<1>7. PICK r3 : r3 = MethodLine(r2, b[3])
  OBVIOUS
<1>8. MethodOf(s \o b) = MethodLine(r3, b[4])
  BY <1>2, <1>3, <1>5, <1>6, <1>7, MethodOfFourMore
<1>9. r1.lines = r.lines /\ r1.under = "cell"
  BY <1>4, <1>5, CellLineGoes
<1>10. r2.lines = r.lines /\ r2.under = "cell"
  BY <1>4, <1>6, <1>9, CellLineGoes
<1>11. r3.lines = r.lines /\ r3.under = "cell"
  BY <1>4, <1>7, <1>10, CellLineGoes
<1>12. MethodLine(r3, b[4]).lines = r.lines
  BY <1>4, <1>11, CellLineGoes
<1> QED BY <1>1, <1>2, <1>8, <1>12

\* What stands above a keyword that is no record does not matter to it.
LEMMA KeywordForgets ==
    ASSUME NEW r, NEW q, r.lines = q.lines, NEW x, ~IsRecord(x)
    PROVE  MethodLine(r, x) = MethodLine(q, x)
BY DEF MethodLine, IsRecord

\* Two lines of a cell or a symmetry, before the first line or after one without
\* records, are none of the method's and change nothing of what is read below.
LEMMA TwoLinesOfACell ==
    ASSUME NEW s \in Seq(Lines), NEW t \in Seq(Lines), NEW at \in 0 .. Len(s),
           Len(s) + 2 <= Len(t),
           \A i \in 1 .. at : s[i] = t[i],
           Skipped(t[at + 1]) > 0, IsRecord(t[at + 2]),
           \A i \in at + 1 .. Len(s) : s[i] = t[i + 2],
           at = 0 \/ at = Len(s) \/ ~IsRecord(s[at + 1])
    PROVE  MethodUpTo(t)[Len(s) + 2].lines = MethodLines(s)
<1>1. Len(s) \in Nat /\ Len(t) \in Nat /\ at \in Nat /\ at <= Len(s)
  OBVIOUS
<1>2. \A n \in 0 .. Len(s) :
        MethodUpTo(s)[n] = IF n = 0 THEN Method(<< >>, "cell") ELSE MethodLine(MethodUpTo(s)[n - 1], s[n])
  BY <1>1, MethodUpToDefined
<1>3. \A n \in 0 .. Len(t) :
        MethodUpTo(t)[n] = IF n = 0 THEN Method(<< >>, "cell") ELSE MethodLine(MethodUpTo(t)[n - 1], t[n])
  BY <1>1, MethodUpToDefined
<1>4. MethodUpTo(s)[0] = Method(<< >>, "cell") /\ MethodUpTo(t)[0] = Method(<< >>, "cell")
  BY MethodOfNothing
<1>5. MethodUpTo(s)[at] = MethodUpTo(t)[at]
  <2>1. 0 \in 0 .. Len(s) /\ 0 \in 0 .. Len(t) /\ 0 + at = at
        /\ 0 + at <= Len(s) /\ 0 + at <= Len(t) /\ \A k \in 1 .. at : 0 + k = k
    BY <1>1
  <2>2. \A k \in 1 .. at : s[0 + k] = t[0 + k]
    BY <2>1
  <2>3. MethodUpTo(s)[0 + at] = MethodUpTo(t)[0 + at]
    <3>1. MethodUpTo(s)[0] = MethodUpTo(t)[0]
      BY <1>4
    <3> QED BY <1>1, <2>1, <2>2, <3>1, SameLinesSameMethod
  <2> QED BY <2>1, <2>3
\* After the two lines the same has been read, below a cell.
<1>6. MethodUpTo(t)[at + 2].lines = MethodUpTo(s)[at].lines /\ MethodUpTo(t)[at + 2].under = "cell"
  <2>1. /\ at + 1 \in 0 .. Len(t) /\ at + 1 # 0 /\ (at + 1) - 1 = at
        /\ at + 2 \in 0 .. Len(t) /\ at + 2 # 0 /\ (at + 2) - 1 = at + 1
    BY <1>1
  <2>2. MethodUpTo(t)[at + 1] = MethodLine(MethodUpTo(s)[at], t[at + 1])
    BY <1>3, <1>5, <2>1
  <2>3. MethodUpTo(t)[at + 2] = MethodLine(MethodUpTo(t)[at + 1], t[at + 2])
    BY <1>3, <2>1
  <2>4. MethodUpTo(t)[at + 1].lines = MethodUpTo(s)[at].lines /\ MethodUpTo(t)[at + 1].under = "cell"
    BY <2>2, CellLineGoes
  <2> QED BY <2>3, <2>4, CellLineGoes
<1>7. CASE at = Len(s)
  BY <1>6, <1>7 DEF MethodLines
<1>8. ASSUME NEW a \in 0 .. Len(s), at <= a, MethodUpTo(s)[a] = MethodUpTo(t)[a + 2]
      PROVE  MethodUpTo(t)[Len(s) + 2].lines = MethodLines(s)
  <2> DEFINE m == Len(s) - a
  <2>1. /\ m \in Nat /\ a + m = Len(s) /\ (a + 2) + m = Len(s) + 2 /\ a + 2 \in 0 .. Len(t)
        /\ \A k \in 1 .. m : a + k \in at + 1 .. Len(s) /\ (a + 2) + k = (a + k) + 2
    BY <1>1, <1>8
  <2>2. a + m <= Len(s) /\ (a + 2) + m <= Len(t)
    BY <1>1, <2>1
  <2> HIDE DEF m
  <2>3. \A k \in 1 .. m : s[a + k] = t[(a + 2) + k]
    BY <2>1
  <2>4. MethodUpTo(s)[a + m] = MethodUpTo(t)[(a + 2) + m]
    BY <1>8, <2>1, <2>2, <2>3, SameLinesSameMethod
  <2> QED BY <2>1, <2>4 DEF MethodLines
<1>9. CASE at = 0
  <2>1. 0 + 2 = at + 2 /\ 0 \in 0 .. Len(s) /\ at <= 0 /\ at + 1 \in 0 .. Len(t)
        /\ at + 1 # 0 /\ (at + 1) - 1 = 0 /\ at + 2 \in 0 .. Len(t) /\ at + 2 # 0
        /\ (at + 2) - 1 = at + 1
    BY <1>1, <1>9
  <2>2. MethodUpTo(t)[at + 1] = MethodLine(MethodUpTo(t)[0], t[at + 1])
    BY <1>3, <2>1
  <2>3. MethodUpTo(t)[at + 2] = MethodLine(MethodUpTo(t)[at + 1], t[at + 2])
    BY <1>3, <2>1
  <2>4. t[at + 1].word \in {"CELL", "CELL VECTORS", "SYMMETRY"}
    BY SkippedSays
  <2>5. MethodUpTo(t)[at + 1] = Method(MethodUpTo(t)[0].lines, "cell")
    BY <2>2, <2>4 DEF MethodLine
  <2>6. MethodUpTo(t)[0].lines = << >> /\ MethodUpTo(t)[at + 1].under = "cell"
    BY <1>4, <2>5 DEF Method
  <2>7. MethodUpTo(t)[at + 2] = MethodUpTo(t)[at + 1]
    BY <2>3, <2>6, RecordThatGoes DEF IsRecord
  <2>8. MethodUpTo(s)[0] = MethodUpTo(t)[0 + 2]
    BY <1>4, <2>1, <2>5, <2>6, <2>7
  <2> QED BY <1>8, <2>1, <2>8
<1>10. CASE at # Len(s) /\ ~IsRecord(s[at + 1])
  <2>1. /\ at + 1 \in 0 .. Len(s) /\ at + 1 # 0 /\ (at + 1) - 1 = at /\ at <= at + 1
        /\ at + 1 \in at + 1 .. Len(s)
        /\ at + 3 \in 0 .. Len(t) /\ at + 3 # 0 /\ (at + 3) - 1 = at + 2 /\ (at + 1) + 2 = at + 3
    <3>1. at # Len(s)
      BY <1>10
    <3> QED BY <1>1, <3>1
  <2>2. MethodUpTo(s)[at + 1] = MethodLine(MethodUpTo(s)[at], s[at + 1])
    BY <1>2, <2>1
  <2>3. MethodUpTo(t)[at + 3] = MethodLine(MethodUpTo(t)[at + 2], t[at + 3])
    BY <1>3, <2>1
  <2>4. t[at + 3] = s[at + 1]
    BY <2>1
  <2>5. MethodUpTo(s)[at + 1] = MethodUpTo(t)[at + 3]
    BY <1>6, <1>10, <2>2, <2>3, <2>4, KeywordForgets
  <2> QED BY <1>8, <2>1, <2>5
<1> QED BY <1>7, <1>9, <1>10

\* The lattice constant that is put in hides no record of a keyword: ANGSTROM
\* has none.
LEMMA InjectedMethod ==
    ASSUME NEW d, d.system \in Seq(Lines), RecordsWhole(d)
    PROVE  MethodLines(InjectedCell(d)) = MethodLines(d.system)
<1>1. PICK s \in Seq(Lines) : s = d.system
  OBVIOUS
<1>2. PICK at \in 0 .. Len(s) : at = SelectInSeq(s, LAMBDA line : line.word = "ANGSTROM")
  BY AngstromPlace
<1>3. PICK c \in Lines : c = Word("CELL") /\ Skipped(c) > 0
  <2>1. "CELL" \in Texts
    BY TextsOfTheCode
  <2>2. Word("CELL") \in Lines /\ Word("CELL").word = "CELL"
    BY <2>1, WordIsLine
  <2>3. Skipped(Word("CELL")) > 0
    BY <2>2, SkippedSays
  <2> QED BY <2>2, <2>3
<1>4. PICK v \in Lines : v = Data(<<"default", "deck">>) /\ IsRecord(v)
  <2>1. "default" \in Texts /\ "deck" \in Texts
    BY TextsOfTheCode
  <2>2. <<"default", "deck">> \in Seq(Texts) /\ <<"default", "deck">> # << >>
    BY <2>1, FourInSequence
  <2> QED BY <2>2, DataIsLine DEF IsRecord
<1>5. s \in Seq(Lines) /\ Len(s) \in Nat /\ DOMAIN s = 1 .. Len(s)
  OBVIOUS
<1>6. at # 0 => s[at].word = "ANGSTROM"
  BY <1>2, AngstromPlace
<1>7. at = 0 \/ at = Len(s) \/ ~IsRecord(s[at + 1])
  <2> SUFFICES ASSUME at # 0, at # Len(s) PROVE ~IsRecord(s[at + 1])
    OBVIOUS
  <2>1. at \in 1 .. Len(s) /\ at + 1 \in 1 .. Len(s)
    OBVIOUS
  <2>3. at + 0 + 1 = at + 1
    OBVIOUS
  <2>4. at \in DOMAIN s /\ at + 1 \in DOMAIN s
    BY <1>5, <2>1, Zenon
  <2>2. Below(s, at, 0)
    BY <1>1, <1>6, <2>4 DEF RecordsWhole
  <2> QED BY <2>2, <2>3, <2>4 DEF Below, IsRecord
<1>8. PICK t : t = Inserted(s, at, c, v)
  OBVIOUS
<1>9. InjectedCell(d) = t
  BY <1>1, <1>2, <1>3, <1>4, <1>8 DEF InjectedCell, Inserted
<1>10. t \in Seq(Lines) /\ DOMAIN t = 1 .. Len(s) + 2
  BY <1>8, InsertedLines
<1>11. \A i \in 1 .. at : t[i] = s[i]
  <2>1. \A i \in 1 .. at : Inserted(s, at, c, v)[i] = s[i]
    BY InsertedLines
  <2> QED BY <1>8, <2>1
<1>12. t[at + 1] = c /\ t[at + 2] = v
  <2>1. Inserted(s, at, c, v)[at + 1] = c /\ Inserted(s, at, c, v)[at + 2] = v
    BY InsertedLines
  <2> QED BY <1>8, <2>1
<1>13. \A i \in at + 1 .. Len(s) : t[i + 2] = s[i]
  <2>1. \A i \in at + 1 .. Len(s) : Inserted(s, at, c, v)[i + 2] = s[i]
    BY InsertedLines
  <2> QED BY <1>8, <2>1
<1>14. Len(t) = Len(s) + 2 /\ Len(s) + 2 <= Len(t)
  BY <1>5, <1>10
<1>15. Skipped(t[at + 1]) > 0 /\ IsRecord(t[at + 2])
  BY <1>3, <1>4, <1>12
<1>16. /\ \A i \in 1 .. at : s[i] = t[i]
       /\ \A i \in at + 1 .. Len(s) : s[i] = t[i + 2]
  BY <1>11, <1>13
<1>17. MethodUpTo(t)[Len(s) + 2].lines = MethodLines(s)
  BY <1>5, <1>7, <1>10, <1>14, <1>15, <1>16, TwoLinesOfACell
<1> QED BY <1>1, <1>9, <1>14, <1>17 DEF MethodLines

LEMMA PrefixFacts ==
    ASSUME NEW T, NEW s \in Seq(T), NEW x \in T
    PROVE  IsPrefix(s, s) /\ IsPrefix(s, Append(s, x))
<1>1. PICK t : t = Append(s, x)
  OBVIOUS
<1>2. /\ Len(s) \in Nat /\ t \in Seq(T) /\ Len(t) = Len(s) + 1
      /\ \A i \in 1 .. Len(s) : t[i] = s[i]
  BY <1>1
<1>3. SubSeq(s, 1, Len(s)) = SubSeq(t, 1, Len(s))
  <2>1. SubSeq(s, 1, Len(s)) = [i \in 1 .. Len(s) |-> s[i]]
    BY <1>2
  <2>2. SubSeq(t, 1, Len(s)) = [i \in 1 .. Len(s) |-> t[i]]
    BY <1>2
  <2> QED BY <1>2, <2>1, <2>2
<1>4. Len(s) <= Len(s) /\ Len(s) <= Len(t)
  BY <1>2
<1> QED BY <1>1, <1>3, <1>4 DEF IsPrefix

StaysKeyword(line) == line.word # "" /\ ~(Skipped(line) > 0)

\* The symmetry that is put in comes before the method's lines, and the keyword
\* for an isolated box after them.
LEMMA WrappedMethod ==
    ASSUME NEW s \in Seq(Lines), NEW c \in Lines, Skipped(c) > 0, NEW v \in Lines, IsRecord(v),
           NEW end \in Seq(Lines),
           Len(end) = 0 \/ (Len(end) = 1 /\ StaysKeyword(end[1]))
    PROVE  IsPrefix(MethodLines(s), MethodLines(Wrapped(s, c, v, end)))
<1>1. PICK t : t = Wrapped(s, c, v, end)
  OBVIOUS
<1>2. t \in Seq(Lines) /\ DOMAIN t = 1 .. Len(s) + 2 + Len(end)
  BY <1>1, WrappedLines
<1>3. t[1] = c /\ t[2] = v
  <2>1. Wrapped(s, c, v, end)[1] = c /\ Wrapped(s, c, v, end)[2] = v
    BY WrappedLines
  <2> QED BY <1>1, <2>1
<1>4. \A i \in 1 .. Len(s) : t[i + 2] = s[i]
  <2>1. \A i \in 1 .. Len(s) : Wrapped(s, c, v, end)[i + 2] = s[i]
    BY WrappedLines
  <2> QED BY <1>1, <2>1
<1>5. \A i \in Len(s) + 3 .. Len(s) + 2 + Len(end) : t[i] = end[i - (Len(s) + 2)]
  <2>1. \A i \in Len(s) + 3 .. Len(s) + 2 + Len(end) :
          Wrapped(s, c, v, end)[i] = end[i - (Len(s) + 2)]
    BY WrappedLines
  <2> QED BY <1>1, <2>1
<1>6. Len(s) \in Nat /\ Len(end) \in Nat
  OBVIOUS
<1>7. Len(t) = Len(s) + 2 + Len(end) /\ Len(s) + 2 <= Len(t)
  BY <1>2, <1>6
<1>8. MethodUpTo(t)[Len(s) + 2].lines = MethodLines(s)
  <2>1. 0 \in 0 .. Len(s) /\ 0 + 1 = 1 /\ 0 + 2 = 2
    BY <1>6
  <2>2. \A i \in 1 .. 0 : s[i] = t[i]
    OBVIOUS
  <2>3. Skipped(t[0 + 1]) > 0 /\ IsRecord(t[0 + 2])
    BY <1>3, <2>1
  <2>4. \A i \in 0 + 1 .. Len(s) : s[i] = t[i + 2]
    BY <1>4, <2>1
  <2> QED BY <1>2, <1>7, <2>1, <2>2, <2>3, <2>4, TwoLinesOfACell
<1>9. MethodLines(s) \in Seq(Lines)
  BY MethodOfTyped DEF MethodLines, MethodOf
<1>10. CASE Len(end) = 0
  <2>1. Len(t) = Len(s) + 2
    BY <1>6, <1>7, <1>10
  <2>2. MethodLines(t) = MethodLines(s)
    BY <1>8, <2>1 DEF MethodLines
  <2>3. PICK x \in Lines : x = c
    OBVIOUS
  <2>4. IsPrefix(MethodLines(s), MethodLines(s))
    BY <1>9, <2>3, PrefixFacts
  <2> QED BY <1>1, <2>2, <2>4
<1>11. CASE Len(end) = 1 /\ StaysKeyword(end[1])
  <2>1. /\ Len(t) = Len(s) + 3 /\ Len(s) + 3 \in 0 .. Len(t) /\ Len(s) + 3 # 0
        /\ (Len(s) + 3) - 1 = Len(s) + 2
        /\ Len(s) + 3 \in Len(s) + 3 .. Len(s) + 2 + Len(end)
        /\ (Len(s) + 3) - (Len(s) + 2) = 1 /\ 1 \in 1 .. Len(end)
    BY <1>6, <1>7, <1>11
  <2>2. t[Len(s) + 3] = end[1] /\ end[1] \in Lines
    BY <1>5, <2>1
  <2>3. MethodUpTo(t)[Len(s) + 3] = MethodLine(MethodUpTo(t)[Len(s) + 2], end[1])
    <3>1. Len(t) \in Nat
      BY <1>2
    <3> QED BY <2>1, <2>2, <3>1, MethodUpToDefined
  <2>4. end[1].word # "" /\ ~(Skipped(end[1]) > 0)
    BY <1>11 DEF StaysKeyword
  <2>5. MethodUpTo(t)[Len(s) + 3].lines = Append(MethodLines(s), end[1])
    <3>1. MethodLine(MethodUpTo(t)[Len(s) + 2], end[1]).lines =
            Append(MethodUpTo(t)[Len(s) + 2].lines, end[1])
      BY <2>4, KeywordThatStays
    <3> QED BY <1>8, <2>3, <3>1
  <2>6. MethodLines(t) = Append(MethodLines(s), end[1])
    BY <2>1, <2>5 DEF MethodLines
  <2>7. IsPrefix(MethodLines(s), Append(MethodLines(s), end[1]))
    BY <1>9, <2>2, PrefixFacts
  <2> QED BY <1>1, <2>6, <2>7
<1> QED BY <1>10, <1>11

LEMMA PeriodicityMethod ==
    ASSUME call \in Calls, NEW d \in Decks, CodeOfBox # None
    PROVE  LET n == [d EXCEPT !.system =
                       <<Word("SYMMETRY"), Data(<<CodeOfBox>>)>> \o @
                         \o IF CodeOfBox = "0" THEN <<Word("POISSON SOLVER")>> ELSE << >>]
           IN  IsPrefix(MethodLines(d.system), MethodLines(n.system))
<1>1. CodeOfBox \in {"0", "1", "8"}
  BY CallIs DEF CodeOfBox, Boxes, BoxGiven
<1>2. CodeOfBox \in Texts /\ "SYMMETRY" \in Texts /\ "POISSON SOLVER" \in Texts
  BY <1>1, TextsOfTheCode
<1>3. PICK c \in Lines : c = Word("SYMMETRY") /\ Skipped(c) > 0
  <2>1. Word("SYMMETRY") \in Lines /\ Word("SYMMETRY").word = "SYMMETRY"
    BY <1>2, WordIsLine
  <2>2. Skipped(Word("SYMMETRY")) > 0
    BY <2>1, SkippedSays
  <2> QED BY <2>1, <2>2
<1>4. PICK v \in Lines : v = Data(<<CodeOfBox>>) /\ IsRecord(v)
  <2>1. <<CodeOfBox>> \in Seq(Texts)
    BY <1>2, FourInSequence
  <2>2. <<CodeOfBox>> # << >>
    OBVIOUS
  <2> QED BY <2>1, <2>2, DataIsLine DEF IsRecord
<1>5. PICK p \in Lines : p = Word("POISSON SOLVER") /\ StaysKeyword(p)
  <2>1. Word("POISSON SOLVER") \in Lines /\ Word("POISSON SOLVER").word = "POISSON SOLVER"
    BY <1>2, WordIsLine
  <2>2. StaysKeyword(Word("POISSON SOLVER"))
    <3>1. Word("POISSON SOLVER").word \notin {"CELL", "CELL VECTORS", "SYMMETRY", ""}
      BY <2>1
    <3> QED BY <3>1, SkippedSays DEF StaysKeyword
  <2> QED BY <2>1, <2>2
<1>6. PICK end : end = IF CodeOfBox = "0" THEN <<Word("POISSON SOLVER")>> ELSE << >>
  OBVIOUS
<1>7. end \in Seq(Lines) /\ (Len(end) = 0 \/ (Len(end) = 1 /\ StaysKeyword(end[1])))
  <2>1. CASE CodeOfBox = "0"
    <3>1. end = <<p>>
      BY <1>5, <1>6, <2>1, Zenon
    <3>2. <<p>> \in Seq(Lines) /\ Len(<<p>>) = 1 /\ <<p>>[1] = p
      BY OneInSequence
    <3> QED BY <1>5, <3>1, <3>2, Zenon
  <2>2. CASE CodeOfBox # "0"
    <3>1. end = << >>
      BY <1>6, <2>2, Zenon
    <3>2. << >> \in Seq(Lines) /\ Len(<< >>) = 0
      OBVIOUS
    <3> QED BY <3>1, <3>2, Zenon
  <2> QED BY <2>1, <2>2
<1>8. PICK s \in Seq(Lines) : s = d.system
  BY DEF Decks
<1>9. IsPrefix(MethodLines(s), MethodLines(Wrapped(s, c, v, end)))
  BY <1>3, <1>4, <1>7, WrappedMethod
<1>10. [d EXCEPT !.system = <<Word("SYMMETRY"), Data(<<CodeOfBox>>)>> \o @
                   \o IF CodeOfBox = "0" THEN <<Word("POISSON SOLVER")>> ELSE << >>]
         = [d EXCEPT !.system = Wrapped(s, c, v, end)]
  BY <1>3, <1>4, <1>6, <1>8, Zenon DEF Wrapped
<1>11. [d EXCEPT !.system = Wrapped(s, c, v, end)].system = Wrapped(s, c, v, end)
  BY DEF Decks
<1> QED BY <1>8, <1>9, <1>10, <1>11, Zenon

-----------------------------------------------------------------------------
(* The inductive invariants *)

\* The call stays what it was, and the atoms of the deck are the call's from
\* the pass that writes them.
TypeInv ==
    /\ input \in Inputs /\ call \in Calls
    /\ TypeOK
    /\ deck # None /\ deck.atoms # None => HasAtomsOfTheCall(deck.atoms)

\* Before the box is imposed the section is the image's own; after it, the
\* cell and the symmetry are the call's, and stay so.
CellInv ==
    /\ phase = "cell" =>
         AsRendered(deck) /\ (input # None => deck.system = input.system)
    /\ phase \in {"periodicity", "maxiter", "ready"} =>
         HasCellOfTheCall(deck) /\ SymmetryFits(deck)

LEMMA TypeInvInit == Init => TypeInv
BY DEF Init, TypeInv, TypeOK

LEMMA TypeInvNext == TypeInv /\ [Next]_vars => TypeInv'
<1> SUFFICES ASSUME TypeInv, [Next]_vars
             PROVE  TypeInv'
  OBVIOUS
<1>1. /\ input \in Inputs /\ call \in Calls /\ TypeOK
      /\ deck \in {None} \cup Decks /\ ((deck = None) <=> (phase \in {"compose", "refused"}))
      /\ deck # None /\ deck.atoms # None => HasAtomsOfTheCall(deck.atoms)
  BY DEF TypeInv, TypeOK
<1>2. None \notin Decks
  BY NoneIsApart
\* What every pass but a refusal does.
<1>3. ASSUME NEW n \in Decks, NEW next \in {"cell", "periodicity", "maxiter", "ready"},
             n.atoms # None => HasAtomsOfTheCall(n.atoms),
             deck' = n, phase' = next, input' = input, call' = call
      PROVE  TypeInv'
  <2>1. deck' # None /\ deck'.atoms = n.atoms
    BY <1>2, <1>3
  <2>2. deck.atoms' # None => HasAtomsOfTheCall(deck.atoms)'
    BY <1>3, <2>1 DEF HasAtomsOfTheCall, AtomsOf, MessagePps
  <2>3. TypeOK'
    BY <1>3, <2>1 DEF TypeOK
  <2> QED BY <1>1, <1>3, <2>1, <2>2, <2>3 DEF TypeInv
<1>4. ASSUME Refuse, input' = input, call' = call
      PROVE  TypeInv'
  BY <1>1, <1>4 DEF Refuse, TypeInv, TypeOK
<1>5. CASE KeepGeometry
  <2> DEFINE n == [input EXCEPT !.atoms = None]
  <2>1. input # None
    BY <1>5 DEF KeepGeometry, GeometryDeck
  <2>2. n \in Decks /\ n.atoms = None
    BY <1>1, <2>1, InputFacts
  <2>3. deck' = n /\ phase' = "cell" /\ input' = input /\ call' = call
    BY <1>5 DEF KeepGeometry
  <2> HIDE DEF n
  <2> QED BY <1>3, <2>2, <2>3
<1>6. CASE ReplaceAtoms
  <2>1. CASE MissingPseudopotential
    BY <1>4, <1>6, <2>1 DEF ReplaceAtoms
  <2>2. CASE ~MissingPseudopotential
    <3> DEFINE n == IF input = None THEN Minimal ELSE [input EXCEPT !.atoms = AtomsBlocks]
    <3>1. AtomsBlocks \in Seq(Blocks) /\ HasAtomsOfTheCall(AtomsBlocks)
      BY <1>1, <2>2, BlocksFacts
    <3>2. n \in Decks /\ n.atoms = AtomsBlocks
      BY <1>1, <2>2, <3>1, MinimalFacts, InputFacts
    <3>3. deck' = n /\ phase' = "cell" /\ input' = input /\ call' = call
      BY <1>6, <2>2 DEF ReplaceAtoms
    <3> HIDE DEF n
    <3> QED BY <1>3, <3>1, <3>2, <3>3
  <2> QED BY <2>1, <2>2
<1>7. CASE ImposeBox
  <2>1. deck \in Decks /\ BoxGiven /\ input' = input /\ call' = call
    BY <1>1, <1>7 DEF ImposeBox
  <2>2. CASE Refuse
    BY <1>4, <2>1, <2>2
  <2>3. CASE ~Refuse
    <3> DEFINE n == [deck EXCEPT !.system = Kept(@) \o BoxLines(deck)]
    <3>1. n \in Decks /\ n.atoms = deck.atoms
      BY <1>1, <2>1, ImposedFacts
    <3>2. deck' = n /\ phase' = "periodicity"
      BY <1>7, <2>3 DEF ImposeBox
    <3> HIDE DEF n
    <3> QED BY <1>1, <1>2, <1>3, <2>1, <3>1, <3>2
  <2> QED BY <2>2, <2>3
<1>8. CASE InjectCell
  <2>1. deck \in Decks /\ ~BoxGiven /\ input' = input /\ call' = call
    BY <1>1, <1>8 DEF InjectCell
  <2> DEFINE n == IF NamesCell(deck) THEN deck ELSE [deck EXCEPT !.system = InjectedCell(deck)]
  <2>2. n \in Decks /\ n.atoms = deck.atoms
    BY <1>1, <2>1, InjectedFacts
  <2>3. deck' = n /\ phase' = "periodicity"
    BY <1>8 DEF InjectCell
  <2> HIDE DEF n
  <2> QED BY <1>1, <1>2, <1>3, <2>1, <2>2, <2>3
<1>9. CASE InjectPeriodicity
  <2>1. deck \in Decks /\ input' = input /\ call' = call /\ phase' = "maxiter"
    BY <1>1, <1>9 DEF InjectPeriodicity
  <2>2. CASE PeriodicityIsSet(deck) \/ CodeOfBox = None
    <3>1. deck' = deck
      BY <1>9, <2>2 DEF InjectPeriodicity
    <3> QED BY <1>1, <1>2, <1>3, <2>1, <3>1
  <2>3. CASE ~(PeriodicityIsSet(deck) \/ CodeOfBox = None)
    <3> DEFINE n == [deck EXCEPT !.system =
                       <<Word("SYMMETRY"), Data(<<CodeOfBox>>)>> \o @
                         \o IF CodeOfBox = "0" THEN <<Word("POISSON SOLVER")>> ELSE << >>]
    <3>1. n \in Decks /\ n.atoms = deck.atoms
      BY <1>1, <2>1, <2>3, PeriodicityFacts
    <3>2. deck' = n
      BY <1>9, <2>3 DEF InjectPeriodicity
    <3> HIDE DEF n
    <3> QED BY <1>1, <1>2, <1>3, <2>1, <3>1, <3>2
  <2> QED BY <2>2, <2>3
<1>10. CASE InjectMaxiter
  <2> DEFINE n == [deck EXCEPT !.cpmd = @ \cup {"MAXITER"}]
  <2>1. deck \in Decks /\ input' = input /\ call' = call /\ phase' = "ready" /\ deck' = n
    BY <1>1, <1>10 DEF InjectMaxiter
  <2>2. n \in Decks /\ n.atoms = deck.atoms
    <3>1. "MAXITER" \in Texts
      BY TextsOfTheCode
    <3> QED BY <2>1, <3>1 DEF Decks
  <2> HIDE DEF n
  <2> QED BY <1>1, <1>2, <1>3, <2>1, <2>2
<1>11. CASE UNCHANGED vars
  BY <1>11 DEF vars, TypeInv, TypeOK, HasAtomsOfTheCall, AtomsOf, MessagePps
<1> QED BY <1>5, <1>6, <1>7, <1>8, <1>9, <1>10, <1>11 DEF Next

LEMMA TypeInvariant == Spec => []TypeInv
BY TypeInvInit, TypeInvNext, PTL DEF Spec

LEMMA CellInvNext ==
    ASSUME InputsAsRendered
    PROVE  TypeInv /\ CellInv /\ [Next]_vars => CellInv'
<1> SUFFICES ASSUME TypeInv, CellInv, [Next]_vars
             PROVE  CellInv'
  OBVIOUS
<1>1. /\ input \in Inputs /\ call \in Calls
      /\ deck \in {None} \cup Decks /\ ((deck = None) <=> (phase \in {"compose", "refused"}))
  BY DEF TypeInv, TypeOK
<1>2. /\ phase = "cell" =>
           AsRendered(deck) /\ (input # None => deck.system = input.system)
      /\ phase \in {"periodicity", "maxiter", "ready"} =>
           HasCellOfTheCall(deck) /\ SymmetryFits(deck)
  BY DEF CellInv
<1>3. ASSUME NEW n, AsRendered(n), input # None => n.system = input.system,
             deck' = n, phase' = "cell", input' = input, call' = call
      PROVE  CellInv'
  BY <1>3 DEF CellInv
<1>4. ASSUME NEW n, NEW next \in {"periodicity", "maxiter", "ready"},
             HasCellOfTheCall(n), SymmetryFits(n),
             deck' = n, phase' = next, input' = input, call' = call
      PROVE  CellInv'
  <2>1. HasCellOfTheCall(deck)'
    BY <1>4 DEF HasCellOfTheCall, BoxGiven
  <2>2. SymmetryFits(deck)'
    BY <1>4 DEF SymmetryFits, BoxGiven
  <2> QED BY <1>4, <2>1, <2>2 DEF CellInv
<1>5. CASE Refuse
  BY <1>5 DEF Refuse, CellInv
<1>6. CASE KeepGeometry
  <2> DEFINE n == [input EXCEPT !.atoms = None]
  <2>1. input # None
    BY <1>6 DEF KeepGeometry, GeometryDeck
  <2>2. n.system = input.system /\ n.elsewhere = input.elsewhere
    BY <1>1, <2>1, InputFacts
  <2>3. deck' = n /\ phase' = "cell" /\ input' = input /\ call' = call
    BY <1>6 DEF KeepGeometry
  <2>4. AsRendered(input)
    BY <1>1, <2>1, InputsAsRendered DEF InputsAsRendered
  <2> HIDE DEF n
  <2>5. AsRendered(n)
    BY <2>2, <2>4, SameDeck
  <2> QED BY <1>3, <2>2, <2>3, <2>5
<1>7. CASE ReplaceAtoms
  <2>1. CASE MissingPseudopotential
    BY <1>5, <1>7, <2>1 DEF ReplaceAtoms
  <2>2. CASE ~MissingPseudopotential
    <3>1. /\ deck' = IF input = None THEN Minimal ELSE [input EXCEPT !.atoms = AtomsBlocks]
          /\ phase' = "cell" /\ input' = input /\ call' = call
      BY <1>7, <2>2 DEF ReplaceAtoms
    <3>2. CASE input = None
      <4>1. AsRendered(Minimal) /\ deck' = Minimal
        BY <1>1, <2>2, <3>1, <3>2, MinimalFacts
      <4> QED BY <1>3, <3>1, <3>2, <4>1
    <3>3. CASE input # None
      <4> DEFINE n == [input EXCEPT !.atoms = AtomsBlocks]
      <4>1. AtomsBlocks \in Seq(Blocks)
        BY <1>1, <2>2, BlocksFacts
      <4>2. n.system = input.system /\ n.elsewhere = input.elsewhere
        BY <1>1, <3>3, <4>1, InputFacts
      <4>3. deck' = n
        BY <3>1, <3>3
      <4>4. AsRendered(input)
        BY <1>1, <3>3, InputsAsRendered DEF InputsAsRendered
      <4> HIDE DEF n
      <4>5. AsRendered(n)
        BY <4>2, <4>4, SameDeck
      <4> QED BY <1>3, <3>1, <4>2, <4>3, <4>5
    <3> QED BY <3>2, <3>3
  <2> QED BY <2>1, <2>2
<1>8. CASE ImposeBox
  <2>1. /\ deck \in Decks /\ BoxGiven /\ input' = input /\ call' = call
        /\ AsRendered(deck) /\ (input # None => deck.system = input.system)
    BY <1>1, <1>2, <1>8 DEF ImposeBox
  <2>2. CASE ~Refuse
    <3> DEFINE n == [deck EXCEPT !.system = Kept(@) \o BoxLines(deck)]
    <3>1. /\ HasCellOfTheCall(n) /\ HasOneSymmetry(n)
          /\ Diagonal(call.box) => SymmetryOf(n) = SymmetryCode(deck) /\ "CELL VECTORS" \notin Words(n)
          /\ ~Diagonal(call.box) => SymmetryOf(n) = None
      BY <1>1, <2>1, ImposedFacts
    <3>2. deck' = n /\ phase' = "periodicity" /\ ~(IsolatedDeck(deck) /\ ~Diagonal(call.box))
      BY <1>8, <2>2 DEF ImposeBox
    <3> HIDE DEF n
    <3>3. None # "1"
      BY NoneIsApart, TextsOfTheCode
    <3>4. SymmetryOf(n) = "1" => call.box = "cubic"
      BY <3>1, <3>3 DEF SymmetryCode
    <3>5. ASSUME input # None, IsolatedDeck(input)
          PROVE  IsolatedDeck(n) /\ "CELL VECTORS" \notin Words(n)
      <4>1. IsolatedDeck(deck)
        BY <2>1, <3>5, SameSection
      <4>2. SymmetryOf(n) = "0"
        BY <3>1, <3>2, <4>1 DEF SymmetryCode
      <4> QED BY <3>1, <3>2, <4>1, <4>2 DEF IsolatedDeck
    <3>6. SymmetryFits(n)
      BY <3>1, <3>4, <3>5 DEF SymmetryFits
    <3> QED BY <1>4, <2>1, <3>1, <3>2, <3>6
  <2> QED BY <1>5, <2>2
<1>9. CASE InjectCell
  <2>1. /\ deck \in Decks /\ ~BoxGiven /\ input' = input /\ call' = call
        /\ AsRendered(deck) /\ (input # None => deck.system = input.system)
        /\ phase' = "periodicity" /\ deck.system \in Seq(Lines)
    BY <1>1, <1>2, <1>9 DEF InjectCell, Decks
  <2>2. input # None /\ IsolatedDeck(input) => IsolatedDeck(deck)
    BY <2>1, SameSection
  <2>3. CASE NamesCell(deck)
    <3>1. deck' = deck
      BY <1>9, <2>3 DEF InjectCell
    <3>2. HasCellOfTheCall(deck)
      <4>1. PICK w \in CellWords : w \in Words(deck) \cup deck.elsewhere
        BY <2>3 DEF NamesCell
      <4>2. CASE w \in {"CELL", "CELL VECTORS"}
        <5>1. w \in Words(deck)
          BY <2>1, <4>1, <4>2 DEF AsRendered
        <5>2. Places(deck, {"CELL", "CELL VECTORS"}) # {}
          BY <4>2, <5>1 DEF Places, Words
        <5> QED BY <2>1, <5>2 DEF HasCellOfTheCall
      <4>3. CASE w \notin {"CELL", "CELL VECTORS"}
        BY <2>1, <4>1, <4>3 DEF HasCellOfTheCall
      <4> QED BY <4>2, <4>3
    <3>3. HasOneSymmetry(deck)
      BY <2>1 DEF AsRendered
    <3>4. SymmetryFits(deck)
      BY <2>1, <2>2, <3>3, IsolatedFacts DEF SymmetryFits
    <3> QED BY <1>4, <2>1, <3>1, <3>2, <3>4
  <2>4. CASE ~NamesCell(deck)
    <3> DEFINE n == [deck EXCEPT !.system = InjectedCell(deck)]
    <3>1. /\ HasCellOfTheCall(n) /\ HasOneSymmetry(n) /\ "CELL VECTORS" \notin Words(n)
          /\ IsolatedDeck(deck) => IsolatedDeck(n)
      BY <1>1, <2>1, <2>4, InjectedFacts
    <3>2. deck' = n
      BY <1>9, <2>4 DEF InjectCell
    <3> HIDE DEF n
    <3>3. SymmetryFits(n)
      BY <2>1, <2>2, <3>1 DEF SymmetryFits
    <3> QED BY <1>4, <2>1, <3>1, <3>2, <3>3
  <2> QED BY <2>3, <2>4
<1>10. CASE InjectPeriodicity
  <2>1. /\ deck \in Decks /\ input' = input /\ call' = call /\ phase' = "maxiter"
        /\ HasCellOfTheCall(deck) /\ SymmetryFits(deck)
    BY <1>1, <1>2, <1>10 DEF InjectPeriodicity
  <2>2. CASE PeriodicityIsSet(deck) \/ CodeOfBox = None
    <3>1. deck' = deck
      BY <1>10, <2>2 DEF InjectPeriodicity
    <3> QED BY <1>4, <2>1, <3>1
  <2>3. CASE ~(PeriodicityIsSet(deck) \/ CodeOfBox = None)
    <3> DEFINE n == [deck EXCEPT !.system =
                       <<Word("SYMMETRY"), Data(<<CodeOfBox>>)>> \o @
                         \o IF CodeOfBox = "0" THEN <<Word("POISSON SOLVER")>> ELSE << >>]
    <3>1. /\ HasCellOfTheCall(n) /\ HasOneSymmetry(n)
          /\ BoxGiven /\ SymmetryOf(n) = "1" => call.box = "cubic"
      BY <1>1, <2>1, <2>3, PeriodicityFacts
    <3>2. deck' = n
      BY <1>10, <2>3 DEF InjectPeriodicity
    <3> HIDE DEF n
    <3>3. ~(input # None /\ IsolatedDeck(input))
      BY <2>1, <2>3, OpenPeriodicity DEF SymmetryFits
    <3>4. SymmetryFits(n)
      BY <3>1, <3>3 DEF SymmetryFits
    <3> QED BY <1>4, <2>1, <3>1, <3>2, <3>4
  <2> QED BY <2>2, <2>3
<1>11. CASE InjectMaxiter
  <2> DEFINE n == [deck EXCEPT !.cpmd = @ \cup {"MAXITER"}]
  <2>1. /\ deck \in Decks /\ input' = input /\ call' = call /\ phase' = "ready" /\ deck' = n
        /\ HasCellOfTheCall(deck) /\ SymmetryFits(deck)
    BY <1>1, <1>2, <1>11 DEF InjectMaxiter
  <2>2. n.system = deck.system /\ n.elsewhere = deck.elsewhere
    BY <2>1 DEF Decks
  <2> HIDE DEF n
  <2>3. HasCellOfTheCall(n) /\ SymmetryFits(n)
    BY <2>1, <2>2, SameDeck
  <2> QED BY <1>4, <2>1, <2>3
<1>12. CASE UNCHANGED vars
  BY <1>12 DEF vars, CellInv, HasCellOfTheCall, SymmetryFits, BoxGiven
<1> QED BY <1>6, <1>7, <1>8, <1>9, <1>10, <1>11, <1>12 DEF Next

LEMMA CellInvariant ==
    ASSUME InputsAsRendered
    PROVE  Spec => []CellInv
<1>1. Init => CellInv
  BY DEF Init, CellInv
<1>2. TypeInv /\ CellInv /\ [Next]_vars => CellInv'
  BY CellInvNext
<1> QED BY <1>1, <1>2, TypeInvariant, PTL DEF Spec

\* The section is the image's own until the box is imposed or a cell put in;
\* then its method lines are, and at the end no more than one line follows them.
MethodInv ==
    input # None /\ ~(VectorsInOneRecord(input) /\ BoxGiven) =>
      /\ phase = "cell" => deck.system = input.system
      /\ phase = "periodicity" => MethodLines(deck.system) = MethodLines(input.system)
      /\ phase \in {"maxiter", "ready"} =>
           IsPrefix(MethodLines(input.system), MethodLines(deck.system))

LEMMA MethodInvNext ==
    ASSUME RecordsAreWhole
    PROVE  TypeInv /\ MethodInv /\ [Next]_vars => MethodInv'
<1> SUFFICES ASSUME TypeInv, MethodInv, [Next]_vars
             PROVE  MethodInv'
  OBVIOUS
<1>1. /\ input \in Inputs /\ call \in Calls
      /\ deck \in {None} \cup Decks /\ ((deck = None) <=> (phase \in {"compose", "refused"}))
  BY DEF TypeInv, TypeOK
<1>2. CASE UNCHANGED vars
  BY <1>2 DEF vars, MethodInv, BoxGiven
<1> SUFFICES ASSUME Next, input' = input, call' = call,
                    input # None, ~(VectorsInOneRecord(input) /\ BoxGiven)
             PROVE  /\ phase' = "cell" => deck'.system = input.system
                    /\ phase' = "periodicity" => MethodLines(deck'.system) = MethodLines(input.system)
                    /\ phase' \in {"maxiter", "ready"} =>
                         IsPrefix(MethodLines(input.system), MethodLines(deck'.system))
  <2>1. Next => input' = input /\ call' = call
    BY DEF Next, KeepGeometry, ReplaceAtoms, ImposeBox, InjectCell, InjectPeriodicity, InjectMaxiter
  <2> QED BY <1>2, <2>1 DEF MethodInv, BoxGiven
<1>3. /\ phase = "cell" => deck.system = input.system
      /\ phase = "periodicity" => MethodLines(deck.system) = MethodLines(input.system)
      /\ phase \in {"maxiter", "ready"} =>
           IsPrefix(MethodLines(input.system), MethodLines(deck.system))
  BY DEF MethodInv
<1>4. RecordsWhole(input) /\ input.system \in Seq(Lines)
  <2>1. input.system \in Seq(Lines)
    BY <1>1, InputsAreDecks
  <2> QED BY <1>1, <2>1 DEF RecordsAreWhole
<1>5. CASE Refuse
  BY <1>5 DEF Refuse
<1>6. CASE KeepGeometry
  <2> DEFINE n == [input EXCEPT !.atoms = None]
  <2>1. n.system = input.system
    BY <1>1, InputFacts
  <2>2. deck' = n /\ phase' = "cell"
    BY <1>6 DEF KeepGeometry
  <2> HIDE DEF n
  <2> QED BY <2>1, <2>2
<1>7. CASE ReplaceAtoms
  <2>1. CASE MissingPseudopotential
    BY <1>5, <1>7, <2>1 DEF ReplaceAtoms
  <2>2. CASE ~MissingPseudopotential
    <3> DEFINE n == [input EXCEPT !.atoms = AtomsBlocks]
    <3>1. AtomsBlocks \in Seq(Blocks)
      BY <1>1, <2>2, BlocksFacts
    <3>2. n.system = input.system
      BY <1>1, <3>1, InputFacts
    <3>3. deck' = n /\ phase' = "cell"
      BY <1>7, <2>2 DEF ReplaceAtoms
    <3> HIDE DEF n
    <3> QED BY <3>2, <3>3
  <2> QED BY <2>1, <2>2
<1>8. CASE ImposeBox
  <2>1. /\ deck \in Decks /\ BoxGiven /\ deck.system = input.system
    BY <1>1, <1>3, <1>8 DEF ImposeBox
  <2>2. CASE ~Refuse
    <3>1. deck' = [deck EXCEPT !.system = Kept(@) \o BoxLines(deck)] /\ phase' = "periodicity"
      BY <1>8, <2>2 DEF ImposeBox
    <3>2. deck'.system = Kept(input.system) \o BoxLines(deck)
      BY <2>1, <3>1 DEF Decks
    <3>3. TakesItsRecords(input.system)
      BY <1>4, <2>1, WholeRecords
    <3>4. MethodOf(Kept(input.system)).lines = MethodLines(input.system)
      BY <1>4, <3>3, KeptMethod
    <3>5. Kept(input.system) \in Seq(Lines)
      BY <1>4, KeptFacts
    <3>6. MethodOf(Kept(input.system) \o BoxLines(deck)).lines = MethodOf(Kept(input.system)).lines
      BY <1>1, <2>1, <3>5, BoxMethod
    <3>7. MethodLines(deck'.system) = MethodLines(input.system)
      BY <3>2, <3>4, <3>6, Zenon DEF MethodLines, MethodOf
    <3> QED BY <3>1, <3>7
  <2> QED BY <1>5, <2>2
<1>9. CASE InjectCell
  <2>1. deck \in Decks /\ deck.system = input.system /\ phase' = "periodicity"
    BY <1>1, <1>3, <1>9 DEF InjectCell
  <2>2. CASE NamesCell(deck)
    <3>1. deck' = deck
      BY <1>9, <2>2 DEF InjectCell
    <3> QED BY <2>1, <3>1
  <2>3. CASE ~NamesCell(deck)
    <3>1. deck' = [deck EXCEPT !.system = InjectedCell(deck)]
      BY <1>9, <2>3 DEF InjectCell
    <3>2. deck'.system = InjectedCell(deck)
      BY <2>1, <3>1 DEF Decks
    <3>3. RecordsWhole(deck) /\ deck.system \in Seq(Lines)
      BY <1>4, <2>1 DEF RecordsWhole
    <3>4. MethodLines(InjectedCell(deck)) = MethodLines(deck.system)
      BY <3>3, InjectedMethod
    <3> QED BY <2>1, <3>2, <3>4
  <2> QED BY <2>2, <2>3
<1>10. CASE InjectPeriodicity
  <2>1. /\ deck \in Decks /\ phase' = "maxiter"
        /\ MethodLines(deck.system) = MethodLines(input.system)
    BY <1>1, <1>3, <1>10 DEF InjectPeriodicity
  <2>2. CASE PeriodicityIsSet(deck) \/ CodeOfBox = None
    <3>1. deck' = deck
      BY <1>10, <2>2 DEF InjectPeriodicity
    <3>2. MethodLines(input.system) \in Seq(Lines)
      BY <1>4, MethodOfTyped DEF MethodLines, MethodOf
    <3>3. Word("CELL") \in Lines
      <4>1. "CELL" \in Texts
        BY TextsOfTheCode
      <4> QED BY <4>1, WordIsLine
    <3>4. IsPrefix(MethodLines(input.system), MethodLines(input.system))
      BY <3>2, <3>3, PrefixFacts
    <3> QED BY <2>1, <3>1, <3>4
  <2>3. CASE ~(PeriodicityIsSet(deck) \/ CodeOfBox = None)
    <3> DEFINE n == [deck EXCEPT !.system =
                       <<Word("SYMMETRY"), Data(<<CodeOfBox>>)>> \o @
                         \o IF CodeOfBox = "0" THEN <<Word("POISSON SOLVER")>> ELSE << >>]
    <3>1. IsPrefix(MethodLines(deck.system), MethodLines(n.system))
      BY <1>1, <2>1, <2>3, PeriodicityMethod
    <3>2. deck' = n
      BY <1>10, <2>3 DEF InjectPeriodicity
    <3> HIDE DEF n
    <3> QED BY <2>1, <3>1, <3>2
  <2> QED BY <2>2, <2>3
<1>11. CASE InjectMaxiter
  <2> DEFINE n == [deck EXCEPT !.cpmd = @ \cup {"MAXITER"}]
  <2>1. /\ deck \in Decks /\ phase' = "ready" /\ deck' = n
        /\ IsPrefix(MethodLines(input.system), MethodLines(deck.system))
    BY <1>1, <1>3, <1>11 DEF InjectMaxiter
  <2>2. n.system = deck.system
    BY <2>1 DEF Decks
  <2> HIDE DEF n
  <2> QED BY <2>1, <2>2
<1> QED BY <1>6, <1>7, <1>8, <1>9, <1>10, <1>11 DEF Next

LEMMA MethodInvariant ==
    ASSUME RecordsAreWhole
    PROVE  Spec => []MethodInv
<1>1. Init => MethodInv
  BY DEF Init, MethodInv
<1>2. TypeInv /\ MethodInv /\ [Next]_vars => MethodInv'
  BY MethodInvNext
<1> QED BY <1>1, <1>2, TypeInvariant, PTL DEF Spec

-----------------------------------------------------------------------------
(* The theorems *)

\* Whatever the image and the call, every pass leaves a deck of whole lines
\* whose elements have a pseudopotential, and only a refusal leaves none.
THEOREM TypeCorrect == Spec => []TypeOK
<1>1. TypeInv => TypeOK
  BY DEF TypeInv
<1> QED BY <1>1, TypeInvariant, PTL

\* The deck that replaces the atoms of an image has one block for every
\* element of the call, with all its atoms and with the message's
\* pseudopotential if it gives one.
THEOREM AtomsAreOfTheCall == Spec => []AtomsOfTheCall
<1>1. TypeInv => AtomsOfTheCall
  BY NoneIsApart DEF TypeInv, TypeOK, AtomsOfTheCall
<1> QED BY <1>1, TypeInvariant, PTL

\* For decks written as the renderer of typed sections writes them, the deck
\* that is parsed has the cell of the call once, in the unit it is read in.
THEOREM CellIsOfTheCall ==
    ASSUME InputsAsRendered
    PROVE  Spec => []CellOfTheCall
<1>1. CellInv => CellOfTheCall
  BY DEF CellInv, CellOfTheCall
<1> QED BY <1>1, CellInvariant, PTL

\* For such decks, the symmetry that is parsed is stated once and fits the
\* box, and a deck that says isolated stays isolated.
THEOREM SymmetryIsOfTheCell ==
    ASSUME InputsAsRendered
    PROVE  Spec => []SymmetryFitsTheCell
<1>1. CellInv => SymmetryFitsTheCell
  BY DEF CellInv, SymmetryFitsTheCell
<1> QED BY <1>1, CellInvariant, PTL

\* For decks whose cells and symmetries have the records CPMD reads below
\* them, all that a method deck says beside them reaches the parser in its
\* order, whatever the box: but for one with CELL VECTORS in one record
\* that is given a box, where the code leaves out what follows.
THEOREM MethodReachesTheParser ==
    ASSUME RecordsAreWhole
    PROVE  Spec => []MethodLinesSurvive
<1>1. MethodInv => MethodLinesSurvive
  BY DEF MethodInv, MethodLinesSurvive
<1> QED BY <1>1, MethodInvariant, PTL
================================================================================
