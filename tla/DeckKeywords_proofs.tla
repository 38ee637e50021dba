-------------------------- MODULE DeckKeywords_proofs --------------------------
(***************************************************************************)
(* What the lines of a deck block are, for every section and every set of  *)
(* its fields.                                                             *)
(*                                                                         *)
(* Most rows of a section are Ordinary: one of their fields is enough for  *)
(* them to print.  The others are listed per section (the sets named       *)
(* ...Special), and so are the fields a section may lose (...Lost).  The   *)
(* argument has three parts.                                               *)
(*   Exclusive  No two rows of a section that print together have the same *)
(*              keyword, but for those it repeats: shown for each chunk of *)
(*              its rows and, Apart, for each two chunks.                  *)
(*   Covers     A field that is not lost has an ordinary row, or a special *)
(*              row that prints because the deck would be refused          *)
(*              otherwise; a lost one is printed by a special row exactly  *)
(*              when it is not excused.                                    *)
(*   IInv       The lines of a rendered deck are the rows that print, of   *)
(*              a set of fields that is not refused.                       *)
(***************************************************************************)
EXTENDS DeckKeywords, SequenceTheorems, FiniteSetTheorems, TLAPS

\* The rows of a table, and a table of rows.
RowsOf(rows) == {rows[i] : i \in DOMAIN rows}
IsTable(rows) == rows \in Seq(RowsOf(rows))

\* No two rows print the same keyword on one deck, but for those in names.
Rivals(row, other) == row.keyword = other.keyword /\ \E set : Prints(row, set) /\ Prints(other, set)
Exclusive(rows, names) ==
    \A i, j \in DOMAIN rows : i < j /\ Rivals(rows[i], rows[j]) => rows[i].keyword \in names
Apart(these, those, names) ==
    \A row \in these, other \in those : row.keyword = other.keyword => row.keyword \in names

-----------------------------------------------------------------------------
(* Tables put together *)

LEMMA JoinedTable ==
    ASSUME NEW s, NEW t, IsTable(s), IsTable(t)
    PROVE  /\ IsTable(s \o t)
           /\ Len(s) \in Nat /\ Len(t) \in Nat
           /\ DOMAIN s = 1 .. Len(s) /\ DOMAIN t = 1 .. Len(t)
           /\ Len(s \o t) = Len(s) + Len(t)
           /\ DOMAIN (s \o t) = 1 .. (Len(s) + Len(t))
           /\ \A i \in 1 .. Len(s) : (s \o t)[i] = s[i]
           /\ \A i \in 1 .. Len(t) : (s \o t)[Len(s) + i] = t[i]
           /\ RowsOf(s \o t) = RowsOf(s) \cup RowsOf(t)
<1> DEFINE R == RowsOf(s) \cup RowsOf(t)
<1>1. s \in Seq(R) /\ t \in Seq(R)
  BY DEF IsTable
<1>2. /\ Len(s) \in Nat /\ Len(t) \in Nat
      /\ DOMAIN s = 1 .. Len(s) /\ DOMAIN t = 1 .. Len(t)
  BY <1>1
<1>3. /\ Len(s \o t) = Len(s) + Len(t)
      /\ DOMAIN (s \o t) = 1 .. (Len(s) + Len(t))
      /\ \A i \in 1 .. Len(s) : (s \o t)[i] = s[i]
      /\ \A i \in 1 .. Len(t) : (s \o t)[Len(s) + i] = t[i]
      /\ s \o t \in Seq(R)
  BY <1>1, <1>2
<1>4. \A i \in DOMAIN (s \o t) : i \in 1 .. Len(s) \/ \E j \in 1 .. Len(t) : i = Len(s) + j
  <2>1. ASSUME NEW i \in 1 .. (Len(s) + Len(t)), i \notin 1 .. Len(s)
        PROVE  i - Len(s) \in 1 .. Len(t) /\ i = Len(s) + (i - Len(s))
    BY <2>1, <1>2
  <2> QED BY <2>1, <1>3
<1>5. RowsOf(s \o t) = R
  <2>1. ASSUME NEW i \in DOMAIN (s \o t) PROVE (s \o t)[i] \in R
    BY <1>2, <1>3, <1>4 DEF RowsOf
  <2>2. ASSUME NEW i \in DOMAIN s PROVE i \in DOMAIN (s \o t) /\ (s \o t)[i] = s[i]
    BY <1>2, <1>3
  <2>3. ASSUME NEW i \in DOMAIN t PROVE Len(s) + i \in DOMAIN (s \o t) /\ (s \o t)[Len(s) + i] = t[i]
    BY <1>2, <1>3
  <2>4. RowsOf(s \o t) \subseteq R
    BY <2>1 DEF RowsOf
  <2>5. RowsOf(s) \subseteq RowsOf(s \o t) /\ RowsOf(t) \subseteq RowsOf(s \o t)
    BY <2>2, <2>3 DEF RowsOf
  <2> QED BY <2>4, <2>5
<1>6. IsTable(s \o t)
  BY <1>3, <1>5 DEF IsTable
<1> QED BY <1>2, <1>3, <1>5, <1>6

LEMMA JoinedExclusive ==
    ASSUME NEW s, NEW t, NEW names, IsTable(s), IsTable(t),
           Exclusive(s, names), Exclusive(t, names), Apart(RowsOf(s), RowsOf(t), names)
    PROVE  Exclusive(s \o t, names)
<1> SUFFICES ASSUME NEW i \in DOMAIN (s \o t), NEW j \in DOMAIN (s \o t), i < j,
                    Rivals((s \o t)[i], (s \o t)[j])
             PROVE  (s \o t)[i].keyword \in names
  BY DEF Exclusive
<1> DEFINE m == Len(s)
<1>1. m \in Nat /\ Len(t) \in Nat /\ i \in 1 .. (m + Len(t)) /\ j \in 1 .. (m + Len(t))
  BY JoinedTable
<1>2. DOMAIN s = 1 .. m /\ DOMAIN t = 1 .. Len(t)
  BY JoinedTable
<1>3. (s \o t)[i].keyword = (s \o t)[j].keyword
  BY DEF Rivals
<1>4. CASE j <= m
  <2>1. i \in DOMAIN s /\ j \in DOMAIN s
    BY <1>1, <1>2, <1>4
  <2>2. (s \o t)[i] = s[i] /\ (s \o t)[j] = s[j]
    BY <2>1, <1>2, JoinedTable
  <2> QED BY <2>1, <2>2 DEF Exclusive
<1>5. CASE i > m
  <2>1. i - m \in DOMAIN t /\ j - m \in DOMAIN t /\ i - m < j - m
        /\ i = m + (i - m) /\ j = m + (j - m)
    BY <1>1, <1>2, <1>5
  <2>2. (s \o t)[i] = t[i - m] /\ (s \o t)[j] = t[j - m]
    BY <2>1, <1>2, JoinedTable
  <2> QED BY <2>1, <2>2 DEF Exclusive
<1>6. CASE i <= m /\ j > m
  <2>1. i \in DOMAIN s /\ j - m \in DOMAIN t /\ j = m + (j - m)
    BY <1>1, <1>2, <1>6
  <2>2. (s \o t)[i] = s[i] /\ (s \o t)[j] = t[j - m]
    BY <2>1, <1>2, JoinedTable
  <2> QED BY <2>1, <2>2, <1>3 DEF Apart, RowsOf
<1> QED BY <1>1, <1>4, <1>5, <1>6

-----------------------------------------------------------------------------
(* Single rows *)

LEMMA AnyOfPrints ==
    ASSUME NEW k, NEW fs, NEW gs, NEW set
    PROVE  /\ AnyOf(k, fs).carries = fs
           /\ Prints(AnyOf(k, fs), set) <=> fs \cap set # {}
           /\ Unless(AnyOf(k, fs), gs).carries = fs
           /\ Prints(Unless(AnyOf(k, fs), gs), set) <=> fs \cap set # {} /\ gs \cap set = {}
<1> DEFINE when == {{f} : f \in fs}
<1>1. (\E w \in when : w \subseteq set) <=> fs \cap set # {}
  <2>1. ASSUME NEW w \in when, w \subseteq set PROVE fs \cap set # {}
    <3>1. PICK f \in fs : w = {f}
      OBVIOUS
    <3> QED BY <3>1, <2>1
  <2>2. ASSUME NEW f \in fs, f \in set PROVE \E w \in when : w \subseteq set
    <3>1. {f} \in when /\ {f} \subseteq set
      BY <2>2
    <3> QED BY <3>1
  <2> QED BY <2>1, <2>2
<1>2. /\ AnyOf(k, fs).carries = fs /\ AnyOf(k, fs).when = when /\ AnyOf(k, fs).unless = {}
      /\ Unless(AnyOf(k, fs), gs).carries = fs /\ Unless(AnyOf(k, fs), gs).when = when
      /\ Unless(AnyOf(k, fs), gs).unless = gs
  BY DEF AnyOf, Row, Unless
<1> HIDE DEF when
<1> QED BY <1>1, <1>2 DEF Prints

LEMMA FPrints ==
    ASSUME NEW k, NEW f, NEW gs, NEW set
    PROVE  /\ F(k, f).carries = {f}
           /\ Prints(F(k, f), set) <=> f \in set
           /\ Unless(F(k, f), gs).carries = {f}
           /\ Prints(Unless(F(k, f), gs), set) <=> f \in set /\ gs \cap set = {}
<1>1. {f} \cap set # {} <=> f \in set
  OBVIOUS
<1> QED BY <1>1, AnyOfPrints, Zenon DEF F

LEMMA RidesPrints ==
    ASSUME NEW f, NEW fs, NEW set
    PROVE  /\ Rides(f, fs).carries = {f}
           /\ Prints(Rides(f, fs), set) <=> f \in set /\ fs \cap set # {}
<1> DEFINE when == {{f, l} : l \in fs}
<1>1. (\E w \in when : w \subseteq set) <=> f \in set /\ fs \cap set # {}
  <2>1. ASSUME NEW w \in when, w \subseteq set PROVE f \in set /\ fs \cap set # {}
    <3>1. PICK l \in fs : w = {f, l}
      OBVIOUS
    <3> QED BY <3>1, <2>1
  <2>2. ASSUME f \in set, NEW l \in fs, l \in set PROVE \E w \in when : w \subseteq set
    <3>1. {f, l} \in when /\ {f, l} \subseteq set
      BY <2>2
    <3> QED BY <3>1
  <2> QED BY <2>1, <2>2
<1>2. Rides(f, fs).carries = {f} /\ Rides(f, fs).when = when /\ Rides(f, fs).unless = {}
  BY DEF Row, Rides
<1> HIDE DEF when
<1> QED BY <1>1, <1>2 DEF Prints

LEMMA AllOfPrints ==
    ASSUME NEW k, NEW fs, NEW set
    PROVE  /\ AllOf(k, fs).carries = fs
           /\ Prints(AllOf(k, fs), set) <=> fs \subseteq set
           /\ Also(fs).carries = fs
           /\ Prints(Also(fs), set) <=> fs \subseteq set
BY DEF AllOf, Also, Row, Prints

LEMMA AlwaysPrints ==
    ASSUME NEW k, NEW fs, NEW gs, NEW set
    PROVE  /\ Always(k, fs).carries = fs
           /\ Prints(Always(k, fs), set)
           /\ Unless(Always(k, fs), gs).carries = fs
           /\ Prints(Unless(Always(k, fs), gs), set) <=> gs \cap set = {}
BY DEF Always, Row, Prints, Unless

\* The same for all rows of a kind.
LEMMA PrintsIs ==
    /\ \A k, fs, set : /\ AnyOf(k, fs).carries = fs
                       /\ Prints(AnyOf(k, fs), set) <=> fs \cap set # {}
    /\ \A k, f, set : F(k, f).carries = {f} /\ (Prints(F(k, f), set) <=> f \in set)
    /\ \A k, fs, set : /\ AllOf(k, fs).carries = fs
                       /\ Prints(AllOf(k, fs), set) <=> fs \subseteq set
    /\ \A fs, set : Also(fs).carries = fs /\ (Prints(Also(fs), set) <=> fs \subseteq set)
    /\ \A f, fs, set : /\ Rides(f, fs).carries = {f}
                       /\ Prints(Rides(f, fs), set) <=> f \in set /\ fs \cap set # {}
<1>1. \A k, fs, set : /\ AnyOf(k, fs).carries = fs
                      /\ Prints(AnyOf(k, fs), set) <=> fs \cap set # {}
  BY AnyOfPrints, Zenon
<1>2. \A k, f, set : F(k, f).carries = {f} /\ (Prints(F(k, f), set) <=> f \in set)
  BY FPrints, Zenon
<1>3. \A k, fs, set : /\ AllOf(k, fs).carries = fs
                      /\ Prints(AllOf(k, fs), set) <=> fs \subseteq set
  BY AllOfPrints, Zenon
<1>4. \A fs, set : Also(fs).carries = fs /\ (Prints(Also(fs), set) <=> fs \subseteq set)
  BY AllOfPrints, Zenon
<1>5. \A f, fs, set : /\ Rides(f, fs).carries = {f}
                      /\ Prints(Rides(f, fs), set) <=> f \in set /\ fs \cap set # {}
  BY RidesPrints, Zenon
<1> QED BY <1>1, <1>2, <1>3, <1>4, <1>5

LEMMA UnlessPrints ==
    /\ \A k, fs, gs, set :
          /\ Unless(AnyOf(k, fs), gs).carries = fs
          /\ Prints(Unless(AnyOf(k, fs), gs), set) <=> fs \cap set # {} /\ gs \cap set = {}
    /\ \A k, f, gs, set :
          /\ Unless(F(k, f), gs).carries = {f}
          /\ Prints(Unless(F(k, f), gs), set) <=> f \in set /\ gs \cap set = {}
    /\ \A k, fs, gs, set :
          /\ Unless(Always(k, fs), gs).carries = fs
          /\ Prints(Unless(Always(k, fs), gs), set) <=> gs \cap set = {}
<1>1. \A k, fs, gs, set :
          /\ Unless(AnyOf(k, fs), gs).carries = fs
          /\ Prints(Unless(AnyOf(k, fs), gs), set) <=> fs \cap set # {} /\ gs \cap set = {}
  BY AnyOfPrints, SMT
<1>2. \A k, f, gs, set :
          /\ Unless(F(k, f), gs).carries = {f}
          /\ Prints(Unless(F(k, f), gs), set) <=> f \in set /\ gs \cap set = {}
  BY FPrints, SMT
<1>3. \A k, fs, gs, set :
          /\ Unless(Always(k, fs), gs).carries = fs
          /\ Prints(Unless(Always(k, fs), gs), set) <=> gs \cap set = {}
  BY AlwaysPrints, SMT
<1> QED BY <1>1, <1>2, <1>3

\* A row that prints as soon as one of its fields is set, none of them in fs.
Ordinary(row, fs) ==
    /\ row.unless = {}
    /\ \A f \in row.carries : \E w \in row.when : w \subseteq {f}
    /\ row.carries \cap fs = {}

\* The keyword of a row, and which rows are ordinary.
LEMMA RowShape ==
    /\ \A k, f, fs : F(k, f).keyword = k /\ (f \notin fs => Ordinary(F(k, f), fs))
    /\ \A k, fs, gs : AnyOf(k, fs).keyword = k
                        /\ (fs \cap gs = {} => Ordinary(AnyOf(k, fs), gs))
    /\ \A k, fs, gs : Always(k, fs).keyword = k
                        /\ (fs \cap gs = {} => Ordinary(Always(k, fs), gs))
    /\ \A row, fs : Unless(row, fs).keyword = row.keyword
    /\ \A k, fs : AllOf(k, fs).keyword = k
    /\ \A fs : Also(fs).keyword = "value"
    /\ \A f, fs : Rides(f, fs).keyword = "value"
<1>1. \A k, f, fs : F(k, f).keyword = k /\ (f \notin fs => Ordinary(F(k, f), fs))
  BY DEF F, AnyOf, Row, Ordinary
<1>2. \A k, fs, gs : AnyOf(k, fs).keyword = k
                       /\ (fs \cap gs = {} => Ordinary(AnyOf(k, fs), gs))
  BY DEF AnyOf, Row, Ordinary
<1>3. \A k, fs, gs : Always(k, fs).keyword = k
                       /\ (fs \cap gs = {} => Ordinary(Always(k, fs), gs))
  BY DEF Always, Row, Ordinary
<1>4. \A row, fs : Unless(row, fs).keyword = row.keyword
  BY DEF Unless
<1>5. \A k, fs : AllOf(k, fs).keyword = k
  BY DEF AllOf, Row
<1>6. \A fs : Also(fs).keyword = "value"
  BY DEF AllOf, Also, Row
<1>7. \A f, fs : Rides(f, fs).keyword = "value"
  BY DEF Rides, Row
<1> QED BY <1>1, <1>2, <1>3, <1>4, <1>5, <1>6, <1>7

LEMMA OrdinaryPrints ==
    ASSUME NEW row, NEW lost, Ordinary(row, lost), NEW set, NEW f \in row.carries, f \in set
    PROVE  Prints(row, set) /\ f \notin lost
BY DEF Ordinary, Prints

-----------------------------------------------------------------------------
(* Losses and refusals *)

\* The condition of one loss.
Lossy(l, set) ==
    \/ ~(l.needs \subseteq set)
    \/ l.oneOf # {} /\ l.oneOf \cap set = {}
    \/ l.yields \cap set # {}

LEMMA ExcusedIs ==
    ASSUME NEW losses, NEW set, NEW f
    PROVE  f \in Excused(losses, set) <=> \E l \in losses : l.field = f /\ Lossy(l, set)
BY DEF Excused, Lossy

LEMMA LossField ==
    /\ \A f, fs : Needs(f, fs).field = f /\ Yields(f, fs).field = f /\ NeedsOne(f, fs).field = f
    /\ \A f : Dropped(f).field = f
BY DEF Needs, Yields, NeedsOne, Dropped

\* A field with one loss is excused by that one.
LEMMA ExcusedByOne ==
    ASSUME NEW losses, NEW set, NEW l \in losses, NEW f,
           \A m \in losses : m.field = f => m = l, l.field = f
    PROVE  f \in Excused(losses, set) <=> Lossy(l, set)
BY ExcusedIs

LEMMA LossShape ==
    /\ \A f, fs, set : /\ Needs(f, fs).field = f
                       /\ Lossy(Needs(f, fs), set) <=> ~(fs \subseteq set)
    /\ \A f, fs, set : /\ Yields(f, fs).field = f
                       /\ Lossy(Yields(f, fs), set) <=> fs \cap set # {}
    /\ \A f, fs, set : /\ NeedsOne(f, fs).field = f
                       /\ Lossy(NeedsOne(f, fs), set) <=> fs # {} /\ fs \cap set = {}
    /\ \A f, set : Dropped(f).field = f /\ (Lossy(Dropped(f), set) <=> f \in set)
<1>1. \A f, fs, set : /\ Needs(f, fs).field = f
                      /\ Lossy(Needs(f, fs), set) <=> ~(fs \subseteq set)
  BY DEF Needs, Lossy
<1>2. \A f, fs, set : /\ Yields(f, fs).field = f
                      /\ Lossy(Yields(f, fs), set) <=> fs \cap set # {}
  BY DEF Yields, Lossy
<1>3. \A f, fs, set : /\ NeedsOne(f, fs).field = f
                      /\ Lossy(NeedsOne(f, fs), set) <=> fs # {} /\ fs \cap set = {}
  BY DEF NeedsOne, Lossy
<1>4. \A f, set : Dropped(f).field = f /\ (Lossy(Dropped(f), set) <=> f \in set)
  BY <1>2 DEF Dropped
<1> QED BY <1>1, <1>2, <1>3, <1>4

LEMMA NotRefused ==
    ASSUME NEW refusals, NEW set, ~Refused(refusals, set)
    PROVE  /\ \A f, fs : Without(f, fs) \in refusals /\ f \in set => fs \cap set # {}
           /\ \A f : Bad(f) \in refusals => f \notin set
           /\ \A fs : Together(fs) \in refusals => ~(fs \subseteq set)
<1>1. ASSUME NEW f, NEW fs, Without(f, fs) \in refusals, f \in set PROVE fs \cap set # {}
  <2>1. Without(f, fs).both = {f} /\ Without(f, fs).without = fs
    BY DEF Without
  <2> QED BY <1>1, <2>1 DEF Refused
<1>2. ASSUME NEW fs, Together(fs) \in refusals PROVE ~(fs \subseteq set)
  <2>1. Together(fs).both = fs /\ Together(fs).without = {}
    BY DEF Together
  <2> QED BY <1>2, <2>1 DEF Refused
<1>3. ASSUME NEW f, Bad(f) \in refusals PROVE f \notin set
  <2>1. Together({f}) \in refusals
    BY <1>3 DEF Bad
  <2> QED BY <1>2, <2>1
<1> QED BY <1>1, <1>2, <1>3

-----------------------------------------------------------------------------
(* Sections *)

\* A part of a section: each of its rows is ordinary or in special, and it
\* prints no keyword twice but for those in names.
Part(rows, names, lost, special) ==
    /\ IsTable(rows)
    /\ Exclusive(rows, names)
    /\ \A row \in RowsOf(rows) : Ordinary(row, lost) \/ row \in special

LEMMA JoinedPart ==
    ASSUME NEW s, NEW t, NEW names, NEW lost, NEW special,
           Part(s, names, lost, special), Part(t, names, lost, special),
           Apart(RowsOf(s), RowsOf(t), names)
    PROVE  Part(s \o t, names, lost, special) /\ RowsOf(s \o t) = RowsOf(s) \cup RowsOf(t)
<1>1. IsTable(s) /\ IsTable(t) /\ Exclusive(s, names) /\ Exclusive(t, names)
  BY DEF Part
<1>2. IsTable(s \o t) /\ RowsOf(s \o t) = RowsOf(s) \cup RowsOf(t)
  BY <1>1, JoinedTable
<1>3. Exclusive(s \o t, names)
  BY <1>1, JoinedExclusive
<1> QED BY <1>2, <1>3 DEF Part

\* Of the fields of set, the table prints those that are not excused.
Covers(rows, losses, set) ==
    \A f \in set :
        (\E row \in RowsOf(rows) : f \in row.carries /\ Prints(row, set))
          <=> f \notin Excused(losses, set)

\* Of the special rows, f is printed by one exactly when it is not excused.
Right(special, losses, set, f) ==
    (\E row \in special : f \in row.carries /\ Prints(row, set)) <=> f \notin Excused(losses, set)

\* Every row is ordinary or one of special, which alone print lost fields.
LEMMA CoversWhen ==
    ASSUME NEW rows, NEW losses, NEW set, NEW lost, NEW special,
           \A row \in RowsOf(rows) : Ordinary(row, lost) \/ row \in special,
           special \subseteq RowsOf(rows),
           \A l \in losses : l.field \in lost,
           \A f \in set \cap lost : Right(special, losses, set, f),
           \A f \in set \ lost :
               \/ \E row \in RowsOf(rows) : f \in row.carries /\ Ordinary(row, lost)
               \/ \E row \in special : f \in row.carries /\ Prints(row, set)
    PROVE  Covers(rows, losses, set)
<1> SUFFICES ASSUME NEW f \in set
             PROVE  (\E row \in RowsOf(rows) : f \in row.carries /\ Prints(row, set))
                      <=> f \notin Excused(losses, set)
  BY DEF Covers
<1>1. CASE f \in lost
  <2>1. ASSUME NEW row \in RowsOf(rows), f \in row.carries, Prints(row, set)
        PROVE  row \in special
    BY <1>1, <2>1, OrdinaryPrints
  <2> QED BY <1>1, <2>1 DEF Right
<1>2. CASE f \notin lost
  <2>1. f \notin Excused(losses, set)
    BY <1>2, ExcusedIs
  <2>2. \E row \in RowsOf(rows) : f \in row.carries /\ Prints(row, set)
    BY <1>2, OrdinaryPrints
  <2> QED BY <2>1, <2>2
<1> QED BY <1>1, <1>2

\* A section without special rows, refusals and losses.
LEMMA PlainCovers ==
    ASSUME NEW rows, NEW set, \A row \in RowsOf(rows) : Ordinary(row, {}),
           set \subseteq FieldsOf(rows)
    PROVE  Covers(rows, {}, set)
<1>1. ASSUME NEW f \in set
      PROVE  \E row \in RowsOf(rows) : f \in row.carries /\ Ordinary(row, {})
  BY DEF FieldsOf, RowsOf
<1> QED BY <1>1, CoversWhen

-----------------------------------------------------------------------------
(* The &CPMD section *)

CpmdNames == {"value"} \cup CpmdRepeats

CpmdLost ==
    {"storeSelection", "storeInterval", "storeSelfConsistentInterval", "taskGroups",
     "taskGroupsCount", "temperatureRamp", "temperatureRampTime", "temperatureRampRate",
     "stressTensorVirial", "restFileSample", "rhoOutBands", "wannierWfnOutPayload",
     "glocWfnOutPayload", "splinePoints", "splineRange", "noseIonsLocalT0",
     "optimizeWavefunction", "task=gradient", "paramsFilePath"}

NoseLocals ==
    {"noseIonsLocalThermostatCount", "noseIonsLocalThermostats",
     "noseIonsLocalRangeCount", "noseIonsLocalRanges"}

CpmdSpecial ==
    {Unless(AnyOf("OPTIMIZE_WAVEFUNCTION", {"optimizeWavefunction", "task=gradient"}),
            {"molecularDynamics", "task=md"}),
     Unless(F("FILEPATH", "paramsFilePath"), {"directive:FILEPATH", "set:FILEPATH"}),
     Rides("noseIonsLocalT0", NoseLocals),
     AllOf("STORE", {"storeSelection", "storeInterval"}),
     AllOf("TASKGROUPS", {"taskGroups", "taskGroupsCount"}),
     Also({"storeSelection", "storeInterval", "storeSelfConsistentInterval"}),
     Also({"temperature", "temperatureRamp"}),
     Also({"temperature", "temperatureRamp", "temperatureRampTime"}),
     Also({"temperature", "temperatureRamp", "temperatureRampRate"}),
     Also({"stressTensorSample", "stressTensorVirial"}),
     Also({"restFileCount", "restFileSample"}), Also({"rhoOutBandsCount", "rhoOutBands"}),
     Also({"wannierWfnOutOptions", "wannierWfnOutPayload"}),
     Also({"glocWfnOutOptions", "glocWfnOutPayload"}),
     Also({"splineOptions", "splinePoints"}), Also({"splineOptions", "splineRange"})}

LEMMA CpmdTaskPart == Part(CpmdTask, CpmdNames, CpmdLost, CpmdSpecial)
<1>1. \A i \in DOMAIN CpmdTask : CpmdTask[i] \in RowsOf(CpmdTask)
  BY DEF RowsOf
<1>2. IsTable(CpmdTask)
  BY <1>1 DEF IsTable, CpmdTask
<1>3. Exclusive(CpmdTask, CpmdNames)
  BY RowShape DEF Exclusive, Rivals, CpmdNames, CpmdRepeats, CpmdTask
<1>4. \A row \in RowsOf(CpmdTask) :
        \/ Ordinary(row, CpmdLost)
        \/ row \in {Unless(AnyOf("OPTIMIZE_WAVEFUNCTION", {"optimizeWavefunction", "task=gradient"}),
           {"molecularDynamics", "task=md"})}
  BY RowShape DEF RowsOf, CpmdLost, CpmdTask
<1>5. {Unless(AnyOf("OPTIMIZE_WAVEFUNCTION", {"optimizeWavefunction", "task=gradient"}),
           {"molecularDynamics", "task=md"})}
        \subseteq CpmdSpecial
  BY DEF CpmdSpecial
<1> QED BY <1>2, <1>3, <1>4, <1>5 DEF Part

LEMMA CpmdMethodPart == Part(CpmdMethod, CpmdNames, CpmdLost, CpmdSpecial)
<1>1. \A i \in DOMAIN CpmdMethod : CpmdMethod[i] \in RowsOf(CpmdMethod)
  BY DEF RowsOf
<1>2. IsTable(CpmdMethod)
  BY <1>1 DEF IsTable, CpmdMethod
<1>3. Exclusive(CpmdMethod, CpmdNames)
  BY RowShape DEF Exclusive, Rivals, CpmdNames, CpmdRepeats, CpmdMethod
<1>4. \A row \in RowsOf(CpmdMethod) : Ordinary(row, CpmdLost)
  BY RowShape DEF RowsOf, CpmdLost, CpmdMethod
<1> QED BY <1>2, <1>3, <1>4 DEF Part

LEMMA CpmdPathsPart == Part(CpmdPaths, CpmdNames, CpmdLost, CpmdSpecial)
<1>1. \A i \in DOMAIN CpmdPaths : CpmdPaths[i] \in RowsOf(CpmdPaths)
  BY DEF RowsOf
<1>2. IsTable(CpmdPaths)
  BY <1>1 DEF IsTable, CpmdPaths
<1>3. Exclusive(CpmdPaths, CpmdNames)
  BY RowShape DEF Exclusive, Rivals, CpmdNames, CpmdRepeats, CpmdPaths
<1>4. \A row \in RowsOf(CpmdPaths) : Ordinary(row, CpmdLost)
  BY RowShape DEF RowsOf, CpmdLost, CpmdPaths
<1> QED BY <1>2, <1>3, <1>4 DEF Part

LEMMA CpmdMixingPart == Part(CpmdMixing, CpmdNames, CpmdLost, CpmdSpecial)
<1>1. \A i \in DOMAIN CpmdMixing : CpmdMixing[i] \in RowsOf(CpmdMixing)
  BY DEF RowsOf
<1>2. IsTable(CpmdMixing)
  BY <1>1 DEF IsTable, CpmdMixing
<1>3. Exclusive(CpmdMixing, CpmdNames)
  BY RowShape DEF Exclusive, Rivals, CpmdNames, CpmdRepeats, CpmdMixing
<1>4. \A row \in RowsOf(CpmdMixing) : Ordinary(row, CpmdLost)
  BY RowShape DEF RowsOf, CpmdLost, CpmdMixing
<1> QED BY <1>2, <1>3, <1>4 DEF Part

LEMMA CpmdOptimizersPart == Part(CpmdOptimizers, CpmdNames, CpmdLost, CpmdSpecial)
<1>1. \A i \in DOMAIN CpmdOptimizers : CpmdOptimizers[i] \in RowsOf(CpmdOptimizers)
  BY DEF RowsOf
<1>2. IsTable(CpmdOptimizers)
  BY <1>1 DEF IsTable, CpmdOptimizers
<1>3. Exclusive(CpmdOptimizers, CpmdNames)
  BY RowShape DEF Exclusive, Rivals, CpmdNames, CpmdRepeats, CpmdOptimizers
<1>4. \A row \in RowsOf(CpmdOptimizers) : Ordinary(row, CpmdLost)
  BY RowShape DEF RowsOf, CpmdLost, CpmdOptimizers
<1> QED BY <1>2, <1>3, <1>4 DEF Part

LEMMA CpmdStartPart == Part(CpmdStart, CpmdNames, CpmdLost, CpmdSpecial)
<1>1. \A i \in DOMAIN CpmdStart : CpmdStart[i] \in RowsOf(CpmdStart)
  BY DEF RowsOf
<1>2. IsTable(CpmdStart)
  BY <1>1 DEF IsTable, CpmdStart
<1>3. Exclusive(CpmdStart, CpmdNames)
  BY RowShape DEF Exclusive, Rivals, CpmdNames, CpmdRepeats, CpmdStart
<1>4. \A row \in RowsOf(CpmdStart) : Ordinary(row, CpmdLost)
  BY RowShape DEF RowsOf, CpmdLost, CpmdStart
<1> QED BY <1>2, <1>3, <1>4 DEF Part

LEMMA CpmdConvergencePart == Part(CpmdConvergence, CpmdNames, CpmdLost, CpmdSpecial)
<1>1. \A i \in DOMAIN CpmdConvergence : CpmdConvergence[i] \in RowsOf(CpmdConvergence)
  BY DEF RowsOf
<1>2. IsTable(CpmdConvergence)
  BY <1>1 DEF IsTable, CpmdConvergence
<1>3. Exclusive(CpmdConvergence, CpmdNames)
  BY RowShape DEF Exclusive, Rivals, CpmdNames, CpmdRepeats, CpmdConvergence
<1>4. \A row \in RowsOf(CpmdConvergence) : Ordinary(row, CpmdLost)
  BY RowShape DEF RowsOf, CpmdLost, CpmdConvergence
<1> QED BY <1>2, <1>3, <1>4 DEF Part

LEMMA CpmdDynamicsPart == Part(CpmdDynamics, CpmdNames, CpmdLost, CpmdSpecial)
<1>1. \A i \in DOMAIN CpmdDynamics : CpmdDynamics[i] \in RowsOf(CpmdDynamics)
  BY DEF RowsOf
<1>2. IsTable(CpmdDynamics)
  BY <1>1 DEF IsTable, CpmdDynamics
<1>3. Exclusive(CpmdDynamics, CpmdNames)
  BY RowShape DEF Exclusive, Rivals, CpmdNames, CpmdRepeats, CpmdDynamics
<1>4. \A row \in RowsOf(CpmdDynamics) :
        \/ Ordinary(row, CpmdLost)
        \/ row \in {Also({"temperature", "temperatureRamp"}),
             Also({"temperature", "temperatureRamp", "temperatureRampTime"}),
             Also({"temperature", "temperatureRamp", "temperatureRampRate"})}
  BY RowShape DEF RowsOf, CpmdLost, CpmdDynamics
<1>5. {Also({"temperature", "temperatureRamp"}),
             Also({"temperature", "temperatureRamp", "temperatureRampTime"}),
             Also({"temperature", "temperatureRamp", "temperatureRampRate"})}
        \subseteq CpmdSpecial
  BY DEF CpmdSpecial
<1> QED BY <1>2, <1>3, <1>4, <1>5 DEF Part

LEMMA CpmdThermostatsPart == Part(CpmdThermostats, CpmdNames, CpmdLost, CpmdSpecial)
<1>1. \A i \in DOMAIN CpmdThermostats : CpmdThermostats[i] \in RowsOf(CpmdThermostats)
  BY DEF RowsOf
<1>2. IsTable(CpmdThermostats)
  BY <1>1 DEF IsTable, CpmdThermostats
<1>3. Exclusive(CpmdThermostats, CpmdNames)
  BY RowShape DEF Exclusive, Rivals, CpmdNames, CpmdRepeats, CpmdThermostats
<1>4. \A row \in RowsOf(CpmdThermostats) :
        \/ Ordinary(row, CpmdLost)
        \/ row \in {Rides("noseIonsLocalT0", NoseLocals)}
  BY RowShape DEF RowsOf, CpmdLost, CpmdThermostats, NoseLocals
<1>5. {Rides("noseIonsLocalT0", NoseLocals)}
        \subseteq CpmdSpecial
  BY DEF CpmdSpecial
<1> QED BY <1>2, <1>3, <1>4, <1>5 DEF Part

LEMMA CpmdControlPart == Part(CpmdControl, CpmdNames, CpmdLost, CpmdSpecial)
<1>1. \A i \in DOMAIN CpmdControl : CpmdControl[i] \in RowsOf(CpmdControl)
  BY DEF RowsOf
<1>2. IsTable(CpmdControl)
  BY <1>1 DEF IsTable, CpmdControl
<1>3. Exclusive(CpmdControl, CpmdNames)
  BY RowShape DEF Exclusive, Rivals, CpmdNames, CpmdRepeats, CpmdControl
<1>4. \A row \in RowsOf(CpmdControl) :
        \/ Ordinary(row, CpmdLost)
        \/ row \in {Also({"stressTensorSample", "stressTensorVirial"})}
  BY RowShape DEF RowsOf, CpmdLost, CpmdControl
<1>5. {Also({"stressTensorSample", "stressTensorVirial"})}
        \subseteq CpmdSpecial
  BY DEF CpmdSpecial
<1> QED BY <1>2, <1>3, <1>4, <1>5 DEF Part

LEMMA CpmdOutputPart == Part(CpmdOutput, CpmdNames, CpmdLost, CpmdSpecial)
<1>1. \A i \in DOMAIN CpmdOutput : CpmdOutput[i] \in RowsOf(CpmdOutput)
  BY DEF RowsOf
<1>2. IsTable(CpmdOutput)
  BY <1>1 DEF IsTable, CpmdOutput
<1>3. Exclusive(CpmdOutput, CpmdNames)
  BY RowShape DEF Exclusive, Rivals, CpmdNames, CpmdRepeats, CpmdOutput
<1>4. \A row \in RowsOf(CpmdOutput) :
        \/ Ordinary(row, CpmdLost)
        \/ row \in {AllOf("STORE", {"storeSelection", "storeInterval"}),
             Also({"storeSelection", "storeInterval", "storeSelfConsistentInterval"}),
             Also({"restFileCount", "restFileSample"})}
  BY RowShape DEF RowsOf, CpmdLost, CpmdOutput
<1>5. {AllOf("STORE", {"storeSelection", "storeInterval"}),
             Also({"storeSelection", "storeInterval", "storeSelfConsistentInterval"}),
             Also({"restFileCount", "restFileSample"})}
        \subseteq CpmdSpecial
  BY DEF CpmdSpecial
<1> QED BY <1>2, <1>3, <1>4, <1>5 DEF Part

LEMMA CpmdDensitiesPart == Part(CpmdDensities, CpmdNames, CpmdLost, CpmdSpecial)
<1>1. \A i \in DOMAIN CpmdDensities : CpmdDensities[i] \in RowsOf(CpmdDensities)
  BY DEF RowsOf
<1>2. IsTable(CpmdDensities)
  BY <1>1 DEF IsTable, CpmdDensities
<1>3. Exclusive(CpmdDensities, CpmdNames)
  BY RowShape DEF Exclusive, Rivals, CpmdNames, CpmdRepeats, CpmdDensities
<1>4. \A row \in RowsOf(CpmdDensities) :
        \/ Ordinary(row, CpmdLost)
        \/ row \in {Also({"rhoOutBandsCount", "rhoOutBands"}),
             Also({"wannierWfnOutOptions", "wannierWfnOutPayload"})}
  BY RowShape DEF RowsOf, CpmdLost, CpmdDensities
<1>5. {Also({"rhoOutBandsCount", "rhoOutBands"}),
             Also({"wannierWfnOutOptions", "wannierWfnOutPayload"})}
        \subseteq CpmdSpecial
  BY DEF CpmdSpecial
<1> QED BY <1>2, <1>3, <1>4, <1>5 DEF Part

LEMMA CpmdLayoutPart == Part(CpmdLayout, CpmdNames, CpmdLost, CpmdSpecial)
<1>1. \A i \in DOMAIN CpmdLayout : CpmdLayout[i] \in RowsOf(CpmdLayout)
  BY DEF RowsOf
<1>2. IsTable(CpmdLayout)
  BY <1>1 DEF IsTable, CpmdLayout
<1>3. Exclusive(CpmdLayout, CpmdNames)
  BY RowShape DEF Exclusive, Rivals, CpmdNames, CpmdRepeats, CpmdLayout
<1>4. \A row \in RowsOf(CpmdLayout) :
        \/ Ordinary(row, CpmdLost)
        \/ row \in {AllOf("TASKGROUPS", {"taskGroups", "taskGroupsCount"}),
             Also({"splineOptions", "splinePoints"}),
             Also({"splineOptions", "splineRange"})}
  BY RowShape DEF RowsOf, CpmdLost, CpmdLayout
<1>5. {AllOf("TASKGROUPS", {"taskGroups", "taskGroupsCount"}),
             Also({"splineOptions", "splinePoints"}),
             Also({"splineOptions", "splineRange"})}
        \subseteq CpmdSpecial
  BY DEF CpmdSpecial
<1> QED BY <1>2, <1>3, <1>4, <1>5 DEF Part

LEMMA CpmdLocalizationPart == Part(CpmdLocalization, CpmdNames, CpmdLost, CpmdSpecial)
<1>1. \A i \in DOMAIN CpmdLocalization : CpmdLocalization[i] \in RowsOf(CpmdLocalization)
  BY DEF RowsOf
<1>2. IsTable(CpmdLocalization)
  BY <1>1 DEF IsTable, CpmdLocalization
<1>3. Exclusive(CpmdLocalization, CpmdNames)
  BY RowShape DEF Exclusive, Rivals, CpmdNames, CpmdRepeats, CpmdLocalization
<1>4. \A row \in RowsOf(CpmdLocalization) :
        \/ Ordinary(row, CpmdLost)
        \/ row \in {Also({"glocWfnOutOptions", "glocWfnOutPayload"})}
  BY RowShape DEF RowsOf, CpmdLost, CpmdLocalization
<1>5. {Also({"glocWfnOutOptions", "glocWfnOutPayload"})}
        \subseteq CpmdSpecial
  BY DEF CpmdSpecial
<1> QED BY <1>2, <1>3, <1>4, <1>5 DEF Part

LEMMA CpmdCombinationPart == Part(CpmdCombination, CpmdNames, CpmdLost, CpmdSpecial)
<1>1. \A i \in DOMAIN CpmdCombination : CpmdCombination[i] \in RowsOf(CpmdCombination)
  BY DEF RowsOf
<1>2. IsTable(CpmdCombination)
  BY <1>1 DEF IsTable, CpmdCombination
<1>3. Exclusive(CpmdCombination, CpmdNames)
  BY RowShape DEF Exclusive, Rivals, CpmdNames, CpmdRepeats, CpmdCombination
<1>4. \A row \in RowsOf(CpmdCombination) : Ordinary(row, CpmdLost)
  BY RowShape DEF RowsOf, CpmdLost, CpmdCombination
<1> QED BY <1>2, <1>3, <1>4 DEF Part

LEMMA CpmdDirectivesPart == Part(CpmdDirectives, CpmdNames, CpmdLost, CpmdSpecial)
<1>1. \A i \in DOMAIN CpmdDirectives : CpmdDirectives[i] \in RowsOf(CpmdDirectives)
  BY DEF RowsOf
<1>2. IsTable(CpmdDirectives)
  BY <1>1 DEF IsTable, CpmdDirectives
<1>3. Exclusive(CpmdDirectives, CpmdNames)
  BY RowShape DEF Exclusive, Rivals, CpmdNames, CpmdRepeats, CpmdDirectives
<1>4. \A row \in RowsOf(CpmdDirectives) :
        \/ Ordinary(row, CpmdLost)
        \/ row \in {Unless(F("FILEPATH", "paramsFilePath"), {"directive:FILEPATH", "set:FILEPATH"})}
  BY RowShape DEF RowsOf, CpmdLost, CpmdDirectives
<1>5. {Unless(F("FILEPATH", "paramsFilePath"), {"directive:FILEPATH", "set:FILEPATH"})}
        \subseteq CpmdSpecial
  BY DEF CpmdSpecial
<1> QED BY <1>2, <1>3, <1>4, <1>5 DEF Part

LEMMA CpmdRowsPart ==
    /\ Part(CpmdRows, CpmdNames, CpmdLost, CpmdSpecial)
    /\ RowsOf(CpmdRows) = RowsOf(CpmdTask) \cup RowsOf(CpmdMethod) \cup RowsOf(CpmdPaths)
         \cup RowsOf(CpmdMixing) \cup RowsOf(CpmdOptimizers) \cup RowsOf(CpmdStart)
         \cup RowsOf(CpmdConvergence) \cup RowsOf(CpmdDynamics)
         \cup RowsOf(CpmdThermostats) \cup RowsOf(CpmdControl) \cup RowsOf(CpmdOutput)
         \cup RowsOf(CpmdDensities) \cup RowsOf(CpmdLayout) \cup RowsOf(CpmdLocalization)
         \cup RowsOf(CpmdCombination) \cup RowsOf(CpmdDirectives)
<1> DEFINE P2 == CpmdTask \o CpmdMethod
<1> DEFINE P3 == P2 \o CpmdPaths
<1> DEFINE P4 == P3 \o CpmdMixing
<1> DEFINE P5 == P4 \o CpmdOptimizers
<1> DEFINE P6 == P5 \o CpmdStart
<1> DEFINE P7 == P6 \o CpmdConvergence
<1> DEFINE P8 == P7 \o CpmdDynamics
<1> DEFINE P9 == P8 \o CpmdThermostats
<1> DEFINE P10 == P9 \o CpmdControl
<1> DEFINE P11 == P10 \o CpmdOutput
<1> DEFINE P12 == P11 \o CpmdDensities
<1> DEFINE P13 == P12 \o CpmdLayout
<1> DEFINE P14 == P13 \o CpmdLocalization
<1> DEFINE P15 == P14 \o CpmdCombination
<1> DEFINE P16 == P15 \o CpmdDirectives
<1>2. /\ Part(P2, CpmdNames, CpmdLost, CpmdSpecial)
      /\ RowsOf(P2) = RowsOf(CpmdTask) \cup RowsOf(CpmdMethod)
  <2>1. Apart(RowsOf(CpmdTask), RowsOf(CpmdMethod), CpmdNames)
    BY RowShape DEF Apart, RowsOf, CpmdNames, CpmdRepeats, CpmdTask, CpmdMethod
  <2> QED BY <2>1, CpmdTaskPart, CpmdMethodPart, JoinedPart
<1>3. /\ Part(P3, CpmdNames, CpmdLost, CpmdSpecial)
      /\ RowsOf(P3) = RowsOf(P2) \cup RowsOf(CpmdPaths)
  <2>1. Apart(RowsOf(CpmdTask), RowsOf(CpmdPaths), CpmdNames)
    BY RowShape DEF Apart, RowsOf, CpmdNames, CpmdRepeats, CpmdTask, CpmdPaths
  <2>2. Apart(RowsOf(CpmdMethod), RowsOf(CpmdPaths), CpmdNames)
    BY RowShape DEF Apart, RowsOf, CpmdNames, CpmdRepeats, CpmdMethod, CpmdPaths
  <2>3. Apart(RowsOf(P2), RowsOf(CpmdPaths), CpmdNames)
    BY <2>1, <2>2, <1>2 DEF Apart
  <2> HIDE DEF P2
  <2> QED BY <1>2, <2>3, CpmdPathsPart, JoinedPart
<1>4. /\ Part(P4, CpmdNames, CpmdLost, CpmdSpecial)
      /\ RowsOf(P4) = RowsOf(P3) \cup RowsOf(CpmdMixing)
  <2>1. Apart(RowsOf(CpmdTask), RowsOf(CpmdMixing), CpmdNames)
    BY RowShape DEF Apart, RowsOf, CpmdNames, CpmdRepeats, CpmdTask, CpmdMixing
  <2>2. Apart(RowsOf(CpmdMethod), RowsOf(CpmdMixing), CpmdNames)
    BY RowShape DEF Apart, RowsOf, CpmdNames, CpmdRepeats, CpmdMethod, CpmdMixing
  <2>3. Apart(RowsOf(CpmdPaths), RowsOf(CpmdMixing), CpmdNames)
    BY RowShape DEF Apart, RowsOf, CpmdNames, CpmdRepeats, CpmdPaths, CpmdMixing
  <2>4. Apart(RowsOf(P3), RowsOf(CpmdMixing), CpmdNames)
    BY <2>1, <2>2, <2>3, <1>2, <1>3 DEF Apart
  <2> HIDE DEF P3
  <2> QED BY <1>3, <2>4, CpmdMixingPart, JoinedPart
<1>5. /\ Part(P5, CpmdNames, CpmdLost, CpmdSpecial)
      /\ RowsOf(P5) = RowsOf(P4) \cup RowsOf(CpmdOptimizers)
  <2>1. Apart(RowsOf(CpmdTask), RowsOf(CpmdOptimizers), CpmdNames)
    BY RowShape DEF Apart, RowsOf, CpmdNames, CpmdRepeats, CpmdTask, CpmdOptimizers
  <2>2. Apart(RowsOf(CpmdMethod), RowsOf(CpmdOptimizers), CpmdNames)
    BY RowShape DEF Apart, RowsOf, CpmdNames, CpmdRepeats, CpmdMethod, CpmdOptimizers
  <2>3. Apart(RowsOf(CpmdPaths), RowsOf(CpmdOptimizers), CpmdNames)
    BY RowShape DEF Apart, RowsOf, CpmdNames, CpmdRepeats, CpmdPaths, CpmdOptimizers
  <2>4. Apart(RowsOf(CpmdMixing), RowsOf(CpmdOptimizers), CpmdNames)
    BY RowShape DEF Apart, RowsOf, CpmdNames, CpmdRepeats, CpmdMixing, CpmdOptimizers
  <2>5. Apart(RowsOf(P4), RowsOf(CpmdOptimizers), CpmdNames)
    BY <2>1, <2>2, <2>3, <2>4, <1>2, <1>3, <1>4 DEF Apart
  <2> HIDE DEF P4
  <2> QED BY <1>4, <2>5, CpmdOptimizersPart, JoinedPart
<1>6. /\ Part(P6, CpmdNames, CpmdLost, CpmdSpecial)
      /\ RowsOf(P6) = RowsOf(P5) \cup RowsOf(CpmdStart)
  <2>1. Apart(RowsOf(CpmdTask), RowsOf(CpmdStart), CpmdNames)
    BY RowShape DEF Apart, RowsOf, CpmdNames, CpmdRepeats, CpmdTask, CpmdStart
  <2>2. Apart(RowsOf(CpmdMethod), RowsOf(CpmdStart), CpmdNames)
    BY RowShape DEF Apart, RowsOf, CpmdNames, CpmdRepeats, CpmdMethod, CpmdStart
  <2>3. Apart(RowsOf(CpmdPaths), RowsOf(CpmdStart), CpmdNames)
    BY RowShape DEF Apart, RowsOf, CpmdNames, CpmdRepeats, CpmdPaths, CpmdStart
  <2>4. Apart(RowsOf(CpmdMixing), RowsOf(CpmdStart), CpmdNames)
    BY RowShape DEF Apart, RowsOf, CpmdNames, CpmdRepeats, CpmdMixing, CpmdStart
  <2>5. Apart(RowsOf(CpmdOptimizers), RowsOf(CpmdStart), CpmdNames)
    BY RowShape DEF Apart, RowsOf, CpmdNames, CpmdRepeats, CpmdOptimizers, CpmdStart
  <2>6. Apart(RowsOf(P5), RowsOf(CpmdStart), CpmdNames)
    BY <2>1, <2>2, <2>3, <2>4, <2>5, <1>2, <1>3, <1>4, <1>5 DEF Apart
  <2> HIDE DEF P5
  <2> QED BY <1>5, <2>6, CpmdStartPart, JoinedPart
<1>7. /\ Part(P7, CpmdNames, CpmdLost, CpmdSpecial)
      /\ RowsOf(P7) = RowsOf(P6) \cup RowsOf(CpmdConvergence)
  <2>1. Apart(RowsOf(CpmdTask), RowsOf(CpmdConvergence), CpmdNames)
    BY RowShape DEF Apart, RowsOf, CpmdNames, CpmdRepeats, CpmdTask, CpmdConvergence
  <2>2. Apart(RowsOf(CpmdMethod), RowsOf(CpmdConvergence), CpmdNames)
    BY RowShape DEF Apart, RowsOf, CpmdNames, CpmdRepeats, CpmdMethod, CpmdConvergence
  <2>3. Apart(RowsOf(CpmdPaths), RowsOf(CpmdConvergence), CpmdNames)
    BY RowShape DEF Apart, RowsOf, CpmdNames, CpmdRepeats, CpmdPaths, CpmdConvergence
  <2>4. Apart(RowsOf(CpmdMixing), RowsOf(CpmdConvergence), CpmdNames)
    BY RowShape DEF Apart, RowsOf, CpmdNames, CpmdRepeats, CpmdMixing, CpmdConvergence
  <2>5. Apart(RowsOf(CpmdOptimizers), RowsOf(CpmdConvergence), CpmdNames)
    BY RowShape DEF Apart, RowsOf, CpmdNames, CpmdRepeats, CpmdOptimizers, CpmdConvergence
  <2>6. Apart(RowsOf(CpmdStart), RowsOf(CpmdConvergence), CpmdNames)
    BY RowShape DEF Apart, RowsOf, CpmdNames, CpmdRepeats, CpmdStart, CpmdConvergence
  <2>7. Apart(RowsOf(P6), RowsOf(CpmdConvergence), CpmdNames)
    BY <2>1, <2>2, <2>3, <2>4, <2>5, <2>6, <1>2, <1>3, <1>4, <1>5, <1>6 DEF Apart
  <2> HIDE DEF P6
  <2> QED BY <1>6, <2>7, CpmdConvergencePart, JoinedPart
<1>8. /\ Part(P8, CpmdNames, CpmdLost, CpmdSpecial)
      /\ RowsOf(P8) = RowsOf(P7) \cup RowsOf(CpmdDynamics)
  <2>1. Apart(RowsOf(CpmdTask), RowsOf(CpmdDynamics), CpmdNames)
    BY RowShape DEF Apart, RowsOf, CpmdNames, CpmdRepeats, CpmdTask, CpmdDynamics
  <2>2. Apart(RowsOf(CpmdMethod), RowsOf(CpmdDynamics), CpmdNames)
    BY RowShape DEF Apart, RowsOf, CpmdNames, CpmdRepeats, CpmdMethod, CpmdDynamics
  <2>3. Apart(RowsOf(CpmdPaths), RowsOf(CpmdDynamics), CpmdNames)
    BY RowShape DEF Apart, RowsOf, CpmdNames, CpmdRepeats, CpmdPaths, CpmdDynamics
  <2>4. Apart(RowsOf(CpmdMixing), RowsOf(CpmdDynamics), CpmdNames)
    BY RowShape DEF Apart, RowsOf, CpmdNames, CpmdRepeats, CpmdMixing, CpmdDynamics
  <2>5. Apart(RowsOf(CpmdOptimizers), RowsOf(CpmdDynamics), CpmdNames)
    BY RowShape DEF Apart, RowsOf, CpmdNames, CpmdRepeats, CpmdOptimizers, CpmdDynamics
  <2>6. Apart(RowsOf(CpmdStart), RowsOf(CpmdDynamics), CpmdNames)
    BY RowShape DEF Apart, RowsOf, CpmdNames, CpmdRepeats, CpmdStart, CpmdDynamics
  <2>7. Apart(RowsOf(CpmdConvergence), RowsOf(CpmdDynamics), CpmdNames)
    BY RowShape DEF Apart, RowsOf, CpmdNames, CpmdRepeats, CpmdConvergence, CpmdDynamics
  <2>8. Apart(RowsOf(P7), RowsOf(CpmdDynamics), CpmdNames)
    BY <2>1, <2>2, <2>3, <2>4, <2>5, <2>6, <2>7, <1>2, <1>3, <1>4, <1>5, <1>6,
       <1>7 DEF Apart
  <2> HIDE DEF P7
  <2> QED BY <1>7, <2>8, CpmdDynamicsPart, JoinedPart
<1>9. /\ Part(P9, CpmdNames, CpmdLost, CpmdSpecial)
      /\ RowsOf(P9) = RowsOf(P8) \cup RowsOf(CpmdThermostats)
  <2>1. Apart(RowsOf(CpmdTask), RowsOf(CpmdThermostats), CpmdNames)
    BY RowShape DEF Apart, RowsOf, CpmdNames, CpmdRepeats, CpmdTask, CpmdThermostats
  <2>2. Apart(RowsOf(CpmdMethod), RowsOf(CpmdThermostats), CpmdNames)
    BY RowShape DEF Apart, RowsOf, CpmdNames, CpmdRepeats, CpmdMethod, CpmdThermostats
  <2>3. Apart(RowsOf(CpmdPaths), RowsOf(CpmdThermostats), CpmdNames)
    BY RowShape DEF Apart, RowsOf, CpmdNames, CpmdRepeats, CpmdPaths, CpmdThermostats
  <2>4. Apart(RowsOf(CpmdMixing), RowsOf(CpmdThermostats), CpmdNames)
    BY RowShape DEF Apart, RowsOf, CpmdNames, CpmdRepeats, CpmdMixing, CpmdThermostats
  <2>5. Apart(RowsOf(CpmdOptimizers), RowsOf(CpmdThermostats), CpmdNames)
    BY RowShape DEF Apart, RowsOf, CpmdNames, CpmdRepeats, CpmdOptimizers, CpmdThermostats
  <2>6. Apart(RowsOf(CpmdStart), RowsOf(CpmdThermostats), CpmdNames)
    BY RowShape DEF Apart, RowsOf, CpmdNames, CpmdRepeats, CpmdStart, CpmdThermostats
  <2>7. Apart(RowsOf(CpmdConvergence), RowsOf(CpmdThermostats), CpmdNames)
    BY RowShape DEF Apart, RowsOf, CpmdNames, CpmdRepeats, CpmdConvergence, CpmdThermostats
  <2>8. Apart(RowsOf(CpmdDynamics), RowsOf(CpmdThermostats), CpmdNames)
    BY RowShape DEF Apart, RowsOf, CpmdNames, CpmdRepeats, CpmdDynamics, CpmdThermostats
  <2>9. Apart(RowsOf(P8), RowsOf(CpmdThermostats), CpmdNames)
    BY <2>1, <2>2, <2>3, <2>4, <2>5, <2>6, <2>7, <2>8, <1>2, <1>3, <1>4, <1>5, <1>6, <1>7,
       <1>8 DEF Apart
  <2> HIDE DEF P8
  <2> QED BY <1>8, <2>9, CpmdThermostatsPart, JoinedPart
<1>10. /\ Part(P10, CpmdNames, CpmdLost, CpmdSpecial)
      /\ RowsOf(P10) = RowsOf(P9) \cup RowsOf(CpmdControl)
  <2>1. Apart(RowsOf(CpmdTask), RowsOf(CpmdControl), CpmdNames)
    BY RowShape DEF Apart, RowsOf, CpmdNames, CpmdRepeats, CpmdTask, CpmdControl
  <2>2. Apart(RowsOf(CpmdMethod), RowsOf(CpmdControl), CpmdNames)
    BY RowShape DEF Apart, RowsOf, CpmdNames, CpmdRepeats, CpmdMethod, CpmdControl
  <2>3. Apart(RowsOf(CpmdPaths), RowsOf(CpmdControl), CpmdNames)
    BY RowShape DEF Apart, RowsOf, CpmdNames, CpmdRepeats, CpmdPaths, CpmdControl
  <2>4. Apart(RowsOf(CpmdMixing), RowsOf(CpmdControl), CpmdNames)
    BY RowShape DEF Apart, RowsOf, CpmdNames, CpmdRepeats, CpmdMixing, CpmdControl
  <2>5. Apart(RowsOf(CpmdOptimizers), RowsOf(CpmdControl), CpmdNames)
    BY RowShape DEF Apart, RowsOf, CpmdNames, CpmdRepeats, CpmdOptimizers, CpmdControl
  <2>6. Apart(RowsOf(CpmdStart), RowsOf(CpmdControl), CpmdNames)
    BY RowShape DEF Apart, RowsOf, CpmdNames, CpmdRepeats, CpmdStart, CpmdControl
  <2>7. Apart(RowsOf(CpmdConvergence), RowsOf(CpmdControl), CpmdNames)
    BY RowShape DEF Apart, RowsOf, CpmdNames, CpmdRepeats, CpmdConvergence, CpmdControl
  <2>8. Apart(RowsOf(CpmdDynamics), RowsOf(CpmdControl), CpmdNames)
    BY RowShape DEF Apart, RowsOf, CpmdNames, CpmdRepeats, CpmdDynamics, CpmdControl
  <2>9. Apart(RowsOf(CpmdThermostats), RowsOf(CpmdControl), CpmdNames)
    BY RowShape DEF Apart, RowsOf, CpmdNames, CpmdRepeats, CpmdThermostats, CpmdControl
  <2>10. Apart(RowsOf(P9), RowsOf(CpmdControl), CpmdNames)
    BY <2>1, <2>2, <2>3, <2>4, <2>5, <2>6, <2>7, <2>8, <2>9, <1>2, <1>3, <1>4, <1>5, <1>6,
       <1>7, <1>8, <1>9 DEF Apart
  <2> HIDE DEF P9
  <2> QED BY <1>9, <2>10, CpmdControlPart, JoinedPart
<1>11. /\ Part(P11, CpmdNames, CpmdLost, CpmdSpecial)
      /\ RowsOf(P11) = RowsOf(P10) \cup RowsOf(CpmdOutput)
  <2>1. Apart(RowsOf(CpmdTask), RowsOf(CpmdOutput), CpmdNames)
    BY RowShape DEF Apart, RowsOf, CpmdNames, CpmdRepeats, CpmdTask, CpmdOutput
  <2>2. Apart(RowsOf(CpmdMethod), RowsOf(CpmdOutput), CpmdNames)
    BY RowShape DEF Apart, RowsOf, CpmdNames, CpmdRepeats, CpmdMethod, CpmdOutput
  <2>3. Apart(RowsOf(CpmdPaths), RowsOf(CpmdOutput), CpmdNames)
    BY RowShape DEF Apart, RowsOf, CpmdNames, CpmdRepeats, CpmdPaths, CpmdOutput
  <2>4. Apart(RowsOf(CpmdMixing), RowsOf(CpmdOutput), CpmdNames)
    BY RowShape DEF Apart, RowsOf, CpmdNames, CpmdRepeats, CpmdMixing, CpmdOutput
  <2>5. Apart(RowsOf(CpmdOptimizers), RowsOf(CpmdOutput), CpmdNames)
    BY RowShape DEF Apart, RowsOf, CpmdNames, CpmdRepeats, CpmdOptimizers, CpmdOutput
  <2>6. Apart(RowsOf(CpmdStart), RowsOf(CpmdOutput), CpmdNames)
    BY RowShape DEF Apart, RowsOf, CpmdNames, CpmdRepeats, CpmdStart, CpmdOutput
  <2>7. Apart(RowsOf(CpmdConvergence), RowsOf(CpmdOutput), CpmdNames)
    BY RowShape DEF Apart, RowsOf, CpmdNames, CpmdRepeats, CpmdConvergence, CpmdOutput
  <2>8. Apart(RowsOf(CpmdDynamics), RowsOf(CpmdOutput), CpmdNames)
    BY RowShape DEF Apart, RowsOf, CpmdNames, CpmdRepeats, CpmdDynamics, CpmdOutput
  <2>9. Apart(RowsOf(CpmdThermostats), RowsOf(CpmdOutput), CpmdNames)
    BY RowShape DEF Apart, RowsOf, CpmdNames, CpmdRepeats, CpmdThermostats, CpmdOutput
  <2>10. Apart(RowsOf(CpmdControl), RowsOf(CpmdOutput), CpmdNames)
    BY RowShape DEF Apart, RowsOf, CpmdNames, CpmdRepeats, CpmdControl, CpmdOutput
  <2>11. Apart(RowsOf(P10), RowsOf(CpmdOutput), CpmdNames)
    BY <2>1, <2>2, <2>3, <2>4, <2>5, <2>6, <2>7, <2>8, <2>9, <2>10, <1>2, <1>3, <1>4,
       <1>5, <1>6, <1>7, <1>8, <1>9, <1>10 DEF Apart
  <2> HIDE DEF P10
  <2> QED BY <1>10, <2>11, CpmdOutputPart, JoinedPart
<1>12. /\ Part(P12, CpmdNames, CpmdLost, CpmdSpecial)
      /\ RowsOf(P12) = RowsOf(P11) \cup RowsOf(CpmdDensities)
  <2>1. Apart(RowsOf(CpmdTask), RowsOf(CpmdDensities), CpmdNames)
    BY RowShape DEF Apart, RowsOf, CpmdNames, CpmdRepeats, CpmdTask, CpmdDensities
  <2>2. Apart(RowsOf(CpmdMethod), RowsOf(CpmdDensities), CpmdNames)
    BY RowShape DEF Apart, RowsOf, CpmdNames, CpmdRepeats, CpmdMethod, CpmdDensities
  <2>3. Apart(RowsOf(CpmdPaths), RowsOf(CpmdDensities), CpmdNames)
    BY RowShape DEF Apart, RowsOf, CpmdNames, CpmdRepeats, CpmdPaths, CpmdDensities
  <2>4. Apart(RowsOf(CpmdMixing), RowsOf(CpmdDensities), CpmdNames)
    BY RowShape DEF Apart, RowsOf, CpmdNames, CpmdRepeats, CpmdMixing, CpmdDensities
  <2>5. Apart(RowsOf(CpmdOptimizers), RowsOf(CpmdDensities), CpmdNames)
    BY RowShape DEF Apart, RowsOf, CpmdNames, CpmdRepeats, CpmdOptimizers, CpmdDensities
  <2>6. Apart(RowsOf(CpmdStart), RowsOf(CpmdDensities), CpmdNames)
    BY RowShape DEF Apart, RowsOf, CpmdNames, CpmdRepeats, CpmdStart, CpmdDensities
  <2>7. Apart(RowsOf(CpmdConvergence), RowsOf(CpmdDensities), CpmdNames)
    BY RowShape DEF Apart, RowsOf, CpmdNames, CpmdRepeats, CpmdConvergence, CpmdDensities
  <2>8. Apart(RowsOf(CpmdDynamics), RowsOf(CpmdDensities), CpmdNames)
    BY RowShape DEF Apart, RowsOf, CpmdNames, CpmdRepeats, CpmdDynamics, CpmdDensities
  <2>9. Apart(RowsOf(CpmdThermostats), RowsOf(CpmdDensities), CpmdNames)
    BY RowShape DEF Apart, RowsOf, CpmdNames, CpmdRepeats, CpmdThermostats, CpmdDensities
  <2>10. Apart(RowsOf(CpmdControl), RowsOf(CpmdDensities), CpmdNames)
    BY RowShape DEF Apart, RowsOf, CpmdNames, CpmdRepeats, CpmdControl, CpmdDensities
  <2>11. Apart(RowsOf(CpmdOutput), RowsOf(CpmdDensities), CpmdNames)
    BY RowShape DEF Apart, RowsOf, CpmdNames, CpmdRepeats, CpmdOutput, CpmdDensities
  <2>12. Apart(RowsOf(P11), RowsOf(CpmdDensities), CpmdNames)
    BY <2>1, <2>2, <2>3, <2>4, <2>5, <2>6, <2>7, <2>8, <2>9, <2>10, <2>11, <1>2, <1>3,
       <1>4, <1>5, <1>6, <1>7, <1>8, <1>9, <1>10, <1>11 DEF Apart
  <2> HIDE DEF P11
  <2> QED BY <1>11, <2>12, CpmdDensitiesPart, JoinedPart
<1>13. /\ Part(P13, CpmdNames, CpmdLost, CpmdSpecial)
      /\ RowsOf(P13) = RowsOf(P12) \cup RowsOf(CpmdLayout)
  <2>1. Apart(RowsOf(CpmdTask), RowsOf(CpmdLayout), CpmdNames)
    BY RowShape DEF Apart, RowsOf, CpmdNames, CpmdRepeats, CpmdTask, CpmdLayout
  <2>2. Apart(RowsOf(CpmdMethod), RowsOf(CpmdLayout), CpmdNames)
    BY RowShape DEF Apart, RowsOf, CpmdNames, CpmdRepeats, CpmdMethod, CpmdLayout
  <2>3. Apart(RowsOf(CpmdPaths), RowsOf(CpmdLayout), CpmdNames)
    BY RowShape DEF Apart, RowsOf, CpmdNames, CpmdRepeats, CpmdPaths, CpmdLayout
  <2>4. Apart(RowsOf(CpmdMixing), RowsOf(CpmdLayout), CpmdNames)
    BY RowShape DEF Apart, RowsOf, CpmdNames, CpmdRepeats, CpmdMixing, CpmdLayout
  <2>5. Apart(RowsOf(CpmdOptimizers), RowsOf(CpmdLayout), CpmdNames)
    BY RowShape DEF Apart, RowsOf, CpmdNames, CpmdRepeats, CpmdOptimizers, CpmdLayout
  <2>6. Apart(RowsOf(CpmdStart), RowsOf(CpmdLayout), CpmdNames)
    BY RowShape DEF Apart, RowsOf, CpmdNames, CpmdRepeats, CpmdStart, CpmdLayout
  <2>7. Apart(RowsOf(CpmdConvergence), RowsOf(CpmdLayout), CpmdNames)
    BY RowShape DEF Apart, RowsOf, CpmdNames, CpmdRepeats, CpmdConvergence, CpmdLayout
  <2>8. Apart(RowsOf(CpmdDynamics), RowsOf(CpmdLayout), CpmdNames)
    BY RowShape DEF Apart, RowsOf, CpmdNames, CpmdRepeats, CpmdDynamics, CpmdLayout
  <2>9. Apart(RowsOf(CpmdThermostats), RowsOf(CpmdLayout), CpmdNames)
    BY RowShape DEF Apart, RowsOf, CpmdNames, CpmdRepeats, CpmdThermostats, CpmdLayout
  <2>10. Apart(RowsOf(CpmdControl), RowsOf(CpmdLayout), CpmdNames)
    BY RowShape DEF Apart, RowsOf, CpmdNames, CpmdRepeats, CpmdControl, CpmdLayout
  <2>11. Apart(RowsOf(CpmdOutput), RowsOf(CpmdLayout), CpmdNames)
    BY RowShape DEF Apart, RowsOf, CpmdNames, CpmdRepeats, CpmdOutput, CpmdLayout
  <2>12. Apart(RowsOf(CpmdDensities), RowsOf(CpmdLayout), CpmdNames)
    BY RowShape DEF Apart, RowsOf, CpmdNames, CpmdRepeats, CpmdDensities, CpmdLayout
  <2>13. Apart(RowsOf(P12), RowsOf(CpmdLayout), CpmdNames)
    BY <2>1, <2>2, <2>3, <2>4, <2>5, <2>6, <2>7, <2>8, <2>9, <2>10, <2>11, <2>12, <1>2,
       <1>3, <1>4, <1>5, <1>6, <1>7, <1>8, <1>9, <1>10, <1>11, <1>12 DEF Apart
  <2> HIDE DEF P12
  <2> QED BY <1>12, <2>13, CpmdLayoutPart, JoinedPart
<1>14. /\ Part(P14, CpmdNames, CpmdLost, CpmdSpecial)
      /\ RowsOf(P14) = RowsOf(P13) \cup RowsOf(CpmdLocalization)
  <2>1. Apart(RowsOf(CpmdTask), RowsOf(CpmdLocalization), CpmdNames)
    BY RowShape DEF Apart, RowsOf, CpmdNames, CpmdRepeats, CpmdTask, CpmdLocalization
  <2>2. Apart(RowsOf(CpmdMethod), RowsOf(CpmdLocalization), CpmdNames)
    BY RowShape DEF Apart, RowsOf, CpmdNames, CpmdRepeats, CpmdMethod, CpmdLocalization
  <2>3. Apart(RowsOf(CpmdPaths), RowsOf(CpmdLocalization), CpmdNames)
    BY RowShape DEF Apart, RowsOf, CpmdNames, CpmdRepeats, CpmdPaths, CpmdLocalization
  <2>4. Apart(RowsOf(CpmdMixing), RowsOf(CpmdLocalization), CpmdNames)
    BY RowShape DEF Apart, RowsOf, CpmdNames, CpmdRepeats, CpmdMixing, CpmdLocalization
  <2>5. Apart(RowsOf(CpmdOptimizers), RowsOf(CpmdLocalization), CpmdNames)
    BY RowShape DEF Apart, RowsOf, CpmdNames, CpmdRepeats, CpmdOptimizers, CpmdLocalization
  <2>6. Apart(RowsOf(CpmdStart), RowsOf(CpmdLocalization), CpmdNames)
    BY RowShape DEF Apart, RowsOf, CpmdNames, CpmdRepeats, CpmdStart, CpmdLocalization
  <2>7. Apart(RowsOf(CpmdConvergence), RowsOf(CpmdLocalization), CpmdNames)
    BY RowShape DEF Apart, RowsOf, CpmdNames, CpmdRepeats, CpmdConvergence, CpmdLocalization
  <2>8. Apart(RowsOf(CpmdDynamics), RowsOf(CpmdLocalization), CpmdNames)
    BY RowShape DEF Apart, RowsOf, CpmdNames, CpmdRepeats, CpmdDynamics, CpmdLocalization
  <2>9. Apart(RowsOf(CpmdThermostats), RowsOf(CpmdLocalization), CpmdNames)
    BY RowShape DEF Apart, RowsOf, CpmdNames, CpmdRepeats, CpmdThermostats, CpmdLocalization
  <2>10. Apart(RowsOf(CpmdControl), RowsOf(CpmdLocalization), CpmdNames)
    BY RowShape DEF Apart, RowsOf, CpmdNames, CpmdRepeats, CpmdControl, CpmdLocalization
  <2>11. Apart(RowsOf(CpmdOutput), RowsOf(CpmdLocalization), CpmdNames)
    BY RowShape DEF Apart, RowsOf, CpmdNames, CpmdRepeats, CpmdOutput, CpmdLocalization
  <2>12. Apart(RowsOf(CpmdDensities), RowsOf(CpmdLocalization), CpmdNames)
    BY RowShape DEF Apart, RowsOf, CpmdNames, CpmdRepeats, CpmdDensities, CpmdLocalization
  <2>13. Apart(RowsOf(CpmdLayout), RowsOf(CpmdLocalization), CpmdNames)
    BY RowShape DEF Apart, RowsOf, CpmdNames, CpmdRepeats, CpmdLayout, CpmdLocalization
  <2>14. Apart(RowsOf(P13), RowsOf(CpmdLocalization), CpmdNames)
    BY <2>1, <2>2, <2>3, <2>4, <2>5, <2>6, <2>7, <2>8, <2>9, <2>10, <2>11, <2>12, <2>13,
       <1>2, <1>3, <1>4, <1>5, <1>6, <1>7, <1>8, <1>9, <1>10, <1>11, <1>12,
       <1>13 DEF Apart
  <2> HIDE DEF P13
  <2> QED BY <1>13, <2>14, CpmdLocalizationPart, JoinedPart
<1>15. /\ Part(P15, CpmdNames, CpmdLost, CpmdSpecial)
      /\ RowsOf(P15) = RowsOf(P14) \cup RowsOf(CpmdCombination)
  <2>1. Apart(RowsOf(CpmdTask), RowsOf(CpmdCombination), CpmdNames)
    BY RowShape DEF Apart, RowsOf, CpmdNames, CpmdRepeats, CpmdTask, CpmdCombination
  <2>2. Apart(RowsOf(CpmdMethod), RowsOf(CpmdCombination), CpmdNames)
    BY RowShape DEF Apart, RowsOf, CpmdNames, CpmdRepeats, CpmdMethod, CpmdCombination
  <2>3. Apart(RowsOf(CpmdPaths), RowsOf(CpmdCombination), CpmdNames)
    BY RowShape DEF Apart, RowsOf, CpmdNames, CpmdRepeats, CpmdPaths, CpmdCombination
  <2>4. Apart(RowsOf(CpmdMixing), RowsOf(CpmdCombination), CpmdNames)
    BY RowShape DEF Apart, RowsOf, CpmdNames, CpmdRepeats, CpmdMixing, CpmdCombination
  <2>5. Apart(RowsOf(CpmdOptimizers), RowsOf(CpmdCombination), CpmdNames)
    BY RowShape DEF Apart, RowsOf, CpmdNames, CpmdRepeats, CpmdOptimizers, CpmdCombination
  <2>6. Apart(RowsOf(CpmdStart), RowsOf(CpmdCombination), CpmdNames)
    BY RowShape DEF Apart, RowsOf, CpmdNames, CpmdRepeats, CpmdStart, CpmdCombination
  <2>7. Apart(RowsOf(CpmdConvergence), RowsOf(CpmdCombination), CpmdNames)
    BY RowShape DEF Apart, RowsOf, CpmdNames, CpmdRepeats, CpmdConvergence, CpmdCombination
  <2>8. Apart(RowsOf(CpmdDynamics), RowsOf(CpmdCombination), CpmdNames)
    BY RowShape DEF Apart, RowsOf, CpmdNames, CpmdRepeats, CpmdDynamics, CpmdCombination
  <2>9. Apart(RowsOf(CpmdThermostats), RowsOf(CpmdCombination), CpmdNames)
    BY RowShape DEF Apart, RowsOf, CpmdNames, CpmdRepeats, CpmdThermostats, CpmdCombination
  <2>10. Apart(RowsOf(CpmdControl), RowsOf(CpmdCombination), CpmdNames)
    BY RowShape DEF Apart, RowsOf, CpmdNames, CpmdRepeats, CpmdControl, CpmdCombination
  <2>11. Apart(RowsOf(CpmdOutput), RowsOf(CpmdCombination), CpmdNames)
    BY RowShape DEF Apart, RowsOf, CpmdNames, CpmdRepeats, CpmdOutput, CpmdCombination
  <2>12. Apart(RowsOf(CpmdDensities), RowsOf(CpmdCombination), CpmdNames)
    BY RowShape DEF Apart, RowsOf, CpmdNames, CpmdRepeats, CpmdDensities, CpmdCombination
  <2>13. Apart(RowsOf(CpmdLayout), RowsOf(CpmdCombination), CpmdNames)
    BY RowShape DEF Apart, RowsOf, CpmdNames, CpmdRepeats, CpmdLayout, CpmdCombination
  <2>14. Apart(RowsOf(CpmdLocalization), RowsOf(CpmdCombination), CpmdNames)
    BY RowShape DEF Apart, RowsOf, CpmdNames, CpmdRepeats, CpmdLocalization, CpmdCombination
  <2>15. Apart(RowsOf(P14), RowsOf(CpmdCombination), CpmdNames)
    BY <2>1, <2>2, <2>3, <2>4, <2>5, <2>6, <2>7, <2>8, <2>9, <2>10, <2>11, <2>12, <2>13,
       <2>14, <1>2, <1>3, <1>4, <1>5, <1>6, <1>7, <1>8, <1>9, <1>10, <1>11, <1>12, <1>13,
       <1>14 DEF Apart
  <2> HIDE DEF P14
  <2> QED BY <1>14, <2>15, CpmdCombinationPart, JoinedPart
<1>16. /\ Part(P16, CpmdNames, CpmdLost, CpmdSpecial)
      /\ RowsOf(P16) = RowsOf(P15) \cup RowsOf(CpmdDirectives)
  <2>1. Apart(RowsOf(CpmdTask), RowsOf(CpmdDirectives), CpmdNames)
    BY RowShape DEF Apart, RowsOf, CpmdNames, CpmdRepeats, CpmdTask, CpmdDirectives
  <2>2. Apart(RowsOf(CpmdMethod), RowsOf(CpmdDirectives), CpmdNames)
    BY RowShape DEF Apart, RowsOf, CpmdNames, CpmdRepeats, CpmdMethod, CpmdDirectives
  <2>3. Apart(RowsOf(CpmdPaths), RowsOf(CpmdDirectives), CpmdNames)
    BY RowShape DEF Apart, RowsOf, CpmdNames, CpmdRepeats, CpmdPaths, CpmdDirectives
  <2>4. Apart(RowsOf(CpmdMixing), RowsOf(CpmdDirectives), CpmdNames)
    BY RowShape DEF Apart, RowsOf, CpmdNames, CpmdRepeats, CpmdMixing, CpmdDirectives
  <2>5. Apart(RowsOf(CpmdOptimizers), RowsOf(CpmdDirectives), CpmdNames)
    BY RowShape DEF Apart, RowsOf, CpmdNames, CpmdRepeats, CpmdOptimizers, CpmdDirectives
  <2>6. Apart(RowsOf(CpmdStart), RowsOf(CpmdDirectives), CpmdNames)
    BY RowShape DEF Apart, RowsOf, CpmdNames, CpmdRepeats, CpmdStart, CpmdDirectives
  <2>7. Apart(RowsOf(CpmdConvergence), RowsOf(CpmdDirectives), CpmdNames)
    BY RowShape DEF Apart, RowsOf, CpmdNames, CpmdRepeats, CpmdConvergence, CpmdDirectives
  <2>8. Apart(RowsOf(CpmdDynamics), RowsOf(CpmdDirectives), CpmdNames)
    BY RowShape DEF Apart, RowsOf, CpmdNames, CpmdRepeats, CpmdDynamics, CpmdDirectives
  <2>9. Apart(RowsOf(CpmdThermostats), RowsOf(CpmdDirectives), CpmdNames)
    BY RowShape DEF Apart, RowsOf, CpmdNames, CpmdRepeats, CpmdThermostats, CpmdDirectives
  <2>10. Apart(RowsOf(CpmdControl), RowsOf(CpmdDirectives), CpmdNames)
    BY RowShape DEF Apart, RowsOf, CpmdNames, CpmdRepeats, CpmdControl, CpmdDirectives
  <2>11. Apart(RowsOf(CpmdOutput), RowsOf(CpmdDirectives), CpmdNames)
    BY RowShape DEF Apart, RowsOf, CpmdNames, CpmdRepeats, CpmdOutput, CpmdDirectives
  <2>12. Apart(RowsOf(CpmdDensities), RowsOf(CpmdDirectives), CpmdNames)
    BY RowShape DEF Apart, RowsOf, CpmdNames, CpmdRepeats, CpmdDensities, CpmdDirectives
  <2>13. Apart(RowsOf(CpmdLayout), RowsOf(CpmdDirectives), CpmdNames)
    BY RowShape DEF Apart, RowsOf, CpmdNames, CpmdRepeats, CpmdLayout, CpmdDirectives
  <2>14. Apart(RowsOf(CpmdLocalization), RowsOf(CpmdDirectives), CpmdNames)
    BY RowShape DEF Apart, RowsOf, CpmdNames, CpmdRepeats, CpmdLocalization, CpmdDirectives
  <2>15. Apart(RowsOf(CpmdCombination), RowsOf(CpmdDirectives), CpmdNames)
    BY RowShape DEF Apart, RowsOf, CpmdNames, CpmdRepeats, CpmdCombination, CpmdDirectives
  <2>16. Apart(RowsOf(P15), RowsOf(CpmdDirectives), CpmdNames)
    BY <2>1, <2>2, <2>3, <2>4, <2>5, <2>6, <2>7, <2>8, <2>9, <2>10, <2>11, <2>12, <2>13,
       <2>14, <2>15, <1>2, <1>3, <1>4, <1>5, <1>6, <1>7, <1>8, <1>9, <1>10, <1>11, <1>12,
       <1>13, <1>14, <1>15 DEF Apart
  <2> HIDE DEF P15
  <2> QED BY <1>15, <2>16, CpmdDirectivesPart, JoinedPart
<1> QED BY <1>2, <1>3, <1>4, <1>5, <1>6, <1>7, <1>8, <1>9, <1>10, <1>11, <1>12, <1>13,
   <1>14, <1>15, <1>16 DEF CpmdRows
LEMMA CpmdSpecialRows == CpmdSpecial \subseteq RowsOf(CpmdRows)
<1>1. Unless(AnyOf("OPTIMIZE_WAVEFUNCTION", {"optimizeWavefunction", "task=gradient"}),
           {"molecularDynamics", "task=md"})
       \in RowsOf(CpmdTask)
  BY DEF RowsOf, CpmdTask
<1>2. Unless(F("FILEPATH", "paramsFilePath"), {"directive:FILEPATH", "set:FILEPATH"})
       \in RowsOf(CpmdDirectives)
  BY DEF RowsOf, CpmdDirectives
<1>3. Rides("noseIonsLocalT0", NoseLocals)
       \in RowsOf(CpmdThermostats)
  BY DEF RowsOf, CpmdThermostats, NoseLocals
<1>4. {AllOf("STORE", {"storeSelection", "storeInterval"}),
       Also({"storeSelection", "storeInterval", "storeSelfConsistentInterval"}),
       Also({"restFileCount", "restFileSample"})} \subseteq RowsOf(CpmdOutput)
  BY DEF RowsOf, CpmdOutput
<1>5. {AllOf("TASKGROUPS", {"taskGroups", "taskGroupsCount"}),
       Also({"splineOptions", "splinePoints"}),
       Also({"splineOptions", "splineRange"})} \subseteq RowsOf(CpmdLayout)
  BY DEF RowsOf, CpmdLayout
<1>6. {Also({"temperature", "temperatureRamp"}),
       Also({"temperature", "temperatureRamp", "temperatureRampTime"}),
       Also({"temperature", "temperatureRamp", "temperatureRampRate"})} \subseteq RowsOf(CpmdDynamics)
  BY DEF RowsOf, CpmdDynamics
<1>7. Also({"stressTensorSample", "stressTensorVirial"})
       \in RowsOf(CpmdControl)
  BY DEF RowsOf, CpmdControl
<1>8. {Also({"rhoOutBandsCount", "rhoOutBands"}),
       Also({"wannierWfnOutOptions", "wannierWfnOutPayload"})} \subseteq RowsOf(CpmdDensities)
  BY DEF RowsOf, CpmdDensities
<1>9. Also({"glocWfnOutOptions", "glocWfnOutPayload"})
       \in RowsOf(CpmdLocalization)
  BY DEF RowsOf, CpmdLocalization
<1> QED BY CpmdRowsPart, <1>1, <1>2, <1>3, <1>4, <1>5, <1>6, <1>7, <1>8,
   <1>9 DEF CpmdSpecial

\* The leading fields of special rows have a row of their own.
LEMMA CpmdLeaders ==
    {F("TEMPERATURE", "temperature"), F("STRESS_TENSOR", "stressTensorSample"),
     F("RESTFILE", "restFileCount"), AnyOf("RHOOUT", {"rhoOut", "rhoOutSample", "rhoOutBandsCount"}),
     F("WANNIER_WFNOUT", "wannierWfnOutOptions"), F("GLOC_WFNOUT", "glocWfnOutOptions"),
     F("SPLINE", "splineOptions")} \subseteq RowsOf(CpmdRows)
<1>1. F("TEMPERATURE", "temperature") \in RowsOf(CpmdDynamics)
  BY DEF RowsOf, CpmdDynamics
<1>2. F("STRESS_TENSOR", "stressTensorSample") \in RowsOf(CpmdControl)
  BY DEF RowsOf, CpmdControl
<1>3. F("RESTFILE", "restFileCount") \in RowsOf(CpmdOutput)
  BY DEF RowsOf, CpmdOutput
<1>4. AnyOf("RHOOUT", {"rhoOut", "rhoOutSample", "rhoOutBandsCount"}) \in RowsOf(CpmdDensities)
  BY DEF RowsOf, CpmdDensities
<1>5. F("WANNIER_WFNOUT", "wannierWfnOutOptions") \in RowsOf(CpmdDensities)
  BY DEF RowsOf, CpmdDensities
<1>6. F("GLOC_WFNOUT", "glocWfnOutOptions") \in RowsOf(CpmdLocalization)
  BY DEF RowsOf, CpmdLocalization
<1>7. F("SPLINE", "splineOptions") \in RowsOf(CpmdLayout)
  BY DEF RowsOf, CpmdLayout
<1> QED BY CpmdRowsPart, <1>1, <1>2, <1>3, <1>4, <1>5, <1>6, <1>7

LEMMA NoseLocalsAre == NoseLocals # {}
BY DEF NoseLocals

\* The lost fields of the section are printed exactly when not excused.
LEMMA CpmdLostFields ==
    ASSUME NEW set, ~({"task=md", "task=gradient"} \subseteq set), NEW f \in set \cap CpmdLost
    PROVE  Right(CpmdSpecial, CpmdLosses, set, f)
<1>1. CASE f = "storeSelection"
  <2>1. PICK l \in CpmdLosses :
            l = Needs("storeSelection", {"storeInterval"})
    BY Zenon DEF CpmdLosses
  <2>2. \A m \in CpmdLosses : m.field = "storeSelection" => m = l
    BY <2>1, LossField DEF CpmdLosses
  <2>3. "storeSelection" \in Excused(CpmdLosses, set)
          <=> "storeInterval" \notin set
    BY <2>1, <2>2, LossShape, ExcusedByOne
  <2>4. PICK row \in CpmdSpecial :
            row = AllOf("STORE", {"storeSelection", "storeInterval"})
    BY Zenon DEF CpmdSpecial
  <2>5. "storeSelection" \in row.carries
        /\ ("storeInterval" \in set => Prints(row, set))
    BY <1>1, <2>4, PrintsIs, UnlessPrints
  <2>6. \A other \in CpmdSpecial : "storeSelection" \in other.carries /\ Prints(other, set)
          => "storeInterval" \in set
    BY PrintsIs, UnlessPrints DEF CpmdSpecial
  <2> QED BY <1>1, <2>3, <2>5, <2>6 DEF Right
<1>2. CASE f = "storeInterval"
  <2>1. PICK l \in CpmdLosses :
            l = Needs("storeInterval", {"storeSelection"})
    BY Zenon DEF CpmdLosses
  <2>2. \A m \in CpmdLosses : m.field = "storeInterval" => m = l
    BY <2>1, LossField DEF CpmdLosses
  <2>3. "storeInterval" \in Excused(CpmdLosses, set)
          <=> "storeSelection" \notin set
    BY <2>1, <2>2, LossShape, ExcusedByOne
  <2>4. PICK row \in CpmdSpecial :
            row = AllOf("STORE", {"storeSelection", "storeInterval"})
    BY Zenon DEF CpmdSpecial
  <2>5. "storeInterval" \in row.carries
        /\ ("storeSelection" \in set => Prints(row, set))
    BY <1>2, <2>4, PrintsIs, UnlessPrints
  <2>6. \A other \in CpmdSpecial : "storeInterval" \in other.carries /\ Prints(other, set)
          => "storeSelection" \in set
    BY PrintsIs, UnlessPrints DEF CpmdSpecial
  <2> QED BY <1>2, <2>3, <2>5, <2>6 DEF Right
<1>3. CASE f = "storeSelfConsistentInterval"
  <2>1. PICK l \in CpmdLosses :
            l = Needs("storeSelfConsistentInterval", {"storeSelection", "storeInterval"})
    BY Zenon DEF CpmdLosses
  <2>2. \A m \in CpmdLosses : m.field = "storeSelfConsistentInterval" => m = l
    BY <2>1, LossField DEF CpmdLosses
  <2>3. "storeSelfConsistentInterval" \in Excused(CpmdLosses, set)
          <=> ~({"storeSelection", "storeInterval"} \subseteq set)
    BY <2>1, <2>2, LossShape, ExcusedByOne
  <2>4. PICK row \in CpmdSpecial :
            row = Also({"storeSelection", "storeInterval", "storeSelfConsistentInterval"})
    BY Zenon DEF CpmdSpecial
  <2>5. "storeSelfConsistentInterval" \in row.carries
        /\ ({"storeSelection", "storeInterval"} \subseteq set => Prints(row, set))
    BY <1>3, <2>4, PrintsIs, UnlessPrints
  <2>6. \A other \in CpmdSpecial : "storeSelfConsistentInterval" \in other.carries /\ Prints(other, set)
          => {"storeSelection", "storeInterval"} \subseteq set
    BY PrintsIs, UnlessPrints DEF CpmdSpecial
  <2> QED BY <1>3, <2>3, <2>5, <2>6 DEF Right
<1>4. CASE f = "taskGroups"
  <2>1. PICK l \in CpmdLosses :
            l = Needs("taskGroups", {"taskGroupsCount"})
    BY Zenon DEF CpmdLosses
  <2>2. \A m \in CpmdLosses : m.field = "taskGroups" => m = l
    BY <2>1, LossField DEF CpmdLosses
  <2>3. "taskGroups" \in Excused(CpmdLosses, set)
          <=> "taskGroupsCount" \notin set
    BY <2>1, <2>2, LossShape, ExcusedByOne
  <2>4. PICK row \in CpmdSpecial :
            row = AllOf("TASKGROUPS", {"taskGroups", "taskGroupsCount"})
    BY Zenon DEF CpmdSpecial
  <2>5. "taskGroups" \in row.carries
        /\ ("taskGroupsCount" \in set => Prints(row, set))
    BY <1>4, <2>4, PrintsIs, UnlessPrints
  <2>6. \A other \in CpmdSpecial : "taskGroups" \in other.carries /\ Prints(other, set)
          => "taskGroupsCount" \in set
    BY PrintsIs, UnlessPrints DEF CpmdSpecial
  <2> QED BY <1>4, <2>3, <2>5, <2>6 DEF Right
<1>5. CASE f = "taskGroupsCount"
  <2>1. PICK l \in CpmdLosses :
            l = Needs("taskGroupsCount", {"taskGroups"})
    BY Zenon DEF CpmdLosses
  <2>2. \A m \in CpmdLosses : m.field = "taskGroupsCount" => m = l
    BY <2>1, LossField DEF CpmdLosses
  <2>3. "taskGroupsCount" \in Excused(CpmdLosses, set)
          <=> "taskGroups" \notin set
    BY <2>1, <2>2, LossShape, ExcusedByOne
  <2>4. PICK row \in CpmdSpecial :
            row = AllOf("TASKGROUPS", {"taskGroups", "taskGroupsCount"})
    BY Zenon DEF CpmdSpecial
  <2>5. "taskGroupsCount" \in row.carries
        /\ ("taskGroups" \in set => Prints(row, set))
    BY <1>5, <2>4, PrintsIs, UnlessPrints
  <2>6. \A other \in CpmdSpecial : "taskGroupsCount" \in other.carries /\ Prints(other, set)
          => "taskGroups" \in set
    BY PrintsIs, UnlessPrints DEF CpmdSpecial
  <2> QED BY <1>5, <2>3, <2>5, <2>6 DEF Right
<1>6. CASE f = "temperatureRamp"
  <2>1. PICK l \in CpmdLosses :
            l = Needs("temperatureRamp", {"temperature"})
    BY Zenon DEF CpmdLosses
  <2>2. \A m \in CpmdLosses : m.field = "temperatureRamp" => m = l
    BY <2>1, LossField DEF CpmdLosses
  <2>3. "temperatureRamp" \in Excused(CpmdLosses, set)
          <=> "temperature" \notin set
    BY <2>1, <2>2, LossShape, ExcusedByOne
  <2>4. PICK row \in CpmdSpecial :
            row = Also({"temperature", "temperatureRamp"})
    BY Zenon DEF CpmdSpecial
  <2>5. "temperatureRamp" \in row.carries
        /\ ("temperature" \in set => Prints(row, set))
    BY <1>6, <2>4, PrintsIs, UnlessPrints
  <2>6. \A other \in CpmdSpecial : "temperatureRamp" \in other.carries /\ Prints(other, set)
          => "temperature" \in set
    BY PrintsIs, UnlessPrints DEF CpmdSpecial
  <2> QED BY <1>6, <2>3, <2>5, <2>6 DEF Right
<1>7. CASE f = "temperatureRampTime"
  <2>1. PICK l \in CpmdLosses :
            l = Needs("temperatureRampTime", {"temperature", "temperatureRamp"})
    BY Zenon DEF CpmdLosses
  <2>2. \A m \in CpmdLosses : m.field = "temperatureRampTime" => m = l
    BY <2>1, LossField DEF CpmdLosses
  <2>3. "temperatureRampTime" \in Excused(CpmdLosses, set)
          <=> ~({"temperature", "temperatureRamp"} \subseteq set)
    BY <2>1, <2>2, LossShape, ExcusedByOne
  <2>4. PICK row \in CpmdSpecial :
            row = Also({"temperature", "temperatureRamp", "temperatureRampTime"})
    BY Zenon DEF CpmdSpecial
  <2>5. "temperatureRampTime" \in row.carries
        /\ ({"temperature", "temperatureRamp"} \subseteq set => Prints(row, set))
    BY <1>7, <2>4, PrintsIs, UnlessPrints
  <2>6. \A other \in CpmdSpecial : "temperatureRampTime" \in other.carries /\ Prints(other, set)
          => {"temperature", "temperatureRamp"} \subseteq set
    BY PrintsIs, UnlessPrints DEF CpmdSpecial
  <2> QED BY <1>7, <2>3, <2>5, <2>6 DEF Right
<1>8. CASE f = "temperatureRampRate"
  <2>1. PICK l \in CpmdLosses :
            l = Needs("temperatureRampRate", {"temperature", "temperatureRamp"})
    BY Zenon DEF CpmdLosses
  <2>2. \A m \in CpmdLosses : m.field = "temperatureRampRate" => m = l
    BY <2>1, LossField DEF CpmdLosses
  <2>3. "temperatureRampRate" \in Excused(CpmdLosses, set)
          <=> ~({"temperature", "temperatureRamp"} \subseteq set)
    BY <2>1, <2>2, LossShape, ExcusedByOne
  <2>4. PICK row \in CpmdSpecial :
            row = Also({"temperature", "temperatureRamp", "temperatureRampRate"})
    BY Zenon DEF CpmdSpecial
  <2>5. "temperatureRampRate" \in row.carries
        /\ ({"temperature", "temperatureRamp"} \subseteq set => Prints(row, set))
    BY <1>8, <2>4, PrintsIs, UnlessPrints
  <2>6. \A other \in CpmdSpecial : "temperatureRampRate" \in other.carries /\ Prints(other, set)
          => {"temperature", "temperatureRamp"} \subseteq set
    BY PrintsIs, UnlessPrints DEF CpmdSpecial
  <2> QED BY <1>8, <2>3, <2>5, <2>6 DEF Right
<1>9. CASE f = "stressTensorVirial"
  <2>1. PICK l \in CpmdLosses :
            l = Needs("stressTensorVirial", {"stressTensorSample"})
    BY Zenon DEF CpmdLosses
  <2>2. \A m \in CpmdLosses : m.field = "stressTensorVirial" => m = l
    BY <2>1, LossField DEF CpmdLosses
  <2>3. "stressTensorVirial" \in Excused(CpmdLosses, set)
          <=> "stressTensorSample" \notin set
    BY <2>1, <2>2, LossShape, ExcusedByOne
  <2>4. PICK row \in CpmdSpecial :
            row = Also({"stressTensorSample", "stressTensorVirial"})
    BY Zenon DEF CpmdSpecial
  <2>5. "stressTensorVirial" \in row.carries
        /\ ("stressTensorSample" \in set => Prints(row, set))
    BY <1>9, <2>4, PrintsIs, UnlessPrints
  <2>6. \A other \in CpmdSpecial : "stressTensorVirial" \in other.carries /\ Prints(other, set)
          => "stressTensorSample" \in set
    BY PrintsIs, UnlessPrints DEF CpmdSpecial
  <2> QED BY <1>9, <2>3, <2>5, <2>6 DEF Right
<1>10. CASE f = "restFileSample"
  <2>1. PICK l \in CpmdLosses :
            l = Needs("restFileSample", {"restFileCount"})
    BY Zenon DEF CpmdLosses
  <2>2. \A m \in CpmdLosses : m.field = "restFileSample" => m = l
    BY <2>1, LossField DEF CpmdLosses
  <2>3. "restFileSample" \in Excused(CpmdLosses, set)
          <=> "restFileCount" \notin set
    BY <2>1, <2>2, LossShape, ExcusedByOne
  <2>4. PICK row \in CpmdSpecial :
            row = Also({"restFileCount", "restFileSample"})
    BY Zenon DEF CpmdSpecial
  <2>5. "restFileSample" \in row.carries
        /\ ("restFileCount" \in set => Prints(row, set))
    BY <1>10, <2>4, PrintsIs, UnlessPrints
  <2>6. \A other \in CpmdSpecial : "restFileSample" \in other.carries /\ Prints(other, set)
          => "restFileCount" \in set
    BY PrintsIs, UnlessPrints DEF CpmdSpecial
  <2> QED BY <1>10, <2>3, <2>5, <2>6 DEF Right
<1>11. CASE f = "rhoOutBands"
  <2>1. PICK l \in CpmdLosses :
            l = Needs("rhoOutBands", {"rhoOutBandsCount"})
    BY Zenon DEF CpmdLosses
  <2>2. \A m \in CpmdLosses : m.field = "rhoOutBands" => m = l
    BY <2>1, LossField DEF CpmdLosses
  <2>3. "rhoOutBands" \in Excused(CpmdLosses, set)
          <=> "rhoOutBandsCount" \notin set
    BY <2>1, <2>2, LossShape, ExcusedByOne
  <2>4. PICK row \in CpmdSpecial :
            row = Also({"rhoOutBandsCount", "rhoOutBands"})
    BY Zenon DEF CpmdSpecial
  <2>5. "rhoOutBands" \in row.carries
        /\ ("rhoOutBandsCount" \in set => Prints(row, set))
    BY <1>11, <2>4, PrintsIs, UnlessPrints
  <2>6. \A other \in CpmdSpecial : "rhoOutBands" \in other.carries /\ Prints(other, set)
          => "rhoOutBandsCount" \in set
    BY PrintsIs, UnlessPrints DEF CpmdSpecial
  <2> QED BY <1>11, <2>3, <2>5, <2>6 DEF Right
<1>12. CASE f = "wannierWfnOutPayload"
  <2>1. PICK l \in CpmdLosses :
            l = Needs("wannierWfnOutPayload", {"wannierWfnOutOptions"})
    BY Zenon DEF CpmdLosses
  <2>2. \A m \in CpmdLosses : m.field = "wannierWfnOutPayload" => m = l
    BY <2>1, LossField DEF CpmdLosses
  <2>3. "wannierWfnOutPayload" \in Excused(CpmdLosses, set)
          <=> "wannierWfnOutOptions" \notin set
    BY <2>1, <2>2, LossShape, ExcusedByOne
  <2>4. PICK row \in CpmdSpecial :
            row = Also({"wannierWfnOutOptions", "wannierWfnOutPayload"})
    BY Zenon DEF CpmdSpecial
  <2>5. "wannierWfnOutPayload" \in row.carries
        /\ ("wannierWfnOutOptions" \in set => Prints(row, set))
    BY <1>12, <2>4, PrintsIs, UnlessPrints
  <2>6. \A other \in CpmdSpecial : "wannierWfnOutPayload" \in other.carries /\ Prints(other, set)
          => "wannierWfnOutOptions" \in set
    BY PrintsIs, UnlessPrints DEF CpmdSpecial
  <2> QED BY <1>12, <2>3, <2>5, <2>6 DEF Right
<1>13. CASE f = "glocWfnOutPayload"
  <2>1. PICK l \in CpmdLosses :
            l = Needs("glocWfnOutPayload", {"glocWfnOutOptions"})
    BY Zenon DEF CpmdLosses
  <2>2. \A m \in CpmdLosses : m.field = "glocWfnOutPayload" => m = l
    BY <2>1, LossField DEF CpmdLosses
  <2>3. "glocWfnOutPayload" \in Excused(CpmdLosses, set)
          <=> "glocWfnOutOptions" \notin set
    BY <2>1, <2>2, LossShape, ExcusedByOne
  <2>4. PICK row \in CpmdSpecial :
            row = Also({"glocWfnOutOptions", "glocWfnOutPayload"})
    BY Zenon DEF CpmdSpecial
  <2>5. "glocWfnOutPayload" \in row.carries
        /\ ("glocWfnOutOptions" \in set => Prints(row, set))
    BY <1>13, <2>4, PrintsIs, UnlessPrints
  <2>6. \A other \in CpmdSpecial : "glocWfnOutPayload" \in other.carries /\ Prints(other, set)
          => "glocWfnOutOptions" \in set
    BY PrintsIs, UnlessPrints DEF CpmdSpecial
  <2> QED BY <1>13, <2>3, <2>5, <2>6 DEF Right
<1>14. CASE f = "splinePoints"
  <2>1. PICK l \in CpmdLosses :
            l = Needs("splinePoints", {"splineOptions"})
    BY Zenon DEF CpmdLosses
  <2>2. \A m \in CpmdLosses : m.field = "splinePoints" => m = l
    BY <2>1, LossField DEF CpmdLosses
  <2>3. "splinePoints" \in Excused(CpmdLosses, set)
          <=> "splineOptions" \notin set
    BY <2>1, <2>2, LossShape, ExcusedByOne
  <2>4. PICK row \in CpmdSpecial :
            row = Also({"splineOptions", "splinePoints"})
    BY Zenon DEF CpmdSpecial
  <2>5. "splinePoints" \in row.carries
        /\ ("splineOptions" \in set => Prints(row, set))
    BY <1>14, <2>4, PrintsIs, UnlessPrints
  <2>6. \A other \in CpmdSpecial : "splinePoints" \in other.carries /\ Prints(other, set)
          => "splineOptions" \in set
    BY PrintsIs, UnlessPrints DEF CpmdSpecial
  <2> QED BY <1>14, <2>3, <2>5, <2>6 DEF Right
<1>15. CASE f = "splineRange"
  <2>1. PICK l \in CpmdLosses :
            l = Needs("splineRange", {"splineOptions"})
    BY Zenon DEF CpmdLosses
  <2>2. \A m \in CpmdLosses : m.field = "splineRange" => m = l
    BY <2>1, LossField DEF CpmdLosses
  <2>3. "splineRange" \in Excused(CpmdLosses, set)
          <=> "splineOptions" \notin set
    BY <2>1, <2>2, LossShape, ExcusedByOne
  <2>4. PICK row \in CpmdSpecial :
            row = Also({"splineOptions", "splineRange"})
    BY Zenon DEF CpmdSpecial
  <2>5. "splineRange" \in row.carries
        /\ ("splineOptions" \in set => Prints(row, set))
    BY <1>15, <2>4, PrintsIs, UnlessPrints
  <2>6. \A other \in CpmdSpecial : "splineRange" \in other.carries /\ Prints(other, set)
          => "splineOptions" \in set
    BY PrintsIs, UnlessPrints DEF CpmdSpecial
  <2> QED BY <1>15, <2>3, <2>5, <2>6 DEF Right
<1>16. CASE f = "noseIonsLocalT0"
  <2>1. PICK l \in CpmdLosses :
            l = NeedsOne("noseIonsLocalT0", NoseLocals)
    BY Zenon DEF CpmdLosses, NoseLocals
  <2>2. \A m \in CpmdLosses : m.field = "noseIonsLocalT0" => m = l
    BY <2>1, LossField DEF CpmdLosses, NoseLocals
  <2>3. "noseIonsLocalT0" \in Excused(CpmdLosses, set)
          <=> NoseLocals \cap set = {}
    BY <2>1, <2>2, LossShape, ExcusedByOne, NoseLocalsAre
  <2>4. PICK row \in CpmdSpecial :
            row = Rides("noseIonsLocalT0", NoseLocals)
    BY Zenon DEF CpmdSpecial
  <2>5. "noseIonsLocalT0" \in row.carries
        /\ (NoseLocals \cap set # {} => Prints(row, set))
    BY <1>16, <2>4, PrintsIs, UnlessPrints
  <2>6. \A other \in CpmdSpecial : "noseIonsLocalT0" \in other.carries /\ Prints(other, set)
          => NoseLocals \cap set # {}
    BY PrintsIs, UnlessPrints DEF CpmdSpecial
  <2> QED BY <1>16, <2>3, <2>5, <2>6 DEF Right
<1>17. CASE f = "optimizeWavefunction"
  <2>1. PICK l \in CpmdLosses :
            l = Yields("optimizeWavefunction", {"molecularDynamics", "task=md"})
    BY Zenon DEF CpmdLosses
  <2>2. \A m \in CpmdLosses : m.field = "optimizeWavefunction" => m = l
    BY <2>1, LossField DEF CpmdLosses
  <2>3. "optimizeWavefunction" \in Excused(CpmdLosses, set)
          <=> {"molecularDynamics", "task=md"} \cap set # {}
    BY <2>1, <2>2, LossShape, ExcusedByOne
  <2>4. PICK row \in CpmdSpecial :
            row = Unless(AnyOf("OPTIMIZE_WAVEFUNCTION", {"optimizeWavefunction", "task=gradient"}),
                      {"molecularDynamics", "task=md"})
    BY Zenon DEF CpmdSpecial
  <2>5. "optimizeWavefunction" \in row.carries
        /\ ({"molecularDynamics", "task=md"} \cap set = {} => Prints(row, set))
    BY <1>17, <2>4, PrintsIs, UnlessPrints
  <2>6. \A other \in CpmdSpecial : "optimizeWavefunction" \in other.carries /\ Prints(other, set)
          => {"molecularDynamics", "task=md"} \cap set = {}
    BY PrintsIs, UnlessPrints DEF CpmdSpecial
  <2> QED BY <1>17, <2>3, <2>5, <2>6 DEF Right
<1>18. CASE f = "task=gradient"
  <2>1. PICK l \in CpmdLosses :
            l = Yields("task=gradient", {"molecularDynamics"})
    BY Zenon DEF CpmdLosses
  <2>2. \A m \in CpmdLosses : m.field = "task=gradient" => m = l
    BY <2>1, LossField DEF CpmdLosses
  <2>3. "task=gradient" \in Excused(CpmdLosses, set)
          <=> "molecularDynamics" \in set
    BY <2>1, <2>2, LossShape, ExcusedByOne
  <2>4. PICK row \in CpmdSpecial :
            row = Unless(AnyOf("OPTIMIZE_WAVEFUNCTION", {"optimizeWavefunction", "task=gradient"}),
                      {"molecularDynamics", "task=md"})
    BY Zenon DEF CpmdSpecial
  <2>5. "task=gradient" \in row.carries
        /\ ("molecularDynamics" \notin set => Prints(row, set))
    BY <1>18, <2>4, PrintsIs, UnlessPrints
  <2>6. \A other \in CpmdSpecial : "task=gradient" \in other.carries /\ Prints(other, set)
          => "molecularDynamics" \notin set
    BY PrintsIs, UnlessPrints DEF CpmdSpecial
  <2> QED BY <1>18, <2>3, <2>5, <2>6 DEF Right
<1>19. CASE f = "paramsFilePath"
  <2>1. PICK l \in CpmdLosses :
            l = Yields("paramsFilePath", {"directive:FILEPATH", "set:FILEPATH"})
    BY Zenon DEF CpmdLosses
  <2>2. \A m \in CpmdLosses : m.field = "paramsFilePath" => m = l
    BY <2>1, LossField DEF CpmdLosses
  <2>3. "paramsFilePath" \in Excused(CpmdLosses, set)
          <=> {"directive:FILEPATH", "set:FILEPATH"} \cap set # {}
    BY <2>1, <2>2, LossShape, ExcusedByOne
  <2>4. PICK row \in CpmdSpecial :
            row = Unless(F("FILEPATH", "paramsFilePath"), {"directive:FILEPATH", "set:FILEPATH"})
    BY Zenon DEF CpmdSpecial
  <2>5. "paramsFilePath" \in row.carries
        /\ ({"directive:FILEPATH", "set:FILEPATH"} \cap set = {} => Prints(row, set))
    BY <1>19, <2>4, PrintsIs, UnlessPrints
  <2>6. \A other \in CpmdSpecial : "paramsFilePath" \in other.carries /\ Prints(other, set)
          => {"directive:FILEPATH", "set:FILEPATH"} \cap set = {}
    BY PrintsIs, UnlessPrints DEF CpmdSpecial
  <2> QED BY <1>19, <2>3, <2>5, <2>6 DEF Right
<1> QED BY <1>1, <1>2, <1>3, <1>4, <1>5, <1>6, <1>7, <1>8, <1>9, <1>10, <1>11, <1>12,
   <1>13, <1>14, <1>15, <1>16, <1>17, <1>18, <1>19 DEF CpmdLost

\* A field a caller may set is carried by a row or named by a refusal or a loss.
LEMMA FieldsAre ==
    ASSUME NEW s, NEW f \in Fields(s)
    PROVE  \/ \E row \in RowsOf(Table[s].rows) : f \in row.carries
           \/ \E r \in Table[s].refusals : f \in r.both \cup r.without
           \/ \E l \in Table[s].losses : f = l.field
<1> DEFINE t == Table[s]
<1>1. f \in FieldsOf(t.rows) \/ f \in UNION {r.both \cup r.without : r \in t.refusals}
        \/ f \in {l.field : l \in t.losses}
  BY Zenon DEF Fields
<1> HIDE DEF t
<1>2. f \in FieldsOf(t.rows) => \E row \in RowsOf(t.rows) : f \in row.carries
  BY DEF FieldsOf, RowsOf
<1>3. f \in UNION {r.both \cup r.without : r \in t.refusals}
        => \E r \in t.refusals : f \in r.both \cup r.without
  OBVIOUS
<1>4. f \in {l.field : l \in t.losses} => \E l \in t.losses : f = l.field
  OBVIOUS
<1>5. \/ \E row \in RowsOf(t.rows) : f \in row.carries
      \/ \E r \in t.refusals : f \in r.both \cup r.without
      \/ \E l \in t.losses : f = l.field
  BY <1>1, <1>2, <1>3, <1>4, Zenon
<1> QED BY <1>5 DEF t

LEMMA CpmdFields ==
    ASSUME NEW f \in Fields("CPMD"), f \notin CpmdLost
    PROVE  \/ f = "spinOrbitCouplingStates/other"
           \/ \E row \in RowsOf(CpmdRows) : f \in row.carries /\ Ordinary(row, CpmdLost)
<1>1. /\ Table["CPMD"].rows = CpmdRows /\ Table["CPMD"].refusals = CpmdRefusals
      /\ Table["CPMD"].losses = CpmdLosses
  BY DEF Table
<1>2. \A l \in CpmdLosses : l.field \in CpmdLost
  BY LossField DEF CpmdLosses, CpmdLost
<1>3. \A r \in CpmdRefusals : r.both \cup r.without = {"spinOrbitCouplingStates/other"}
  BY DEF CpmdRefusals, Bad, Together
<1>4. CASE \E row \in RowsOf(CpmdRows) : f \in row.carries
  <2>1. PICK row \in RowsOf(CpmdRows) : f \in row.carries
    BY <1>4
  <2>2. CASE row \in CpmdSpecial
    <3>1. f \in {"temperature", "stressTensorSample", "restFileCount", "rhoOutBandsCount",
                 "wannierWfnOutOptions", "glocWfnOutOptions", "splineOptions"}
      <4>1. \A other \in CpmdSpecial :
              other.carries \subseteq CpmdLost \cup
                {"temperature", "stressTensorSample", "restFileCount", "rhoOutBandsCount",
                 "wannierWfnOutOptions", "glocWfnOutOptions", "splineOptions"}
        BY PrintsIs, UnlessPrints DEF CpmdSpecial, CpmdLost
      <4> QED BY <2>1, <2>2, <4>1
    <3> DEFINE leaders ==
            {F("TEMPERATURE", "temperature"), F("STRESS_TENSOR", "stressTensorSample"),
             F("RESTFILE", "restFileCount"), AnyOf("RHOOUT", {"rhoOut", "rhoOutSample", "rhoOutBandsCount"}),
             F("WANNIER_WFNOUT", "wannierWfnOutOptions"), F("GLOC_WFNOUT", "glocWfnOutOptions"),
             F("SPLINE", "splineOptions")}
    <3>2. \A other \in leaders : Ordinary(other, CpmdLost)
      BY RowShape DEF CpmdLost
    <3>3. \E other \in leaders : f \in other.carries
      <4>1. \A g \in {"temperature", "stressTensorSample", "restFileCount",
                     "rhoOutBandsCount", "wannierWfnOutOptions", "glocWfnOutOptions",
                     "splineOptions"} : \E other \in leaders : g \in other.carries
        BY PrintsIs
      <4> QED BY <3>1, <4>1
    <3>4. leaders \subseteq RowsOf(CpmdRows)
      BY CpmdLeaders
    <3> HIDE DEF leaders
    <3> QED BY <3>2, <3>3, <3>4
  <2>3. CASE Ordinary(row, CpmdLost)
    BY <2>1, <2>3
  <2> QED BY <2>1, <2>2, <2>3, CpmdRowsPart DEF Part
<1>5. CASE \E r \in CpmdRefusals : f \in r.both \cup r.without
  BY <1>3, <1>5
<1>6. CASE \E l \in CpmdLosses : f = l.field
  BY <1>2, <1>6
<1>7. \/ \E row \in RowsOf(CpmdRows) : f \in row.carries
      \/ \E r \in CpmdRefusals : f \in r.both \cup r.without
      \/ \E l \in CpmdLosses : f = l.field
  BY <1>1, FieldsAre, Zenon
<1> QED BY <1>4, <1>5, <1>6, <1>7

\* Of the fields that are set a &CPMD section prints all but the excused ones.
LEMMA CpmdCovers ==
    ASSUME NEW set \in SUBSET Fields("CPMD"), ~Refused(CpmdRefusals, set),
           ~({"task=md", "task=gradient"} \subseteq set)
    PROVE  Covers(CpmdRows, CpmdLosses, set)
<1>1. "spinOrbitCouplingStates/other" \notin set
  <2>1. Bad("spinOrbitCouplingStates/other") \in CpmdRefusals
    BY DEF CpmdRefusals
  <2> QED BY <2>1, NotRefused
<1>2. \A f \in set \ CpmdLost :
          \E row \in RowsOf(CpmdRows) : f \in row.carries /\ Ordinary(row, CpmdLost)
  BY <1>1, CpmdFields
<1>3. \A l \in CpmdLosses : l.field \in CpmdLost
  BY LossField DEF CpmdLosses, CpmdLost
<1>4. \A f \in set \cap CpmdLost : Right(CpmdSpecial, CpmdLosses, set, f)
  BY CpmdLostFields
<1>5. \A row \in RowsOf(CpmdRows) : Ordinary(row, CpmdLost) \/ row \in CpmdSpecial
  BY CpmdRowsPart DEF Part
<1> QED BY <1>2, <1>3, <1>4, <1>5, CpmdSpecialRows, CoversWhen

-----------------------------------------------------------------------------
(* The &SYSTEM section *)

SystemNames == {"value"} \cup SystemRepeats

SystemLost ==
    {"cell/other", "kpointsBlock/negative", "occupationFixed", "poissonParameter",
     "symmetry", "checkSymmetryPrecision"}

SystemSpecial ==
    {Unless(Always("SYMMETRY", {"symmetry"}), {"cellVectors"}),
     Rides("cellVectors", {"cell/9"}), Rides("cellAbsolute", {"cell/6"}),
     Rides("cellDegree", {"cell/6"}), Rides("referenceCellVectors", {"referenceCell/9"}),
     Rides("referenceCellAbsolute", {"referenceCell/6"}),
     Rides("referenceCellDegree", {"referenceCell/6"}),
     Also({"classicalCell", "classicalCellAbsolute"}),
     Also({"classicalCell", "classicalCellDegree"}),
     Unless(F("CHECK_SYMMETRY", "checkSymmetryPrecision"), {"checkSymmetryOff"}),
     Also({"occupation", "occupationFixed"}), Also({"cdftDonorAtoms", "cdftDonorWeights"}),
     Also({"cdftAcceptorAtoms", "cdftAcceptorHdasDonors"}),
     Also({"cdftAcceptorAtoms", "cdftAcceptorWeights"}),
     Also({"pointGroup", "pointGroupMolecule"}), Also({"pointGroup", "pointGroupDelta"}),
     Also({"poissonSolver", "poissonParameter"}),
     Rides("kpointsScaled", {"kpoints", "kpointBands"}),
     Rides("kpointsOnlyDiagonal", PointKinds), Rides("kpointsBlock", PointKinds),
     Rides("kpointsBlockAll", PointKinds), Rides("kpointsBlockCalculated", PointKinds),
     Rides("kpointsBlockNoSwap", PointKinds),
     Rides("kpointsMonkhorstSymmetrized", {"kpointsMonkhorstPack"}),
     Rides("kpointsMonkhorstFull", {"kpointsMonkhorstPack"}),
     Rides("kpointsMonkhorstKdp", {"kpointsMonkhorstPack"}),
     Rides("kpointsMonkhorstShift", {"kpointsMonkhorstPack"}), DefaultSolver}

LEMMA SystemCellPart == Part(SystemCell, SystemNames, SystemLost, SystemSpecial)
<1>1. \A i \in DOMAIN SystemCell : SystemCell[i] \in RowsOf(SystemCell)
  BY DEF RowsOf
<1>2. IsTable(SystemCell)
  BY <1>1 DEF IsTable, SystemCell
<1>3. Exclusive(SystemCell, SystemNames)
  <2> DEFINE off == F("CHECK_SYMMETRY", "checkSymmetryOff")
             precision == Unless(F("CHECK_SYMMETRY", "checkSymmetryPrecision"), {"checkSymmetryOff"})
  <2>1. \A i, j \in DOMAIN SystemCell : i < j /\ SystemCell[i].keyword = SystemCell[j].keyword
          => SystemCell[i].keyword \in SystemNames \/ (SystemCell[i] = off /\ SystemCell[j] = precision)
    BY RowShape DEF SystemNames, SystemRepeats, SystemCell
  <2>2. ~Rivals(off, precision)
    BY PrintsIs, UnlessPrints DEF Rivals
  <2> HIDE DEF off, precision
  <2> QED BY <2>1, <2>2 DEF Exclusive, Rivals
<1>4. \A row \in RowsOf(SystemCell) :
        \/ Ordinary(row, SystemLost)
        \/ row \in {Unless(Always("SYMMETRY", {"symmetry"}), {"cellVectors"}),
             Rides("cellVectors", {"cell/9"}),
             Rides("cellAbsolute", {"cell/6"}),
             Rides("cellDegree", {"cell/6"}),
             Rides("referenceCellVectors", {"referenceCell/9"}),
             Rides("referenceCellAbsolute", {"referenceCell/6"}),
             Rides("referenceCellDegree", {"referenceCell/6"}),
             Also({"classicalCell", "classicalCellAbsolute"}),
             Also({"classicalCell", "classicalCellDegree"}),
             Unless(F("CHECK_SYMMETRY", "checkSymmetryPrecision"), {"checkSymmetryOff"})}
  BY RowShape DEF RowsOf, SystemLost, SystemCell
<1>5. {Unless(Always("SYMMETRY", {"symmetry"}), {"cellVectors"}),
             Rides("cellVectors", {"cell/9"}),
             Rides("cellAbsolute", {"cell/6"}),
             Rides("cellDegree", {"cell/6"}),
             Rides("referenceCellVectors", {"referenceCell/9"}),
             Rides("referenceCellAbsolute", {"referenceCell/6"}),
             Rides("referenceCellDegree", {"referenceCell/6"}),
             Also({"classicalCell", "classicalCellAbsolute"}),
             Also({"classicalCell", "classicalCellDegree"}),
             Unless(F("CHECK_SYMMETRY", "checkSymmetryPrecision"), {"checkSymmetryOff"})}
        \subseteq SystemSpecial
  BY DEF SystemSpecial
<1> QED BY <1>2, <1>3, <1>4, <1>5 DEF Part

LEMMA SystemCutoffPart == Part(SystemCutoff, SystemNames, SystemLost, SystemSpecial)
<1>1. \A i \in DOMAIN SystemCutoff : SystemCutoff[i] \in RowsOf(SystemCutoff)
  BY DEF RowsOf
<1>2. IsTable(SystemCutoff)
  BY <1>1 DEF IsTable, SystemCutoff
<1>3. Exclusive(SystemCutoff, SystemNames)
  BY RowShape DEF Exclusive, Rivals, SystemNames, SystemRepeats, SystemCutoff
<1>4. \A row \in RowsOf(SystemCutoff) :
        \/ Ordinary(row, SystemLost)
        \/ row \in {Also({"occupation", "occupationFixed"})}
  BY RowShape DEF RowsOf, SystemLost, SystemCutoff
<1>5. {Also({"occupation", "occupationFixed"})}
        \subseteq SystemSpecial
  BY DEF SystemSpecial
<1> QED BY <1>2, <1>3, <1>4, <1>5 DEF Part

LEMMA SystemCouplingsPart == Part(SystemCouplings, SystemNames, SystemLost, SystemSpecial)
<1>1. \A i \in DOMAIN SystemCouplings : SystemCouplings[i] \in RowsOf(SystemCouplings)
  BY DEF RowsOf
<1>2. IsTable(SystemCouplings)
  BY <1>1 DEF IsTable, SystemCouplings
<1>3. Exclusive(SystemCouplings, SystemNames)
  BY RowShape DEF Exclusive, Rivals, SystemNames, SystemRepeats, SystemCouplings,
     FdFields, LinresFields
<1>4. \A row \in RowsOf(SystemCouplings) :
        \/ Ordinary(row, SystemLost)
        \/ row \in {Also({"cdftDonorAtoms", "cdftDonorWeights"}),
             Also({"cdftAcceptorAtoms", "cdftAcceptorHdasDonors"}),
             Also({"cdftAcceptorAtoms", "cdftAcceptorWeights"})}
  BY RowShape DEF RowsOf, SystemLost, SystemCouplings, FdFields, LinresFields
<1>5. {Also({"cdftDonorAtoms", "cdftDonorWeights"}),
             Also({"cdftAcceptorAtoms", "cdftAcceptorHdasDonors"}),
             Also({"cdftAcceptorAtoms", "cdftAcceptorWeights"})}
        \subseteq SystemSpecial
  BY DEF SystemSpecial
<1> QED BY <1>2, <1>3, <1>4, <1>5 DEF Part

LEMMA SystemStatesPart == Part(SystemStates, SystemNames, SystemLost, SystemSpecial)
<1>1. \A i \in DOMAIN SystemStates : SystemStates[i] \in RowsOf(SystemStates)
  BY DEF RowsOf
<1>2. IsTable(SystemStates)
  BY <1>1 DEF IsTable, SystemStates
<1>3. Exclusive(SystemStates, SystemNames)
  BY RowShape DEF Exclusive, Rivals, SystemNames, SystemRepeats, SystemStates
<1>4. \A row \in RowsOf(SystemStates) :
        \/ Ordinary(row, SystemLost)
        \/ row \in {Also({"pointGroup", "pointGroupMolecule"}),
             Also({"pointGroup", "pointGroupDelta"}),
             Also({"poissonSolver", "poissonParameter"})}
  BY RowShape DEF RowsOf, SystemLost, SystemStates
<1>5. {Also({"pointGroup", "pointGroupMolecule"}),
             Also({"pointGroup", "pointGroupDelta"}),
             Also({"poissonSolver", "poissonParameter"})}
        \subseteq SystemSpecial
  BY DEF SystemSpecial
<1> QED BY <1>2, <1>3, <1>4, <1>5 DEF Part

LEMMA SystemPointsPart == Part(SystemPoints, SystemNames, SystemLost, SystemSpecial)
<1>1. \A i \in DOMAIN SystemPoints : SystemPoints[i] \in RowsOf(SystemPoints)
  BY DEF RowsOf
<1>2. IsTable(SystemPoints)
  BY <1>1 DEF IsTable, SystemPoints
<1>3. Exclusive(SystemPoints, SystemNames)
  BY RowShape DEF Exclusive, Rivals, SystemNames, SystemRepeats, SystemPoints, PointKinds
<1>4. \A row \in RowsOf(SystemPoints) :
        \/ Ordinary(row, SystemLost)
        \/ row \in {Rides("kpointsScaled", {"kpoints", "kpointBands"}),
             Rides("kpointsOnlyDiagonal", PointKinds),
             Rides("kpointsBlock", PointKinds),
             Rides("kpointsBlockAll", PointKinds),
             Rides("kpointsBlockCalculated", PointKinds),
             Rides("kpointsBlockNoSwap", PointKinds),
             Rides("kpointsMonkhorstSymmetrized", {"kpointsMonkhorstPack"}),
             Rides("kpointsMonkhorstFull", {"kpointsMonkhorstPack"}),
             Rides("kpointsMonkhorstKdp", {"kpointsMonkhorstPack"}),
             Rides("kpointsMonkhorstShift", {"kpointsMonkhorstPack"})}
  BY RowShape DEF RowsOf, SystemLost, SystemPoints, PointKinds
<1>5. {Rides("kpointsScaled", {"kpoints", "kpointBands"}),
             Rides("kpointsOnlyDiagonal", PointKinds),
             Rides("kpointsBlock", PointKinds),
             Rides("kpointsBlockAll", PointKinds),
             Rides("kpointsBlockCalculated", PointKinds),
             Rides("kpointsBlockNoSwap", PointKinds),
             Rides("kpointsMonkhorstSymmetrized", {"kpointsMonkhorstPack"}),
             Rides("kpointsMonkhorstFull", {"kpointsMonkhorstPack"}),
             Rides("kpointsMonkhorstKdp", {"kpointsMonkhorstPack"}),
             Rides("kpointsMonkhorstShift", {"kpointsMonkhorstPack"})}
        \subseteq SystemSpecial
  BY DEF SystemSpecial
<1> QED BY <1>2, <1>3, <1>4, <1>5 DEF Part

LEMMA SystemRestPart == Part(SystemRest, SystemNames, SystemLost, SystemSpecial)
<1>1. \A i \in DOMAIN SystemRest : SystemRest[i] \in RowsOf(SystemRest)
  BY DEF RowsOf
<1>2. IsTable(SystemRest)
  BY <1>1 DEF IsTable, SystemRest
<1>3. Exclusive(SystemRest, SystemNames)
  BY RowShape DEF Exclusive, Rivals, SystemNames, SystemRepeats, SystemRest, DefaultSolver
<1>4. \A row \in RowsOf(SystemRest) :
        \/ Ordinary(row, SystemLost)
        \/ row \in {DefaultSolver}
  BY RowShape DEF RowsOf, SystemLost, SystemRest, DefaultSolver
<1>5. {DefaultSolver}
        \subseteq SystemSpecial
  BY DEF SystemSpecial
<1> QED BY <1>2, <1>3, <1>4, <1>5 DEF Part

LEMMA SystemRowsPart ==
    /\ Part(SystemRows, SystemNames, SystemLost, SystemSpecial)
    /\ RowsOf(SystemRows) = RowsOf(SystemCell) \cup RowsOf(SystemCutoff)
         \cup RowsOf(SystemCouplings) \cup RowsOf(SystemStates) \cup RowsOf(SystemPoints)
         \cup RowsOf(SystemRest)
<1> DEFINE P2 == SystemCell \o SystemCutoff
<1> DEFINE P3 == P2 \o SystemCouplings
<1> DEFINE P4 == P3 \o SystemStates
<1> DEFINE P5 == P4 \o SystemPoints
<1> DEFINE P6 == P5 \o SystemRest
<1>2. /\ Part(P2, SystemNames, SystemLost, SystemSpecial)
      /\ RowsOf(P2) = RowsOf(SystemCell) \cup RowsOf(SystemCutoff)
  <2>1. Apart(RowsOf(SystemCell), RowsOf(SystemCutoff), SystemNames)
    BY RowShape DEF Apart, RowsOf, SystemNames, SystemRepeats, SystemCell, SystemCutoff
  <2> QED BY <2>1, SystemCellPart, SystemCutoffPart, JoinedPart
<1>3. /\ Part(P3, SystemNames, SystemLost, SystemSpecial)
      /\ RowsOf(P3) = RowsOf(P2) \cup RowsOf(SystemCouplings)
  <2>1. Apart(RowsOf(SystemCell), RowsOf(SystemCouplings), SystemNames)
    BY RowShape DEF Apart, RowsOf, SystemNames, SystemRepeats, SystemCell,
       SystemCouplings, FdFields, LinresFields
  <2>2. Apart(RowsOf(SystemCutoff), RowsOf(SystemCouplings), SystemNames)
    BY RowShape DEF Apart, RowsOf, SystemNames, SystemRepeats, SystemCutoff,
       SystemCouplings, FdFields, LinresFields
  <2>3. Apart(RowsOf(P2), RowsOf(SystemCouplings), SystemNames)
    BY <2>1, <2>2, <1>2 DEF Apart
  <2> HIDE DEF P2
  <2> QED BY <1>2, <2>3, SystemCouplingsPart, JoinedPart
<1>4. /\ Part(P4, SystemNames, SystemLost, SystemSpecial)
      /\ RowsOf(P4) = RowsOf(P3) \cup RowsOf(SystemStates)
  <2>1. Apart(RowsOf(SystemCell), RowsOf(SystemStates), SystemNames)
    BY RowShape DEF Apart, RowsOf, SystemNames, SystemRepeats, SystemCell, SystemStates
  <2>2. Apart(RowsOf(SystemCutoff), RowsOf(SystemStates), SystemNames)
    BY RowShape DEF Apart, RowsOf, SystemNames, SystemRepeats, SystemCutoff, SystemStates
  <2>3. Apart(RowsOf(SystemCouplings), RowsOf(SystemStates), SystemNames)
    BY RowShape DEF Apart, RowsOf, SystemNames, SystemRepeats, SystemCouplings,
       SystemStates, FdFields, LinresFields
  <2>4. Apart(RowsOf(P3), RowsOf(SystemStates), SystemNames)
    BY <2>1, <2>2, <2>3, <1>2, <1>3 DEF Apart
  <2> HIDE DEF P3
  <2> QED BY <1>3, <2>4, SystemStatesPart, JoinedPart
<1>5. /\ Part(P5, SystemNames, SystemLost, SystemSpecial)
      /\ RowsOf(P5) = RowsOf(P4) \cup RowsOf(SystemPoints)
  <2>1. Apart(RowsOf(SystemCell), RowsOf(SystemPoints), SystemNames)
    BY RowShape DEF Apart, RowsOf, SystemNames, SystemRepeats, SystemCell, SystemPoints,
       PointKinds
  <2>2. Apart(RowsOf(SystemCutoff), RowsOf(SystemPoints), SystemNames)
    BY RowShape DEF Apart, RowsOf, SystemNames, SystemRepeats, SystemCutoff, SystemPoints,
       PointKinds
  <2>3. Apart(RowsOf(SystemCouplings), RowsOf(SystemPoints), SystemNames)
    BY RowShape DEF Apart, RowsOf, SystemNames, SystemRepeats, SystemCouplings,
       SystemPoints, FdFields, LinresFields, PointKinds
  <2>4. Apart(RowsOf(SystemStates), RowsOf(SystemPoints), SystemNames)
    BY RowShape DEF Apart, RowsOf, SystemNames, SystemRepeats, SystemStates, SystemPoints,
       PointKinds
  <2>5. Apart(RowsOf(P4), RowsOf(SystemPoints), SystemNames)
    BY <2>1, <2>2, <2>3, <2>4, <1>2, <1>3, <1>4 DEF Apart
  <2> HIDE DEF P4
  <2> QED BY <1>4, <2>5, SystemPointsPart, JoinedPart
<1>6. /\ Part(P6, SystemNames, SystemLost, SystemSpecial)
      /\ RowsOf(P6) = RowsOf(P5) \cup RowsOf(SystemRest)
  <2>1. Apart(RowsOf(SystemCell), RowsOf(SystemRest), SystemNames)
    BY RowShape DEF Apart, RowsOf, SystemNames, SystemRepeats, SystemCell, SystemRest,
       DefaultSolver
  <2>2. Apart(RowsOf(SystemCutoff), RowsOf(SystemRest), SystemNames)
    BY RowShape DEF Apart, RowsOf, SystemNames, SystemRepeats, SystemCutoff, SystemRest,
       DefaultSolver
  <2>3. Apart(RowsOf(SystemCouplings), RowsOf(SystemRest), SystemNames)
    BY RowShape DEF Apart, RowsOf, SystemNames, SystemRepeats, SystemCouplings,
       SystemRest, FdFields, LinresFields, DefaultSolver
  <2>4. Apart(RowsOf(SystemStates), RowsOf(SystemRest), SystemNames)
    BY RowShape DEF Apart, RowsOf, SystemNames, SystemRepeats, SystemStates, SystemRest,
       DefaultSolver
  <2>5. Apart(RowsOf(SystemPoints), RowsOf(SystemRest), SystemNames)
    BY RowShape DEF Apart, RowsOf, SystemNames, SystemRepeats, SystemPoints, SystemRest,
       PointKinds, DefaultSolver
  <2>6. Apart(RowsOf(P5), RowsOf(SystemRest), SystemNames)
    BY <2>1, <2>2, <2>3, <2>4, <2>5, <1>2, <1>3, <1>4, <1>5 DEF Apart
  <2> HIDE DEF P5
  <2> QED BY <1>5, <2>6, SystemRestPart, JoinedPart
<1> QED BY <1>2, <1>3, <1>4, <1>5, <1>6 DEF SystemRows

LEMMA SystemSpecialRows == SystemSpecial \subseteq RowsOf(SystemRows)
<1>1. {Unless(Always("SYMMETRY", {"symmetry"}), {"cellVectors"}),
      Rides("cellVectors", {"cell/9"}), Rides("cellAbsolute", {"cell/6"}),
      Rides("cellDegree", {"cell/6"}), Rides("referenceCellVectors", {"referenceCell/9"}),
      Rides("referenceCellAbsolute", {"referenceCell/6"}),
      Rides("referenceCellDegree", {"referenceCell/6"}),
      Also({"classicalCell", "classicalCellAbsolute"}),
      Also({"classicalCell", "classicalCellDegree"}),
      Unless(F("CHECK_SYMMETRY", "checkSymmetryPrecision"), {"checkSymmetryOff"})}
       \subseteq RowsOf(SystemCell)
  BY DEF RowsOf, SystemCell
<1>2. Also({"occupation", "occupationFixed"}) \in RowsOf(SystemCutoff)
  BY DEF RowsOf, SystemCutoff
<1>3. {Also({"cdftDonorAtoms", "cdftDonorWeights"}),
      Also({"cdftAcceptorAtoms", "cdftAcceptorHdasDonors"}),
      Also({"cdftAcceptorAtoms", "cdftAcceptorWeights"})}
       \subseteq RowsOf(SystemCouplings)
  BY DEF RowsOf, SystemCouplings, FdFields, LinresFields
<1>4. {Also({"pointGroup", "pointGroupMolecule"}), Also({"pointGroup", "pointGroupDelta"}),
      Also({"poissonSolver", "poissonParameter"})}
       \subseteq RowsOf(SystemStates)
  BY DEF RowsOf, SystemStates
<1>5. {Rides("kpointsScaled", {"kpoints", "kpointBands"}),
      Rides("kpointsOnlyDiagonal", PointKinds), Rides("kpointsBlock", PointKinds),
      Rides("kpointsBlockAll", PointKinds), Rides("kpointsBlockCalculated", PointKinds),
      Rides("kpointsBlockNoSwap", PointKinds),
      Rides("kpointsMonkhorstSymmetrized", {"kpointsMonkhorstPack"}),
      Rides("kpointsMonkhorstFull", {"kpointsMonkhorstPack"}),
      Rides("kpointsMonkhorstKdp", {"kpointsMonkhorstPack"}),
      Rides("kpointsMonkhorstShift", {"kpointsMonkhorstPack"})}
       \subseteq RowsOf(SystemPoints)
  BY DEF RowsOf, SystemPoints, PointKinds
<1>6. DefaultSolver \in RowsOf(SystemRest)
  BY DEF RowsOf, SystemRest, DefaultSolver
<1> QED BY SystemRowsPart, <1>1, <1>2, <1>3, <1>4, <1>5, <1>6 DEF SystemSpecial

\* The lost fields of the section are printed exactly when not excused.
LEMMA SystemLostFields ==
    ASSUME NEW set, NEW f \in set \cap SystemLost
    PROVE  Right(SystemSpecial, SystemLosses, set, f)
<1>1. CASE f = "cell/other"
  <2>1. PICK l \in SystemLosses : l = Dropped("cell/other")
    BY Zenon DEF SystemLosses
  <2>2. \A m \in SystemLosses : m.field = "cell/other" => m = l
    BY <2>1, LossField DEF SystemLosses
  <2>3. "cell/other" \in Excused(SystemLosses, set)
    BY <1>1, <2>1, <2>2, LossShape, ExcusedByOne
  <2>4. \A other \in SystemSpecial : "cell/other" \notin other.carries
    BY PrintsIs, UnlessPrints DEF SystemSpecial, PointKinds, DefaultSolver
  <2> QED BY <1>1, <2>3, <2>4 DEF Right
<1>2. CASE f = "kpointsBlock/negative"
  <2>1. PICK l \in SystemLosses : l = Dropped("kpointsBlock/negative")
    BY Zenon DEF SystemLosses
  <2>2. \A m \in SystemLosses : m.field = "kpointsBlock/negative" => m = l
    BY <2>1, LossField DEF SystemLosses
  <2>3. "kpointsBlock/negative" \in Excused(SystemLosses, set)
    BY <1>2, <2>1, <2>2, LossShape, ExcusedByOne
  <2>4. \A other \in SystemSpecial : "kpointsBlock/negative" \notin other.carries
    BY PrintsIs, UnlessPrints DEF SystemSpecial, PointKinds, DefaultSolver
  <2> QED BY <1>2, <2>3, <2>4 DEF Right
<1>3. CASE f = "occupationFixed"
  <2>1. PICK l \in SystemLosses : l = Needs("occupationFixed", {"occupation"})
    BY Zenon DEF SystemLosses
  <2>2. \A m \in SystemLosses : m.field = "occupationFixed" => m = l
    BY <2>1, LossField DEF SystemLosses
  <2>3. "occupationFixed" \in Excused(SystemLosses, set) <=> "occupation" \notin set
    BY <2>1, <2>2, LossShape, ExcusedByOne
  <2>4. PICK row \in SystemSpecial :
            row = Also({"occupation", "occupationFixed"})
    BY Zenon DEF SystemSpecial
  <2>5. "occupationFixed" \in row.carries /\ ("occupation" \in set => Prints(row, set))
    BY <1>3, <2>4, PrintsIs, UnlessPrints
  <2>6. \A other \in SystemSpecial : "occupationFixed" \in other.carries /\ Prints(other, set)
          => "occupation" \in set
    BY PrintsIs, UnlessPrints DEF SystemSpecial, DefaultSolver
  <2> QED BY <1>3, <2>3, <2>5, <2>6 DEF Right
<1>4. CASE f = "poissonParameter"
  <2>1. PICK l \in SystemLosses : l = Needs("poissonParameter", {"poissonSolver"})
    BY Zenon DEF SystemLosses
  <2>2. \A m \in SystemLosses : m.field = "poissonParameter" => m = l
    BY <2>1, LossField DEF SystemLosses
  <2>3. "poissonParameter" \in Excused(SystemLosses, set) <=> "poissonSolver" \notin set
    BY <2>1, <2>2, LossShape, ExcusedByOne
  <2>4. PICK row \in SystemSpecial :
            row = Also({"poissonSolver", "poissonParameter"})
    BY Zenon DEF SystemSpecial
  <2>5. "poissonParameter" \in row.carries /\ ("poissonSolver" \in set => Prints(row, set))
    BY <1>4, <2>4, PrintsIs, UnlessPrints
  <2>6. \A other \in SystemSpecial : "poissonParameter" \in other.carries /\ Prints(other, set)
          => "poissonSolver" \in set
    BY PrintsIs, UnlessPrints DEF SystemSpecial, DefaultSolver
  <2> QED BY <1>4, <2>3, <2>5, <2>6 DEF Right
<1>5. CASE f = "symmetry"
  <2>1. PICK l \in SystemLosses : l = Yields("symmetry", {"cellVectors"})
    BY Zenon DEF SystemLosses
  <2>2. \A m \in SystemLosses : m.field = "symmetry" => m = l
    BY <2>1, LossField DEF SystemLosses
  <2>3. "symmetry" \in Excused(SystemLosses, set) <=> "cellVectors" \in set
    BY <2>1, <2>2, LossShape, ExcusedByOne
  <2>4. PICK row \in SystemSpecial :
            row = Unless(Always("SYMMETRY", {"symmetry"}), {"cellVectors"})
    BY Zenon DEF SystemSpecial
  <2>5. "symmetry" \in row.carries /\ ("cellVectors" \notin set => Prints(row, set))
    BY <1>5, <2>4, PrintsIs, UnlessPrints
  <2>6. \A other \in SystemSpecial : "symmetry" \in other.carries /\ Prints(other, set)
          => "cellVectors" \notin set
    BY PrintsIs, UnlessPrints DEF SystemSpecial, DefaultSolver
  <2> QED BY <1>5, <2>3, <2>5, <2>6 DEF Right
<1>6. CASE f = "checkSymmetryPrecision"
  <2>1. PICK l \in SystemLosses : l = Yields("checkSymmetryPrecision", {"checkSymmetryOff"})
    BY Zenon DEF SystemLosses
  <2>2. \A m \in SystemLosses : m.field = "checkSymmetryPrecision" => m = l
    BY <2>1, LossField DEF SystemLosses
  <2>3. "checkSymmetryPrecision" \in Excused(SystemLosses, set) <=> "checkSymmetryOff" \in set
    BY <2>1, <2>2, LossShape, ExcusedByOne
  <2>4. PICK row \in SystemSpecial :
            row = Unless(F("CHECK_SYMMETRY", "checkSymmetryPrecision"),
                         {"checkSymmetryOff"})
    BY Zenon DEF SystemSpecial
  <2>5. "checkSymmetryPrecision" \in row.carries /\ ("checkSymmetryOff" \notin set => Prints(row, set))
    BY <1>6, <2>4, PrintsIs, UnlessPrints
  <2>6. \A other \in SystemSpecial : "checkSymmetryPrecision" \in other.carries /\ Prints(other, set)
          => "checkSymmetryOff" \notin set
    BY PrintsIs, UnlessPrints DEF SystemSpecial, DefaultSolver
  <2> QED BY <1>6, <2>3, <2>5, <2>6 DEF Right
<1> QED BY <1>1, <1>2, <1>3, <1>4, <1>5, <1>6 DEF SystemLost

\* Rows that print the fields other rows or refusals name.
SystemLeaders ==
    {AnyOf("CELL", {"cell/6", "cell/9"}),
     AnyOf("REFERENCE_CELL", {"referenceCell/6", "referenceCell/9"}),
     F("CLASSICAL_CELL", "classicalCell"), F("STATES", "states"),
     F("OCCUPATION", "occupation"), AnyOf("COUPLINGS_FD", FdFields),
     F("COUPLINGS_PROD", "couplingsProductDisplacement"),
     AnyOf("COUPLINGS_LINRES", LinresFields), F("DONOR", "cdftDonorAtoms"),
     F("ACCEPTOR", "cdftAcceptorAtoms"), F("POINT_GROUP", "pointGroup"),
     F("POISSON_SOLVER", "poissonSolver"), AnyOf("KPOINTS", PointKinds)}

SystemLeading ==
    {"cell/6", "cell/9", "referenceCell/6", "referenceCell/9", "classicalCell", "states",
     "occupation", "couplingsProductDisplacement", "cdftDonorAtoms", "cdftAcceptorAtoms",
     "pointGroup", "poissonSolver"}
      \cup FdFields \cup LinresFields \cup PointKinds

LEMMA SystemLeads ==
    ASSUME NEW f \in SystemLeading
    PROVE  \E row \in RowsOf(SystemRows) : f \in row.carries /\ Ordinary(row, SystemLost)
<1>1. {AnyOf("CELL", {"cell/6", "cell/9"}),
      AnyOf("REFERENCE_CELL", {"referenceCell/6", "referenceCell/9"}),
      F("CLASSICAL_CELL", "classicalCell")}
       \subseteq RowsOf(SystemCell)
  BY DEF RowsOf, SystemCell
<1>2. {F("STATES", "states"), F("OCCUPATION", "occupation")}
       \subseteq RowsOf(SystemCutoff)
  BY DEF RowsOf, SystemCutoff
<1>3. {AnyOf("COUPLINGS_FD", FdFields), F("COUPLINGS_PROD", "couplingsProductDisplacement"),
      AnyOf("COUPLINGS_LINRES", LinresFields), F("DONOR", "cdftDonorAtoms"),
      F("ACCEPTOR", "cdftAcceptorAtoms")}
       \subseteq RowsOf(SystemCouplings)
  BY DEF RowsOf, SystemCouplings, FdFields, LinresFields
<1>4. {F("POINT_GROUP", "pointGroup"), F("POISSON_SOLVER", "poissonSolver")}
       \subseteq RowsOf(SystemStates)
  BY DEF RowsOf, SystemStates
<1>5. AnyOf("KPOINTS", PointKinds) \in RowsOf(SystemPoints)
  BY DEF RowsOf, SystemPoints, PointKinds
<1>6. SystemLeaders \subseteq RowsOf(SystemRows)
  BY SystemRowsPart, <1>1, <1>2, <1>3, <1>4, <1>5 DEF SystemLeaders
<1>7. \A row \in SystemLeaders : Ordinary(row, SystemLost)
  BY RowShape DEF SystemLeaders, SystemLost, FdFields, LinresFields, PointKinds
<1>8. \A g \in SystemLeading : \E row \in SystemLeaders : g \in row.carries
  BY PrintsIs DEF SystemLeaders, SystemLeading
<1> QED BY <1>6, <1>7, <1>8
\* The options of other fields.
SystemRiders ==
    {"cellVectors", "cellAbsolute", "cellDegree", "referenceCellVectors",
     "referenceCellAbsolute", "referenceCellDegree", "classicalCellAbsolute",
     "classicalCellDegree", "cdftDonorWeights", "cdftAcceptorHdasDonors",
     "cdftAcceptorWeights", "pointGroupMolecule", "pointGroupDelta",
     "kpointsMonkhorstSymmetrized", "kpointsMonkhorstFull", "kpointsMonkhorstKdp",
     "kpointsMonkhorstShift", "kpointsScaled", "kpointsOnlyDiagonal", "kpointsBlock",
     "kpointsBlockAll", "kpointsBlockCalculated", "kpointsBlockNoSwap"}

\* An option that is not refused prints: the field it needs is set.
LEMMA SystemRides ==
    ASSUME NEW set, ~Refused(SystemRefusals, set), NEW f \in set \cap SystemRiders
    PROVE  \E row \in SystemSpecial : f \in row.carries /\ Prints(row, set)
<1>1. CASE f = "cellVectors"
  <2>1. Without("cellVectors", {"cell/9"}) \in SystemRefusals
    BY DEF SystemRefusals, CellRefusals
  <2>2. PICK row \in SystemSpecial : row = Rides("cellVectors", {"cell/9"})
    BY Zenon DEF SystemSpecial
  <2>3. "cell/9" \in set
    BY <1>1, <2>1, NotRefused
  <2> QED BY <1>1, <2>2, <2>3, PrintsIs
<1>2. CASE f = "cellAbsolute"
  <2>1. Without("cellAbsolute", {"cell/6"}) \in SystemRefusals
    BY DEF SystemRefusals, CellRefusals
  <2>2. PICK row \in SystemSpecial : row = Rides("cellAbsolute", {"cell/6"})
    BY Zenon DEF SystemSpecial
  <2>3. "cell/6" \in set
    BY <1>2, <2>1, NotRefused
  <2> QED BY <1>2, <2>2, <2>3, PrintsIs
<1>3. CASE f = "cellDegree"
  <2>1. Without("cellDegree", {"cell/6"}) \in SystemRefusals
    BY DEF SystemRefusals, CellRefusals
  <2>2. PICK row \in SystemSpecial : row = Rides("cellDegree", {"cell/6"})
    BY Zenon DEF SystemSpecial
  <2>3. "cell/6" \in set
    BY <1>3, <2>1, NotRefused
  <2> QED BY <1>3, <2>2, <2>3, PrintsIs
<1>4. CASE f = "referenceCellVectors"
  <2>1. Without("referenceCellVectors", {"referenceCell/9"}) \in SystemRefusals
    BY DEF SystemRefusals, CellRefusals
  <2>2. PICK row \in SystemSpecial : row = Rides("referenceCellVectors", {"referenceCell/9"})
    BY Zenon DEF SystemSpecial
  <2>3. "referenceCell/9" \in set
    BY <1>4, <2>1, NotRefused
  <2> QED BY <1>4, <2>2, <2>3, PrintsIs
<1>5. CASE f = "referenceCellAbsolute"
  <2>1. Without("referenceCellAbsolute", {"referenceCell/6"}) \in SystemRefusals
    BY DEF SystemRefusals, CellRefusals
  <2>2. PICK row \in SystemSpecial : row = Rides("referenceCellAbsolute", {"referenceCell/6"})
    BY Zenon DEF SystemSpecial
  <2>3. "referenceCell/6" \in set
    BY <1>5, <2>1, NotRefused
  <2> QED BY <1>5, <2>2, <2>3, PrintsIs
<1>6. CASE f = "referenceCellDegree"
  <2>1. Without("referenceCellDegree", {"referenceCell/6"}) \in SystemRefusals
    BY DEF SystemRefusals, CellRefusals
  <2>2. PICK row \in SystemSpecial : row = Rides("referenceCellDegree", {"referenceCell/6"})
    BY Zenon DEF SystemSpecial
  <2>3. "referenceCell/6" \in set
    BY <1>6, <2>1, NotRefused
  <2> QED BY <1>6, <2>2, <2>3, PrintsIs
<1>7. CASE f = "classicalCellAbsolute"
  <2>1. Without("classicalCellAbsolute", {"classicalCell"}) \in SystemRefusals
    BY DEF SystemRefusals, CellRefusals
  <2>2. PICK row \in SystemSpecial : row = Also({"classicalCell", "classicalCellAbsolute"})
    BY Zenon DEF SystemSpecial
  <2>3. "classicalCell" \in set
    BY <1>7, <2>1, NotRefused
  <2> QED BY <1>7, <2>2, <2>3, PrintsIs
<1>8. CASE f = "classicalCellDegree"
  <2>1. Without("classicalCellDegree", {"classicalCell"}) \in SystemRefusals
    BY DEF SystemRefusals, CellRefusals
  <2>2. PICK row \in SystemSpecial : row = Also({"classicalCell", "classicalCellDegree"})
    BY Zenon DEF SystemSpecial
  <2>3. "classicalCell" \in set
    BY <1>8, <2>1, NotRefused
  <2> QED BY <1>8, <2>2, <2>3, PrintsIs
<1>9. CASE f = "cdftDonorWeights"
  <2>1. Without("cdftDonorWeights", {"cdftDonorAtoms"}) \in SystemRefusals
    BY DEF SystemRefusals, CouplingRefusals
  <2>2. PICK row \in SystemSpecial : row = Also({"cdftDonorAtoms", "cdftDonorWeights"})
    BY Zenon DEF SystemSpecial
  <2>3. "cdftDonorAtoms" \in set
    BY <1>9, <2>1, NotRefused
  <2> QED BY <1>9, <2>2, <2>3, PrintsIs
<1>10. CASE f = "cdftAcceptorHdasDonors"
  <2>1. Without("cdftAcceptorHdasDonors", {"cdftAcceptorAtoms"}) \in SystemRefusals
    BY DEF SystemRefusals, CouplingRefusals
  <2>2. PICK row \in SystemSpecial : row = Also({"cdftAcceptorAtoms", "cdftAcceptorHdasDonors"})
    BY Zenon DEF SystemSpecial
  <2>3. "cdftAcceptorAtoms" \in set
    BY <1>10, <2>1, NotRefused
  <2> QED BY <1>10, <2>2, <2>3, PrintsIs
<1>11. CASE f = "cdftAcceptorWeights"
  <2>1. Without("cdftAcceptorWeights", {"cdftAcceptorAtoms"}) \in SystemRefusals
    BY DEF SystemRefusals, CouplingRefusals
  <2>2. PICK row \in SystemSpecial : row = Also({"cdftAcceptorAtoms", "cdftAcceptorWeights"})
    BY Zenon DEF SystemSpecial
  <2>3. "cdftAcceptorAtoms" \in set
    BY <1>11, <2>1, NotRefused
  <2> QED BY <1>11, <2>2, <2>3, PrintsIs
<1>12. CASE f = "pointGroupMolecule"
  <2>1. Without("pointGroupMolecule", {"pointGroup"}) \in SystemRefusals
    BY DEF SystemRefusals, StateRefusals
  <2>2. PICK row \in SystemSpecial : row = Also({"pointGroup", "pointGroupMolecule"})
    BY Zenon DEF SystemSpecial
  <2>3. "pointGroup" \in set
    BY <1>12, <2>1, NotRefused
  <2> QED BY <1>12, <2>2, <2>3, PrintsIs
<1>13. CASE f = "pointGroupDelta"
  <2>1. Without("pointGroupDelta", {"pointGroup"}) \in SystemRefusals
    BY DEF SystemRefusals, StateRefusals
  <2>2. PICK row \in SystemSpecial : row = Also({"pointGroup", "pointGroupDelta"})
    BY Zenon DEF SystemSpecial
  <2>3. "pointGroup" \in set
    BY <1>13, <2>1, NotRefused
  <2> QED BY <1>13, <2>2, <2>3, PrintsIs
<1>14. CASE f = "kpointsMonkhorstSymmetrized"
  <2>1. Without("kpointsMonkhorstSymmetrized", {"kpointsMonkhorstPack"}) \in SystemRefusals
    BY DEF SystemRefusals, PointRefusals, MonkhorstOptions
  <2>2. PICK row \in SystemSpecial : row = Rides("kpointsMonkhorstSymmetrized", {"kpointsMonkhorstPack"})
    BY Zenon DEF SystemSpecial
  <2>3. "kpointsMonkhorstPack" \in set
    BY <1>14, <2>1, NotRefused
  <2> QED BY <1>14, <2>2, <2>3, PrintsIs
<1>15. CASE f = "kpointsMonkhorstFull"
  <2>1. Without("kpointsMonkhorstFull", {"kpointsMonkhorstPack"}) \in SystemRefusals
    BY DEF SystemRefusals, PointRefusals, MonkhorstOptions
  <2>2. PICK row \in SystemSpecial : row = Rides("kpointsMonkhorstFull", {"kpointsMonkhorstPack"})
    BY Zenon DEF SystemSpecial
  <2>3. "kpointsMonkhorstPack" \in set
    BY <1>15, <2>1, NotRefused
  <2> QED BY <1>15, <2>2, <2>3, PrintsIs
<1>16. CASE f = "kpointsMonkhorstKdp"
  <2>1. Without("kpointsMonkhorstKdp", {"kpointsMonkhorstPack"}) \in SystemRefusals
    BY DEF SystemRefusals, PointRefusals, MonkhorstOptions
  <2>2. PICK row \in SystemSpecial : row = Rides("kpointsMonkhorstKdp", {"kpointsMonkhorstPack"})
    BY Zenon DEF SystemSpecial
  <2>3. "kpointsMonkhorstPack" \in set
    BY <1>16, <2>1, NotRefused
  <2> QED BY <1>16, <2>2, <2>3, PrintsIs
<1>17. CASE f = "kpointsMonkhorstShift"
  <2>1. Without("kpointsMonkhorstShift", {"kpointsMonkhorstPack"}) \in SystemRefusals
    BY DEF SystemRefusals, PointRefusals, MonkhorstOptions
  <2>2. PICK row \in SystemSpecial : row = Rides("kpointsMonkhorstShift", {"kpointsMonkhorstPack"})
    BY Zenon DEF SystemSpecial
  <2>3. "kpointsMonkhorstPack" \in set
    BY <1>17, <2>1, NotRefused
  <2> QED BY <1>17, <2>2, <2>3, PrintsIs
<1>18. CASE f = "kpointsScaled"
  <2>1. Without("kpointsScaled", PointKinds) \in SystemRefusals
        /\ Together({"kpointsMonkhorstPack", "kpointsScaled"}) \in SystemRefusals
    BY DEF SystemRefusals, PointRefusals
  <2>2. PICK row \in SystemSpecial : row = Rides("kpointsScaled", {"kpoints", "kpointBands"})
    BY Zenon DEF SystemSpecial
  <2>3. PointKinds \cap set # {}
    BY <1>18, <2>1, NotRefused
  <2>4. ~({"kpointsMonkhorstPack", "kpointsScaled"} \subseteq set)
    BY <2>1, NotRefused
  <2>5. {"kpoints", "kpointBands"} \cap set # {}
    BY <1>18, <2>3, <2>4 DEF PointKinds
  <2> QED BY <1>18, <2>2, <2>5, PrintsIs
<1>19. CASE f = "kpointsOnlyDiagonal"
  <2>1. Without("kpointsOnlyDiagonal", PointKinds) \in SystemRefusals
    BY DEF SystemRefusals, PointRefusals
  <2>2. PICK row \in SystemSpecial : row = Rides("kpointsOnlyDiagonal", PointKinds)
    BY Zenon DEF SystemSpecial
  <2>3. PointKinds \cap set # {}
    BY <1>19, <2>1, NotRefused
  <2> QED BY <1>19, <2>2, <2>3, PrintsIs
<1>20. CASE f = "kpointsBlock"
  <2>1. Without("kpointsBlock", PointKinds) \in SystemRefusals
    BY DEF SystemRefusals, PointRefusals
  <2>2. PICK row \in SystemSpecial : row = Rides("kpointsBlock", PointKinds)
    BY Zenon DEF SystemSpecial
  <2>3. PointKinds \cap set # {}
    BY <1>20, <2>1, NotRefused
  <2> QED BY <1>20, <2>2, <2>3, PrintsIs
<1>21. CASE f = "kpointsBlockAll"
  <2>1. Without("kpointsBlockAll", {"kpointsBlock"}) \in SystemRefusals
        /\ Without("kpointsBlock", PointKinds) \in SystemRefusals
    BY DEF SystemRefusals, PointRefusals, BlockOptions
  <2>2. PICK row \in SystemSpecial : row = Rides("kpointsBlockAll", PointKinds)
    BY Zenon DEF SystemSpecial
  <2>3. "kpointsBlock" \in set
    BY <1>21, <2>1, NotRefused
  <2>4. PointKinds \cap set # {}
    BY <2>1, <2>3, NotRefused
  <2> QED BY <1>21, <2>2, <2>4, PrintsIs
<1>22. CASE f = "kpointsBlockCalculated"
  <2>1. Without("kpointsBlockCalculated", {"kpointsBlock"}) \in SystemRefusals
        /\ Without("kpointsBlock", PointKinds) \in SystemRefusals
    BY DEF SystemRefusals, PointRefusals, BlockOptions
  <2>2. PICK row \in SystemSpecial : row = Rides("kpointsBlockCalculated", PointKinds)
    BY Zenon DEF SystemSpecial
  <2>3. "kpointsBlock" \in set
    BY <1>22, <2>1, NotRefused
  <2>4. PointKinds \cap set # {}
    BY <2>1, <2>3, NotRefused
  <2> QED BY <1>22, <2>2, <2>4, PrintsIs
<1>23. CASE f = "kpointsBlockNoSwap"
  <2>1. Without("kpointsBlockNoSwap", {"kpointsBlock"}) \in SystemRefusals
        /\ Without("kpointsBlock", PointKinds) \in SystemRefusals
    BY DEF SystemRefusals, PointRefusals, BlockOptions
  <2>2. PICK row \in SystemSpecial : row = Rides("kpointsBlockNoSwap", PointKinds)
    BY Zenon DEF SystemSpecial
  <2>3. "kpointsBlock" \in set
    BY <1>23, <2>1, NotRefused
  <2>4. PointKinds \cap set # {}
    BY <2>1, <2>3, NotRefused
  <2> QED BY <1>23, <2>2, <2>4, PrintsIs
<1> QED BY <1>1, <1>2, <1>3, <1>4, <1>5, <1>6, <1>7, <1>8, <1>9, <1>10, <1>11, <1>12, <1>13,
    <1>14, <1>15, <1>16, <1>17, <1>18, <1>19, <1>20, <1>21, <1>22, <1>23
    DEF SystemRiders

\* The values the renderer refuses.
SystemBad ==
    {"referenceCell/other", "classicalCell/other", "hfxCutoff/other",
     "constantCutoff/other", "externalField/other", "occupation/other",
     "couplingsLinresNvects/negative", "couplingsLinresThresholds/other",
     "couplingsSurfaces/other", "cdftDonorWeights/other", "cdftAcceptorHdasDonors/other",
     "cdftAcceptorWeights/other", "lseParameters/other",
     "modifiedGoedeckerParameters/other", "mesh/other", "stressTensor/other",
     "kpoints/other", "kpointsMonkhorstPack/other", "kpointBands/other",
     "kpointsMonkhorstShift/other"}

LEMMA SystemBadRefused == \A f \in SystemBad : Bad(f) \in SystemRefusals
<1>1. \A f \in {"referenceCell/other", "classicalCell/other"} : Bad(f) \in CellRefusals
  BY DEF CellRefusals
<1>2. \A f \in {"hfxCutoff/other", "constantCutoff/other", "externalField/other",
      "occupation/other"} : Bad(f) \in CutoffRefusals
  BY DEF CutoffRefusals
<1>3. \A f \in {"couplingsLinresNvects/negative", "couplingsLinresThresholds/other",
      "couplingsSurfaces/other", "cdftDonorWeights/other", "cdftAcceptorHdasDonors/other",
      "cdftAcceptorWeights/other"} : Bad(f) \in CouplingRefusals
  BY DEF CouplingRefusals
<1>4. \A f \in {"lseParameters/other", "modifiedGoedeckerParameters/other", "mesh/other",
      "stressTensor/other"} : Bad(f) \in StateRefusals
  BY DEF StateRefusals
<1>5. \A f \in {"kpoints/other", "kpointsMonkhorstPack/other", "kpointBands/other",
      "kpointsMonkhorstShift/other"} : Bad(f) \in PointRefusals
  BY DEF PointRefusals
<1> QED BY <1>1, <1>2, <1>3, <1>4, <1>5 DEF SystemBad, SystemRefusals

LEMMA SystemRefusalFields ==
    ASSUME NEW r \in SystemRefusals
    PROVE  r.both \cup r.without \subseteq
             SystemLeading \cup SystemRiders \cup SystemBad \cup SystemLost
<1> DEFINE known == SystemLeading \cup SystemRiders \cup SystemBad \cup SystemLost
<1>0. /\ \A fs : Together(fs).both = fs /\ Together(fs).without = {}
      /\ \A f : Bad(f).both = {f} /\ Bad(f).without = {}
      /\ \A f, fs : Without(f, fs).both = {f} /\ Without(f, fs).without = fs
  BY DEF Together, Bad, Without
<1>1. CASE r \in CellRefusals
  BY <1>0, <1>1 DEF CellRefusals, SystemLeading, SystemRiders, SystemBad, SystemLost
<1>2. CASE r \in CutoffRefusals
  BY <1>0, <1>2 DEF CutoffRefusals, SystemLeading, SystemRiders, SystemBad, SystemLost
<1>3. CASE r \in CouplingRefusals
  BY <1>0, <1>3 DEF CouplingRefusals, FdFields, LinresFields, SystemLeading, SystemRiders,
     SystemBad, SystemLost
<1>4. CASE r \in StateRefusals
  BY <1>0, <1>4 DEF StateRefusals, SystemLeading, SystemRiders, SystemBad, SystemLost
<1>5. CASE r \in PointRefusals
  BY <1>0, <1>5 DEF PointRefusals, PointKinds, MonkhorstOptions, BlockOptions,
     SystemLeading, SystemRiders, SystemBad, SystemLost
<1> QED BY <1>1, <1>2, <1>3, <1>4, <1>5 DEF SystemRefusals

LEMMA SystemFields ==
    ASSUME NEW f \in Fields("SYSTEM"), f \notin SystemLost
    PROVE  \/ f \in SystemBad \cup SystemRiders
           \/ \E row \in RowsOf(SystemRows) : f \in row.carries /\ Ordinary(row, SystemLost)
<1>1. /\ Table["SYSTEM"].rows = SystemRows /\ Table["SYSTEM"].refusals = SystemRefusals
      /\ Table["SYSTEM"].losses = SystemLosses
  BY DEF Table
<1>2. \A l \in SystemLosses : l.field \in SystemLost
  BY LossField DEF SystemLosses, SystemLost
<1>3. CASE \E row \in RowsOf(SystemRows) : f \in row.carries
  <2>1. PICK row \in RowsOf(SystemRows) : f \in row.carries
    BY <1>3
  <2>2. CASE row \in SystemSpecial
    <3>1. \A other \in SystemSpecial :
            other.carries \subseteq SystemLost \cup SystemRiders \cup SystemLeading
      BY PrintsIs, UnlessPrints
         DEF SystemSpecial, SystemLost, SystemRiders, SystemLeading, DefaultSolver
    <3> QED BY <2>1, <2>2, <3>1, SystemLeads
  <2>3. CASE Ordinary(row, SystemLost)
    BY <2>1, <2>3
  <2> QED BY <2>1, <2>2, <2>3, SystemRowsPart DEF Part
<1>4. CASE \E r \in SystemRefusals : f \in r.both \cup r.without
  BY <1>4, SystemRefusalFields, SystemLeads
<1>5. CASE \E l \in SystemLosses : f = l.field
  BY <1>2, <1>5
<1>6. \/ \E row \in RowsOf(SystemRows) : f \in row.carries
      \/ \E r \in SystemRefusals : f \in r.both \cup r.without
      \/ \E l \in SystemLosses : f = l.field
  BY <1>1, FieldsAre, Zenon
<1> QED BY <1>3, <1>4, <1>5, <1>6

\* Of the fields that are set a &SYSTEM section prints all but the excused ones.
LEMMA SystemCovers ==
    ASSUME NEW set \in SUBSET Fields("SYSTEM"), ~Refused(SystemRefusals, set)
    PROVE  Covers(SystemRows, SystemLosses, set)
<1>1. \A f \in SystemBad : f \notin set
  BY SystemBadRefused, NotRefused
<1>2. \A f \in set \ SystemLost :
          \/ \E row \in RowsOf(SystemRows) : f \in row.carries /\ Ordinary(row, SystemLost)
          \/ \E row \in SystemSpecial : f \in row.carries /\ Prints(row, set)
  BY <1>1, SystemFields, SystemRides
<1>3. \A l \in SystemLosses : l.field \in SystemLost
  BY LossField DEF SystemLosses, SystemLost
<1>4. \A f \in set \cap SystemLost : Right(SystemSpecial, SystemLosses, set, f)
  BY SystemLostFields
<1>5. \A row \in RowsOf(SystemRows) : Ordinary(row, SystemLost) \/ row \in SystemSpecial
  BY SystemRowsPart DEF Part
<1> QED BY <1>2, <1>3, <1>4, <1>5, SystemSpecialRows, CoversWhen

-----------------------------------------------------------------------------
(* The other sections *)

LEMMA DftRowsPart == Part(DftRows, {"value", "HUBBARD"}, {"hubbardU.element"}, {})
<1>1. \A i \in DOMAIN DftRows : DftRows[i] \in RowsOf(DftRows)
  BY DEF RowsOf
<1>2. IsTable(DftRows)
  BY <1>1 DEF IsTable, DftRows
<1>3. Exclusive(DftRows, {"value", "HUBBARD"})
  BY RowShape DEF Exclusive, Rivals, DftRows
<1>4. \A row \in RowsOf(DftRows) : Ordinary(row, {"hubbardU.element"}) \/ row \in {}
  BY RowShape DEF RowsOf, DftRows
<1> QED BY <1>2, <1>3, <1>4 DEF Part

LEMMA DftHubbardRowsPart == Part(DftHubbardRows, {"value", "HUBBARD"}, {"hubbardU.element"}, {})
<1>1. \A i \in DOMAIN DftHubbardRows : DftHubbardRows[i] \in RowsOf(DftHubbardRows)
  BY DEF RowsOf
<1>2. IsTable(DftHubbardRows)
  BY <1>1 DEF IsTable, DftHubbardRows
<1>3. Exclusive(DftHubbardRows, {"value", "HUBBARD"})
  BY RowShape DEF Exclusive, Rivals, DftHubbardRows
<1>4. \A row \in RowsOf(DftHubbardRows) : Ordinary(row, {"hubbardU.element"}) \/ row \in {}
  BY RowShape DEF RowsOf, DftHubbardRows
<1> QED BY <1>2, <1>3, <1>4 DEF Part

LEMMA DftPart == Part(DftRows \o DftHubbardRows, {"value", "HUBBARD"}, {"hubbardU.element"}, {})
<1>1. Apart(RowsOf(DftRows), RowsOf(DftHubbardRows), {"value", "HUBBARD"})
  BY RowShape DEF Apart, RowsOf, DftRows, DftHubbardRows
<1> QED BY <1>1, DftRowsPart, DftHubbardRowsPart, JoinedPart

LEMMA DftCovers ==
    ASSUME NEW set \in SUBSET Fields("DFT")
    PROVE  Covers(DftRows \o DftHubbardRows, {Dropped("hubbardU.element")}, set)
<1> DEFINE rows == DftRows \o DftHubbardRows
           losses == {Dropped("hubbardU.element")}
<1>1. Table["DFT"].rows = rows /\ Table["DFT"].refusals = {} /\ Table["DFT"].losses = losses
  BY DEF Table
<1>2. \A l \in losses : l.field \in {"hubbardU.element"}
  BY LossField
<1>3. \A f \in set \cap {"hubbardU.element"} : Right({}, losses, set, f)
  BY LossShape, ExcusedIs DEF Right
<1>4. \A row \in RowsOf(rows) : Ordinary(row, {"hubbardU.element"})
  BY DftPart DEF Part
<1> HIDE DEF rows, losses
<1>5. \A f \in set \ {"hubbardU.element"} : \E row \in RowsOf(rows) : f \in row.carries
  BY <1>1, <1>2, FieldsAre
<1>6. Covers(rows, losses, set)
  BY <1>2, <1>3, <1>4, <1>5, CoversWhen
<1> QED BY <1>6 DEF rows, losses

AtomsRows == AtomsSpeciesRows \o AtomsExtrasRows

\* The options of a pseudopotential file.
AtomsSpecial ==
    {Rides("kleinmanBylander", PspFile), Rides("lmax", PspFile), Rides("loc", PspFile),
     Rides("skip", PspFile), Rides("raggio", PspFile), Rides("nonlinearCore", PspFile)}

LEMMA AtomsSpeciesRowsPart == Part(AtomsSpeciesRows, {"value"}, {"isotopes.element"}, AtomsSpecial)
<1>1. \A i \in DOMAIN AtomsSpeciesRows : AtomsSpeciesRows[i] \in RowsOf(AtomsSpeciesRows)
  BY DEF RowsOf
<1>2. IsTable(AtomsSpeciesRows)
  BY <1>1 DEF IsTable, AtomsSpeciesRows
<1>3. Exclusive(AtomsSpeciesRows, {"value"})
  BY RowShape DEF Exclusive, Rivals, AtomsSpeciesRows, AtomsSpecial, PspFile
<1>4. \A row \in RowsOf(AtomsSpeciesRows) : Ordinary(row, {"isotopes.element"}) \/ row \in AtomsSpecial
  BY RowShape DEF RowsOf, AtomsSpeciesRows, AtomsSpecial, PspFile
<1> QED BY <1>2, <1>3, <1>4 DEF Part

LEMMA AtomsExtrasRowsPart == Part(AtomsExtrasRows, {"value"}, {"isotopes.element"}, AtomsSpecial)
<1>1. \A i \in DOMAIN AtomsExtrasRows : AtomsExtrasRows[i] \in RowsOf(AtomsExtrasRows)
  BY DEF RowsOf
<1>2. IsTable(AtomsExtrasRows)
  BY <1>1 DEF IsTable, AtomsExtrasRows
<1>3. Exclusive(AtomsExtrasRows, {"value"})
  BY RowShape DEF Exclusive, Rivals, AtomsExtrasRows
<1>4. \A row \in RowsOf(AtomsExtrasRows) : Ordinary(row, {"isotopes.element"}) \/ row \in AtomsSpecial
  BY RowShape DEF RowsOf, AtomsExtrasRows
<1> QED BY <1>2, <1>3, <1>4 DEF Part

LEMMA AtomsPart ==
    /\ Part(AtomsRows, {"value"}, {"isotopes.element"}, AtomsSpecial)
    /\ RowsOf(AtomsRows) = RowsOf(AtomsSpeciesRows) \cup RowsOf(AtomsExtrasRows)
<1>1. Apart(RowsOf(AtomsSpeciesRows), RowsOf(AtomsExtrasRows), {"value"})
  BY RowShape DEF Apart, RowsOf, AtomsSpeciesRows, AtomsExtrasRows
<1> QED BY <1>1, AtomsSpeciesRowsPart, AtomsExtrasRowsPart, JoinedPart DEF AtomsRows

LEMMA AtomsCovers ==
    ASSUME NEW set \in SUBSET Fields("ATOMS"), ~Refused(AtomsRefusals, set)
    PROVE  Covers(AtomsRows, {Dropped("isotopes.element")}, set)
<1> DEFINE losses == {Dropped("isotopes.element")}
<1>1. /\ Table["ATOMS"].rows = AtomsRows /\ Table["ATOMS"].refusals = AtomsRefusals
      /\ Table["ATOMS"].losses = losses
  BY DEF Table, AtomsRows
<1>2. \A l \in losses : l.field \in {"isotopes.element"}
  BY LossField
<1>3. \A f \in set \cap {"isotopes.element"} : Right(AtomsSpecial, losses, set, f)
  <2>1. \A row \in AtomsSpecial : "isotopes.element" \notin row.carries
    BY PrintsIs DEF AtomsSpecial
  <2> QED BY <2>1, LossShape, ExcusedIs DEF Right
<1>4. \A row \in RowsOf(AtomsRows) : Ordinary(row, {"isotopes.element"}) \/ row \in AtomsSpecial
  BY AtomsPart DEF Part
<1>5. \A f \in PspOptions \cap set : \E row \in AtomsSpecial : f \in row.carries /\ Prints(row, set)
  <2>1. \A f \in PspOptions : Without(f, PspFile) \in AtomsRefusals
    BY DEF AtomsRefusals
  <2>2. \A f \in PspOptions \cap set : PspFile \cap set # {}
    BY <2>1, NotRefused
  <2>3. \A f \in PspOptions : Rides(f, PspFile) \in AtomsSpecial
    BY DEF PspOptions, AtomsSpecial
  <2> QED BY <2>2, <2>3, PrintsIs
<1>6. AtomsSpecial \subseteq RowsOf(AtomsRows)
  <2>1. AtomsSpecial \subseteq RowsOf(AtomsSpeciesRows)
    BY DEF RowsOf, AtomsSpecial, AtomsSpeciesRows
  <2> QED BY <2>1, AtomsPart
<1>7. \A row \in AtomsSpecial : row.carries \subseteq PspOptions
  BY PrintsIs DEF AtomsSpecial, PspOptions
<1>8. \A f \in PspFile : \E row \in RowsOf(AtomsRows) : f \in row.carries /\ Ordinary(row, {"isotopes.element"})
  <2>1. AnyOf("*", PspFile) \in RowsOf(AtomsSpeciesRows)
    BY DEF RowsOf, AtomsSpeciesRows
  <2>2. AnyOf("*", PspFile).carries = PspFile /\ Ordinary(AnyOf("*", PspFile), {"isotopes.element"})
    BY PrintsIs, RowShape DEF PspFile
  <2> QED BY <2>1, <2>2, AtomsPart
<1>9. \A r \in AtomsRefusals : r.both \cup r.without \subseteq PspOptions \cup PspFile
  BY DEF AtomsRefusals, Without
<1> HIDE DEF losses
<1>10. \A f \in set \ {"isotopes.element"} :
          \/ \E row \in RowsOf(AtomsRows) : f \in row.carries
          \/ f \in PspOptions \cup PspFile
  BY <1>1, <1>2, <1>9, FieldsAre
<1>11. \A f \in set \ {"isotopes.element"} :
          \/ \E row \in RowsOf(AtomsRows) : f \in row.carries /\ Ordinary(row, {"isotopes.element"})
          \/ \E row \in AtomsSpecial : f \in row.carries /\ Prints(row, set)
  BY <1>4, <1>5, <1>7, <1>8, <1>10
<1>12. Covers(AtomsRows, losses, set)
  BY <1>2, <1>3, <1>4, <1>6, <1>11, CoversWhen
<1> QED BY <1>12 DEF losses

LEMMA RespRowsPart == Part(RespRows, {"value"}, {}, {})
<1>1. \A i \in DOMAIN RespRows : RespRows[i] \in RowsOf(RespRows)
  BY DEF RowsOf
<1>2. IsTable(RespRows)
  BY <1>1 DEF IsTable, RespRows
<1>3. Exclusive(RespRows, {"value"})
  BY RowShape DEF Exclusive, Rivals, RespRows
<1>4. \A row \in RowsOf(RespRows) : Ordinary(row, {}) \/ row \in {}
  BY RowShape DEF RowsOf, RespRows
<1> QED BY <1>2, <1>3, <1>4 DEF Part

LEMMA ExteRowsPart == Part(ExteRows, {"value"}, {}, {})
<1>1. \A i \in DOMAIN ExteRows : ExteRows[i] \in RowsOf(ExteRows)
  BY DEF RowsOf
<1>2. IsTable(ExteRows)
  BY <1>1 DEF IsTable, ExteRows
<1>3. Exclusive(ExteRows, {"value"})
  BY RowShape DEF Exclusive, Rivals, ExteRows
<1>4. \A row \in RowsOf(ExteRows) : Ordinary(row, {}) \/ row \in {}
  BY RowShape DEF RowsOf, ExteRows
<1> QED BY <1>2, <1>3, <1>4 DEF Part

LEMMA VectorsRowsPart == Part(VectorsRows, {"value"}, {}, {})
<1>1. \A i \in DOMAIN VectorsRows : VectorsRows[i] \in RowsOf(VectorsRows)
  BY DEF RowsOf
<1>2. IsTable(VectorsRows)
  BY <1>1 DEF IsTable, VectorsRows
<1>3. Exclusive(VectorsRows, {"value"})
  BY RowShape DEF Exclusive, Rivals, VectorsRows
<1>4. \A row \in RowsOf(VectorsRows) : Ordinary(row, {}) \/ row \in {}
  BY RowShape DEF RowsOf, VectorsRows
<1> QED BY <1>2, <1>3, <1>4 DEF Part

LEMMA PropRowsPart == Part(PropRows, {"value"}, {}, {})
<1>1. \A i \in DOMAIN PropRows : PropRows[i] \in RowsOf(PropRows)
  BY DEF RowsOf
<1>2. IsTable(PropRows)
  BY <1>1 DEF IsTable, PropRows
<1>3. Exclusive(PropRows, {"value"})
  BY RowShape DEF Exclusive, Rivals, PropRows
<1>4. \A row \in RowsOf(PropRows) : Ordinary(row, {}) \/ row \in {}
  BY RowShape DEF RowsOf, PropRows
<1> QED BY <1>2, <1>3, <1>4 DEF Part

LEMMA LinresRowsPart == Part(LinresRows, {"value"}, {}, {})
<1>1. \A i \in DOMAIN LinresRows : LinresRows[i] \in RowsOf(LinresRows)
  BY DEF RowsOf
<1>2. IsTable(LinresRows)
  BY <1>1 DEF IsTable, LinresRows
<1>3. Exclusive(LinresRows, {"value"})
  BY RowShape DEF Exclusive, Rivals, LinresRows
<1>4. \A row \in RowsOf(LinresRows) : Ordinary(row, {}) \/ row \in {}
  BY RowShape DEF RowsOf, LinresRows
<1> QED BY <1>2, <1>3, <1>4 DEF Part

LEMMA PimdRowsPart == Part(PimdRows, {"value"}, {}, {})
<1>1. \A i \in DOMAIN PimdRows : PimdRows[i] \in RowsOf(PimdRows)
  BY DEF RowsOf
<1>2. IsTable(PimdRows)
  BY <1>1 DEF IsTable, PimdRows
<1>3. Exclusive(PimdRows, {"value"})
  BY RowShape DEF Exclusive, Rivals, PimdRows
<1>4. \A row \in RowsOf(PimdRows) : Ordinary(row, {}) \/ row \in {}
  BY RowShape DEF RowsOf, PimdRows
<1> QED BY <1>2, <1>3, <1>4 DEF Part

LEMMA PathRowsPart == Part(PathRows, {"value"}, {}, {})
<1>1. \A i \in DOMAIN PathRows : PathRows[i] \in RowsOf(PathRows)
  BY DEF RowsOf
<1>2. IsTable(PathRows)
  BY <1>1 DEF IsTable, PathRows
<1>3. Exclusive(PathRows, {"value"})
  BY RowShape DEF Exclusive, Rivals, PathRows
<1>4. \A row \in RowsOf(PathRows) : Ordinary(row, {}) \/ row \in {}
  BY RowShape DEF RowsOf, PathRows
<1> QED BY <1>2, <1>3, <1>4 DEF Part

LEMMA TddftRowsPart == Part(TddftRows, {"value"}, {}, {})
<1>1. \A i \in DOMAIN TddftRows : TddftRows[i] \in RowsOf(TddftRows)
  BY DEF RowsOf
<1>2. IsTable(TddftRows)
  BY <1>1 DEF IsTable, TddftRows
<1>3. Exclusive(TddftRows, {"value"})
  BY RowShape DEF Exclusive, Rivals, TddftRows
<1>4. \A row \in RowsOf(TddftRows) : Ordinary(row, {}) \/ row \in {}
  BY RowShape DEF RowsOf, TddftRows
<1> QED BY <1>2, <1>3, <1>4 DEF Part

LEMMA VdwRowsPart == Part(VdwRows, {"value"}, {}, {})
<1>1. \A i \in DOMAIN VdwRows : VdwRows[i] \in RowsOf(VdwRows)
  BY DEF RowsOf
<1>2. IsTable(VdwRows)
  BY <1>1 DEF IsTable, VdwRows
<1>3. Exclusive(VdwRows, {"value"})
  BY RowShape DEF Exclusive, Rivals, VdwRows
<1>4. \A row \in RowsOf(VdwRows) : Ordinary(row, {}) \/ row \in {}
  BY RowShape DEF RowsOf, VdwRows
<1> QED BY <1>2, <1>3, <1>4 DEF Part

\* The sections whose every field has a row of its own.
PlainSections == {"RESP", "EXTE", "VECTORS", "PROP", "LINRES", "PIMD", "PATH", "TDDFT", "VDW"}

LEMMA PlainTable ==
    ASSUME NEW s \in PlainSections
    PROVE  /\ Table[s].refusals = {} /\ Table[s].losses = {} /\ Table[s].repeats = {}
           /\ Part(Table[s].rows, {"value"}, {}, {})
<1>1. CASE s = "RESP"
  <2>1. Table["RESP"] = Plain(RespRows)
    BY DEF Table
  <2> QED BY <1>1, <2>1, RespRowsPart DEF Plain
<1>2. CASE s = "EXTE"
  <2>1. Table["EXTE"] = Plain(ExteRows)
    BY DEF Table
  <2> QED BY <1>2, <2>1, ExteRowsPart DEF Plain
<1>3. CASE s = "VECTORS"
  <2>1. Table["VECTORS"] = Plain(VectorsRows)
    BY DEF Table
  <2> QED BY <1>3, <2>1, VectorsRowsPart DEF Plain
<1>4. CASE s = "PROP"
  <2>1. Table["PROP"] = Plain(PropRows)
    BY DEF Table
  <2> QED BY <1>4, <2>1, PropRowsPart DEF Plain
<1>5. CASE s = "LINRES"
  <2>1. Table["LINRES"] = Plain(LinresRows)
    BY DEF Table
  <2> QED BY <1>5, <2>1, LinresRowsPart DEF Plain
<1>6. CASE s = "PIMD"
  <2>1. Table["PIMD"] = Plain(PimdRows)
    BY DEF Table
  <2> QED BY <1>6, <2>1, PimdRowsPart DEF Plain
<1>7. CASE s = "PATH"
  <2>1. Table["PATH"] = Plain(PathRows)
    BY DEF Table
  <2> QED BY <1>7, <2>1, PathRowsPart DEF Plain
<1>8. CASE s = "TDDFT"
  <2>1. Table["TDDFT"] = Plain(TddftRows)
    BY DEF Table
  <2> QED BY <1>8, <2>1, TddftRowsPart DEF Plain
<1>9. CASE s = "VDW"
  <2>1. Table["VDW"] = Plain(VdwRows)
    BY DEF Table
  <2> QED BY <1>9, <2>1, VdwRowsPart DEF Plain
<1> QED BY <1>1, <1>2, <1>3, <1>4, <1>5, <1>6, <1>7, <1>8, <1>9 DEF PlainSections

LEMMA PlainSectionCovers ==
    ASSUME NEW s \in PlainSections, NEW set \in SUBSET Fields(s)
    PROVE  Covers(Table[s].rows, Table[s].losses, set)
<1>1. Table[s].refusals = {} /\ Table[s].losses = {} /\ Part(Table[s].rows, {"value"}, {}, {})
  BY PlainTable
<1>2. \A f \in set : \E row \in RowsOf(Table[s].rows) : f \in row.carries
  BY <1>1, FieldsAre
<1>3. \A row \in RowsOf(Table[s].rows) : Ordinary(row, {})
  BY <1>1 DEF Part
<1> DEFINE rows == Table[s].rows
<1>4. set \subseteq FieldsOf(rows)
  BY <1>2 DEF FieldsOf, RowsOf
<1> QED BY <1>1, <1>3, <1>4, PlainCovers

-----------------------------------------------------------------------------
(* Every section *)

LEMMA TableIs ==
    /\ DOMAIN Table = {"CPMD", "SYSTEM", "DFT", "ATOMS"} \cup PlainSections
    /\ Table["CPMD"] = [rows |-> CpmdRows, refusals |-> CpmdRefusals,
                        losses |-> CpmdLosses, repeats |-> CpmdRepeats]
    /\ Table["SYSTEM"] = [rows |-> SystemRows, refusals |-> SystemRefusals,
                          losses |-> SystemLosses, repeats |-> SystemRepeats]
    /\ Table["DFT"] = [rows |-> DftRows \o DftHubbardRows, refusals |-> {},
                       losses |-> {Dropped("hubbardU.element")}, repeats |-> {"HUBBARD"}]
    /\ Table["ATOMS"] = [rows |-> AtomsRows, refusals |-> AtomsRefusals,
                         losses |-> {Dropped("isotopes.element")}, repeats |-> {}]
BY DEF Table, PlainSections, AtomsRows

\* No section prints a keyword twice but for the ones it repeats.
LEMMA TableExclusive ==
    ASSUME NEW s \in DOMAIN Table
    PROVE  /\ IsTable(Table[s].rows)
           /\ Exclusive(Table[s].rows, {"value"} \cup Table[s].repeats)
<1>1. CASE s = "CPMD"
  BY <1>1, TableIs, CpmdRowsPart DEF Part, CpmdNames
<1>2. CASE s = "SYSTEM"
  BY <1>2, TableIs, SystemRowsPart DEF Part, SystemNames
<1>3. CASE s = "DFT"
  <2>1. {"value"} \cup {"HUBBARD"} = {"value", "HUBBARD"}
    OBVIOUS
  <2> QED BY <1>3, <2>1, TableIs, DftPart DEF Part
<1>4. CASE s = "ATOMS"
  <2>1. {"value"} \cup {} = {"value"}
    OBVIOUS
  <2> QED BY <1>4, <2>1, TableIs, AtomsPart DEF Part
<1>5. CASE s \in PlainSections
  <2>1. {"value"} \cup {} = {"value"}
    OBVIOUS
  <2> QED BY <1>5, <2>1, PlainTable DEF Part
<1> QED BY <1>1, <1>2, <1>3, <1>4, <1>5, TableIs

\* Of the fields that are set a section prints all but the excused ones.
LEMMA TableCovers ==
    ASSUME NEW s \in DOMAIN Table, NEW set \in SUBSET Fields(s),
           ~Refused(Table[s].refusals, set), ~({"task=md", "task=gradient"} \subseteq set)
    PROVE  Covers(Table[s].rows, Table[s].losses, set)
<1>1. CASE s = "CPMD"
  <2>1. /\ Table["CPMD"].rows = CpmdRows /\ Table["CPMD"].refusals = CpmdRefusals
        /\ Table["CPMD"].losses = CpmdLosses
    BY TableIs
  <2>2. set \in SUBSET Fields("CPMD") /\ ~Refused(CpmdRefusals, set)
    BY <1>1, <2>1
  <2>3. Covers(CpmdRows, CpmdLosses, set)
    BY <2>2, CpmdCovers
  <2> QED BY <1>1, <2>1, <2>3
<1>2. CASE s = "SYSTEM"
  <2>1. /\ Table["SYSTEM"].rows = SystemRows /\ Table["SYSTEM"].refusals = SystemRefusals
        /\ Table["SYSTEM"].losses = SystemLosses
    BY TableIs
  <2>2. set \in SUBSET Fields("SYSTEM") /\ ~Refused(SystemRefusals, set)
    BY <1>2, <2>1
  <2>3. Covers(SystemRows, SystemLosses, set)
    BY <2>2, SystemCovers
  <2> QED BY <1>2, <2>1, <2>3
<1>3. CASE s = "DFT"
  <2>1. /\ Table["DFT"].rows = DftRows \o DftHubbardRows
        /\ Table["DFT"].losses = {Dropped("hubbardU.element")}
    BY TableIs
  <2>2. set \in SUBSET Fields("DFT")
    BY <1>3
  <2>3. Covers(DftRows \o DftHubbardRows, {Dropped("hubbardU.element")}, set)
    BY <2>2, DftCovers
  <2> QED BY <1>3, <2>1, <2>3
<1>4. CASE s = "ATOMS"
  <2>1. /\ Table["ATOMS"].rows = AtomsRows /\ Table["ATOMS"].refusals = AtomsRefusals
        /\ Table["ATOMS"].losses = {Dropped("isotopes.element")}
    BY TableIs
  <2>2. set \in SUBSET Fields("ATOMS") /\ ~Refused(AtomsRefusals, set)
    BY <1>4, <2>1
  <2>3. Covers(AtomsRows, {Dropped("isotopes.element")}, set)
    BY <2>2, AtomsCovers
  <2> QED BY <1>4, <2>1, <2>3
<1>5. CASE s \in PlainSections
  BY <1>5, PlainSectionCovers
<1> QED BY <1>1, <1>2, <1>3, <1>4, <1>5, TableIs
-----------------------------------------------------------------------------
(* The Poisson solver of &SYSTEM *)

\* The places of a table that print the keyword.
Places(rows) == {i \in DOMAIN rows : rows[i].keyword = "POISSON_SOLVER"}

LEMMA JoinedPlaces ==
    ASSUME NEW s, NEW t, IsTable(s), IsTable(t)
    PROVE  Places(s \o t) = Places(s) \cup {Len(s) + i : i \in Places(t)}
<1> DEFINE m == Len(s)
           n == Len(t)
           st == s \o t
<1>1. /\ m \in Nat /\ n \in Nat /\ DOMAIN s = 1 .. m /\ DOMAIN t = 1 .. n
      /\ DOMAIN st = 1 .. (m + n)
      /\ \A i \in 1 .. m : st[i] = s[i]
      /\ \A i \in 1 .. n : st[m + i] = t[i]
  BY JoinedTable
<1> HIDE DEF st, m, n
<1>4. \A i \in 1 .. (m + n) : i \in 1 .. m \/ (i - m \in 1 .. n /\ i = m + (i - m))
  BY <1>1
<1>5. ASSUME NEW i \in Places(st) PROVE i \in Places(s) \cup {m + j : j \in Places(t)}
  <2>1. i \in 1 .. (m + n) /\ st[i].keyword = "POISSON_SOLVER"
    BY <1>1 DEF Places
  <2>2. CASE i \in 1 .. m
    BY <2>1, <2>2, <1>1 DEF Places
  <2>3. CASE i - m \in 1 .. n /\ i = m + (i - m)
    <3>1. st[i] = t[i - m]
      BY <2>3, <1>1
    <3>2. i - m \in Places(t)
      BY <3>1, <2>1, <2>3, <1>1 DEF Places
    <3>3. m + (i - m) \in {m + j : j \in Places(t)}
      BY <3>2
    <3> QED BY <3>3, <2>3
  <2> QED BY <2>1, <2>2, <2>3, <1>4
<1>6. ASSUME NEW i \in Places(s) PROVE i \in Places(st)
  BY <1>1 DEF Places
<1>7. ASSUME NEW i \in Places(t) PROVE m + i \in Places(st)
  BY <1>1 DEF Places
<1>8. Places(st) = Places(s) \cup {m + j : j \in Places(t)}
  BY <1>5, <1>6, <1>7
<1> QED BY <1>8 DEF st, m, n

LEMMA JoinedLength ==
    ASSUME NEW s, NEW t, IsTable(s), IsTable(t)
    PROVE  IsTable(s \o t) /\ Len(s \o t) = Len(s) + Len(t)
BY JoinedTable

LEMMA JoinedAt ==
    ASSUME NEW s, NEW t, NEW st, st = s \o t, IsTable(s), IsTable(t)
    PROVE  /\ \A i \in 1 .. Len(s) : st[i] = s[i]
           /\ \A i \in 1 .. Len(t) : st[Len(s) + i] = t[i]
BY JoinedTable

LEMMA JoinedNowhere ==
    ASSUME NEW s, NEW t, IsTable(s), IsTable(t), Places(t) = {}
    PROVE  Places(s \o t) = Places(s)
<1>1. {Len(s) + i : i \in Places(t)} = {}
  OBVIOUS
<1>2. Places(s \o t) = Places(s) \cup {Len(s) + i : i \in Places(t)}
  BY JoinedPlaces, Zenon
<1> QED BY <1>1, <1>2, Zenon

\* Four rows of &SYSTEM print it, each on a condition of its own.
LEMMA SolverPlaces ==
    /\ Places(SystemRows) = {52, 75, 76, 77}
    /\ SystemRows[52] = F("POISSON_SOLVER", "poissonSolver")
    /\ SystemRows[75] = DefaultSolver
    /\ SystemRows[76] = F("POISSON_SOLVER", "directive:POISSON_SOLVER")
    /\ SystemRows[77] = F("POISSON_SOLVER", "set:POISSON_SOLVER")
<1> DEFINE P2 == SystemCell \o SystemCutoff
           P3 == P2 \o SystemCouplings
           P4 == P3 \o SystemStates
           P5 == P4 \o SystemPoints
           P6 == P5 \o SystemRest
<1>1. /\ IsTable(SystemCell) /\ IsTable(SystemCutoff) /\ IsTable(SystemCouplings)
      /\ IsTable(SystemStates) /\ IsTable(SystemPoints) /\ IsTable(SystemRest)
  BY SystemCellPart, SystemCutoffPart, SystemCouplingsPart, SystemStatesPart,
     SystemPointsPart, SystemRestPart DEF Part
<1>2. Len(SystemCell) = 17 /\ Places(SystemCell) = {}
  BY RowShape DEF SystemCell, Places
<1>3. Len(SystemCutoff) = 17 /\ Places(SystemCutoff) = {}
  BY RowShape DEF SystemCutoff, Places
<1>4. Len(SystemCouplings) = 10 /\ Places(SystemCouplings) = {}
  BY RowShape DEF SystemCouplings, Places
<1>5. /\ Len(SystemStates) = 10 /\ Places(SystemStates) = {8}
      /\ SystemStates[8] = F("POISSON_SOLVER", "poissonSolver")
  BY RowShape DEF SystemStates, Places
<1>6. Len(SystemPoints) = 11 /\ Places(SystemPoints) = {}
  BY RowShape DEF SystemPoints, Places
<1>7. /\ Len(SystemRest) = 12 /\ Places(SystemRest) = {10, 11, 12}
      /\ SystemRest[10] = DefaultSolver
      /\ SystemRest[11] = F("POISSON_SOLVER", "directive:POISSON_SOLVER")
      /\ SystemRest[12] = F("POISSON_SOLVER", "set:POISSON_SOLVER")
  BY RowShape DEF SystemRest, Places, DefaultSolver
<1>8. IsTable(P2) /\ Len(P2) = 34 /\ Places(P2) = {}
  <2>1. IsTable(P2) /\ Len(P2) = Len(SystemCell) + Len(SystemCutoff)
    BY <1>1, JoinedLength, Zenon
  <2>2. Places(P2) = Places(SystemCell)
    BY <1>1, <1>3, JoinedNowhere, Zenon
  <2> HIDE DEF P2
  <2> QED BY <2>1, <2>2, <1>2, <1>3
<1> HIDE DEF P2
<1>9. IsTable(P3) /\ Len(P3) = 44 /\ Places(P3) = {}
  <2>1. IsTable(P2) /\ IsTable(SystemCouplings)
    BY <1>1, <1>8
  <2>2. IsTable(P3) /\ Len(P3) = Len(P2) + Len(SystemCouplings)
    BY <2>1, JoinedLength, Zenon
  <2>3. Places(P3) = Places(P2)
    BY <2>1, <1>4, JoinedNowhere, Zenon
  <2> HIDE DEF P3
  <2> QED BY <2>2, <2>3, <1>4, <1>8
<1> HIDE DEF P3
<1>10. /\ IsTable(P4) /\ Len(P4) = 54 /\ Places(P4) = {52}
       /\ P4[52] = F("POISSON_SOLVER", "poissonSolver")
  <2>1. IsTable(P3) /\ IsTable(SystemStates)
    BY <1>1, <1>9
  <2>2. IsTable(P4) /\ Len(P4) = Len(P3) + Len(SystemStates)
    BY <2>1, JoinedLength, Zenon
  <2>3. Places(P4) = Places(P3) \cup {Len(P3) + i : i \in Places(SystemStates)}
    BY <2>1, JoinedPlaces, Zenon
  <2>4. P4 = P3 \o SystemStates
    OBVIOUS
  <2> HIDE DEF P4
  <2>5. /\ \A i \in 1 .. Len(P3) : P4[i] = P3[i]
        /\ \A i \in 1 .. Len(SystemStates) : P4[Len(P3) + i] = SystemStates[i]
    BY <2>1, <2>4, JoinedAt
  <2>6. P4[44 + 8] = SystemStates[8]
    BY <2>5, <1>5, <1>9
  <2>7. {44 + i : i \in {8}} = {52}
    OBVIOUS
  <2>8. Places(P4) = {52}
    BY <2>3, <2>7, <1>5, <1>9
  <2> QED BY <2>2, <2>6, <2>8, <1>5, <1>9
<1> HIDE DEF P4
<1>11. IsTable(P5) /\ Len(P5) = 65 /\ Places(P5) = {52} /\ P5[52] = P4[52]
  <2>1. IsTable(P4) /\ IsTable(SystemPoints)
    BY <1>1, <1>10
  <2>2. IsTable(P5) /\ Len(P5) = Len(P4) + Len(SystemPoints)
    BY <2>1, JoinedLength, Zenon
  <2>3. Places(P5) = Places(P4)
    BY <2>1, <1>6, JoinedNowhere, Zenon
  <2>4. P5 = P4 \o SystemPoints
    OBVIOUS
  <2> HIDE DEF P5
  <2>5. /\ \A i \in 1 .. Len(P4) : P5[i] = P4[i]
        /\ \A i \in 1 .. Len(SystemPoints) : P5[Len(P4) + i] = SystemPoints[i]
    BY <2>1, <2>4, JoinedAt
  <2> QED BY <2>2, <2>3, <2>5, <1>6, <1>10
<1> HIDE DEF P5
<1>12. /\ Places(P6) = {52, 75, 76, 77}
       /\ P6[52] = P5[52] /\ P6[75] = SystemRest[10]
       /\ P6[76] = SystemRest[11] /\ P6[77] = SystemRest[12]
  <2>1. IsTable(P5) /\ IsTable(SystemRest)
    BY <1>1, <1>11
  <2>2. Places(P6) = Places(P5) \cup {Len(P5) + i : i \in Places(SystemRest)}
    BY <2>1, JoinedPlaces, Zenon
  <2>3. P6 = P5 \o SystemRest
    OBVIOUS
  <2> HIDE DEF P6
  <2>4. /\ \A i \in 1 .. Len(P5) : P6[i] = P5[i]
        /\ \A i \in 1 .. Len(SystemRest) : P6[Len(P5) + i] = SystemRest[i]
    BY <2>1, <2>3, JoinedAt
  <2>5. {65 + i : i \in {10, 11, 12}} = {75, 76, 77}
    OBVIOUS
  <2>6. Places(P6) = {52, 75, 76, 77}
    BY <2>2, <2>5, <1>7, <1>11
  <2>7. P6[65 + 10] = SystemRest[10] /\ P6[65 + 11] = SystemRest[11]
        /\ P6[65 + 12] = SystemRest[12] /\ P6[52] = P5[52]
    BY <2>4, <1>7, <1>11
  <2> QED BY <2>6, <2>7
<1> HIDE DEF P6
<1>13. SystemRows = P6
  BY DEF SystemRows, P6, P5, P4, P3, P2
<1> QED BY <1>5, <1>7, <1>10, <1>11, <1>12, <1>13

-----------------------------------------------------------------------------
(* The lines of a deck *)

\* The rows of a table that print, at their places.
LEMMA PrintedIs ==
    ASSUME NEW rows, NEW set
    PROVE  /\ DOMAIN Printed(rows, set) = {i \in DOMAIN rows : Prints(rows[i], set)}
           /\ \A i \in DOMAIN Printed(rows, set) : Printed(rows, set)[i] = rows[i]
BY DEF Printed, RestrictValues, Restrict

\* A set of named solvers has as many members as the rows that print them.
LEMMA AsManySolvers ==
    ASSUME NEW set, NEW S,
           S = {i \in {52, 76, 77} : \/ i = 52 /\ "poissonSolver" \in set
                                     \/ i = 76 /\ "directive:POISSON_SOLVER" \in set
                                     \/ i = 77 /\ "set:POISSON_SOLVER" \in set}
    PROVE  IsFiniteSet(set \cap SolverFields) /\ Cardinality(S) = Cardinality(set \cap SolverFields)
<1> DEFINE T == set \cap SolverFields
           place == [f \in T |-> IF f = "poissonSolver" THEN 52
                                 ELSE IF f = "directive:POISSON_SOLVER" THEN 76 ELSE 77]
<1>1. IsFiniteSet(SolverFields)
  <2>1. IsFiniteSet({"poissonSolver"})
    BY FS_Singleton
  <2>2. IsFiniteSet({"poissonSolver"} \cup {"directive:POISSON_SOLVER"})
    BY <2>1, FS_AddElement
  <2>3. IsFiniteSet({"poissonSolver"} \cup {"directive:POISSON_SOLVER"} \cup {"set:POISSON_SOLVER"})
    BY <2>2, FS_AddElement
  <2>4. SolverFields
          = {"poissonSolver"} \cup {"directive:POISSON_SOLVER"} \cup {"set:POISSON_SOLVER"}
    BY DEF SolverFields
  <2> QED BY <2>3, <2>4
<1>2. IsFiniteSet(T)
  <2>1. T \in SUBSET SolverFields
    OBVIOUS
  <2> QED BY <1>1, <2>1, FS_Subset
<1>3. place \in [T -> S]
  BY DEF SolverFields
<1>4. \A f, g \in T : place[f] = place[g] => f = g
  BY DEF SolverFields
<1>5. \A i \in S : \E f \in T : place[f] = i
  <2>1. ASSUME NEW i \in S PROVE \E f \in T : place[f] = i
    <3>1. CASE i = 52
      <4>1. "poissonSolver" \in T /\ place["poissonSolver"] = 52
        BY <3>1 DEF SolverFields
      <4> QED BY <3>1, <4>1
    <3>2. CASE i = 76
      <4>1. "directive:POISSON_SOLVER" \in T /\ place["directive:POISSON_SOLVER"] = 76
        BY <3>2 DEF SolverFields
      <4> QED BY <3>2, <4>1
    <3>3. CASE i = 77
      <4>1. "set:POISSON_SOLVER" \in T /\ place["set:POISSON_SOLVER"] = 77
        BY <3>3 DEF SolverFields
      <4> QED BY <3>3, <4>1
    <3> QED BY <3>1, <3>2, <3>3
  <2> QED BY <2>1
<1> HIDE DEF place, T
<1>6. place \in Bijection(T, S)
  BY <1>3, <1>4, <1>5 DEF Bijection, Injection, Surjection, IsInjective
<1>7. ExistsBijection(T, S)
  BY <1>6 DEF ExistsBijection
<1>8. IsFiniteSet(T) /\ Cardinality(S) = Cardinality(T)
  BY <1>2, <1>7, FS_Bijection
<1> QED BY <1>8 DEF T

LEMMA SolversPrinted ==
    ASSUME NEW set, NEW deck, deck = Printed(SystemRows, set)
    PROVE  LET solvers == {i \in DOMAIN deck : deck[i].keyword = "POISSON_SOLVER"}
               named == Cardinality(set \cap SolverFields)
               isolated == set \cap {"symmetry", "cellVectors"} = {}
           IN  Cardinality(solvers) = IF isolated /\ named = 0 THEN 1 ELSE named
<1> DEFINE solvers == {i \in DOMAIN deck : deck[i].keyword = "POISSON_SOLVER"}
           named == Cardinality(set \cap SolverFields)
           isolated == set \cap {"symmetry", "cellVectors"} = {}
           S == {i \in {52, 76, 77} : \/ i = 52 /\ "poissonSolver" \in set
                                      \/ i = 76 /\ "directive:POISSON_SOLVER" \in set
                                      \/ i = 77 /\ "set:POISSON_SOLVER" \in set}
           alone == set \cap {"symmetry", "cellVectors", "poissonSolver",
                              "directive:POISSON_SOLVER", "set:POISSON_SOLVER"} = {}
<1>1. solvers = {i \in Places(SystemRows) : Prints(SystemRows[i], set)}
  <2>1. /\ DOMAIN deck = {i \in DOMAIN SystemRows : Prints(SystemRows[i], set)}
        /\ \A i \in DOMAIN deck : deck[i] = SystemRows[i]
    BY PrintedIs
  <2> QED BY <2>1 DEF Places
<1>2. /\ Prints(SystemRows[52], set) <=> "poissonSolver" \in set
      /\ Prints(SystemRows[76], set) <=> "directive:POISSON_SOLVER" \in set
      /\ Prints(SystemRows[77], set) <=> "set:POISSON_SOLVER" \in set
  BY SolverPlaces, PrintsIs
<1>3. Prints(SystemRows[75], set) <=> alone
  BY SolverPlaces, UnlessPrints DEF DefaultSolver
<1>4. IsFiniteSet(set \cap SolverFields) /\ Cardinality(S) = named
  BY AsManySolvers
<1>5. named = 0 <=> set \cap SolverFields = {}
  BY <1>4, FS_EmptySet
<1>6. isolated /\ named = 0 <=> alone
  BY <1>5 DEF SolverFields
<1>7. CASE alone
  <2>1. solvers = {75}
    BY <1>1, <1>2, <1>3, <1>7, SolverPlaces
  <2> QED BY <2>1, <1>6, <1>7, FS_Singleton
<1>8. CASE ~alone
  <2>1. solvers = S
    BY <1>1, <1>2, <1>3, <1>8, SolverPlaces
  <2> QED BY <2>1, <1>4, <1>6, <1>8
<1> QED BY <1>7, <1>8

-----------------------------------------------------------------------------
(* The inductive invariant *)

\* The fields are a section's own, and at most one of each set of alternatives.
Filled ==
    /\ section \in Sections
    /\ fields \in SUBSET Fields(section)
    /\ \A a \in Alternatives : \A f, g \in a \cap fields : f = g

\* The lines are those of the fields, and there are none before or without a deck.
Decided ==
    /\ verdict = "rendered" => /\ ~Refused(Table[section].refusals, fields)
                               /\ lines = Printed(Table[section].rows, fields)
    /\ verdict # "rendered" => lines = << >>

IInv == Filled /\ Decided

LEMMA InitInv == Init => IInv
BY DEF Init, IInv, Filled, Decided

LEMMA NextInv == IInv /\ [Next]_vars => IInv'
<1> SUFFICES ASSUME IInv, [Next]_vars PROVE IInv'
  OBVIOUS
<1>1. ASSUME NEW f \in Fields(section), SetField(f) PROVE IInv'
  <2>1. /\ section' = section /\ fields' = fields \cup {f} /\ lines' = lines
        /\ verdict = "building" /\ verdict' = "building"
        /\ \A a \in Alternatives : f \in a => a \cap fields = {}
    BY <1>1 DEF SetField
  <2>2. ASSUME NEW a \in Alternatives, NEW g \in a \cap fields', NEW h \in a \cap fields'
        PROVE  g = h
    <3>1. CASE f \in a
      BY <2>1, <2>2, <3>1
    <3>2. CASE f \notin a
      BY <2>1, <2>2, <3>2 DEF IInv, Filled
    <3> QED BY <3>1, <3>2
  <2>3. Filled'
    BY <2>1, <2>2 DEF IInv, Filled
  <2>4. Decided'
    BY <2>1 DEF IInv, Decided
  <2> QED BY <2>3, <2>4 DEF IInv
<1>2. ASSUME Render PROVE IInv'
  <2>1. section' = section /\ fields' = fields
    BY <1>2 DEF Render
  <2>2. Filled'
    BY <2>1 DEF IInv, Filled
  <2>3. Decided'
    BY <1>2 DEF Render, Decided
  <2> QED BY <2>2, <2>3 DEF IInv
<1>3. ASSUME UNCHANGED vars PROVE IInv'
  BY <1>3 DEF vars, IInv, Filled, Decided
<1> QED BY <1>1, <1>2, <1>3 DEF Next

LEMMA AlwaysInv == Spec => []IInv
BY InitInv, NextInv, PTL DEF Spec

-----------------------------------------------------------------------------
(* The properties *)

LEMMA NothingLost == IInv => NothingLostSilently
<1> SUFFICES ASSUME IInv, verdict = "rendered"
             PROVE  Lost = fields \cap Excused(Table[section].losses, fields)
  BY DEF NothingLostSilently
<1> DEFINE rows == Table[section].rows
           losses == Table[section].losses
<1>1. /\ section \in DOMAIN Table /\ fields \in SUBSET Fields(section)
      /\ ~Refused(Table[section].refusals, fields)
      /\ lines = Printed(rows, fields)
  BY SectionsAreTyped DEF IInv, Filled, Decided
<1>2. ~({"task=md", "task=gradient"} \subseteq fields)
  <2>1. {"task=md", "task=gradient"} \in Alternatives
    BY Zenon DEF Alternatives
  <2>2. \A f, g \in {"task=md", "task=gradient"} \cap fields : f = g
    BY <2>1 DEF IInv, Filled
  <2> QED BY <2>2
<1>3. Covers(rows, losses, fields)
  BY <1>1, <1>2, TableCovers
<1>4. /\ DOMAIN lines = {i \in DOMAIN rows : Prints(rows[i], fields)}
      /\ \A i \in DOMAIN lines : lines[i] = rows[i]
  BY <1>1, PrintedIs
<1> HIDE DEF rows, losses
<1>5. ASSUME NEW f \in fields
      PROVE  (\E i \in DOMAIN lines : f \in lines[i].carries)
               <=> f \notin Excused(losses, fields)
  <2>1. (\E i \in DOMAIN lines : f \in lines[i].carries)
          <=> \E i \in DOMAIN rows : Prints(rows[i], fields) /\ f \in rows[i].carries
    BY <1>4
  <2>2. (\E i \in DOMAIN rows : Prints(rows[i], fields) /\ f \in rows[i].carries)
          <=> \E row \in RowsOf(rows) : f \in row.carries /\ Prints(row, fields)
    BY DEF RowsOf
  <2> QED BY <2>1, <2>2, <1>3 DEF Covers
<1>6. Lost = fields \cap Excused(losses, fields)
  BY <1>5 DEF Lost, CarriedBy
<1> QED BY <1>6 DEF losses

LEMMA ListedRepeats == IInv => OnlyListedRepeats
<1> SUFFICES ASSUME IInv PROVE RepeatsAreListed /\ SolverPerNaming
  BY DEF OnlyListedRepeats
<1>1. RepeatsAreListed
  <2>1. CASE verdict = "rendered"
    <3> DEFINE rows == Table[section].rows
               names == {"value"} \cup Table[section].repeats
    <3>1. section \in DOMAIN Table /\ lines = Printed(rows, fields)
      BY <2>1, SectionsAreTyped DEF IInv, Filled, Decided
    <3>2. Exclusive(rows, names)
      BY <3>1, TableExclusive
    <3>3. /\ DOMAIN lines = {i \in DOMAIN rows : Prints(rows[i], fields)}
          /\ \A i \in DOMAIN lines : lines[i] = rows[i]
      BY <3>1, PrintedIs
    <3> HIDE DEF rows, names
    <3>4. ASSUME NEW i \in DOMAIN lines, NEW j \in DOMAIN lines,
                 i < j, lines[i].keyword = lines[j].keyword
          PROVE  lines[i].keyword \in names
      <4>1. /\ i \in DOMAIN rows /\ j \in DOMAIN rows
            /\ Prints(rows[i], fields) /\ Prints(rows[j], fields)
            /\ lines[i] = rows[i] /\ lines[j] = rows[j]
        BY <3>3
      <4>2. Rivals(rows[i], rows[j])
        BY <3>4, <4>1 DEF Rivals
      <4> QED BY <3>2, <3>4, <4>1, <4>2 DEF Exclusive
    <3> QED BY <3>4 DEF RepeatsAreListed, names
  <2>2. CASE verdict # "rendered"
    <3>1. lines = << >>
      BY <2>2 DEF IInv, Decided
    <3> QED BY <3>1 DEF RepeatsAreListed
  <2> QED BY <2>1, <2>2
<1>2. SolverPerNaming
  <2> SUFFICES ASSUME verdict = "rendered", section = "SYSTEM"
               PROVE  LET named == Cardinality(fields \cap SolverFields)
                          isolated == fields \cap {"symmetry", "cellVectors"} = {}
                      IN  Cardinality(SolverLines) = IF isolated /\ named = 0 THEN 1 ELSE named
    BY DEF SolverPerNaming
  <2>1. lines = Printed(Table["SYSTEM"].rows, fields)
    BY DEF IInv, Decided
  <2>2. lines = Printed(SystemRows, fields)
    BY <2>1, TableIs
  <2> QED BY <2>2, SolversPrinted DEF SolverLines
<1> QED BY <1>1, <1>2

\* Of a section's fields that a caller set, a rendered deck lacks exactly the
\* excused ones, whatever is set (the render_*_section functions,
\* cpmdc_params.c 709-4296).
THEOREM DeckLosesNothingSilently == Spec => []NothingLostSilently
BY AlwaysInv, NothingLost, PTL

\* Whatever is set, a section repeats only the keywords listed for it, and
\* &SYSTEM prints a Poisson solver for each naming of one and the default only
\* when nothing names one (cpmdc_params.c 709-4296, 1396-1417).
THEOREM DeckRepeatsOnlyListedKeywords == Spec => []OnlyListedRepeats
BY AlwaysInv, ListedRepeats, PTL
=============================================================================
