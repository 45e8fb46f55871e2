-------------------------- MODULE CacheFlatProofs --------------------------
(***************************************************************************)
(* To careful programs (see Cache) every valid L1 line is the memory of    *)
(* its line, and the hierarchy implements FlatMemory.  The argument is the *)
(* invariant HeldL1: a line is only ever cached from the start of a line   *)
(* the program uses, and a store at the start of another line, or on the   *)
(* other side of the split L1, does not touch it.  The simulator, which    *)
(* uses the caches through page walks over the same memory, inherits both. *)
(***************************************************************************)
EXTENDS CacheProofs, Simulator
-----------------------------------------------------------------------------
(* Lines and their addresses.                                              *)

LEMMA DivUnique ==
    ASSUME NEW S \in Nat \ {0}, NEW t \in Nat, NEW x \in 0 .. S - 1
    PROVE  (S * t + x) \div S = t
OBVIOUS

LEMMA DivTwice ==
    ASSUME NEW a \in Nat, NEW m \in Nat \ {0}, NEW n \in Nat \ {0}
    PROVE  a \div (m * n) = (a \div m) \div n
<1> DEFINE q == a \div m
           t == q \div n
           r == q % n
           x == a % m
<1>1. q \in Nat /\ x \in 0 .. m - 1 /\ a = m * q + x
  BY DivMod
<1>2. t \in Nat /\ r \in 0 .. n - 1 /\ q = n * t + r
  BY <1>1, DivMod
<1> HIDE DEF q, t, r, x
<1>3. m * r \in Nat /\ m * r <= m * (n - 1) /\ m * (n - 1) = m * n - m
  BY <1>2
<1>4. m * n \in Nat \ {0} /\ m * r + x \in 0 .. m * n - 1
  BY <1>1, <1>3
<1>5. a = (m * n) * t + (m * r + x)
  BY <1>1, <1>2
<1>6. a \div (m * n) = t
  BY <1>2, <1>4, <1>5, DivUnique
<1> QED
  BY <1>6 DEF t, q

LEMMA TagOfLine ==
    ASSUME NEW a \in Nat
    PROVE  /\ a \div LineBytes \in Nat
           /\ L1Tag(a) = (a \div LineBytes) \div L1Lines
<1>1. LineBytes \in Nat \ {0} /\ L1Lines \in Nat \ {0}
  BY Sizes
<1>2. a \div LineBytes \in Nat
  BY <1>1, DivMod
<1>3. a \div (LineBytes * L1Lines) = (a \div LineBytes) \div L1Lines
  BY <1>1, DivTwice
<1> QED
  BY <1>2, <1>3 DEF L1Tag, L1Span

LEMMA StartIs ==
    ASSUME NEW a \in Nat, LineStart(a)
    PROVE  a = LineBytes * (a \div LineBytes)
<1>1. LineBytes \in Nat \ {0}
  BY Sizes
<1>2. a = LineBytes * (a \div LineBytes) + (a % LineBytes) /\ a \div LineBytes \in Nat
  BY <1>1, DivMod
<1>3. a % LineBytes = 0
  BY DEF LineStart
<1> HIDE DEF LineBytes
<1> QED
  BY <1>1, <1>2, <1>3

(* Index and tag name the line.                                            *)
LEMMA SameLine ==
    ASSUME NEW a \in Nat, NEW b \in Nat, L1Index(a) = L1Index(b), L1Tag(a) = L1Tag(b)
    PROVE  a \div LineBytes = b \div LineBytes
<1> DEFINE p == a \div LineBytes
           q == b \div LineBytes
<1>1. p \in Nat /\ q \in Nat /\ L1Lines \in Nat \ {0}
  BY TagOfLine, Sizes
<1>2. p \div L1Lines = q \div L1Lines /\ p % L1Lines = q % L1Lines
  BY TagOfLine DEF L1Index
<1> HIDE DEF p, q
<1>3. p = q
  BY <1>1, <1>2, DivMod
<1> QED
  BY <1>3 DEF p, q

LEMMA SameStart ==
    ASSUME NEW a \in Nat, NEW b \in Nat, LineStart(a), LineStart(b),
           L1Index(a) = L1Index(b), L1Tag(a) = L1Tag(b)
    PROVE  a = b
<1>1. a \div LineBytes = b \div LineBytes
  BY SameLine
<1> QED
  BY <1>1, StartIs

(* The start of a line from its tag and index.                             *)
LEMMA NamedByTag ==
    ASSUME NEW a \in Nat, LineStart(a)
    PROVE  L1Tag(a) * L1Span + L1Index(a) * LineBytes = a
<1> DEFINE q == a \div LineBytes
           t == q \div L1Lines
           r == q % L1Lines
<1>1. q \in Nat /\ L1Lines \in Nat \ {0} /\ LineBytes \in Nat \ {0} /\ a = LineBytes * q
  BY TagOfLine, Sizes, StartIs
<1>2. q \div L1Lines \in Nat /\ q % L1Lines \in 0 .. L1Lines - 1
      /\ q = L1Lines * (q \div L1Lines) + (q % L1Lines)
  <2> HIDE DEF q, t, r
  <2> QED
    BY <1>1, DivMod
<1>3. L1Tag(a) = t /\ L1Index(a) = r
  BY TagOfLine DEF L1Index
<1> HIDE DEF q
<1>4. t \in Nat /\ r \in Nat /\ q = L1Lines * t + r
  BY <1>1, <1>2
<1> HIDE DEF t, r
<1>5. t * (LineBytes * L1Lines) + r * LineBytes = a
  BY <1>1, <1>4
<1> QED
  BY <1>3, <1>5 DEF L1Span

(* Different lines do not overlap.                                         *)
LEMMA LinesApart ==
    ASSUME NEW a \in Nat, NEW b \in Nat, LineStart(a), LineStart(b), a < b
    PROVE  a + LineBytes <= b
<1> DEFINE p == a \div LineBytes
           q == b \div LineBytes
<1>1. p \in Nat /\ q \in Nat /\ LineBytes \in Nat \ {0}
  BY TagOfLine, Sizes
<1>2. a = LineBytes * p /\ b = LineBytes * q
  BY StartIs
<1> HIDE DEF p, q
<1>3. p + 1 <= q
  <2> SUFFICES ASSUME q <= p PROVE FALSE
    BY <1>1
  <2>1. LineBytes * q <= LineBytes * p
    BY <1>1
  <2> QED
    BY <1>2, <2>1
<1>4. LineBytes * (p + 1) <= LineBytes * q
  BY <1>1, <1>3
<1> QED
  BY <1>1, <1>2, <1>4

(* The word an address selects in its line is the one that contains it.    *)
LEMMA WordInItsLine ==
    ASSUME NEW a \in Nat, NEW b \in Nat, LineStart(b), a \div LineBytes = b \div LineBytes
    PROVE  b + WSelect(a) * WordBytes = a - (a % WordBytes)
<1> DEFINE w == a \div WordBytes
           q == w \div WordsPerLine
           k == w % WordsPerLine
<1>1. /\ WordBytes \in Nat \ {0} /\ WordsPerLine \in Nat \ {0}
      /\ LineBytes = WordBytes * WordsPerLine
  BY Sizes DEF LineBytes
<1>2. w \in Nat /\ a - (a % WordBytes) = WordBytes * w
  <2>1. /\ a \div WordBytes \in Nat /\ a % WordBytes \in 0 .. WordBytes - 1
        /\ a = WordBytes * (a \div WordBytes) + (a % WordBytes)
    BY <1>1, DivMod
  <2>2. WordBytes * w \in Nat
    BY <1>1, <2>1
  <2> QED
    BY <1>1, <2>1, <2>2
<1>3. q \in Nat /\ k \in Nat /\ w = WordsPerLine * q + k
  <2> HIDE DEF w
  <2>1. /\ w \div WordsPerLine \in Nat /\ w % WordsPerLine \in 0 .. WordsPerLine - 1
        /\ w = WordsPerLine * (w \div WordsPerLine) + (w % WordsPerLine)
    BY <1>1, <1>2, DivMod
  <2> QED
    BY <1>1, <2>1
<1>4. q = a \div LineBytes
  BY <1>1, DivTwice
<1>5. b = LineBytes * q
  BY <1>4, StartIs
<1>6. WSelect(a) = k
  BY DEF WSelect
<1> HIDE DEF w, q, k
<1> QED
  BY <1>1, <1>2, <1>3, <1>5, <1>6

LEMMA StartWord ==
    ASSUME NEW a \in Nat, LineStart(a)
    PROVE  WSelect(a) = 0 /\ a % WordBytes = 0
<1>1. a + WSelect(a) * WordBytes = a - (a % WordBytes)
  BY WordInItsLine
<1>2. WSelect(a) \in Nat /\ a % WordBytes \in Nat /\ WordBytes \in Nat \ {0}
  BY IndexType, Sizes
<1>3. WSelect(a) * WordBytes >= WSelect(a)
  BY <1>2
<1> QED
  BY <1>1, <1>2, <1>3

(* The word of memory that contains an address.                            *)
WordAt(m, a) == [i \in 0 .. WordBytes - 1 |-> m[a - (a % WordBytes) + i]]

LEMMA WordOfLine ==
    ASSUME NEW m, NEW a \in Nat, NEW b \in Nat, LineStart(b),
           a \div LineBytes = b \div LineBytes
    PROVE  WordOf(Load(m, b), WSelect(a)) = WordAt(m, a)
<1> DEFINE k == WSelect(a)
<1>1. k \in 0 .. WordsPerLine - 1 /\ b + k * WordBytes = a - (a % WordBytes)
  BY IndexType, WordInItsLine
<1> HIDE DEF k
<1>2. ASSUME NEW i \in 0 .. WordBytes - 1
      PROVE  Load(m, b)[k * WordBytes + i] = m[a - (a % WordBytes) + i]
  <2>1. k * WordBytes + i \in 0 .. LineBytes - 1
    BY <1>1, WordInLine
  <2>2. k * WordBytes \in Nat /\ b + (k * WordBytes + i) = (b + k * WordBytes) + i
    BY <1>1, Sizes
  <2> QED
    BY <1>1, <2>1, <2>2 DEF Load
<1>3. WordOf(Load(m, b), k) = WordAt(m, a)
  BY <1>2 DEF WordOf, WordAt
<1> QED
  BY <1>3 DEF k
-----------------------------------------------------------------------------
(* What L1 holds.                                                          *)

Starts(ac) == {a \in AddrsOf(ac) : LineStart(a)}

LEMMA StartType ==
    ASSUME InsideMemory, NEW ac \in Access, NEW a \in Starts(ac)
    PROVE  /\ a \in AddrsOf(ac) /\ a \in Addrs /\ a \in Nat /\ LineStart(a)
           /\ a + LineBytes <= MemBytes
BY UsedAddr DEF Starts, AddrsOf, Addrs

Holds(m, e, a) == e.tag = L1Tag(a) /\ e.line = Load(m, a)

HeldL1(m, l) ==
    \A ac \in Access, i \in 0 .. L1Lines - 1, w \in 0 .. L1Ways - 1 :
        l[ac][i][w].v = 1 => \E a \in Starts(ac) : L1Index(a) = i /\ Holds(m, l[ac][i][w], a)

(* Storing a line changes no other line.                                   *)
LEMMA StoreElsewhere ==
    ASSUME NEW a \in Nat, NEW b \in Nat, LineStart(a), LineStart(b), a # b,
           a + LineBytes <= MemBytes, b + LineBytes <= MemBytes,
           NEW m \in Memory, NEW line \in Line
    PROVE  Load(Store(m, a, line), b) = Load(m, b)
<1>1. LineBytes \in Nat \ {0} /\ MemBytes \in Nat
  BY Sizes
<1>2. a + LineBytes <= b \/ b + LineBytes <= a
  BY LinesApart
<1>3. ASSUME NEW i \in 0 .. LineBytes - 1
      PROVE  Store(m, a, line)[b + i] = m[b + i]
  <2>1. b + i \in 0 .. MemBytes - 1 /\ ~(a <= b + i /\ b + i < a + LineBytes)
    BY <1>1, <1>2
  <2>2. b + i \in DOMAIN m
    BY <2>1 DEF Memory
  <2> QED
    BY <2>1, <2>2 DEF Store
<1> QED
  BY <1>3 DEF Load

(* The one way an L1 set changes: what is there afterwards was there       *)
(* before, or is the line of an address used.                              *)
LEMMA RowHeld ==
    ASSUME NEW m, NEW m2, NEW l \in L1Array, HeldL1(m, l),
           NEW ac \in Access, NEW i \in 0 .. L1Lines - 1, NEW row,
           \A c \in Access : \A b \in Starts(c) :
              (c # ac \/ L1Index(b) # i) => Load(m2, b) = Load(m, b),
           \A w \in 0 .. L1Ways - 1 : row[w].v = 1 =>
              \/ \E a \in Starts(ac) : L1Index(a) = i /\ Holds(m2, row[w], a)
              \/ /\ \A b \in Starts(ac) :
                       L1Index(b) = i /\ L1Tag(b) = row[w].tag => Load(m2, b) = Load(m, b)
                 /\ \E x \in 0 .. L1Ways - 1 :
                       /\ l[ac][i][x].v = 1
                       /\ l[ac][i][x].tag = row[w].tag
                       /\ l[ac][i][x].line = row[w].line
    PROVE  HeldL1(m2, [l EXCEPT ![ac][i] = row])
<1> DEFINE new == [l EXCEPT ![ac][i] = row]
<1>1. ASSUME NEW c \in Access, NEW j \in 0 .. L1Lines - 1, NEW w \in 0 .. L1Ways - 1,
             new[c][j][w].v = 1
      PROVE  \E a \in Starts(c) : L1Index(a) = j /\ Holds(m2, new[c][j][w], a)
  <2>1. CASE c = ac /\ j = i
    <3>1. new[c][j] = row
      BY <2>1 DEF L1Array
    <3>2. CASE \E a \in Starts(ac) : L1Index(a) = i /\ Holds(m2, row[w], a)
      BY <2>1, <3>1, <3>2
    <3>3. ASSUME \A b \in Starts(ac) :
                    L1Index(b) = i /\ L1Tag(b) = row[w].tag => Load(m2, b) = Load(m, b),
                 NEW x \in 0 .. L1Ways - 1,
                 l[ac][i][x].v = 1, l[ac][i][x].tag = row[w].tag,
                 l[ac][i][x].line = row[w].line
          PROVE  \E a \in Starts(ac) : L1Index(a) = i /\ Holds(m2, row[w], a)
      <4>1. PICK b \in Starts(ac) : L1Index(b) = i /\ Holds(m, l[ac][i][x], b)
        BY <3>3 DEF HeldL1
      <4>2. Holds(m2, row[w], b)
        BY <3>3, <4>1 DEF Holds
      <4> QED
        BY <4>1, <4>2
    <3>4. row[w].v = 1
      BY <1>1, <3>1
    <3> QED
      BY <2>1, <3>1, <3>2, <3>3, <3>4
  <2>2. CASE ~(c = ac /\ j = i)
    <3>1. new[c][j] = l[c][j]
      BY <2>2 DEF L1Array
    <3>2. PICK b \in Starts(c) : L1Index(b) = j /\ Holds(m, l[c][j][w], b)
      BY <1>1, <3>1 DEF HeldL1
    <3>3. Load(m2, b) = Load(m, b)
      BY <2>2, <3>2
    <3> QED
      BY <3>1, <3>2, <3>3 DEF Holds
  <2> QED
    BY <2>1, <2>2
<1> HIDE DEF new
<1>2. HeldL1(m2, new)
  BY <1>1 DEF HeldL1
<1> QED
  BY <1>2 DEF new
-----------------------------------------------------------------------------
(* The paths keep what L1 holds and act on memory alone.                   *)

(* An aged set holds what the set before it held.                          *)
LEMMA AgedHolds ==
    ASSUME NEW n \in Nat \ {0}, NEW row, NEW new, SameButAges(row, new),
           DOMAIN row = 0 .. n - 1
    PROVE  \A w \in 0 .. n - 1 : new[w].v = row[w].v /\ new[w].tag = row[w].tag
                                    /\ new[w].line = row[w].line
BY DEF SameButAges

(* After a fill, aged either way, a valid way holds the new entry or what  *)
(* it held before.                                                         *)
LEMMA FillHolds ==
    ASSUME NEW n \in Nat \ {0}, NEW L, NEW row \in SetOf(n, L),
           NEW e \in EntriesOf(n, L), NEW new,
           \/ new = AgeUpdate(Insert(row, Victim(row), e), Victim(row))
           \/ new = Replace(row, e, n)
    PROVE  \A w \in 0 .. n - 1 :
              \/ new[w].tag = e.tag /\ new[w].line = e.line
              \/ /\ new[w].v = row[w].v
                 /\ new[w].tag = row[w].tag
                 /\ new[w].line = row[w].line
<1> DEFINE way == Victim(row)
           put == Insert(row, way, e)
<1>1. way \in 0 .. n - 1
  BY VictimWay
<1>2. /\ put \in SetOf(n, L)
      /\ put[way] = e
      /\ \A x \in 0 .. n - 1 : x # way => put[x] = row[x]
  BY <1>1, InsertType
<1>3. DOMAIN put = 0 .. n - 1
  BY <1>2 DEF SetOf
<1>4. new = AgeUpdate(put, way) \/ new = AgeIncrease(put, way, n)
  BY DEF Replace
<1>5. SameButAges(put, new)
  BY <1>1, <1>2, <1>4, AgeUpdateType, AgeIncreaseType
<1> HIDE DEF way, put
<1>6. \A w \in 0 .. n - 1 : new[w].v = put[w].v /\ new[w].tag = put[w].tag
                               /\ new[w].line = put[w].line
  BY <1>3, <1>5, AgedHolds
<1> QED
  BY <1>2, <1>6

FlatState(s) == Clean(s) /\ HeldL1(s.mem, s.l1)
CanRead(s, ac, a) == LineStart(a) \/ L1Hit(s, ac, a) # {}

LEMMA HitLine ==
    ASSUME InsideMemory, NEW s, FlatState(s), NEW ac \in Access, NEW a \in AddrsOf(ac),
           NEW w \in HitWays(s.l1[ac][L1Index(a)], L1Tag(a))
    PROVE  /\ w \in 0 .. L1Ways - 1
           /\ s.l1[ac][L1Index(a)][w].v = 1
           /\ s.l1[ac][L1Index(a)][w].tag = L1Tag(a)
           /\ \E b \in Starts(ac) :
                 /\ a \div LineBytes = b \div LineBytes
                 /\ s.l1[ac][L1Index(a)][w].line = Load(s.mem, b)
<1>1. a \in Nat /\ L1Index(a) \in 0 .. L1Lines - 1
  BY UsedAddr, IndexType DEF AddrsOf, Addrs
<1>2. DOMAIN s.l1[ac][L1Index(a)] = 0 .. L1Ways - 1
  BY <1>1, L1RowSound DEF FlatState
<1>3. /\ w \in 0 .. L1Ways - 1
      /\ s.l1[ac][L1Index(a)][w].v = 1
      /\ s.l1[ac][L1Index(a)][w].tag = L1Tag(a)
  BY <1>2 DEF HitWays
<1>4. PICK b \in Starts(ac) :
         L1Index(b) = L1Index(a) /\ Holds(s.mem, s.l1[ac][L1Index(a)][w], b)
  BY <1>1, <1>3 DEF FlatState, HeldL1
<1>5. b \in Nat /\ L1Tag(b) = L1Tag(a) /\ s.l1[ac][L1Index(a)][w].line = Load(s.mem, b)
  BY <1>3, <1>4, StartType DEF Holds
<1>6. a \div LineBytes = b \div LineBytes
  BY <1>1, <1>4, <1>5, SameLine
<1> QED
  BY <1>3, <1>5, <1>6

(* A read where a careful program may read delivers the word of memory     *)
(* that contains the address.                                              *)
LEMMA ReadFlat ==
    ASSUME InsideMemory, NEW s, FlatState(s), NEW ac \in Access, NEW a \in AddrsOf(ac),
           CanRead(s, ac, a), NEW o \in ReadOut(s, ac, a)
    PROVE  /\ FlatState(o.s)
           /\ o.s.mem = s.mem
           /\ o.word = WordAt(s.mem, a)
<1> DEFINE i == L1Index(a)
           row == s.l1[ac][i]
<1>1. /\ a \in Addrs /\ a \in Nat /\ i \in 0 .. L1Lines - 1
      /\ a + LineBytes <= MemBytes /\ ~Outside(a)
  <2>1. a \in Addrs
    BY DEF AddrsOf, Addrs
  <2>2. a \in Nat /\ a + LineBytes <= MemBytes
    BY <2>1, UsedAddr
  <2>3. LineBytes \in Nat /\ MemBytes \in Nat
    BY Sizes
  <2> QED
    BY <2>1, <2>2, <2>3, IndexType DEF Outside
<1>2. Clean(s) /\ HeldL1(s.mem, s.l1) /\ s.l1 \in L1Array /\ s.mem \in Memory
      /\ StateType(s)
  BY DEF FlatState, Clean, StateType
<1>3. row \in SetOf(L1Ways, Line) /\ DOMAIN row = 0 .. L1Ways - 1
      /\ Sound(row, L1Ways, Line) /\ L1Ways \in Nat \ {0}
  BY <1>1, <1>2, L1RowSound, Sizes
<1>4. Clean(o.s)
  BY <1>1, <1>2, ReadClean
<1>5. ReadFromL2(s, ac, a) = {}
  BY <1>1, <1>2, NoL2Hit DEF ReadFromL2
<1>6. CASE o \in ReadFromL1(s, ac, a)
  <2>1. PICK w \in HitWays(row, L1Tag(a)) :
           o = [s |-> [s EXCEPT !.l1[ac][i] = AgeUpdate(row, w)],
                word |-> WordOf(row[w].line, WSelect(a))]
    BY <1>6 DEF ReadFromL1, L1Hit
  <2> DEFINE new == AgeUpdate(row, w)
  <2>2. PICK b \in Starts(ac) :
           /\ w \in 0 .. L1Ways - 1
           /\ a \div LineBytes = b \div LineBytes
           /\ row[w].line = Load(s.mem, b)
    BY HitLine
  <2>3. \A x \in 0 .. L1Ways - 1 :
           new[x].v = row[x].v /\ new[x].tag = row[x].tag /\ new[x].line = row[x].line
    BY <1>3, <2>2, AgeUpdateType, AgedHolds
  <2> HIDE DEF new
  <2>4. HeldL1(s.mem, [s.l1 EXCEPT ![ac][i] = new])
    <3>1. \A x \in 0 .. L1Ways - 1 : new[x].v = 1 =>
             \E y \in 0 .. L1Ways - 1 : /\ row[y].v = 1
                                        /\ row[y].tag = new[x].tag
                                        /\ row[y].line = new[x].line
      BY <2>3
    <3> QED
      BY <1>1, <1>2, <3>1, RowHeld
  <2>5. o.s.mem = s.mem /\ o.s.l1 = [s.l1 EXCEPT ![ac][i] = new]
    BY <1>2, <2>1 DEF StateType, new
  <2>6. WordOf(Load(s.mem, b), WSelect(a)) = WordAt(s.mem, a)
    BY <1>1, <2>2, StartType, WordOfLine
  <2> QED
    BY <1>4, <2>1, <2>2, <2>4, <2>5, <2>6 DEF FlatState
<1>7. CASE o \in ReadFromMemory(s, ac, a)
  <2> DEFINE e == Fetched(s.mem, a)
             new == AgeUpdate(Insert(row, Victim(row), e), Victim(row))
  <2>1. o = [s |-> [s EXCEPT !.l1[ac][i] = new],
             word |-> WordOf(Load(s.mem, a), WSelect(a))]
    BY <1>1, <1>7 DEF ReadFromMemory
  <2>2. e \in EntriesOf(L1Ways, Line) /\ e.tag = L1Tag(a) /\ e.line = Load(s.mem, a)
    BY <1>1, <1>2, FetchedType
  <2>3. LineStart(a) /\ a \in Starts(ac)
    BY <1>7 DEF ReadFromMemory, Miss, CanRead, Starts
  <2> HIDE DEF e
  <2>4. \A x \in 0 .. L1Ways - 1 :
           \/ new[x].tag = e.tag /\ new[x].line = e.line
           \/ /\ new[x].v = row[x].v
              /\ new[x].tag = row[x].tag
              /\ new[x].line = row[x].line
    BY <1>3, <2>2, FillHolds
  <2> HIDE DEF new
  <2>5. HeldL1(s.mem, [s.l1 EXCEPT ![ac][i] = new])
    <3>1. \A x \in 0 .. L1Ways - 1 : new[x].v = 1 =>
             \/ Holds(s.mem, new[x], a)
             \/ \E y \in 0 .. L1Ways - 1 : /\ row[y].v = 1
                                           /\ row[y].tag = new[x].tag
                                           /\ row[y].line = new[x].line
      BY <2>2, <2>4 DEF Holds
    <3> QED
      BY <1>1, <1>2, <2>3, <3>1, RowHeld
  <2>6. o.s.mem = s.mem /\ o.s.l1 = [s.l1 EXCEPT ![ac][i] = new]
    BY <1>2, <2>1 DEF StateType
  <2>7. WordOf(Load(s.mem, a), WSelect(a)) = WordAt(s.mem, a)
    BY <1>1, <2>3, WordOfLine
  <2> QED
    BY <1>4, <2>1, <2>5, <2>6, <2>7 DEF FlatState
<1> QED
  BY <1>5, <1>6, <1>7 DEF ReadOut

(* The memory a write of one word at a leaves.                             *)
Stored(m, a, word) == Store(m, a, PutWord(Load(m, a), WSelect(a), word))

LEMMA WriteFlat ==
    ASSUME ZeroHeap, CodeApart, InsideMemory, NEW s, FlatState(s),
           NEW a \in DataAddrs, LineStart(a),
           NEW word \in Word, NEW t \in WriteOut(s, a, word)
    PROVE  FlatState(t) /\ t.mem = Stored(s.mem, a, word)
<1> DEFINE i == L1Index(a)
           row == s.l1["DATA"][i]
           line == PutWord(Load(s.mem, a), WSelect(a), word)
           e == Entry(1, 0, L1Tag(a), line)
           m2 == Store(s.mem, a, line)
<1>1. /\ a \in Addrs /\ a \in Nat /\ i \in 0 .. L1Lines - 1
      /\ a + LineBytes <= MemBytes /\ ~Outside(a)
      /\ "DATA" \in Access /\ a \in AddrsOf("DATA") /\ a \in Starts("DATA")
      /\ WSelect(a) \in 0 .. WordsPerLine - 1
  BY UsedAddr, IndexType, Sizes DEF AddrsOf, Addrs, Outside, Access, Starts
<1>2. Clean(s) /\ HeldL1(s.mem, s.l1) /\ s.l1 \in L1Array /\ s.mem \in Memory
      /\ StateType(s)
  BY DEF FlatState, Clean, StateType
<1>3. row \in SetOf(L1Ways, Line) /\ DOMAIN row = 0 .. L1Ways - 1
      /\ Sound(row, L1Ways, Line) /\ L1Ways \in Nat \ {0}
  BY <1>1, <1>2, L1RowSound, Sizes
<1>4. Clean(t)
  BY <1>1, <1>2, WriteClean
<1>5. WriteToL2(s, a, word) = {}
  BY <1>1, <1>2, NoL2Hit DEF WriteToL2
<1>6. line \in Line
  BY <1>1, <1>2, LoadType, PutWordType
<1>7. e \in EntriesOf(L1Ways, Line) /\ e.tag = L1Tag(a) /\ e.line = line
  BY <1>1, <1>6, LineEntryType
<1>8. m2 \in Memory /\ Load(m2, a) = line
  BY <1>1, <1>2, <1>6, StoreType, StoreThere
<1>9. ASSUME NEW c \in Access, NEW b \in Starts(c), b # a
      PROVE  Load(m2, b) = Load(s.mem, b)
  BY <1>1, <1>2, <1>6, <1>9, StartType, StoreElsewhere
<1>10. ASSUME NEW c \in Access, NEW b \in Starts(c), c # "DATA" \/ L1Index(b) # i
       PROVE  Load(m2, b) = Load(s.mem, b)
  <2>1. b # a
    BY <1>1, <1>10 DEF Starts, AddrsOf, CodeApart, Access
  <2> QED
    BY <1>9, <2>1
<1>11. m2 = Stored(s.mem, a, word)
  BY DEF Stored
(* Any set that holds the new line and, of the old ones, those with        *)
(* another tag.                                                            *)
<1>12. ASSUME NEW new,
              \A x \in 0 .. L1Ways - 1 : new[x].v = 1 =>
                 \/ new[x].tag = L1Tag(a) /\ new[x].line = Load(m2, a)
                 \/ /\ new[x].tag # L1Tag(a) /\ row[x].v = 1
                    /\ row[x].tag = new[x].tag /\ row[x].line = new[x].line
       PROVE  HeldL1(m2, [s.l1 EXCEPT !["DATA"][i] = new])
  <2> HIDE DEF m2
  <2>1. ASSUME NEW x \in 0 .. L1Ways - 1, new[x].v = 1
        PROVE  \/ \E b \in Starts("DATA") : L1Index(b) = i /\ Holds(m2, new[x], b)
               \/ /\ \A b \in Starts("DATA") :
                        L1Index(b) = i /\ L1Tag(b) = new[x].tag =>
                           Load(m2, b) = Load(s.mem, b)
                  /\ \E y \in 0 .. L1Ways - 1 :
                        row[y].v = 1 /\ row[y].tag = new[x].tag /\ row[y].line = new[x].line
    <3>1. CASE new[x].tag = L1Tag(a) /\ new[x].line = Load(m2, a)
      BY <1>1, <3>1 DEF Holds
    <3>2. CASE /\ new[x].tag # L1Tag(a) /\ row[x].v = 1
               /\ row[x].tag = new[x].tag /\ row[x].line = new[x].line
      BY <1>1, <1>9, <3>2
    <3> QED
      BY <1>12, <2>1, <3>1, <3>2
  <2> QED
    BY <1>1, <1>2, <1>10, <2>1, RowHeld
<1>13. CASE t \in WriteToL1(s, a, word)
  <2>1. PICK w \in HitWays(row, L1Tag(a)) :
           LET hit == PutWord(row[w].line, WSelect(a), word)
           IN  t = [s EXCEPT !.mem = Store(s.mem, a, hit),
                             !.l1["DATA"][i] = Insert(AgeUpdate(row, w), w,
                                                  Entry(1, 0, L1Tag(a), hit))]
    BY <1>1, <1>13 DEF WriteToL1, L1Hit
  <2>2. /\ w \in 0 .. L1Ways - 1 /\ row[w].line = Load(s.mem, a)
        /\ row[w].v = 1 /\ row[w].tag = L1Tag(a)
    <3>1. PICK b \in Starts("DATA") :
             /\ a \div LineBytes = b \div LineBytes
             /\ row[w].line = Load(s.mem, b)
      BY <1>1, HitLine
    <3>2. a = b
      BY <1>1, <3>1, StartType, StartIs
    <3> QED
      BY <1>1, <3>1, <3>2, HitLine
  <2> DEFINE new == Insert(AgeUpdate(row, w), w, e)
  <2>3. t = [s EXCEPT !.mem = m2, !.l1["DATA"][i] = new]
    BY <2>1, <2>2
  <2>4. AgeUpdate(row, w) \in SetOf(L1Ways, Line) /\ SameButAges(row, AgeUpdate(row, w))
    BY <1>3, <2>2, AgeUpdateType
  <2>5. \A x \in 0 .. L1Ways - 1 :
           /\ AgeUpdate(row, w)[x].v = row[x].v
           /\ AgeUpdate(row, w)[x].tag = row[x].tag
           /\ AgeUpdate(row, w)[x].line = row[x].line
    BY <1>3, <2>4, AgedHolds
  <2>6. /\ new[w] = e
        /\ \A x \in 0 .. L1Ways - 1 : x # w => new[x] = AgeUpdate(row, w)[x]
    BY <1>3, <1>7, <2>2, <2>4, InsertType
  <2>7. \A x \in 0 .. L1Ways - 1 : x # w /\ row[x].v = 1 => row[x].tag # L1Tag(a)
    BY <1>3, <2>2 DEF Sound, TagsUnique
  <2> HIDE DEF new, e, line, m2
  <2>8. ASSUME NEW x \in 0 .. L1Ways - 1, new[x].v = 1
        PROVE  \/ new[x].tag = L1Tag(a) /\ new[x].line = Load(m2, a)
               \/ /\ new[x].tag # L1Tag(a) /\ row[x].v = 1
                  /\ row[x].tag = new[x].tag /\ row[x].line = new[x].line
    BY <1>7, <1>8, <2>5, <2>6, <2>7, <2>8
  <2>9. HeldL1(m2, [s.l1 EXCEPT !["DATA"][i] = new])
    BY <1>12, <2>8
  <2>10. t.mem = m2 /\ t.l1 = [s.l1 EXCEPT !["DATA"][i] = new]
    BY <1>2, <2>3 DEF StateType
  <2> QED
    BY <1>4, <1>11, <2>9, <2>10 DEF FlatState
<1>14. CASE t \in WriteToMemory(s, a, word)
  <2> DEFINE new == Replace(row, e, L1Ways)
             placed == [s EXCEPT !.mem = m2, !.l1["DATA"][i] = new]
  <2>1. HitWays(row, L1Tag(a)) = {}
    BY <1>14 DEF WriteToMemory, Miss, L1Hit
  <2>2. t = placed \/ \E row2 : t = [placed EXCEPT !.l2[L2Index(a)] = row2]
    <3>1. \/ t = placed
          \/ t \in {[placed EXCEPT !.l2[L2Index(a)] = Replace(@, f, L2Ways)] :
                       f \in SentToL2(row[Victim(row)])}
      BY <1>1, <1>14 DEF WriteToMemory
    <3> QED
      BY <3>1
  <2>3. \A x \in 0 .. L1Ways - 1 : row[x].v = 1 => row[x].tag # L1Tag(a)
    BY <1>3, <2>1, MissMeansAbsent
  <2> HIDE DEF e, line, m2
  <2>4. \A x \in 0 .. L1Ways - 1 :
           \/ new[x].tag = e.tag /\ new[x].line = e.line
           \/ /\ new[x].v = row[x].v
              /\ new[x].tag = row[x].tag
              /\ new[x].line = row[x].line
    BY <1>3, <1>7, FillHolds
  <2> HIDE DEF new
  <2>5. ASSUME NEW x \in 0 .. L1Ways - 1, new[x].v = 1
        PROVE  \/ new[x].tag = L1Tag(a) /\ new[x].line = Load(m2, a)
               \/ /\ new[x].tag # L1Tag(a) /\ row[x].v = 1
                  /\ row[x].tag = new[x].tag /\ row[x].line = new[x].line
    BY <1>7, <1>8, <2>3, <2>4, <2>5
  <2>6. HeldL1(m2, [s.l1 EXCEPT !["DATA"][i] = new])
    BY <1>12, <2>5
  <2>7. placed.mem = m2 /\ placed.l1 = [s.l1 EXCEPT !["DATA"][i] = new]
        /\ "l2" \in DOMAIN placed
    BY <1>2 DEF StateType
  <2>8. t.mem = m2 /\ t.l1 = [s.l1 EXCEPT !["DATA"][i] = new]
    <3>1. CASE t = placed
      BY <2>7, <3>1
    <3>2. ASSUME NEW row2, t = [placed EXCEPT !.l2[L2Index(a)] = row2]
          PROVE  t.mem = placed.mem /\ t.l1 = placed.l1
      BY <1>2, <3>2 DEF StateType
    <3> QED
      BY <2>2, <2>7, <3>1, <3>2
  <2> QED
    BY <1>4, <1>11, <2>6, <2>8 DEF FlatState
<1> QED
  BY <1>5, <1>13, <1>14 DEF WriteOut
-----------------------------------------------------------------------------
(* What the paths do to memory is what FlatMemory says.                    *)

LEMMA FlatStore ==
    ASSUME NEW m \in Memory, NEW a \in Nat, WSelect(a) = 0, NEW word \in Word
    PROVE  Stored(m, a, word) =
             [x \in DOMAIN m |->
                IF a <= x /\ x < a + WordBytes THEN word[x - a] ELSE m[x]]
<1> DEFINE line == PutWord(Load(m, a), 0, word)
<1>1. ASSUME NEW x \in DOMAIN m
      PROVE  (IF a <= x /\ x < a + LineBytes THEN line[x - a] ELSE m[x])
               = IF a <= x /\ x < a + WordBytes THEN word[x - a] ELSE m[x]
  <2>1. x \in Nat
    BY LineHasWord DEF Memory
  <2>2. CASE a <= x /\ x < a + LineBytes
    <3>1. x - a \in 0 .. LineBytes - 1 /\ a + (x - a) = x
      BY <2>1, <2>2, LineHasWord
    <3>2. line[x - a] = IF 0 * WordBytes <= x - a /\ x - a < (0 + 1) * WordBytes
                        THEN word[(x - a) - 0 * WordBytes] ELSE m[x]
      BY <3>1 DEF PutWord, Load
    <3>3. 0 * WordBytes = 0 /\ (0 + 1) * WordBytes = WordBytes /\ (x - a) - 0 = x - a
      BY <2>1, LineHasWord
    <3> QED
      BY <2>1, <2>2, <3>1, <3>2, <3>3, LineHasWord
  <2>3. CASE ~(a <= x /\ x < a + LineBytes)
    BY <2>1, <2>3, LineHasWord
  <2> QED
    BY <2>2, <2>3
<1> HIDE DEF line
<1>2. Stored(m, a, word) = Store(m, a, line)
  BY DEF Stored, line
<1> QED
  BY <1>1, <1>2 DEF Store

(* The OR of a byte that has all the ones of the old one is a write of it. *)
LEMMA FlatByte ==
    ASSUME NEW m \in Memory, NEW a \in Nat, a + LineBytes <= MemBytes, LineStart(a),
           NEW b \in Byte, m[a] \subseteq b
    PROVE  /\ OrByte(WordAt(m, a), 0, b) \in Word
           /\ Stored(m, a, OrByte(WordAt(m, a), 0, b)) = [m EXCEPT ![a] = b]
<1> DEFINE old == WordAt(m, a)
           word == OrByte(old, 0, b)
<1>1. /\ WordBytes \in Nat \ {0} /\ 0 \in 0 .. WordsPerLine - 1 /\ 0 \in 0 .. WordBytes - 1
      /\ WSelect(a) = 0 /\ a % WordBytes = 0
  BY Sizes, StartWord
<1>2. old = [i \in 0 .. WordBytes - 1 |-> m[a + i]] /\ old \in Word
  <2>1. a - 0 = a
    OBVIOUS
  <2>2. old = [i \in 0 .. WordBytes - 1 |-> m[a + i]]
    BY <1>1, <2>1 DEF WordAt
  <2>3. old = WordOf(Load(m, a), WSelect(a))
    BY WordOfLine
  <2> QED
    BY <1>1, <2>2, <2>3, LoadType, WordOfType
<1>3. word \in Word
  BY <1>1, <1>2, OrByteType
<1>4. \A i \in 0 .. WordBytes - 1 : word[i] = IF i = 0 THEN b ELSE m[a + i]
  <2>1. a + 0 = a
    OBVIOUS
  <2>2. old[0] = m[a]
    BY <1>1, <1>2, <2>1
  <2>3. word[0] = old[0] \cup b
    BY <1>1, <1>2 DEF OrByte
  <2>4. word[0] = b
    BY <2>2, <2>3
  <2>5. \A i \in 0 .. WordBytes - 1 : i # 0 => word[i] = m[a + i]
    BY <1>1, <1>2 DEF OrByte
  <2> QED
    BY <2>4, <2>5
<1> HIDE DEF old, word
<1>5. Stored(m, a, word) =
         [x \in DOMAIN m |->
            IF a <= x /\ x < a + WordBytes THEN word[x - a] ELSE m[x]]
  BY <1>1, <1>3, FlatStore
<1>6. ASSUME NEW x \in DOMAIN m
      PROVE  (IF a <= x /\ x < a + WordBytes THEN word[x - a] ELSE m[x])
               = [m EXCEPT ![a] = b][x]
  <2>1. x \in Nat
    BY LineHasWord DEF Memory
  <2>2. CASE a <= x /\ x < a + WordBytes
    <3>1. x - a \in 0 .. WordBytes - 1 /\ a + (x - a) = x /\ (x - a = 0 <=> x = a)
      BY <1>1, <2>1, <2>2
    <3> QED
      BY <1>4, <2>2, <3>1
  <2>3. CASE ~(a <= x /\ x < a + WordBytes)
    <3>1. x # a
      BY <1>1, <2>1, <2>3
    <3> QED
      BY <2>3, <3>1
  <2> QED
    BY <2>2, <2>3
<1>7. Stored(m, a, word) = [x \in DOMAIN m |-> [m EXCEPT ![a] = b][x]]
  BY <1>5, <1>6
<1>8. Stored(m, a, word) = [m EXCEPT ![a] = b]
  BY <1>7 DEF Memory
<1> QED
  BY <1>3, <1>8 DEF word, old
-----------------------------------------------------------------------------
(* The specification.                                                      *)

FlatInv == CleanInv /\ HeldL1(mem, l1)

LEMMA FlatInvState == FlatInv <=> FlatState(State) /\ OutType
BY StateFields DEF FlatInv, CleanInv, FlatState

LEMMA BecomeMem ==
    ASSUME NEW s, StateType(s), Become(s)
    PROVE  State' = s /\ mem' = s.mem
BY BecomeState DEF Become

LEMMA InitFlat == ASSUME Init PROVE FlatInv /\ Flat!Init
<1>1. HeldL1(mem, l1)
  BY DEF Init, Empty, Entry, HeldL1
<1> QED
  BY <1>1, EmptyClean
     DEF FlatInv, Init, Done, Result, NoWord, NoAddr,
         Flat!Init, Flat!Done, Flat!Answer, Flat!NoAddr

LEMMA ReadStepFlat ==
    ASSUME InsideMemory, FlatInv, NEW ac \in Access, NEW a \in AddrsOf(ac),
           MayRead(ac, a), Read(ac, a)
    PROVE  FlatState(State') /\ Flat!Read(a)
<1>1. PICK o \in ReadOut(State, ac, a) : Become(o.s) /\ out' = Result(a, o.word)
  BY DEF Read, ReadL1Hit, ReadL2Hit, ReadMiss, Delivers, ReadOut
<1>2. FlatState(o.s) /\ o.s.mem = mem /\ o.word = WordAt(mem, a)
  BY FlatInvState, StateFields, ReadFlat DEF MayRead, CanRead
<1>3. State' = o.s /\ mem' = mem
  BY <1>1, <1>2, BecomeMem DEF FlatState, Clean
<1> QED
  BY <1>1, <1>2, <1>3 DEF Flat!Read, Flat!Answer, Result, WordAt

LEMMA ReadByteStepFlat ==
    ASSUME InsideMemory, FlatInv, NEW ac \in Access, NEW a \in AddrsOf(ac),
           MayRead(ac, a), ReadByte(ac, a)
    PROVE  FlatState(State') /\ Flat!ReadByte(a)
<1>1. PICK o \in ReadOut(State, ac, a) : \E word \in Received(o) :
         /\ Become(o.s)
         /\ out' = Result(a, IF o.s.oob THEN NoWord
                             ELSE [i \in {0} |-> word[a % WordBytes]])
  BY DEF ReadByte
<1>2. FlatState(o.s) /\ o.s.mem = mem /\ o.word = WordAt(mem, a)
  BY FlatInvState, StateFields, ReadFlat DEF MayRead, CanRead
<1>3. State' = o.s /\ mem' = mem
  BY <1>1, <1>2, BecomeMem DEF FlatState, Clean
<1>4. a \in Nat /\ a % WordBytes \in 0 .. WordBytes - 1 /\ 0 \in 0 .. WordBytes - 1
  <2>1. a \in Addrs
    BY DEF AddrsOf, Addrs
  <2>2. a \in Nat /\ WordBytes \in Nat \ {0}
    BY <2>1, UsedAddr, Sizes
  <2>3. a % WordBytes \in 0 .. WordBytes - 1
    BY <2>2, IndexType
  <2> QED
    BY <2>2, <2>3
<1>5. o.word[a % WordBytes] = mem[a]
  <2>1. a - (a % WordBytes) + (a % WordBytes) = a
    BY <1>4
  <2> QED
    BY <1>2, <1>4, <2>1 DEF WordAt
<1>6. o.word # NoWord
  <2>1. DOMAIN o.word # DOMAIN NoWord
    BY <1>2, <1>4 DEF NoWord, WordAt
  <2> QED
    BY <2>1
<1>7. out' = Result(a, [i \in {0} |-> mem[a]])
  BY <1>1, <1>2, <1>5, <1>6 DEF Received, FlatState, Clean
<1> QED
  BY <1>2, <1>3, <1>7 DEF Flat!ReadByte, Flat!Answer, Result

LEMMA WriteStepFlat ==
    ASSUME ZeroHeap, CodeApart, InsideMemory, FlatInv, NEW a \in DataAddrs, LineStart(a),
           NEW word \in WriteWords, Write(a, word)
    PROVE  FlatState(State') /\ Flat!Write(a, word)
<1>1. PICK t \in WriteOut(State, a, word) : Become(t) /\ out' = Done
  BY DEF Write, WriteL1Hit, WriteL2Hit, WriteMiss, Completes, WriteOut
<1>2. word \in Word /\ a \in Nat /\ WSelect(a) = 0 /\ mem \in Memory
  BY UseAssumption, UsedAddr, StartWord, CleanMeans DEF Addrs, FlatInv, TypeOK
<1>3. FlatState(t) /\ t.mem = Stored(mem, a, word)
  BY <1>2, FlatInvState, StateFields, WriteFlat
<1>4. State' = t /\ mem' = t.mem
  BY <1>1, <1>3, BecomeMem DEF FlatState, Clean
<1> QED
  BY <1>1, <1>2, <1>3, <1>4, FlatStore
     DEF Flat!Write, Flat!Done, Flat!Answer, Flat!NoAddr, Done, Result, NoWord, NoAddr

LEMMA WriteByteStepFlat ==
    ASSUME ZeroHeap, CodeApart, InsideMemory, FlatInv, NEW a \in DataAddrs,
           NEW b \in WriteBytes, MayWriteByte(a, b), WriteByte(a, b)
    PROVE  FlatState(State') /\ Flat!WriteByte(a, b)
<1>1. PICK t \in WriteByteOut(State, a, b) : Become(t) /\ out' = Done
  BY DEF WriteByte, Completes
<1>2. /\ a \in Nat /\ a + LineBytes <= MemBytes /\ LineStart(a)
      /\ a % WordBytes = 0 /\ 0 \in 0 .. WordBytes - 1
      /\ b \in Byte /\ a \in AddrsOf("DATA") /\ "DATA" \in Access
  BY UsedAddr, StartWord, Sizes, UseAssumption DEF Addrs, AddrsOf, Access, MayWriteByte
<1>3. mem \in Memory
  BY CleanMeans DEF FlatInv, TypeOK
<1>4. PICK o \in ReadOut(State, "DATA", a) :
         \/ o.s.oob /\ t = o.s
         \/ \E word \in Received(o) :
               t \in WriteOut(o.s, a, OrByte(word, a % WordBytes, b))
  BY DEF WriteByteOut
<1>5. FlatState(o.s) /\ o.s.mem = mem /\ o.word = WordAt(mem, a)
  BY <1>2, FlatInvState, StateFields, ReadFlat DEF CanRead
<1>6. o.word # NoWord
  <2>1. DOMAIN o.word # DOMAIN NoWord
    BY <1>2, <1>5 DEF NoWord, WordAt
  <2> QED
    BY <2>1
<1> DEFINE word == OrByte(WordAt(mem, a), 0, b)
<1>7. t \in WriteOut(o.s, a, word)
  BY <1>2, <1>4, <1>5, <1>6 DEF Received, FlatState, Clean
<1>8. word \in Word /\ Stored(mem, a, word) = [mem EXCEPT ![a] = b]
  BY <1>2, <1>3, FlatByte DEF MayWriteByte
<1> HIDE DEF word
<1>9. FlatState(t) /\ t.mem = Stored(mem, a, word)
  <2>1. FlatState(o.s) /\ LineStart(a) /\ word \in Word
    BY <1>2, <1>5, <1>8
  <2>2. FlatState(t) /\ t.mem = Stored(o.s.mem, a, word)
    BY <2>1, <1>7, WriteFlat
  <2> QED
    BY <2>2, <1>5
<1>10. State' = t /\ mem' = t.mem
  BY <1>1, <1>9, BecomeMem DEF FlatState, Clean
<1> QED
  BY <1>1, <1>8, <1>9, <1>10
     DEF Flat!WriteByte, Flat!Done, Flat!Answer, Flat!NoAddr, Done, Result, NoWord, NoAddr

LEMMA FlushStepFlat ==
    ASSUME FlatInv, NEW cache \in FlushCaches, Flush(cache)
    PROVE  FlatState(State') /\ Flat!Nothing
<1>1. Clean(State')
  BY FlushClean DEF FlatInv, CleanInv
<1>2. mem' = mem /\ out' = Done
  BY DEF Flush
<1>3. HeldL1(mem', l1')
  <2>1. CASE cache = "L2"
    BY <1>2, <2>1 DEF Flush, FlatInv
  <2>2. CASE cache # "L2"
    <3>1. cache \in Access /\ l1' = [l1 EXCEPT ![cache] = Flushed(l1[cache])]
      BY <2>2, UseAssumption DEF Flush
    <3>2. l1 \in L1Array
      BY StateFields DEF FlatInv, CleanInv, Clean, StateType
    <3>3. ASSUME NEW ac \in Access, NEW i \in 0 .. L1Lines - 1, NEW w \in 0 .. L1Ways - 1
          PROVE  l1'[ac][i][w] = l1[ac][i][w] \/ l1'[ac][i][w].v = 0
      <4>1. CASE ac # cache
        BY <3>1, <3>2, <4>1 DEF L1Array
      <4>2. CASE ac = cache
        <5>1. l1[ac] \in [0 .. L1Lines - 1 -> SetOf(L1Ways, Line)]
          BY <3>2 DEF L1Array
        <5>2. l1'[ac] = Flushed(l1[ac])
          BY <3>1, <3>2, <4>2 DEF L1Array
        <5>3. L1Ways \in Nat \ {0} /\ L1Lines \in Nat
          BY Sizes
        <5>4. \A j \in 0 .. L1Lines - 1 : \A x \in 0 .. L1Ways - 1 :
                 Flushed(l1[ac])[j][x].v = 0
          BY <5>1, <5>3, FlushedRow
        <5> QED
          BY <5>2, <5>4
      <4> QED
        BY <4>1, <4>2
    <3>4. ASSUME NEW ac \in Access, NEW i \in 0 .. L1Lines - 1, NEW w \in 0 .. L1Ways - 1,
                 l1'[ac][i][w].v = 1
          PROVE  \E a \in Starts(ac) : L1Index(a) = i /\ Holds(mem', l1'[ac][i][w], a)
      <4>1. l1'[ac][i][w] = l1[ac][i][w]
        BY <3>3, <3>4
      <4>2. PICK a \in Starts(ac) : L1Index(a) = i /\ Holds(mem, l1[ac][i][w], a)
        BY <3>4, <4>1 DEF FlatInv, HeldL1
      <4> QED
        BY <1>2, <4>1, <4>2
    <3> QED
      BY <3>4 DEF HeldL1
  <2> QED
    BY <2>1, <2>2
<1>4. FlatState(State')
  BY <1>1, <1>3 DEF FlatState, State
<1> QED
  BY <1>2, <1>4
     DEF Flat!Nothing, Flat!Done, Flat!Answer, Flat!NoAddr, Done, Result, NoWord, NoAddr

(* A careful program is a program.                                         *)
LEMMA CarefulIsUse == ASSUME [CarefulNext]_vars PROVE [Next]_vars
BY DEF CarefulNext, Next

(* Every step of a careful program keeps what L1 holds and is a step, or a *)
(* stuttering step, of the flat memory.                                    *)
LEMMA NextFlat ==
    ASSUME ZeroHeap, CodeApart, InsideMemory, FlatInv, [CarefulNext]_vars
    PROVE  FlatInv' /\ [Flat!Next]_<<mem, out>>
<1>1. CleanInv'
  BY CarefulIsUse, NextClean DEF FlatInv
<1>2. SUFFICES HeldL1(mem', l1') /\ [Flat!Next]_<<mem, out>>
  BY <1>1 DEF FlatInv
<1>3. FlatState(State') => HeldL1(mem', l1')
  BY DEF FlatState, State
<1>4. ASSUME NEW ac \in Access, NEW a \in AddrsOf(ac), MayRead(ac, a),
             Read(ac, a) \/ ReadByte(ac, a)
      PROVE  HeldL1(mem', l1') /\ Flat!Next
  <2>1. a \in FetchAddrs \cup DataAddrs
    BY DEF AddrsOf
  <2> QED
    BY <1>3, <1>4, <2>1, ReadStepFlat, ReadByteStepFlat DEF Flat!Next
<1>5. ASSUME NEW a \in DataAddrs, NEW word \in WriteWords, LineStart(a), Write(a, word)
      PROVE  HeldL1(mem', l1') /\ Flat!Next
  BY <1>3, <1>5, WriteStepFlat DEF Flat!Next
<1>6. ASSUME NEW a \in DataAddrs, NEW b \in WriteBytes, MayWriteByte(a, b), WriteByte(a, b)
      PROVE  HeldL1(mem', l1') /\ Flat!Next
  BY <1>3, <1>6, WriteByteStepFlat DEF Flat!Next
<1>7. ASSUME NEW cache \in FlushCaches, Flush(cache)
      PROVE  HeldL1(mem', l1') /\ Flat!Next
  BY <1>3, <1>7, FlushStepFlat DEF Flat!Next
<1>8. CASE UNCHANGED vars
  BY <1>8 DEF vars, FlatInv
<1> QED
  BY <1>4, <1>5, <1>6, <1>7, <1>8 DEF CarefulNext

LEMMA HeldIsItsLine ==
    ASSUME InsideMemory, HeldL1(mem, l1) PROVE HoldsItsLine
<1>1. ASSUME NEW ac \in Access, NEW i \in 0 .. L1Lines - 1, NEW w \in 0 .. L1Ways - 1,
             l1[ac][i][w].v = 1
      PROVE  l1[ac][i][w].line = Load(mem, l1[ac][i][w].tag * L1Span + i * LineBytes)
  <2>1. PICK a \in Starts(ac) : L1Index(a) = i /\ Holds(mem, l1[ac][i][w], a)
    BY <1>1 DEF HeldL1
  <2>2. L1Tag(a) * L1Span + L1Index(a) * LineBytes = a
    BY StartType, NamedByTag
  <2> QED
    BY <2>1, <2>2 DEF Holds
<1> QED
  BY <1>1 DEF HoldsItsLine

(* With malloc handing out zeroed memory, lines inside memory and code     *)
(* apart from data: a careful program always finds in a valid L1 line the  *)
(* memory of that line, whatever it evicts, flushes and writes elsewhere.  *)
THEOREM LinesHeld ==
    ASSUME ZeroHeap, InsideMemory, CodeApart
    PROVE  CarefulSpec => []HoldsItsLine
<1>1. Init => FlatInv
  BY InitFlat
<1>2. FlatInv /\ [CarefulNext]_vars => FlatInv'
  BY NextFlat
<1>3. FlatInv => HoldsItsLine
  BY HeldIsItsLine DEF FlatInv
<1> QED
  BY <1>1, <1>2, <1>3, PTL DEF CarefulSpec

(* Under the same conditions the hierarchy implements a flat memory of     *)
(* bytes: a careful program cannot tell that there are caches.             *)
THEOREM CachesAreTransparent ==
    ASSUME ZeroHeap, InsideMemory, CodeApart
    PROVE  CarefulSpec => ImplementsFlatMemory
<1>1. Init => FlatInv /\ Flat!Init
  BY InitFlat
<1>2. FlatInv /\ [CarefulNext]_vars => FlatInv' /\ [Flat!Next]_<<mem, out>>
  BY NextFlat
<1> QED
  BY <1>1, <1>2, PTL DEF CarefulSpec, ImplementsFlatMemory, Flat!Spec
-----------------------------------------------------------------------------
(* The simulator: what its commands do to the caches, and the caches to    *)
(* the tables its walks read.                                              *)

LEMMA CommandUse ==
    ASSUME NEW c \in Commands, Careful(c), Execute(c)
    PROVE  /\ Address(c) \in AddrsOf(c.type) /\ c.type \in Access
           /\ c.order = "WRITE" => Address(c) \in DataAddrs
BY CommandAssumption DEF Careful, Translates, Execute, Address, AddrsOf

(* A command a careful program executes is a careful call of cache_mng.h.  *)
LEMMA ExecuteIsCall ==
    ASSUME NEW c \in Commands, Careful(c), Execute(c)
    PROVE  CarefulNext
<1> DEFINE a == Address(c)
<1>1. a \in AddrsOf(c.type) /\ c.type \in Access
  BY CommandUse
<1>2. CASE c.order = "READ" /\ (Read(c.type, a) \/ ReadByte(c.type, a))
  <2>1. MayRead(c.type, a)
    BY <1>2 DEF Careful
  <2> QED
    BY <1>1, <1>2, <2>1 DEF CarefulNext
<1>3. CASE c.order = "WRITE" /\ c.size = WordBytes /\ Write(a, c.data)
  <2>1. a \in DataAddrs /\ c.data \in WriteWords /\ LineStart(a)
    BY <1>3, CommandUse, CommandAssumption DEF Careful
  <2> QED
    BY <1>3, <2>1 DEF CarefulNext
<1>4. CASE /\ c.order = "WRITE" /\ c.size # WordBytes
           /\ WriteByte(a, c.data) \/ WriteByteZero(c.data)
  <2>1. a \in DataAddrs /\ c.data \in WriteBytes /\ MayWriteByte(a, c.data)
    BY <1>4, CommandUse, CommandAssumption DEF Careful
  <2>2. ~WriteByteZero(c.data)
    BY <2>1 DEF MayWriteByte, WriteByteZero
  <2> QED
    BY <1>4, <2>1, <2>2 DEF CarefulNext
<1> QED
  BY <1>2, <1>3, <1>4 DEF Execute, Perform

LEMMA StepIsCall ==
    ASSUME [CarefulStep]_machineVars
    PROVE  [CarefulNext]_vars
<1>1. ASSUME NEW c \in Commands, Careful(c), Execute(c) PROVE CarefulNext
  BY <1>1, ExecuteIsCall
<1>2. ASSUME NEW c \in Commands, Abort(c) PROVE UNCHANGED vars
  BY <1>2 DEF Abort
<1>3. CASE UNCHANGED machineVars
  BY <1>3 DEF machineVars
<1> QED
  BY <1>1, <1>2, <1>3 DEF CarefulStep

(* The simulator of a careful program, its translations included, is a     *)
(* careful use of the caches.                                              *)
THEOREM MachineUsesCache == CarefulMachine => CarefulSpec
<1>1. Boot => Init
  BY DEF Boot
<1>2. [CarefulStep]_machineVars => [CarefulNext]_vars
  BY StepIsCall
<1> QED
  BY <1>1, <1>2, PTL DEF CarefulMachine, CarefulSpec

(* So its L1 lines are the memory of their lines, although it walks the    *)
(* memory and not the caches, and stores into the tables it walks.         *)
THEOREM MachineLinesHeld ==
    ASSUME ZeroHeap, InsideMemory, CodeApart
    PROVE  CarefulMachine => []HoldsItsLine
BY MachineUsesCache, LinesHeld, PTL

(* And a careful program cannot tell that there are caches, even if it     *)
(* changes its own translations.                                           *)
THEOREM MachineTransparent ==
    ASSUME ZeroHeap, InsideMemory, CodeApart
    PROVE  CarefulMachine => ImplementsFlatMemory
BY MachineUsesCache, CachesAreTransparent, PTL
-----------------------------------------------------------------------------
(* The bytes a walk reads decide where it leads.                           *)

(* The bytes of the entries a walk reads, inside memory.                   *)
LEMMA EntryAt ==
    ASSUME NEW k \in 0 .. MemBytes \div PteBytes - 1, NEW i \in 0 .. PteBytes - 1
    PROVE  k * PteBytes + i \in 0 .. MemBytes - 1
<1> DEFINE B == PteBytes
           n == MemBytes \div PteBytes
<1>1. B \in Nat \ {0} /\ MemBytes \in Nat
  BY PagingAssumption, UseAssumption
<1>2. n \in Nat /\ n * B <= MemBytes
  <2>1. \A m \in Nat, b \in Nat \ {0} : m \div b \in Nat /\ m = (m \div b) * b + (m % b)
                                        /\ m % b \in 0 .. b - 1
    OBVIOUS
  <2> QED
    BY <1>1, <2>1
<1> HIDE DEF B, n
<1>3. k \in Nat /\ k + 1 <= n
  BY <1>2 DEF n
<1>4. (k + 1) * B <= n * B /\ (k + 1) * B = k * B + B /\ k * B \in Nat
  BY <1>1, <1>2, <1>3
<1>5. i \in 0 .. B - 1
  BY DEF B
<1>6. k * B + i \in 0 .. MemBytes - 1
  BY <1>1, <1>2, <1>4, <1>5
<1> QED
  BY <1>6 DEF B

LEMMA SameEntry ==
    ASSUME NEW m, NEW n, NEW k \in 0 .. MemBytes \div PteBytes - 1,
           \A i \in 0 .. PteBytes - 1 : m[k * PteBytes + i] = n[k * PteBytes + i]
    PROVE  Ptes(m)[k] = Ptes(n)[k]
<1>1. [i \in 0 .. PteBytes - 1 |-> m[k * PteBytes + i]]
         = [i \in 0 .. PteBytes - 1 |-> n[k * PteBytes + i]]
  OBVIOUS
<1> QED
  BY <1>1 DEF Ptes, Entry32

(* Two memories that agree on the bytes a walk of one of them reads.       *)
Agree(m, n, B) == \A x \in 0 .. MemBytes - 1 : x \in B => m[x] = n[x]

LEMMA SameBytes ==
    ASSUME NEW m, NEW n, NEW start, NEW index,
           start \div PteBytes + index \in 0 .. MemBytes \div PteBytes - 1,
           Agree(m, n, {(start \div PteBytes + index) * PteBytes + i : i \in 0 .. PteBytes - 1})
    PROVE  ReadPageEntry(Ptes(m), start, index) = ReadPageEntry(Ptes(n), start, index)
<1> DEFINE k == start \div PteBytes + index
<1>1. \A i \in 0 .. PteBytes - 1 : m[k * PteBytes + i] = n[k * PteBytes + i]
  BY EntryAt DEF Agree
<1> QED
  BY <1>1, SameEntry DEF ReadPageEntry

LEMMA AgreeIsSameWalk ==
    ASSUME NEW m, NEW n, NEW va, WalkInside(m, va), Agree(m, n, EntryBytes(m, va))
    PROVE  /\ Walks(Ptes(m), va) <=> Walks(Ptes(n), va)
           /\ Walks(Ptes(m), va) =>
                /\ PageOf(Ptes(m), va) = PageOf(Ptes(n), va)
                /\ EntryBytes(m, va) = EntryBytes(n, va)
           /\ WalkInside(n, va)
<1> DEFINE p == Ptes(m)
           q == Ptes(n)
           K == 0 .. MemBytes \div PteBytes - 1
           bytes(start, index) ==
              {(start \div PteBytes + index) * PteBytes + i : i \in 0 .. PteBytes - 1}
<1>1. DOMAIN p = K /\ DOMAIN q = K
  BY DEF Ptes
<1>2. EntryBytes(m, va) = bytes(0, va.pgd) \cup bytes(Pud(p, va), va.pud)
                            \cup bytes(Pmd(p, va), va.pmd) \cup bytes(Pte(p, va), va.pte)
  BY DEF EntryBytes
<1>3. Pud(p, va) = Pud(q, va)
  <2>1. 0 \div PteBytes + va.pgd \in K
    BY <1>1 DEF WalkInside
  <2>2. Agree(m, n, bytes(0, va.pgd))
    BY <1>2 DEF Agree
  <2> QED
    BY <2>1, <2>2, SameBytes DEF Pud
<1>4. ASSUME PageAligned(Pud(p, va)) PROVE Pmd(p, va) = Pmd(q, va)
  <2>1. Pud(p, va) \div PteBytes + va.pud \in K
    BY <1>1, <1>4 DEF WalkInside
  <2>2. Agree(m, n, bytes(Pud(p, va), va.pud))
    BY <1>2 DEF Agree
  <2> QED
    BY <1>3, <2>1, <2>2, SameBytes DEF Pmd
<1>5. ASSUME PageAligned(Pud(p, va)), PageAligned(Pmd(p, va)) PROVE Pte(p, va) = Pte(q, va)
  <2>1. Pmd(p, va) \div PteBytes + va.pmd \in K
    BY <1>1, <1>5 DEF WalkInside
  <2>2. Agree(m, n, bytes(Pmd(p, va), va.pmd))
    BY <1>2 DEF Agree
  <2> QED
    BY <1>4, <1>5, <2>1, <2>2, SameBytes DEF Pte
<1>6. ASSUME PageAligned(Pud(p, va)), PageAligned(Pmd(p, va)), PageAligned(Pte(p, va))
      PROVE  Physical(p, va) = Physical(q, va)
  <2>1. Pte(p, va) \div PteBytes + va.pte \in K
    BY <1>1, <1>6 DEF WalkInside
  <2>2. Agree(m, n, bytes(Pte(p, va), va.pte))
    BY <1>2 DEF Agree
  <2> QED
    BY <1>5, <1>6, <2>1, <2>2, SameBytes DEF Physical
<1>7. WalkInside(n, va)
  BY <1>1, <1>3, <1>4, <1>5 DEF WalkInside
<1>8. EntryBytes(n, va) = bytes(0, va.pgd) \cup bytes(Pud(q, va), va.pud)
                            \cup bytes(Pmd(q, va), va.pmd) \cup bytes(Pte(q, va), va.pte)
  BY DEF EntryBytes
<1> HIDE DEF p, q, bytes
<1>9. Walks(p, va) <=> Walks(q, va)
  BY <1>3, <1>4, <1>5, <1>6 DEF Walks
<1>10. ASSUME Walks(p, va)
       PROVE  PageOf(p, va) = PageOf(q, va) /\ EntryBytes(m, va) = EntryBytes(n, va)
  BY <1>2, <1>3, <1>4, <1>5, <1>6, <1>8, <1>10 DEF Walks, PageOf
<1> QED
  BY <1>7, <1>9, <1>10 DEF p, q

(* Where memory changes when a command is executed: within the data it     *)
(* writes, although every store copies a whole line.                       *)
Written(m, c) ==
    LET a == PhysicalAddress(Ptes(m), c.vaddr)
    IN  IF c.order = "WRITE" THEN a .. a + c.size - 1 ELSE {}

LEMMA ExecuteWrites ==
    ASSUME ZeroHeap, CodeApart, InsideMemory, FlatInv, NEW c \in Commands,
           Careful(c), Execute(c), NEW x \in 0 .. MemBytes - 1,
           x \notin Written(mem, c)
    PROVE  mem'[x] = mem[x]
<1> DEFINE a == Address(c)
<1>1. a \in AddrsOf(c.type) /\ c.type \in Access
  BY CommandUse
<1>2. DOMAIN mem = 0 .. MemBytes - 1 /\ mem \in Memory
  BY CleanMeans DEF FlatInv, TypeOK, Memory
<1>3. CASE c.order = "READ" /\ (Read(c.type, a) \/ ReadByte(c.type, a))
  <2>1. MayRead(c.type, a)
    BY <1>3 DEF Careful
  <2> QED
    BY <1>1, <1>3, <2>1, ReadStepFlat, ReadByteStepFlat DEF Flat!Read, Flat!ReadByte
<1>4. ASSUME c.order = "WRITE"
      PROVE  a \in DataAddrs /\ x \notin a .. a + c.size - 1 /\ a \in Nat
  BY <1>4, CommandUse, UsedAddr DEF Written, Address, Addrs
<1>5. CASE c.order = "WRITE" /\ c.size = WordBytes /\ Write(a, c.data)
  <2>1. c.data \in WriteWords /\ LineStart(a)
    BY <1>5, CommandAssumption DEF Careful
  <2>2. Flat!Write(a, c.data)
    BY <1>4, <1>5, <2>1, WriteStepFlat
  <2>3. mem'[x] = IF a <= x /\ x < a + WordBytes THEN c.data[x - a] ELSE mem[x]
    BY <1>2, <2>2 DEF Flat!Write
  <2>4. ~(a <= x /\ x < a + WordBytes)
    BY <1>4, <1>5, Sizes
  <2> QED
    BY <2>3, <2>4
<1>6. CASE /\ c.order = "WRITE" /\ c.size # WordBytes
           /\ WriteByte(a, c.data) \/ WriteByteZero(c.data)
  <2>1. c.data \in WriteBytes /\ c.size = 1 /\ MayWriteByte(a, c.data)
    BY <1>6, CommandAssumption DEF Careful
  <2>2. x # a
    BY <1>4, <1>6, <2>1
  <2>3. WriteByte(a, c.data)
    BY <1>6, <2>1 DEF MayWriteByte, WriteByteZero
  <2>4. Flat!WriteByte(a, c.data)
    BY <1>4, <1>6, <2>1, <2>3, WriteByteStepFlat
  <2> QED
    BY <1>2, <2>2, <2>4 DEF Flat!WriteByte
<1> QED
  BY <1>3, <1>5, <1>6 DEF Execute, Perform

(* A step that changes no byte a walk reads changes nothing about it.      *)
LEMMA ExecuteSpares ==
    ASSUME ZeroHeap, CodeApart, InsideMemory, FlatInv, NEW c \in Commands,
           Careful(c), Execute(c), NEW va,
           Written(mem, c) \cap EntryBytes(mem, va) = {}
    PROVE  Agree(mem, mem', EntryBytes(mem, va))
BY ExecuteWrites DEF Agree

LEMMA LiesSame ==
    ASSUME NEW m, NEW n, NEW va, WalkInside(m, va), Agree(m, n, EntryBytes(m, va))
    PROVE  Lies(m, va) = Lies(n, va)
BY AgreeIsSameWalk DEF Lies

(* Only a store into an entry its walk reads moves a virtual address, or   *)
(* makes it mapped or unmapped, in a careful program.                      *)
THEOREM TranslationsAreStable ==
    ASSUME ZeroHeap, InsideMemory, CodeApart
    PROVE  CarefulMachine => TranslationsStable
<1>1. Boot => FlatInv
  BY InitFlat DEF Boot
<1>2. FlatInv /\ [CarefulStep]_machineVars => FlatInv'
  BY StepIsCall, NextFlat
<1>3. ASSUME FlatInv, CarefulStep, NEW va \in {c.vaddr : c \in Commands},
             WalkInside(mem, va), mem' # mem, Lies(mem, va) # Lies(mem', va)
      PROVE  \E w \in Commands :
                /\ w.order = "WRITE"
                /\ (Address(w) .. Address(w) + w.size - 1) \cap EntryBytes(mem, va) # {}
                /\ Execute(w)
  <2>1. PICK w \in Commands : Careful(w) /\ Execute(w)
    BY <1>3 DEF CarefulStep, Abort, vars
  <2>2. Written(mem, w) \cap EntryBytes(mem, va) # {}
    <3>1. SUFFICES ASSUME Written(mem, w) \cap EntryBytes(mem, va) = {}
                   PROVE  FALSE
      OBVIOUS
    <3> DEFINE n == mem'
    <3>2. Agree(mem, n, EntryBytes(mem, va)) /\ Lies(mem, va) # Lies(n, va)
      BY <1>3, <2>1, <3>1, ExecuteSpares
    <3> HIDE DEF n
    <3> QED
      BY <1>3, <3>2, LiesSame
  <2> QED
    BY <2>1, <2>2 DEF Written, Address
<1>4. FlatInv /\ [CarefulStep]_machineVars =>
        [\A va \in {c.vaddr : c \in Commands} :
            WalkInside(mem, va) /\ mem' # mem /\ Lies(mem, va) # Lies(mem', va) =>
               \E w \in Commands :
                  /\ w.order = "WRITE"
                  /\ (Address(w) .. Address(w) + w.size - 1) \cap EntryBytes(mem, va) # {}
                  /\ Execute(w)]_machineVars
  BY <1>3
<1> QED
  BY <1>1, <1>2, <1>4, PTL DEF CarefulMachine, TranslationsStable

(* A program that is translated inside the addresses in use and writes no  *)
(* entry that a walk of its commands reads, to go by its first memory.     *)
SparesTables(m) ==
    /\ \A c \in Commands : Translates(m, c)
    /\ \A c, w \in Commands :
          Walks(Ptes(m), w.vaddr) => Written(m, w) \cap EntryBytes(m, c.vaddr) = {}

(* The bytes of its tables are those it started with.                      *)
KeepsTables(m) == \A c \in Commands : Agree(m, mem, EntryBytes(m, c.vaddr))

LEMMA KeptMeans ==
    ASSUME NEW m, SparesTables(m), KeepsTables(m), NEW c \in Commands
    PROVE  /\ Translates(mem, c)
           /\ Lies(mem, c.vaddr) = Lies(m, c.vaddr)
           /\ Walks(Ptes(mem), c.vaddr) =>
                Walks(Ptes(m), c.vaddr) /\ Written(mem, c) = Written(m, c)
<1>1. WalkInside(m, c.vaddr) /\ Agree(m, mem, EntryBytes(m, c.vaddr))
  BY DEF SparesTables, Translates, KeepsTables
<1>2. /\ Walks(Ptes(m), c.vaddr) <=> Walks(Ptes(mem), c.vaddr)
      /\ Walks(Ptes(m), c.vaddr) =>
            PageOf(Ptes(m), c.vaddr) = PageOf(Ptes(mem), c.vaddr)
      /\ WalkInside(mem, c.vaddr)
  BY <1>1, AgreeIsSameWalk
<1>3. Walks(Ptes(m), c.vaddr) =>
         PhysicalAddress(Ptes(m), c.vaddr) = PhysicalAddress(Ptes(mem), c.vaddr)
  BY <1>2 DEF PhysicalAddress
<1>4. Translates(mem, c)
  BY <1>2, <1>3 DEF SparesTables, Translates
<1>5. Walks(Ptes(m), c.vaddr) => Written(mem, c) = Written(m, c)
  BY <1>3 DEF Written
<1> QED
  BY <1>1, <1>2, <1>4, <1>5, LiesSame

(* Such a program, if careful, stays translated as it was at first, to     *)
(* addresses in use, whatever its commands and in whatever order they come.*)
THEOREM TablesLeftAlone ==
    ASSUME ZeroHeap, InsideMemory, CodeApart, NEW m \in InitMem, SparesTables(m)
    PROVE  CarefulMachine /\ mem = m =>
              [](\A c \in Commands : /\ Translates(mem, c)
                                     /\ Lies(mem, c.vaddr) = Lies(m, c.vaddr))
<1> DEFINE Kept == \A c \in Commands : /\ Translates(mem, c)
                                       /\ Lies(mem, c.vaddr) = Lies(m, c.vaddr)
<1>1. Boot /\ mem = m => FlatInv /\ KeepsTables(m)
  BY InitFlat DEF Boot, KeepsTables, Agree
<1>2. KeepsTables(m) => Kept
  BY KeptMeans
<1>3. FlatInv /\ [CarefulStep]_machineVars => FlatInv'
  BY StepIsCall, NextFlat
<1>4. FlatInv /\ KeepsTables(m) /\ [CarefulStep]_machineVars => KeepsTables(m)'
  <2>1. ASSUME FlatInv, KeepsTables(m), NEW w \in Commands, Careful(w), Execute(w),
               NEW c \in Commands, NEW x \in 0 .. MemBytes - 1, x \in EntryBytes(m, c.vaddr)
        PROVE  m[x] = mem'[x]
    <3>1. m[x] = mem[x]
      BY <2>1 DEF KeepsTables, Agree
    <3>2. Walks(Ptes(mem), w.vaddr)
      BY <2>1 DEF Execute
    <3>3. Walks(Ptes(m), w.vaddr) /\ Written(mem, w) = Written(m, w)
      BY <2>1, <3>2, KeptMeans
    <3>4. x \notin Written(mem, w)
      BY <2>1, <3>3 DEF SparesTables
    <3>5. mem'[x] = mem[x]
      BY <2>1, <3>4, ExecuteWrites
    <3> QED
      BY <3>1, <3>5
  <2>2. ASSUME KeepsTables(m), UNCHANGED mem PROVE KeepsTables(m)'
    BY <2>2 DEF KeepsTables, Agree
  <2>3. ASSUME FlatInv, KeepsTables(m), NEW w \in Commands, Careful(w), Execute(w)
        PROVE  KeepsTables(m)'
    BY <2>1, <2>3 DEF KeepsTables, Agree
  <2>4. ASSUME NEW w \in Commands, Abort(w) PROVE UNCHANGED mem
    BY <2>4 DEF Abort, vars
  <2>5. UNCHANGED machineVars => UNCHANGED mem
    BY DEF machineVars, vars
  <2> QED
    BY <2>2, <2>3, <2>4, <2>5 DEF CarefulStep
<1> HIDE DEF Kept
<1>5. CarefulMachine /\ mem = m => []Kept
  BY <1>1, <1>2, <1>3, <1>4, PTL DEF CarefulMachine
<1> QED
  BY <1>5 DEF Kept
=============================================================================
