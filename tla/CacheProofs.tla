---------------------------- MODULE CacheProofs ----------------------------
(***************************************************************************)
(* The cache hierarchy, for every geometry, memory and set of addresses.   *)
(*                                                                         *)
(* The argument: as long as the entries cache_write sends to L2 are        *)
(* invalid (ZeroHeap), L2 never hits, so only the L1 and memory paths are  *)
(* taken; those keep every L1 set Sound.  Clean states this of a state     *)
(* value, one lemma per path shows that the path keeps it, and the lemmas  *)
(* about cache_read and cache_write compose to the byte operations.        *)
(***************************************************************************)
EXTENDS Cache, CacheSetProofs

L1Array == [Access -> [0 .. L1Lines - 1 -> SetOf(L1Ways, Line)]]
L2Array == [0 .. L2Lines - 1 -> SetOf(L2Ways, Line)]

StateType(s) ==
    s \in [mem : Memory, l1 : L1Array, l2 : L2Array, oob : BOOLEAN]

Clean(s) ==
    /\ StateType(s)
    /\ ~s.oob
    /\ \A ac \in Access, i \in 0 .. L1Lines - 1 : Sound(s.l1[ac][i], L1Ways, Line)
    /\ \A i \in 0 .. L2Lines - 1, w \in 0 .. L2Ways - 1 : s.l2[i][w].v = 0
-----------------------------------------------------------------------------
(* Geometry.                                                               *)

LEMMA Sizes ==
    /\ {WordBytes, WordsPerLine, L1Lines, L1Ways, L2Lines, L2Ways, EvictSpan,
        LineBytes, L1Span, L2Span} \subseteq Nat \ {0}
    /\ MemBytes \in Nat
BY GeometryAssumption, UseAssumption DEF LineBytes, L1Span, L2Span

LEMMA IndexType ==
    ASSUME NEW a \in Nat
    PROVE  /\ L1Index(a) \in 0 .. L1Lines - 1
           /\ L2Index(a) \in 0 .. L2Lines - 1
           /\ L1Tag(a) \in Nat
           /\ L2Tag(a) \in Nat
           /\ WSelect(a) \in 0 .. WordsPerLine - 1
           /\ a % WordBytes \in 0 .. WordBytes - 1
<1>1. \A n \in Nat, m \in Nat \ {0} : n \div m \in Nat /\ n % m \in 0 .. m - 1
  OBVIOUS
<1> QED
  BY <1>1, Sizes DEF L1Index, L2Index, L1Tag, L2Tag, WSelect

LEMMA AddrType == Addrs \subseteq Nat
BY UseAssumption

LEMMA LoadType ==
    ASSUME NEW m \in Memory, NEW a \in Nat, a + LineBytes <= MemBytes
    PROVE  Load(m, a) \in Line
<1>1. ASSUME NEW i \in 0 .. LineBytes - 1 PROVE m[a + i] \in Byte
  <2>1. a + i \in 0 .. MemBytes - 1
    BY Sizes
  <2> QED
    BY <2>1 DEF Memory
<1> QED
  BY <1>1 DEF Load, Line

LEMMA StoreType ==
    ASSUME NEW m \in Memory, NEW a \in Nat, NEW line \in Line
    PROVE  Store(m, a, line) \in Memory
<1>1. LineBytes \in Nat /\ MemBytes \in Nat /\ DOMAIN m = 0 .. MemBytes - 1
  BY Sizes DEF Memory
<1>2. ASSUME NEW x \in DOMAIN m
      PROVE  (IF a <= x /\ x < a + LineBytes THEN line[x - a] ELSE m[x]) \in Byte
  <2>1. x \in Nat /\ m[x] \in Byte
    BY <1>1 DEF Memory
  <2>2. CASE a <= x /\ x < a + LineBytes
    <3>1. x - a \in 0 .. LineBytes - 1
      BY <1>1, <2>1, <2>2
    <3> QED
      BY <2>2, <3>1 DEF Line
  <2>3. CASE ~(a <= x /\ x < a + LineBytes)
    BY <2>1, <2>3
  <2> QED
    BY <2>2, <2>3
<1> QED
  BY <1>1, <1>2 DEF Store, Memory

LEMMA WordInLine ==
    ASSUME NEW k \in 0 .. WordsPerLine - 1, NEW i \in 0 .. WordBytes - 1
    PROVE  k * WordBytes + i \in 0 .. LineBytes - 1
<1>1. k * WordBytes <= (WordsPerLine - 1) * WordBytes
  BY Sizes
<1>2. (WordsPerLine - 1) * WordBytes = LineBytes - WordBytes
  BY Sizes DEF LineBytes
<1> QED
  BY <1>1, <1>2, Sizes

LEMMA WordOfType ==
    ASSUME NEW line \in Line, NEW k \in 0 .. WordsPerLine - 1
    PROVE  WordOf(line, k) \in Word
BY WordInLine DEF WordOf, Word, Line

LEMMA PutWordType ==
    ASSUME NEW line \in Line, NEW k \in 0 .. WordsPerLine - 1, NEW w \in Word
    PROVE  PutWord(line, k, w) \in Line
<1>1. ASSUME NEW i \in 0 .. LineBytes - 1, k * WordBytes <= i, i < (k + 1) * WordBytes
      PROVE  i - k * WordBytes \in 0 .. WordBytes - 1
  BY <1>1, Sizes
<1> QED
  BY <1>1, Sizes DEF PutWord, Word, Line

LEMMA OrByteType ==
    ASSUME NEW w \in Word, NEW k \in 0 .. WordBytes - 1, NEW b \in Byte
    PROVE  OrByte(w, k, b) \in Word
BY DEF OrByte, Word, Byte
-----------------------------------------------------------------------------
(* The paths.                                                              *)

LEMMA NoL2Hit ==
    ASSUME NEW s, Clean(s), NEW ac \in Access, NEW a \in Nat
    PROVE  L2Hit(s, ac, a) = {}
<1>1. L2Index(a) \in 0 .. L2Lines - 1
  BY IndexType
<1>2. s.l2[L2Index(a)] \in SetOf(L2Ways, Line)
  BY <1>1 DEF Clean, StateType, L2Array
<1>3. DOMAIN s.l2[L2Index(a)] = 0 .. L2Ways - 1
  BY <1>2 DEF SetOf
<1>4. \A w \in 0 .. L2Ways - 1 : s.l2[L2Index(a)][w].v = 0
  BY <1>1 DEF Clean
<1>5. ASSUME NEW w \in HitWays(s.l2[L2Index(a)], L2Tag(a)) PROVE FALSE
  <2>1. w \in 0 .. L2Ways - 1 /\ w <= w /\ (w <= w => s.l2[L2Index(a)][w].v = 1)
    BY <1>3 DEF HitWays
  <2> QED
    BY <1>4, <2>1
<1> QED
  BY <1>5 DEF L2Hit

LEMMA L1RowSound ==
    ASSUME NEW s, Clean(s), NEW ac \in Access, NEW i \in 0 .. L1Lines - 1
    PROVE  /\ Sound(s.l1[ac][i], L1Ways, Line)
           /\ s.l1[ac][i] \in SetOf(L1Ways, Line)
           /\ DOMAIN s.l1[ac][i] = 0 .. L1Ways - 1
BY DEF Clean, Sound, SetOf

(* Replacing one L1 set, and possibly memory, by something as good.        *)
LEMMA SetL1Clean ==
    ASSUME NEW s, Clean(s), NEW ac \in Access, NEW i \in 0 .. L1Lines - 1,
           NEW row, Sound(row, L1Ways, Line), NEW m \in Memory
    PROVE  /\ Clean([s EXCEPT !.l1[ac][i] = row])
           /\ Clean([s EXCEPT !.mem = m, !.l1[ac][i] = row])
<1> DEFINE l == [s.l1 EXCEPT ![ac][i] = row]
           new == [s EXCEPT !.l1[ac][i] = row]
           stored == [s EXCEPT !.mem = m, !.l1[ac][i] = row]
<1>1. StateType(s) /\ s.l1 \in L1Array
  BY DEF Clean, StateType
<1>2. l \in L1Array
  BY <1>1 DEF Sound, L1Array
<1>3. \A c \in Access, j \in 0 .. L1Lines - 1 : Sound(l[c][j], L1Ways, Line)
  BY <1>1 DEF L1Array, Clean
<1>4. /\ StateType(new) /\ new.l1 = l /\ new.l2 = s.l2 /\ new.oob = s.oob
      /\ StateType(stored) /\ stored.l1 = l /\ stored.l2 = s.l2 /\ stored.oob = s.oob
  BY <1>1, <1>2 DEF StateType
<1> HIDE DEF l, new, stored
<1>5. Clean(new) /\ Clean(stored)
  BY <1>3, <1>4 DEF Clean
<1> QED
  BY <1>5 DEF new, stored

LEMMA ReadFromL1Clean ==
    ASSUME NEW s, Clean(s), NEW ac \in Access, NEW a \in Nat,
           NEW o \in ReadFromL1(s, ac, a)
    PROVE  Clean(o.s) /\ o.word \in Word
<1> DEFINE i == L1Index(a)
           row == s.l1[ac][i]
<1>1. i \in 0 .. L1Lines - 1 /\ WSelect(a) \in 0 .. WordsPerLine - 1
  BY IndexType
<1>2. PICK w \in HitWays(row, L1Tag(a)) :
         o = [s |-> [s EXCEPT !.l1[ac][i] = AgeUpdate(row, w)],
              word |-> WordOf(row[w].line, WSelect(a))]
  BY DEF ReadFromL1, L1Hit
<1>3. Sound(row, L1Ways, Line) /\ row \in SetOf(L1Ways, Line) /\ w \in 0 .. L1Ways - 1
  <2>1. /\ Sound(row, L1Ways, Line) /\ row \in SetOf(L1Ways, Line)
        /\ DOMAIN row = 0 .. L1Ways - 1
    BY <1>1, L1RowSound
  <2> QED
    BY <2>1 DEF HitWays
<1>4. Sound(AgeUpdate(row, w), L1Ways, Line) /\ row[w].line \in Line
  BY <1>3, TouchSound, Sizes DEF SetOf
<1> HIDE DEF i, row
<1>5. s.mem \in Memory
  BY DEF Clean, StateType
<1>6. Clean([s EXCEPT !.l1[ac][i] = AgeUpdate(row, w)])
  BY <1>1, <1>4, <1>5, SetL1Clean
<1> QED
  BY <1>1, <1>2, <1>4, <1>6, WordOfType

LEMMA FetchedType ==
    ASSUME NEW m \in Memory, NEW a \in Nat, a + LineBytes <= MemBytes
    PROVE  /\ Fetched(m, a) \in EntriesOf(L1Ways, Line)
           /\ Fetched(m, a).v = 1
           /\ Fetched(m, a).tag = L1Tag(a)
           /\ Fetched(m, a).line = Load(m, a)
BY LoadType, IndexType, Sizes DEF Fetched, Entry, EntriesOf

LEMMA ReadFromMemoryClean ==
    ASSUME NEW s, Clean(s), NEW ac \in Access, NEW a \in Nat,
           a + LineBytes <= MemBytes, NEW o \in ReadFromMemory(s, ac, a)
    PROVE  Clean(o.s) /\ o.word \in Word
<1> DEFINE i == L1Index(a)
           row == s.l1[ac][i]
           e == Fetched(s.mem, a)
           new == AgeUpdate(Insert(row, Victim(row), e), Victim(row))
<1>1. i \in 0 .. L1Lines - 1 /\ WSelect(a) \in 0 .. WordsPerLine - 1
  BY IndexType
<1>2. ~Outside(a)
  BY Sizes DEF Outside
<1>3. HitWays(row, L1Tag(a)) = {}
  BY DEF ReadFromMemory, Miss, L1Hit
<1>4. o = [s |-> [s EXCEPT !.l1[ac][i] = new],
           word |-> WordOf(Load(s.mem, a), WSelect(a))]
  BY <1>2 DEF ReadFromMemory
<1>5. s.mem \in Memory
  BY DEF Clean, StateType
<1>6. Sound(row, L1Ways, Line)
  BY <1>1, L1RowSound
<1>7. Sound(new, L1Ways, Line)
  BY <1>3, <1>5, <1>6, FetchedType, FillSound, Sizes
<1> HIDE DEF i, row, new
<1>8. Clean([s EXCEPT !.l1[ac][i] = new])
  BY <1>1, <1>5, <1>7, SetL1Clean
<1> QED
  BY <1>1, <1>4, <1>5, <1>8, LoadType, WordOfType

LEMMA ReadClean ==
    ASSUME NEW s, Clean(s), NEW ac \in Access, NEW a \in Nat,
           a + LineBytes <= MemBytes, NEW o \in ReadOut(s, ac, a)
    PROVE  Clean(o.s) /\ o.word \in Word
<1>1. ReadFromL2(s, ac, a) = {}
  BY NoL2Hit DEF ReadFromL2
<1> QED
  BY <1>1, ReadFromL1Clean, ReadFromMemoryClean DEF ReadOut

LEMMA LineEntryType ==
    ASSUME NEW a \in Nat, NEW line \in Line
    PROVE  /\ Entry(1, 0, L1Tag(a), line) \in EntriesOf(L1Ways, Line)
           /\ Entry(1, 0, L1Tag(a), line).v = 1
           /\ Entry(1, 0, L1Tag(a), line).tag = L1Tag(a)
           /\ Entry(1, 0, L1Tag(a), line).line = line
<1>1. 0 \in 0 .. L1Ways - 1
  BY Sizes
<1>2. L1Tag(a) \in Nat
  BY IndexType
<1> QED
  BY <1>1, <1>2 DEF Entry, EntriesOf

LEMMA WriteToL1Clean ==
    ASSUME NEW s, Clean(s), NEW a \in Nat, a + LineBytes <= MemBytes,
           NEW word \in Word, NEW t \in WriteToL1(s, a, word)
    PROVE  Clean(t)
<1> DEFINE i == L1Index(a)
           row == s.l1["DATA"][i]
           line(w) == PutWord(row[w].line, WSelect(a), word)
           new(w) == Insert(AgeUpdate(row, w), w, Entry(1, 0, L1Tag(a), line(w)))
<1>1. i \in 0 .. L1Lines - 1 /\ WSelect(a) \in 0 .. WordsPerLine - 1 /\ "DATA" \in Access
  BY IndexType DEF Access
<1>2. PICK w \in HitWays(row, L1Tag(a)) :
         t = [s EXCEPT !.mem = Store(s.mem, a, line(w)), !.l1["DATA"][i] = new(w)]
  <2>1. ~Outside(a)
    BY Sizes DEF Outside
  <2> QED
    BY <2>1 DEF WriteToL1, L1Hit
<1>3. Sound(row, L1Ways, Line) /\ row \in SetOf(L1Ways, Line) /\ w \in 0 .. L1Ways - 1
  <2>1. /\ Sound(row, L1Ways, Line) /\ row \in SetOf(L1Ways, Line)
        /\ DOMAIN row = 0 .. L1Ways - 1
    BY <1>1, L1RowSound
  <2> QED
    BY <2>1 DEF HitWays
<1>4. row[w].line \in Line
  BY <1>3 DEF SetOf
<1>5. line(w) \in Line
  BY <1>1, <1>4, PutWordType
<1>6. Sound(new(w), L1Ways, Line)
  BY <1>3, <1>5, LineEntryType, RewriteSound, Sizes
<1>7. Store(s.mem, a, line(w)) \in Memory
  BY <1>5, StoreType DEF Clean, StateType
<1> HIDE DEF i, row, line, new
<1> QED
  BY <1>1, <1>2, <1>6, <1>7, SetL1Clean

(* The victim sent to L2 is invalid, so L2 stays without a valid line.     *)
LEMMA SetL2Clean ==
    ASSUME NEW s, Clean(s), NEW i \in 0 .. L2Lines - 1,
           NEW e \in EntriesOf(L2Ways, Line), e.v = 0
    PROVE  Clean([s EXCEPT !.l2[i] = Replace(@, e, L2Ways)])
<1> DEFINE row == s.l2[i]
           way == Victim(row)
           put == Insert(row, way, e)
           new == Replace(row, e, L2Ways)
           t == [s EXCEPT !.l2[i] = new]
<1>1. StateType(s) /\ row \in SetOf(L2Ways, Line)
  BY DEF Clean, StateType, L2Array
<1>2. way \in 0 .. L2Ways - 1
  BY <1>1, VictimWay, Sizes
<1>3. \A w \in 0 .. L2Ways - 1 : row[w].v = 0
  BY DEF Clean
<1> HIDE DEF row, way
<1>4. put \in SetOf(L2Ways, Line) /\ \A w \in 0 .. L2Ways - 1 : put[w].v = 0
  BY <1>1, <1>2, <1>3, InsertType, Sizes
<1>5. DOMAIN put = 0 .. L2Ways - 1
  BY <1>4 DEF SetOf
<1> HIDE DEF put
<1>6. /\ AgeUpdate(put, way) \in SetOf(L2Ways, Line)
      /\ \A w \in 0 .. L2Ways - 1 : AgeUpdate(put, way)[w].v = 0
  <2>1. AgeUpdate(put, way) \in SetOf(L2Ways, Line) /\ SameButAges(put, AgeUpdate(put, way))
    BY <1>2, <1>4, AgeUpdateType, Sizes
  <2> QED
    BY <1>4, <1>5, <2>1 DEF SameButAges
<1>7. /\ AgeIncrease(put, way, L2Ways) \in SetOf(L2Ways, Line)
      /\ \A w \in 0 .. L2Ways - 1 : AgeIncrease(put, way, L2Ways)[w].v = 0
  <2>1. AgeIncrease(put, way, L2Ways) \in SetOf(L2Ways, Line) /\ SameButAges(put, AgeIncrease(put, way, L2Ways))
    BY <1>2, <1>4, AgeIncreaseType, Sizes
  <2> QED
    BY <1>4, <1>5, <2>1 DEF SameButAges
<1>8. new \in SetOf(L2Ways, Line) /\ \A w \in 0 .. L2Ways - 1 : new[w].v = 0
  BY <1>6, <1>7 DEF Replace, put, way
<1> HIDE DEF new
<1>9. /\ StateType(t) /\ t.l1 = s.l1 /\ t.oob = s.oob
      /\ t.l2 = [s.l2 EXCEPT ![i] = new]
  BY <1>1, <1>8 DEF StateType, L2Array
<1>10. \A j \in 0 .. L2Lines - 1, w \in 0 .. L2Ways - 1 : t.l2[j][w].v = 0
  BY <1>1, <1>8, <1>9 DEF Clean, StateType, L2Array
<1> HIDE DEF t
<1>11. Clean(t)
  BY <1>9, <1>10 DEF Clean
<1> QED
  BY <1>11 DEF t, new, row

LEMMA WriteToMemoryClean ==
    ASSUME ZeroHeap, NEW s, Clean(s), NEW a \in Nat, a + LineBytes <= MemBytes,
           NEW word \in Word, NEW t \in WriteToMemory(s, a, word)
    PROVE  Clean(t)
<1> DEFINE i == L1Index(a)
           row == s.l1["DATA"][i]
           victim == row[Victim(row)]
           line == PutWord(Load(s.mem, a), WSelect(a), word)
           new == Replace(row, Entry(1, 0, L1Tag(a), line), L1Ways)
           placed == [s EXCEPT !.mem = Store(s.mem, a, line), !.l1["DATA"][i] = new]
           evicted == Entry(0, 0, victim.tag \div EvictSpan, victim.line)
<1>1. i \in 0 .. L1Lines - 1 /\ WSelect(a) \in 0 .. WordsPerLine - 1 /\ "DATA" \in Access
  BY IndexType DEF Access
<1>2. HitWays(row, L1Tag(a)) = {}
  BY DEF WriteToMemory, Miss, L1Hit
<1>3. \/ t = placed
      \/ t = [placed EXCEPT !.l2[L2Index(a)] = Replace(@, evicted, L2Ways)]
  <2>1. SentToL2(victim) = {evicted}
    BY DEF SentToL2, ZeroHeap
  <2>2. ~Outside(a)
    BY Sizes DEF Outside
  <2>3. \/ t = placed
        \/ \E e \in SentToL2(victim) :
              t = [placed EXCEPT !.l2[L2Index(a)] = Replace(@, e, L2Ways)]
    BY <2>2 DEF WriteToMemory
  <2> QED
    BY <2>1, <2>3
<1>4. Sound(row, L1Ways, Line) /\ row \in SetOf(L1Ways, Line)
  BY <1>1, L1RowSound
<1>5. s.mem \in Memory
  BY DEF Clean, StateType
<1>6. line \in Line
  BY <1>1, <1>5, LoadType, PutWordType
<1>7. Store(s.mem, a, line) \in Memory
  BY <1>5, <1>6, StoreType
<1>8. Sound(new, L1Ways, Line)
  BY <1>2, <1>4, <1>6, LineEntryType, FillSound, Sizes
<1>9. victim.tag \in Nat /\ victim.line \in Line
  BY <1>4, VictimWay, Sizes DEF SetOf
<1>10. L2Index(a) \in 0 .. L2Lines - 1
  BY IndexType
<1> HIDE DEF i, row, victim, line, new
<1>11. victim.tag \div EvictSpan \in Nat
  BY <1>9, Sizes
<1>12. evicted \in EntriesOf(L2Ways, Line) /\ evicted.v = 0
  BY <1>9, <1>11, Sizes DEF Entry, EntriesOf
<1>13. Clean(placed)
  BY <1>1, <1>7, <1>8, SetL1Clean
<1> HIDE DEF placed, evicted
<1> QED
  BY <1>3, <1>10, <1>12, <1>13, SetL2Clean

LEMMA WriteClean ==
    ASSUME ZeroHeap, NEW s, Clean(s), NEW a \in Nat, a + LineBytes <= MemBytes,
           NEW word \in Word, NEW t \in WriteOut(s, a, word)
    PROVE  Clean(t)
<1>1. WriteToL2(s, a, word) = {}
  <2>1. "DATA" \in Access
    BY DEF Access
  <2>2. L2Hit(s, "DATA", a) = {}
    BY <2>1, NoL2Hit
  <2> QED
    BY <2>2 DEF WriteToL2
<1> QED
  BY <1>1, WriteToL1Clean, WriteToMemoryClean DEF WriteOut
-----------------------------------------------------------------------------
(* The specification.                                                      *)

OutType ==
    /\ out.err \in {"ERR_NONE", "ERR_BAD_PARAMETER"}
    /\ out.at \in Addrs \cup {NoAddr}
    /\ out.val \in Word \cup [{0} -> Byte] \cup {NoWord}

(* The inductive invariant.                                                *)
CleanInv == Clean(State) /\ OutType

LEMMA StateFields ==
    /\ State.mem = mem /\ State.l1 = l1 /\ State.l2 = l2 /\ State.oob = oob
BY DEF State

LEMMA BecomeState ==
    ASSUME NEW s, StateType(s), Become(s)
    PROVE  State' = s
<1>1. s = [mem |-> s.mem, l1 |-> s.l1, l2 |-> s.l2, oob |-> s.oob]
  BY DEF StateType
<1> QED
  BY <1>1 DEF Become, State

LEMMA EmptyClean ==
    ASSUME Init PROVE CleanInv
<1>1. ZeroLine \in Line
  BY DEF ZeroLine, Line, Byte
<1>2. ASSUME NEW n \in Nat \ {0}
      PROVE  LET row == [w \in 0 .. n - 1 |-> Entry(0, 0, 0, ZeroLine)]
             IN  row \in SetOf(n, Line) /\ Sound(row, n, Line)
  <2>1. 0 \in 0 .. n - 1
    OBVIOUS
  <2>2. [w \in 0 .. n - 1 |-> Entry(0, 0, 0, ZeroLine)] \in SetOf(n, Line)
    BY <1>1, <2>1 DEF Entry, SetOf
  <2> QED
    BY <2>2 DEF Sound, ValidFirst, TagsUnique, Entry
<1>3. l1 \in L1Array
      /\ \A ac \in Access, i \in 0 .. L1Lines - 1 : Sound(l1[ac][i], L1Ways, Line)
  BY <1>2, Sizes DEF Init, Empty, L1Array
<1>4. l2 \in L2Array
  BY <1>2, Sizes DEF Init, Empty, L2Array
<1>5. \A i \in 0 .. L2Lines - 1, w \in 0 .. L2Ways - 1 : l2[i][w].v = 0
  BY DEF Init, Empty, Entry
<1>6. mem \in Memory /\ oob = FALSE
  BY UseAssumption DEF Init
<1>7. StateType(State)
  BY <1>3, <1>4, <1>6 DEF StateType, State
<1>8. OutType
  BY DEF Init, Done, Result, OutType
<1> QED
  BY <1>3, <1>5, <1>6, <1>7, <1>8, StateFields DEF CleanInv, Clean

LEMMA FlushedRow ==
    ASSUME NEW n \in Nat \ {0}, NEW lines \in Nat,
           NEW array \in [0 .. lines - 1 -> SetOf(n, Line)]
    PROVE  /\ Flushed(array) \in [0 .. lines - 1 -> SetOf(n, Line)]
           /\ \A i \in 0 .. lines - 1 : \A w \in 0 .. n - 1 : Flushed(array)[i][w].v = 0
           /\ \A i \in 0 .. lines - 1 : Sound(Flushed(array)[i], n, Line)
<1> DEFINE line(i, w) == IF i = 0 /\ w = 0 THEN ZeroLine ELSE array[i][w].line
           row(i) == [w \in 0 .. n - 1 |-> Entry(0, 0, 0, line(i, w))]
<1>1. \A i \in 0 .. lines - 1 : DOMAIN array[i] = 0 .. n - 1
  BY DEF SetOf
<1>2. Flushed(array) = [i \in 0 .. lines - 1 |-> row(i)]
  BY <1>1 DEF Flushed
<1>3. ASSUME NEW i \in 0 .. lines - 1
      PROVE  /\ row(i) \in SetOf(n, Line)
             /\ \A w \in 0 .. n - 1 : row(i)[w].v = 0
             /\ Sound(row(i), n, Line)
  <2>1. \A w \in 0 .. n - 1 : line(i, w) \in Line
    BY DEF ZeroLine, Line, Byte, SetOf
  <2>2. 0 \in 0 .. n - 1
    OBVIOUS
  <2> HIDE DEF line
  <2>3. row(i) \in SetOf(n, Line)
    BY <2>1, <2>2 DEF Entry, SetOf
  <2>4. DOMAIN row(i) = 0 .. n - 1 /\ \A w \in 0 .. n - 1 : row(i)[w].v = 0
    BY DEF Entry
  <2> HIDE DEF row
  <2> QED
    BY <2>3, <2>4 DEF Sound, ValidFirst, TagsUnique
<1>4. \A i \in 0 .. lines - 1 : Flushed(array)[i] = row(i)
  BY <1>2
<1> HIDE DEF row
<1> QED
  BY <1>2, <1>3, <1>4

LEMMA FlushClean ==
    ASSUME Clean(State), NEW cache \in FlushCaches, Flush(cache)
    PROVE  Clean(State')
<1>1. /\ StateType(State) /\ l1 \in L1Array /\ l2 \in L2Array /\ mem \in Memory
      /\ oob = FALSE /\ oob' = FALSE /\ mem' = mem
  BY StateFields DEF Clean, StateType, Flush
<1>2. CASE cache = "L2"
  <2>1. l2' = Flushed(l2) /\ l1' = l1
    BY <1>2 DEF Flush
  <2>2. /\ l2' \in L2Array
        /\ \A i \in 0 .. L2Lines - 1, w \in 0 .. L2Ways - 1 : l2'[i][w].v = 0
    <3>1. L2Lines \in Nat /\ L2Ways \in Nat \ {0}
      BY Sizes
    <3>2. l2 \in [0 .. L2Lines - 1 -> SetOf(L2Ways, Line)]
      BY <1>1 DEF L2Array
    <3> QED
      BY <2>1, <3>1, <3>2, FlushedRow DEF L2Array
  <2> QED
    BY <1>1, <2>1, <2>2 DEF Clean, StateType, State
<1>3. CASE cache # "L2"
  <2>1. cache \in Access
    BY <1>3, UseAssumption
  <2>2. l1' = [l1 EXCEPT ![cache] = Flushed(l1[cache])] /\ l2' = l2
    BY <1>3 DEF Flush
  <2>3. l1[cache] \in [0 .. L1Lines - 1 -> SetOf(L1Ways, Line)]
    BY <1>1, <2>1 DEF L1Array
  <2>4. /\ Flushed(l1[cache]) \in [0 .. L1Lines - 1 -> SetOf(L1Ways, Line)]
        /\ \A i \in 0 .. L1Lines - 1 : Sound(Flushed(l1[cache])[i], L1Ways, Line)
    BY <2>3, FlushedRow, Sizes
  <2>5. /\ l1' \in L1Array
        /\ \A ac \in Access, i \in 0 .. L1Lines - 1 : Sound(l1'[ac][i], L1Ways, Line)
    BY <1>1, <2>1, <2>2, <2>4 DEF Clean, L1Array, State
  <2> QED
    BY <1>1, <2>2, <2>5 DEF Clean, StateType, State
<1> QED
  BY <1>2, <1>3

(* An address in use is a natural number whose line lies within memory.    *)
LEMMA UsedAddr ==
    ASSUME InsideMemory, NEW a \in Addrs
    PROVE  a \in Nat /\ a + LineBytes <= MemBytes
BY AddrType DEF InsideMemory

LEMMA DeliversClean ==
    ASSUME Clean(State), NEW a \in Addrs, NEW outcomes, Delivers(a, outcomes),
           \A o \in outcomes : Clean(o.s) /\ o.word \in Word
    PROVE  Clean(State') /\ OutType'
<1>1. PICK o \in outcomes : Become(o.s) /\ out' = Result(a, o.word)
  BY DEF Delivers
<1>2. State' = o.s
  BY <1>1, BecomeState DEF Clean
<1> QED
  BY <1>1, <1>2 DEF Result, OutType

LEMMA CompletesClean ==
    ASSUME Clean(State), NEW states, Completes(states), \A s \in states : Clean(s)
    PROVE  Clean(State') /\ OutType'
<1>1. PICK s \in states : Become(s) /\ out' = Done
  BY DEF Completes
<1>2. State' = s
  BY <1>1, BecomeState DEF Clean
<1> QED
  BY <1>1, <1>2 DEF Done, Result, OutType

LEMMA ReadStep ==
    ASSUME InsideMemory, Clean(State), NEW ac \in Access, NEW a \in Addrs, Read(ac, a)
    PROVE  Clean(State') /\ OutType'
<1>1. \A o \in ReadOut(State, ac, a) : Clean(o.s) /\ o.word \in Word
  BY UsedAddr, ReadClean
<1>2. \E outcomes \in SUBSET ReadOut(State, ac, a) : Delivers(a, outcomes)
  BY DEF Read, ReadL1Hit, ReadL2Hit, ReadMiss, ReadOut
<1> QED
  BY <1>1, <1>2, DeliversClean

LEMMA ReadByteStep ==
    ASSUME InsideMemory, Clean(State), NEW ac \in Access, NEW a \in Addrs, ReadByte(ac, a)
    PROVE  Clean(State') /\ OutType'
<1>1. PICK o \in ReadOut(State, ac, a) : \E word \in Received(o) :
         /\ Become(o.s)
         /\ out' = Result(a, IF o.s.oob THEN NoWord
                             ELSE [i \in {0} |-> word[a % WordBytes]])
  BY DEF ReadByte
<1>2. Clean(o.s) /\ o.word \in Word
  BY UsedAddr, ReadClean
<1>3. PICK word \in Word :
         /\ Become(o.s)
         /\ out' = Result(a, IF o.s.oob THEN NoWord
                             ELSE [i \in {0} |-> word[a % WordBytes]])
  BY <1>1, <1>2 DEF Received
<1>4. State' = o.s
  BY <1>2, <1>3, BecomeState DEF Clean
<1>5. a % WordBytes \in 0 .. WordBytes - 1
  BY UsedAddr, IndexType
<1>6. [i \in {0} |-> word[a % WordBytes]] \in [{0} -> Byte]
  BY <1>5 DEF Word
<1> QED
  BY <1>2, <1>3, <1>4, <1>6 DEF Result, OutType

LEMMA WriteStep ==
    ASSUME ZeroHeap, InsideMemory, Clean(State), NEW a \in DataAddrs,
           NEW word \in WriteWords, Write(a, word)
    PROVE  Clean(State') /\ OutType'
<1>1. \A t \in WriteOut(State, a, word) : Clean(t)
  BY UsedAddr, WriteClean, UseAssumption DEF Addrs
<1>2. \E states \in SUBSET WriteOut(State, a, word) : Completes(states)
  BY DEF Write, WriteL1Hit, WriteL2Hit, WriteMiss, WriteOut
<1> QED
  BY <1>1, <1>2, CompletesClean

LEMMA WriteByteStep ==
    ASSUME ZeroHeap, InsideMemory, Clean(State), NEW a \in DataAddrs,
           NEW b \in WriteBytes, WriteByte(a, b)
    PROVE  Clean(State') /\ OutType'
<1>1. a \in Nat /\ a + LineBytes <= MemBytes /\ "DATA" \in Access
  BY UsedAddr DEF Addrs, Access
<1>2. ASSUME NEW t \in WriteByteOut(State, a, b) PROVE Clean(t)
  <2>1. PICK o \in ReadOut(State, "DATA", a) :
           \/ o.s.oob /\ t = o.s
           \/ \E word \in Received(o) :
                 t \in WriteOut(o.s, a, OrByte(word, a % WordBytes, b))
    BY DEF WriteByteOut
  <2>2. Clean(o.s) /\ o.word \in Word
    BY <1>1, ReadClean
  <2>3. PICK word \in Received(o) :
           t \in WriteOut(o.s, a, OrByte(word, a % WordBytes, b))
    BY <2>1, <2>2 DEF Clean
  <2>4. word \in Word
    BY <2>2 DEF Received
  <2>5. OrByte(word, a % WordBytes, b) \in Word
    BY <1>1, <2>4, IndexType, OrByteType, UseAssumption
  <2> QED
    BY <1>1, <2>2, <2>3, <2>5, WriteClean
<1>3. Completes(WriteByteOut(State, a, b))
  BY DEF WriteByte
<1> QED
  BY <1>2, <1>3, CompletesClean

LEMMA NextClean ==
    ASSUME ZeroHeap, InsideMemory, CleanInv, [Next]_vars
    PROVE  CleanInv'
<1> SUFFICES Clean(State') /\ OutType'
  BY DEF CleanInv
<1> USE DEF CleanInv
<1>1. ASSUME NEW ac \in Access, NEW a \in AddrsOf(ac), Read(ac, a) \/ ReadByte(ac, a)
      PROVE  Clean(State') /\ OutType'
  <2>1. a \in Addrs
    BY DEF AddrsOf, Addrs
  <2> QED
    BY <1>1, <2>1, ReadStep, ReadByteStep
<1>2. ASSUME NEW a \in DataAddrs, NEW word \in WriteWords, Write(a, word)
      PROVE  Clean(State') /\ OutType'
  BY <1>2, WriteStep
<1>3. ASSUME NEW a \in DataAddrs, NEW b \in WriteBytes, WriteByte(a, b)
      PROVE  Clean(State') /\ OutType'
  BY <1>3, WriteByteStep
<1>4. ASSUME NEW b \in WriteBytes, WriteByteZero(b)
      PROVE  Clean(State') /\ OutType'
  <2>1. State' = State /\ out' = Refusal
    BY <1>4 DEF WriteByteZero, State
  <2> QED
    BY <2>1 DEF Refusal, OutType
<1>5. ASSUME NEW cache \in FlushCaches, Flush(cache)
      PROVE  Clean(State') /\ OutType'
  <2>1. out' = Done
    BY <1>5 DEF Flush
  <2> QED
    BY <1>5, <2>1, FlushClean DEF Done, Result, OutType
<1>6. CASE UNCHANGED vars
  BY <1>6 DEF vars, State, OutType
<1> QED
  BY <1>1, <1>2, <1>3, <1>4, <1>5, <1>6 DEF Next

(* The state predicates the runs check follow from the invariant.          *)
LEMMA CleanMeans ==
    ASSUME CleanInv
    PROVE  TypeOK /\ InBounds /\ L2Empty /\ L1ValidFirst /\ L1TagsUnique
<1>1. mem \in Memory /\ l1 \in L1Array /\ l2 \in L2Array /\ oob = FALSE
  BY StateFields DEF CleanInv, Clean, StateType
<1>2. \A ac \in Access, i \in 0 .. L1Lines - 1 : Sound(l1[ac][i], L1Ways, Line)
  BY StateFields DEF CleanInv, Clean
<1>3. L2Empty
  BY StateFields DEF CleanInv, Clean, L2Empty
<1> QED
  BY <1>1, <1>2, <1>3
     DEF CleanInv, OutType, TypeOK, InBounds, L1ValidFirst, L1TagsUnique, Sound,
         L1Array, L2Array

THEOREM CleanAlways ==
    ASSUME ZeroHeap, InsideMemory
    PROVE  Spec => []CleanInv
<1>1. Init => CleanInv
  BY EmptyClean
<1>2. CleanInv /\ [Next]_vars => CleanInv'
  BY NextClean
<1> QED
  BY <1>1, <1>2, PTL DEF Spec

(* hit_cache finds a line in its L1 set whenever it is there.              *)
THEOREM HitsAreComplete ==
    ASSUME ZeroHeap, InsideMemory
    PROVE  Spec => []L1ValidFirst
BY CleanAlways, CleanMeans, PTL

(* No set of an L1 cache holds two copies of a line.                       *)
THEOREM LinesCachedOnce ==
    ASSUME ZeroHeap, InsideMemory
    PROVE  Spec => []L1TagsUnique
BY CleanAlways, CleanMeans, PTL
-----------------------------------------------------------------------------
(***************************************************************************)
(* Whatever malloc leaves behind: the paths through L2 included, with the  *)
(* strides they really use.  Every path is total on states of their type,  *)
(* ends in one, and either stays within the arrays or shows why not.       *)
(***************************************************************************)

LEMMA DivMod ==
    ASSUME NEW n \in Nat, NEW m \in Nat \ {0}
    PROVE  n \div m \in Nat /\ n % m \in 0 .. m - 1 /\ n = m * (n \div m) + (n % m)
OBVIOUS

(* A number below lines * ways names a way of a set.                       *)
LEMMA FlatIndex ==
    ASSUME NEW lines \in Nat, NEW ways \in Nat \ {0}, NEW k \in Nat, k < lines * ways
    PROVE  k \div ways \in 0 .. lines - 1 /\ k % ways \in 0 .. ways - 1
<1>1. /\ k \div ways \in Nat /\ k % ways \in 0 .. ways - 1
      /\ k = ways * (k \div ways) + (k % ways)
  BY DivMod
<1>2. ASSUME k \div ways >= lines PROVE FALSE
  <2>1. ways * (k \div ways) >= ways * lines
    BY <1>1, <1>2
  <2> QED
    BY <1>1, <2>1
<1> QED
  BY <1>1, <1>2

LEMMA FlatEntryType ==
    ASSUME NEW lines \in Nat, NEW ways \in Nat \ {0},
           NEW array \in [0 .. lines - 1 -> SetOf(ways, Line)],
           NEW k \in Nat, k < lines * ways
    PROVE  FlatEntry(array, ways, k) \in EntriesOf(ways, Line)
BY FlatIndex DEF FlatEntry, SetOf, EntriesOf

(* The age an L1 entry shows through the L2 layout fits the wider field.   *)
LEMMA AsL2EntryType ==
    ASSUME NEW e \in EntriesOf(L1Ways, Line)
    PROVE  AsL2Entry(e) \in EntriesOf(L2Ways, Line)
<1> DEFINE wider == L2Ways \div L1Ways
<1>1. L2Ways = L1Ways * wider /\ wider \in Nat \ {0}
  <2>1. L1Ways \in Nat \ {0} /\ L2Ways \in Nat \ {0} /\ L2Ways % L1Ways = 0
    BY GeometryAssumption
  <2>2. wider \in Nat /\ L2Ways = L1Ways * wider + (L2Ways % L1Ways)
    BY <2>1, DivMod
  <2> HIDE DEF wider
  <2>3. wider # 0
    BY <2>1, <2>2
  <2> QED
    BY <2>1, <2>2, <2>3
<1>2. /\ e.age \in 0 .. L1Ways - 1 /\ e.tag \in Nat /\ e.v \in {0, 1} /\ e.line \in Line
      /\ L1Ways \in Nat \ {0}
  BY Sizes DEF EntriesOf
<1> HIDE DEF wider
<1>3. e.tag % wider \in 0 .. wider - 1 /\ e.tag \div wider \in Nat
  BY <1>1, <1>2, DivMod
<1>4. e.age + L1Ways * (e.tag % wider) \in 0 .. L2Ways - 1
  <2>1. ASSUME NEW x \in 0 .. wider - 1
        PROVE  L1Ways * x >= 0 /\ L1Ways * x <= L1Ways * (wider - 1) /\ L1Ways * x \in Int
    BY <1>1, <1>2
  <2>2. L1Ways * (wider - 1) = L2Ways - L1Ways
    BY <1>1, <1>2
  <2> QED
    BY <1>2, <1>3, <2>1, <2>2, Sizes
<1> QED
  BY <1>2, <1>3, <1>4 DEF AsL2Entry, Entry, EntriesOf, wider

LEMMA ReplaceType ==
    ASSUME NEW n \in Nat \ {0}, NEW row \in SetOf(n, Line), NEW e \in EntriesOf(n, Line)
    PROVE  Replace(row, e, n) \in SetOf(n, Line)
BY VictimWay, InsertType, AgeUpdateType, AgeIncreaseType DEF Replace

(* What every outcome t of a call for address a shows: values of their     *)
(* types and, if the call left an array, either memory's end or an L2 hit. *)
Strays(t, a) ==
    t.oob => \/ Outside(a)
             \/ \E i \in 0 .. L2Lines - 1, w \in 0 .. L2Ways - 1 : t.l2[i][w].v = 1
Typed(t, a) == StateType(t) /\ Strays(t, a)

(* A state of its type in which no call has left an array yet.             *)
Within(s) == StateType(s) /\ ~s.oob

LEMMA SetL1Within ==
    ASSUME NEW s, Within(s), NEW ac \in Access, NEW i \in 0 .. L1Lines - 1,
           NEW row \in SetOf(L1Ways, Line), NEW m \in Memory
    PROVE  /\ Within([s EXCEPT !.l1[ac][i] = row])
           /\ Within([s EXCEPT !.mem = m, !.l1[ac][i] = row])
<1> DEFINE l == [s.l1 EXCEPT ![ac][i] = row]
<1>1. s \in [mem : Memory, l1 : L1Array, l2 : L2Array, oob : BOOLEAN] /\ ~s.oob
  BY DEF Within, StateType
<1>2. l \in L1Array
  BY <1>1 DEF L1Array
<1> HIDE DEF l
<1>3. /\ [s EXCEPT !.l1 = l] \in [mem : Memory, l1 : L1Array, l2 : L2Array, oob : BOOLEAN]
      /\ [s EXCEPT !.mem = m, !.l1 = l] \in [mem : Memory, l1 : L1Array, l2 : L2Array, oob : BOOLEAN]
      /\ ~[s EXCEPT !.l1 = l].oob
      /\ ~[s EXCEPT !.mem = m, !.l1 = l].oob
  BY <1>1, <1>2
<1> QED
  BY <1>3 DEF Within, StateType, l

LEMMA SetL2Within ==
    ASSUME NEW s, Within(s), NEW i \in 0 .. L2Lines - 1,
           NEW row \in SetOf(L2Ways, Line), NEW m \in Memory
    PROVE  /\ Within([s EXCEPT !.l2[i] = row])
           /\ Within([s EXCEPT !.mem = m, !.l2[i] = row])
<1> DEFINE l == [s.l2 EXCEPT ![i] = row]
<1>1. s \in [mem : Memory, l1 : L1Array, l2 : L2Array, oob : BOOLEAN] /\ ~s.oob
  BY DEF Within, StateType
<1>2. l \in L2Array
  BY <1>1 DEF L2Array
<1> HIDE DEF l
<1>3. /\ [s EXCEPT !.l2 = l] \in [mem : Memory, l1 : L1Array, l2 : L2Array, oob : BOOLEAN]
      /\ [s EXCEPT !.mem = m, !.l2 = l] \in [mem : Memory, l1 : L1Array, l2 : L2Array, oob : BOOLEAN]
      /\ ~[s EXCEPT !.l2 = l].oob
      /\ ~[s EXCEPT !.mem = m, !.l2 = l].oob
  BY <1>1, <1>2
<1> QED
  BY <1>3 DEF Within, StateType, l

LEMMA WithinTyped ==
    ASSUME NEW s, Within(s), NEW a PROVE Typed(s, a)
BY DEF Within, Typed, Strays

LEMMA OutOfBoundsType ==
    ASSUME NEW s, StateType(s)
    PROVE  StateType(OutOfBounds(s)) /\ OutOfBounds(s).l2 = s.l2
BY DEF StateType, OutOfBounds

LEMMA RowType ==
    ASSUME NEW s, StateType(s)
    PROVE  /\ s.mem \in Memory
           /\ \A ac \in Access, i \in 0 .. L1Lines - 1 :
                 s.l1[ac][i] \in SetOf(L1Ways, Line)
           /\ \A i \in 0 .. L2Lines - 1 : s.l2[i] \in SetOf(L2Ways, Line)
BY DEF StateType, L1Array, L2Array

LEMMA HitWay ==
    ASSUME NEW n \in Nat, NEW row \in SetOf(n, Line), NEW tag, NEW w \in HitWays(row, tag)
    PROVE  /\ w \in 0 .. n - 1 /\ row[w].v = 1 /\ row[w].tag = tag
           /\ row[w] \in EntriesOf(n, Line)
<1>1. DOMAIN row = 0 .. n - 1
  BY DEF SetOf
<1> QED
  BY <1>1 DEF HitWays, SetOf, EntriesOf

LEMMA ReadFromL1Type ==
    ASSUME NEW s, Within(s), NEW ac \in Access, NEW a \in Nat,
           NEW o \in ReadFromL1(s, ac, a)
    PROVE  Typed(o.s, a) /\ o.word \in Word
<1> DEFINE i == L1Index(a)
           row == s.l1[ac][i]
<1>1. /\ i \in 0 .. L1Lines - 1 /\ WSelect(a) \in 0 .. WordsPerLine - 1
      /\ row \in SetOf(L1Ways, Line) /\ s.mem \in Memory /\ L1Ways \in Nat \ {0}
  BY IndexType, RowType, Sizes DEF Within
<1>2. PICK w \in HitWays(row, L1Tag(a)) :
         o = [s |-> [s EXCEPT !.l1[ac][i] = AgeUpdate(row, w)],
              word |-> WordOf(row[w].line, WSelect(a))]
  BY DEF ReadFromL1, L1Hit
<1> HIDE DEF i, row
<1>3. w \in 0 .. L1Ways - 1 /\ row[w].line \in Line
  BY <1>1, HitWay DEF EntriesOf
<1>4. AgeUpdate(row, w) \in SetOf(L1Ways, Line)
  BY <1>1, <1>3, AgeUpdateType
<1>5. Within([s EXCEPT !.l1[ac][i] = AgeUpdate(row, w)])
  BY <1>1, <1>4, SetL1Within
<1> QED
  BY <1>1, <1>2, <1>3, <1>5, WordOfType, WithinTyped

LEMMA ReadFromMemoryType ==
    ASSUME NEW s, Within(s), NEW ac \in Access, NEW a \in Nat,
           NEW o \in ReadFromMemory(s, ac, a)
    PROVE  Typed(o.s, a) /\ o.word \in Word \cup {NoWord}
<1> DEFINE i == L1Index(a)
           row == s.l1[ac][i]
           e == Fetched(s.mem, a)
           new == AgeUpdate(Insert(row, Victim(row), e), Victim(row))
<1>1. CASE Outside(a)
  BY <1>1, OutOfBoundsType DEF ReadFromMemory, Typed, Strays, Within
<1>2. CASE ~Outside(a)
  <2>1. /\ i \in 0 .. L1Lines - 1 /\ WSelect(a) \in 0 .. WordsPerLine - 1
        /\ row \in SetOf(L1Ways, Line) /\ s.mem \in Memory /\ L1Ways \in Nat \ {0}
    BY IndexType, RowType, Sizes DEF Within
  <2>2. a + LineBytes <= MemBytes
    BY <1>2, Sizes DEF Outside
  <2>3. o = [s |-> [s EXCEPT !.l1[ac][i] = new],
             word |-> WordOf(Load(s.mem, a), WSelect(a))]
    BY <1>2 DEF ReadFromMemory
  <2>4. Victim(row) \in 0 .. L1Ways - 1 /\ e \in EntriesOf(L1Ways, Line)
    BY <2>1, <2>2, VictimWay, FetchedType
  <2> HIDE DEF i, row, e
  <2>5. new \in SetOf(L1Ways, Line)
    BY <2>1, <2>4, InsertType, AgeUpdateType
  <2> HIDE DEF new
  <2>6. Within([s EXCEPT !.l1[ac][i] = new])
    BY <2>1, <2>5, SetL1Within
  <2> QED
    BY <2>1, <2>3, <2>6, <2>2, LoadType, WordOfType, WithinTyped
<1> QED
  BY <1>1, <1>2

(* A hit in L2, whichever entries the strides of Moved pick.               *)
LEMMA MovedType ==
    ASSUME NEW s, Within(s), NEW ac \in Access, NEW a \in Nat,
           NEW way2 \in 0 .. L2Ways - 1, s.l2[L2Index(a)][way2].v = 1,
           NEW o \in Moved(s, ac, a, way2)
    PROVE  Typed(o.s, a) /\ o.word \in Word \cup {NoWord}
<1> DEFINE i1 == L1Index(a)
           i2 == L2Index(a)
           k == i2 * L2Lines + way2
           cleared == [s EXCEPT !.l1[ac][k \div L1Ways][k % L1Ways].v = 0]
           row == cleared.l1[ac][i1]
           line == FlatEntry(s.l2, L2Ways, k).line
           deleted == i1 * L1Lines + LRUWay(row)
           new(age) == Replace(row, Entry(1, age, L1Tag(a), line), L1Ways)
           placed(age) == [cleared EXCEPT !.l1[ac][i1] = new(age)]
           evicted == AsL2Entry(FlatEntry(cleared.l1[ac], L1Ways, deleted))
           back(age) == Replace(placed(age).l2[i2], evicted, L2Ways)
           both(age) == [placed(age) EXCEPT !.l2[i2] = back(age)]
           stray == ~InL2(k) \/ ~InL1(k) \/ (Full(row) /\ ~InL1(deleted))
<1>1. /\ i1 \in 0 .. L1Lines - 1 /\ i2 \in 0 .. L2Lines - 1 /\ L1Tag(a) \in Nat
      /\ WSelect(a) \in 0 .. WordsPerLine - 1
  BY IndexType
<1>2. /\ L1Ways \in Nat \ {0} /\ L2Ways \in Nat \ {0}
      /\ L1Lines \in Nat \ {0} /\ L2Lines \in Nat \ {0}
  BY Sizes
<1>3. k \in Nat
  BY <1>1, <1>2
<1>4. CASE stray
  <2>1. o = [s |-> OutOfBounds(s), word |-> NoWord]
    BY <1>4 DEF Moved
  <2>2. StateType(OutOfBounds(s)) /\ OutOfBounds(s).l2 = s.l2
    BY OutOfBoundsType DEF Within
  <2> QED
    BY <1>1, <2>1, <2>2 DEF Typed, Strays
<1>5. CASE ~stray
  <2>1. k < L2Lines * L2Ways /\ k < L1Lines * L1Ways /\ (Full(row) => deleted < L1Lines * L1Ways)
    BY <1>5 DEF InL1, InL2
  <2>2. \E age \in 0 .. L1Ways - 1 :
           o = IF Full(row) THEN [s |-> both(age), word |-> WordOf(line, WSelect(a))]
               ELSE [s |-> placed(age), word |-> NoWord]
    BY <1>5 DEF Moved
  <2>3. k \div L1Ways \in 0 .. L1Lines - 1 /\ k % L1Ways \in 0 .. L1Ways - 1
    BY <1>2, <1>3, <2>1, FlatIndex
  <2>4. line \in Line
    BY <1>2, <1>3, <2>1, FlatEntryType DEF EntriesOf, Within, StateType, L2Array
  <2>5. Within(cleared)
    <3> DEFINE j == k \div L1Ways
               x == k % L1Ways
               r == [s.l1[ac][j] EXCEPT ![x].v = 0]
    <3>1. s.mem \in Memory /\ s.l1[ac][j] \in SetOf(L1Ways, Line)
      BY <2>3, RowType DEF Within
    <3>2. r \in SetOf(L1Ways, Line)
      BY <2>3, <3>1 DEF SetOf
    <3>3. cleared = [s EXCEPT !.l1[ac][j] = r]
      OBVIOUS
    <3> HIDE DEF j, r, cleared
    <3>4. j \in 0 .. L1Lines - 1
      BY <2>3 DEF j
    <3> QED
      BY <3>1, <3>2, <3>3, <3>4, SetL1Within
  <2> HIDE DEF cleared, line, k, i1, i2
  <2>6. /\ row \in SetOf(L1Ways, Line) /\ cleared.mem \in Memory
        /\ \A i \in 0 .. L2Lines - 1 : cleared.l2[i] \in SetOf(L2Ways, Line)
    BY <1>1, <2>5, RowType DEF Within
  <2>7. ASSUME NEW age \in 0 .. L1Ways - 1
        PROVE  Within(placed(age)) /\ (Full(row) => Within(both(age)))
    <3>1. Entry(1, age, L1Tag(a), line) \in EntriesOf(L1Ways, Line)
      BY <1>1, <2>4 DEF Entry, EntriesOf
    <3> HIDE DEF row
    <3>2. new(age) \in SetOf(L1Ways, Line)
      BY <1>2, <2>6, <3>1, ReplaceType
    <3> HIDE DEF new
    <3>3. Within(placed(age))
      BY <1>1, <2>5, <2>6, <3>2, SetL1Within
    <3> HIDE DEF placed
    <3>4. ASSUME Full(row) PROVE Within(both(age))
      <4>1. LRUWay(row) \in 0 .. L1Ways - 1
        BY <1>2, <2>6, LRUWayExists
      <4>2. deleted \in Nat
        BY <1>1, <1>2, <4>1
      <4>3. cleared.l1[ac] \in [0 .. L1Lines - 1 -> SetOf(L1Ways, Line)]
        BY <2>5 DEF Within, StateType, L1Array
      <4>4. FlatEntry(cleared.l1[ac], L1Ways, deleted) \in EntriesOf(L1Ways, Line)
        BY <1>2, <2>1, <3>4, <4>2, <4>3, FlatEntryType
      <4>5. evicted \in EntriesOf(L2Ways, Line)
        BY <4>4, AsL2EntryType
      <4> HIDE DEF evicted
      <4>6. placed(age).l2[i2] \in SetOf(L2Ways, Line)
        BY <1>1, <3>3, RowType DEF Within
      <4>7. back(age) \in SetOf(L2Ways, Line)
        BY <1>2, <4>5, <4>6, ReplaceType
      <4> HIDE DEF back
      <4> QED
        BY <1>1, <2>6, <3>3, <4>7, SetL2Within
    <3> QED
      BY <3>3, <3>4
  <2>8. WordOf(line, WSelect(a)) \in Word
    BY <1>1, <2>4, WordOfType
  <2> HIDE DEF placed, both, row
  <2> QED
    BY <2>2, <2>7, <2>8, WithinTyped
<1> QED
  BY <1>4, <1>5

LEMMA ReadFromL2Type ==
    ASSUME NEW s, Within(s), NEW ac \in Access, NEW a \in Nat,
           NEW o \in ReadFromL2(s, ac, a)
    PROVE  Typed(o.s, a) /\ o.word \in Word \cup {NoWord}
<1> DEFINE i2 == L2Index(a)
           row == s.l2[i2]
           aged(w) == [s EXCEPT !.l2[i2] = AgeUpdate(row, w)]
<1>1. /\ i2 \in 0 .. L2Lines - 1 /\ row \in SetOf(L2Ways, Line)
      /\ s.mem \in Memory /\ L2Ways \in Nat \ {0}
  BY IndexType, RowType, Sizes DEF Within
<1>2. PICK w \in HitWays(row, L2Tag(a)) : o \in Moved(aged(w), ac, a, w)
  BY DEF ReadFromL2, L2Hit
<1>3. w \in 0 .. L2Ways - 1 /\ row[w].v = 1
  BY <1>1, HitWay
<1>4. /\ AgeUpdate(row, w) \in SetOf(L2Ways, Line)
      /\ AgeUpdate(row, w)[w].v = 1
  <2>1. AgeUpdate(row, w) \in SetOf(L2Ways, Line) /\ SameButAges(row, AgeUpdate(row, w))
    BY <1>1, <1>3, AgeUpdateType
  <2> QED
    BY <1>1, <1>3, <2>1 DEF SameButAges, SetOf
<1>5. aged(w).l2[i2] = AgeUpdate(row, w)
  BY <1>1 DEF Within, StateType, L2Array
<1> HIDE DEF row, i2
<1>6. Within(aged(w))
  BY <1>1, <1>4, SetL2Within
<1> HIDE DEF aged
<1> QED
  BY <1>2, <1>3, <1>4, <1>5, <1>6, MovedType DEF i2

LEMMA ReadType ==
    ASSUME NEW s, Within(s), NEW ac \in Access, NEW a \in Nat,
           NEW o \in ReadOut(s, ac, a)
    PROVE  Typed(o.s, a) /\ o.word \in Word \cup {NoWord}
BY ReadFromL1Type, ReadFromL2Type, ReadFromMemoryType DEF ReadOut

LEMMA StoreThere ==
    ASSUME NEW m \in Memory, NEW a \in Nat, a + LineBytes <= MemBytes, NEW line \in Line
    PROVE  Load(Store(m, a, line), a) = line
<1>1. LineBytes \in Nat /\ MemBytes \in Nat /\ DOMAIN m = 0 .. MemBytes - 1
  BY Sizes DEF Memory
<1>2. ASSUME NEW i \in 0 .. LineBytes - 1 PROVE Store(m, a, line)[a + i] = line[i]
  <2>1. a + i \in DOMAIN m /\ a <= a + i /\ a + i < a + LineBytes /\ (a + i) - a = i
    BY <1>1
  <2> QED
    BY <2>1 DEF Store
<1> QED
  BY <1>2 DEF Load, Line

LEMMA WordPut ==
    ASSUME NEW line \in Line, NEW k \in 0 .. WordsPerLine - 1, NEW w \in Word
    PROVE  WordOf(PutWord(line, k, w), k) = w
<1>1. ASSUME NEW i \in 0 .. WordBytes - 1
      PROVE  PutWord(line, k, w)[k * WordBytes + i] = w[i]
  <2>1. k * WordBytes + i \in 0 .. LineBytes - 1
    BY WordInLine
  <2>2. k * WordBytes \in Int /\ (k + 1) * WordBytes = k * WordBytes + WordBytes
    BY Sizes
  <2>3. k * WordBytes <= k * WordBytes + i /\ k * WordBytes + i < (k + 1) * WordBytes
        /\ (k * WordBytes + i) - k * WordBytes = i
    BY <2>2, Sizes
  <2> QED
    BY <2>1, <2>3 DEF PutWord
<1> QED
  BY <1>1 DEF WordOf, Word

(* The word is in memory, where the line of its address puts it.           *)
Landed(t, a, word) == ~t.oob => WordOf(Load(t.mem, a), WSelect(a)) = word

LEMMA StoredLands ==
    ASSUME NEW m \in Memory, NEW a \in Nat, ~Outside(a), NEW line \in Line,
           NEW word \in Word
    PROVE  /\ Store(m, a, PutWord(line, WSelect(a), word)) \in Memory
           /\ PutWord(line, WSelect(a), word) \in Line
           /\ WordOf(Load(Store(m, a, PutWord(line, WSelect(a), word)), a), WSelect(a)) = word
<1>1. WSelect(a) \in 0 .. WordsPerLine - 1
  BY IndexType
<1>2. PutWord(line, WSelect(a), word) \in Line
  BY <1>1, PutWordType
<1>3. a + LineBytes <= MemBytes
  BY Sizes DEF Outside
<1> QED
  BY <1>1, <1>2, <1>3, StoreType, StoreThere, WordPut

LEMMA StrayingWrite ==
    ASSUME NEW s, Within(s), NEW a \in Nat, NEW word,
           \/ Outside(a)
           \/ \E i \in 0 .. L2Lines - 1, w \in 0 .. L2Ways - 1 : s.l2[i][w].v = 1
    PROVE  Typed(OutOfBounds(s), a) /\ Landed(OutOfBounds(s), a, word)
<1>1. OutOfBounds(s).oob = TRUE
  BY DEF Within, StateType, OutOfBounds
<1> QED
  BY <1>1, OutOfBoundsType DEF Within, Typed, Strays, Landed

LEMMA WriteToL1Type ==
    ASSUME NEW s, Within(s), NEW a \in Nat, NEW word \in Word,
           NEW t \in WriteToL1(s, a, word)
    PROVE  Typed(t, a) /\ Landed(t, a, word)
<1> DEFINE i == L1Index(a)
           row == s.l1["DATA"][i]
           line(w) == PutWord(row[w].line, WSelect(a), word)
           new(w) == Insert(AgeUpdate(row, w), w, Entry(1, 0, L1Tag(a), line(w)))
           stored(w) == [s EXCEPT !.mem = Store(s.mem, a, line(w)), !.l1["DATA"][i] = new(w)]
<1>1. PICK w \in HitWays(row, L1Tag(a)) : t = IF Outside(a) THEN OutOfBounds(s) ELSE stored(w)
  BY DEF WriteToL1, L1Hit
<1>2. CASE Outside(a)
  BY <1>1, <1>2, StrayingWrite
<1>3. CASE ~Outside(a)
  <2>1. /\ i \in 0 .. L1Lines - 1 /\ "DATA" \in Access /\ L1Ways \in Nat \ {0}
        /\ s.mem \in Memory
    BY IndexType, Sizes, RowType DEF Access, Within
  <2>2. row \in SetOf(L1Ways, Line)
    BY <2>1, RowType DEF Within
  <2> HIDE DEF row, i
  <2>3. w \in 0 .. L1Ways - 1 /\ row[w].line \in Line
    BY <2>1, <2>2, HitWay DEF EntriesOf
  <2>4. /\ line(w) \in Line /\ Store(s.mem, a, line(w)) \in Memory
        /\ WordOf(Load(Store(s.mem, a, line(w)), a), WSelect(a)) = word
    BY <1>3, <2>1, <2>3, StoredLands
  <2> HIDE DEF line
  <2>5. Entry(1, 0, L1Tag(a), line(w)) \in EntriesOf(L1Ways, Line)
    BY <2>4, LineEntryType
  <2>6. new(w) \in SetOf(L1Ways, Line)
    BY <2>1, <2>2, <2>3, <2>5, AgeUpdateType, InsertType
  <2> HIDE DEF new
  <2>7. Within(stored(w))
    BY <2>1, <2>4, <2>6, SetL1Within
  <2>8. stored(w).mem = Store(s.mem, a, line(w))
    BY DEF Within, StateType
  <2> QED
    BY <1>1, <1>3, <2>4, <2>7, <2>8, WithinTyped DEF Landed
<1> QED
  BY <1>2, <1>3

LEMMA SentToL2Type ==
    ASSUME NEW e \in EntriesOf(L1Ways, Line), NEW r \in SentToL2(e)
    PROVE  r \in EntriesOf(L2Ways, Line)
<1>1. e.tag \in Nat /\ e.line \in Line /\ EvictSpan \in Nat \ {0} /\ 0 \in 0 .. L2Ways - 1
  BY Sizes DEF EntriesOf
<1>2. e.tag \div EvictSpan \in Nat
  BY <1>1, DivMod
<1> QED
  BY <1>1, <1>2, UseAssumption DEF SentToL2, Entry, EntriesOf

LEMMA WriteToMemoryType ==
    ASSUME NEW s, Within(s), NEW a \in Nat, NEW word \in Word,
           NEW t \in WriteToMemory(s, a, word)
    PROVE  Typed(t, a) /\ Landed(t, a, word)
<1> DEFINE i == L1Index(a)
           i2 == L2Index(a)
           row == s.l1["DATA"][i]
           line == PutWord(Load(s.mem, a), WSelect(a), word)
           new == Replace(row, Entry(1, 0, L1Tag(a), line), L1Ways)
           placed == [s EXCEPT !.mem = Store(s.mem, a, line), !.l1["DATA"][i] = new]
           sent(e) == [placed EXCEPT !.l2[i2] = Replace(placed.l2[i2], e, L2Ways)]
<1>1. CASE Outside(a)
  BY <1>1, StrayingWrite DEF WriteToMemory
<1>2. CASE ~Outside(a)
  <2>1. t = placed \/ \E e \in SentToL2(row[Victim(row)]) : t = sent(e)
    BY <1>2 DEF WriteToMemory
  <2>2. /\ i \in 0 .. L1Lines - 1 /\ "DATA" \in Access /\ L1Ways \in Nat \ {0}
        /\ s.mem \in Memory /\ i2 \in 0 .. L2Lines - 1 /\ L2Ways \in Nat \ {0}
    BY IndexType, Sizes, RowType DEF Access, Within
  <2>3. row \in SetOf(L1Ways, Line)
    BY <2>2, RowType DEF Within
  <2>4. Load(s.mem, a) \in Line
    BY <1>2, <2>2, LoadType, Sizes DEF Outside
  <2> HIDE DEF row, i, i2
  <2>5. /\ line \in Line /\ Store(s.mem, a, line) \in Memory
        /\ WordOf(Load(Store(s.mem, a, line), a), WSelect(a)) = word
    BY <1>2, <2>2, <2>4, StoredLands
  <2> HIDE DEF line
  <2>6. Entry(1, 0, L1Tag(a), line) \in EntriesOf(L1Ways, Line)
    BY <2>5, LineEntryType
  <2>7. new \in SetOf(L1Ways, Line)
    BY <2>2, <2>3, <2>6, ReplaceType
  <2> HIDE DEF new
  <2>8. Within(placed)
    BY <2>2, <2>5, <2>7, SetL1Within
  <2>9. placed.mem = Store(s.mem, a, line)
    BY DEF Within, StateType
  <2>10. placed.mem \in Memory /\ placed.l2[i2] \in SetOf(L2Ways, Line)
    BY <2>2, <2>8, RowType DEF Within
  <2> HIDE DEF placed
  <2>11. ASSUME NEW e \in SentToL2(row[Victim(row)])
         PROVE  Within(sent(e)) /\ sent(e).mem = placed.mem
    <3>1. row[Victim(row)] \in EntriesOf(L1Ways, Line)
      BY <2>2, <2>3, VictimWay DEF SetOf, EntriesOf
    <3>2. e \in EntriesOf(L2Ways, Line)
      BY <3>1, SentToL2Type
    <3>3. Replace(placed.l2[i2], e, L2Ways) \in SetOf(L2Ways, Line)
      BY <2>2, <2>10, <3>2, ReplaceType
    <3>4. Within(sent(e))
      BY <2>2, <2>8, <2>10, <3>3, SetL2Within
    <3> QED
      BY <2>8, <3>4 DEF Within, StateType
  <2> HIDE DEF sent
  <2> QED
    BY <2>1, <2>5, <2>8, <2>9, <2>11, WithinTyped DEF Landed
<1> QED
  BY <1>1, <1>2

(* The spans of the two caches: L2Lines is a multiple of L1Lines.          *)
LEMMA EvictDivisor == L2Span \div L1Span \in Nat \ {0}
<1>1. /\ L1Lines \in Nat \ {0} /\ L2Lines \in Nat \ {0} /\ LineBytes \in Nat \ {0}
      /\ L2Lines % L1Lines = 0 /\ L1Span \in Nat \ {0} /\ L2Span \in Nat \ {0}
  BY Sizes, GeometryAssumption
<1> DEFINE q == L2Lines \div L1Lines
<1>2. L2Lines = L1Lines * q /\ q \in Nat
  <2>1. q \in Nat /\ L2Lines = L1Lines * q + (L2Lines % L1Lines)
    BY <1>1, DivMod
  <2> HIDE DEF q
  <2> QED
    BY <1>1, <2>1
<1> HIDE DEF q
<1>3. q >= 1
  BY <1>1, <1>2
<1>4. L2Span >= L1Span
  <2>1. L1Lines * q >= L1Lines
    BY <1>1, <1>2, <1>3
  <2>2. L2Lines >= L1Lines
    BY <1>2, <2>1
  <2> QED
    BY <1>1, <2>2 DEF L1Span, L2Span
<1>5. ASSUME NEW n \in Nat \ {0}, NEW d \in Nat \ {0}, n >= d PROVE n \div d \in Nat \ {0}
  <2>1. n \div d \in Nat /\ n = d * (n \div d) + (n % d) /\ n % d \in 0 .. d - 1
    BY DivMod
  <2>2. ASSUME n \div d = 0 PROVE FALSE
    BY <1>5, <2>1, <2>2
  <2> QED
    BY <2>1, <2>2
<1> QED
  BY <1>1, <1>4, <1>5

LEMMA WrittenBothType ==
    ASSUME NEW s, Within(s), NEW a \in Nat, NEW word \in Word,
           NEW way2 \in 0 .. L2Ways - 1, s.l2[L2Index(a)][way2].v = 1
    PROVE  \A t \in WrittenBoth(s, a, word, way2) : Typed(t, a) /\ Landed(t, a, word)
<1> DEFINE i1 == L1Index(a)
           i2 == L2Index(a)
           k == i2 * L2Lines + way2
           row1 == s.l1["DATA"][i1]
           line == PutWord(s.l2[i2][way2].line, WSelect(a), word)
           row2 == Insert(AgeUpdate(s.l2[i2], way2), way2, Entry(1, 0, L2Tag(a), line))
           m == Store(s.mem, a, line)
           stored == [s EXCEPT !.mem = m, !.l2[i2] = row2]
           moved == FlatEntry(stored.l2, L2Ways, k).line
           new(age) == Replace(row1, Entry(1, age, L1Tag(a), moved), L1Ways)
           placed(age) == [stored EXCEPT !.l1["DATA"][i1] = new(age)]
           evicted(v) == Entry(v, 0, L1Tag(a) \div (L2Span \div L1Span), moved)
           back(v) == Replace(row2, evicted(v), L2Ways)
           both(age, v) == [placed(age) EXCEPT !.l2[i2] = back(v)]
<1>1. /\ i1 \in 0 .. L1Lines - 1 /\ i2 \in 0 .. L2Lines - 1 /\ "DATA" \in Access
      /\ L1Tag(a) \in Nat /\ L2Tag(a) \in Nat /\ WSelect(a) \in 0 .. WordsPerLine - 1
  BY IndexType DEF Access
<1>2. /\ L1Ways \in Nat \ {0} /\ L2Ways \in Nat \ {0} /\ L2Lines \in Nat \ {0}
  BY Sizes
<1>3. WrittenBoth(s, a, word, way2) =
         IF Outside(a) \/ ~InL2(k) THEN {OutOfBounds(s)}
         ELSE IF ~Full(row1) THEN {placed(age) : age \in 0 .. L1Ways - 1}
         ELSE {both(age, v) : age \in 0 .. L1Ways - 1, v \in HeapV}
  BY DEF WrittenBoth
<1>4. CASE Outside(a) \/ ~InL2(k)
  <2> HIDE DEF k, row1, placed, both
  <2> QED
    BY <1>1, <1>3, <1>4, StrayingWrite DEF i2
<1>5. CASE ~Outside(a) /\ InL2(k)
  <2>1. ASSUME NEW t \in WrittenBoth(s, a, word, way2)
        PROVE  \E age \in 0 .. L1Ways - 1, v \in HeapV : t = placed(age) \/ t = both(age, v)
    <3> HIDE DEF k, row1, placed, both
    <3> QED
      BY <1>3, <1>5, UseAssumption
  <2>2. /\ k \in Nat /\ k < L2Lines * L2Ways
    BY <1>1, <1>2, <1>5 DEF InL2
  <2>3. /\ s.mem \in Memory /\ row1 \in SetOf(L1Ways, Line)
        /\ s.l2[i2] \in SetOf(L2Ways, Line)
    BY <1>1, RowType DEF Within
  <2>4. s.l2[i2][way2].line \in Line
    BY <2>3 DEF SetOf
  <2>5. line \in Line /\ m \in Memory /\ WordOf(Load(m, a), WSelect(a)) = word
    BY <1>5, <2>3, <2>4, StoredLands
  <2> HIDE DEF line, row1, i1, i2, k
  <2>6. row2 \in SetOf(L2Ways, Line)
    <3>1. Entry(1, 0, L2Tag(a), line) \in EntriesOf(L2Ways, Line)
      BY <1>1, <1>2, <2>5 DEF Entry, EntriesOf
    <3> QED
      BY <1>2, <2>3, <3>1, AgeUpdateType, InsertType
  <2> HIDE DEF m, row2
  <2>7. Within(stored) /\ stored.mem = m
    <3>1. Within(stored)
      BY <1>1, <2>5, <2>6, SetL2Within
    <3> QED
      BY <3>1 DEF Within, StateType
  <2> HIDE DEF stored
  <2>8. moved \in Line
    BY <1>2, <2>2, <2>7, FlatEntryType DEF EntriesOf, Within, StateType, L2Array
  <2> HIDE DEF moved
  <2>9. ASSUME NEW age \in 0 .. L1Ways - 1
        PROVE  Within(placed(age)) /\ placed(age).mem = m
    <3>1. Entry(1, age, L1Tag(a), moved) \in EntriesOf(L1Ways, Line)
      BY <1>1, <2>8 DEF Entry, EntriesOf
    <3>2. new(age) \in SetOf(L1Ways, Line)
      BY <1>2, <2>3, <3>1, ReplaceType
    <3> HIDE DEF new
    <3>3. Within(placed(age))
      BY <1>1, <2>5, <2>7, <3>2, SetL1Within
    <3> QED
      BY <2>7, <3>3 DEF Within, StateType
  <2> HIDE DEF placed
  <2>10. ASSUME NEW age \in 0 .. L1Ways - 1, NEW v \in HeapV
         PROVE  Within(both(age, v)) /\ both(age, v).mem = m
    <3>1. evicted(v) \in EntriesOf(L2Ways, Line)
      <4>1. L1Tag(a) \div (L2Span \div L1Span) \in Nat
        <5>1. L2Span \div L1Span \in Nat \ {0}
          BY EvictDivisor
        <5> QED
          BY <1>1, <5>1, DivMod
      <4> QED
        BY <1>2, <2>8, <4>1, UseAssumption DEF Entry, EntriesOf
    <3> HIDE DEF evicted
    <3>2. back(v) \in SetOf(L2Ways, Line)
      BY <1>2, <2>6, <3>1, ReplaceType
    <3> HIDE DEF back
    <3>3. Within(both(age, v))
      BY <1>1, <2>5, <2>9, <3>2, SetL2Within
    <3> QED
      BY <2>9, <3>3 DEF Within, StateType
  <2> HIDE DEF both
  <2> QED
    BY <2>1, <2>5, <2>9, <2>10, WithinTyped DEF Landed
<1> QED
  BY <1>4, <1>5

LEMMA WriteType ==
    ASSUME NEW s, Within(s), NEW a \in Nat, NEW word \in Word,
           NEW t \in WriteOut(s, a, word)
    PROVE  Typed(t, a) /\ Landed(t, a, word)
<1>1. ASSUME t \in WriteToL2(s, a, word) PROVE Typed(t, a) /\ Landed(t, a, word)
  <2> DEFINE row == s.l2[L2Index(a)]
  <2>1. PICK w \in HitWays(row, L2Tag(a)) : t \in WrittenBoth(s, a, word, w)
    BY <1>1 DEF WriteToL2, L2Hit
  <2>2. row \in SetOf(L2Ways, Line) /\ L2Ways \in Nat
    BY IndexType, RowType, Sizes DEF Within
  <2>3. w \in 0 .. L2Ways - 1 /\ row[w].v = 1
    BY <2>2, HitWay
  <2> QED
    BY <2>1, <2>3, WrittenBothType
<1> QED
  BY <1>1, WriteToL1Type, WriteToMemoryType DEF WriteOut

(* The inductive form of TypeOK.                                           *)
TypeInv == StateType(State) /\ OutType

LEMMA WithinState == ASSUME TypeInv, ~oob PROVE Within(State)
BY StateFields DEF TypeInv, Within

LEMMA DeliversTyped ==
    ASSUME NEW a \in Addrs, NEW outcomes, Delivers(a, outcomes),
           \A o \in outcomes : Typed(o.s, a) /\ o.word \in Word \cup {NoWord}
    PROVE  Typed(State', a) /\ OutType'
<1>1. PICK o \in outcomes : Become(o.s) /\ out' = Result(a, o.word)
  BY DEF Delivers
<1>2. State' = o.s
  BY <1>1, BecomeState DEF Typed
<1> QED
  BY <1>1, <1>2 DEF Result, OutType

LEMMA CompletesTyped ==
    ASSUME NEW a, NEW states, Completes(states), \A s \in states : Typed(s, a)
    PROVE  Typed(State', a) /\ OutType'
<1>1. PICK s \in states : Become(s) /\ out' = Done
  BY DEF Completes
<1>2. State' = s
  BY <1>1, BecomeState DEF Typed
<1> QED
  BY <1>1, <1>2 DEF Done, Result, OutType

(* One call at a time.                                                     *)
LEMMA ReadTyped ==
    ASSUME TypeInv, NEW ac \in Access, NEW a \in Addrs, Read(ac, a)
    PROVE  Typed(State', a) /\ OutType'
<1>1. ~oob
  BY DEF Read, ReadL1Hit, ReadL2Hit, ReadMiss, Delivers
<1>2. \A o \in ReadOut(State, ac, a) : Typed(o.s, a) /\ o.word \in Word \cup {NoWord}
  BY <1>1, WithinState, AddrType, ReadType
<1>3. \E outcomes \in SUBSET ReadOut(State, ac, a) : Delivers(a, outcomes)
  BY DEF Read, ReadL1Hit, ReadL2Hit, ReadMiss, ReadOut
<1> QED
  BY <1>2, <1>3, DeliversTyped

LEMMA ReadByteTyped ==
    ASSUME TypeInv, NEW ac \in Access, NEW a \in Addrs, ReadByte(ac, a)
    PROVE  Typed(State', a) /\ OutType'
<1>1. PICK o \in ReadOut(State, ac, a) : \E word \in Received(o) :
         /\ Become(o.s)
         /\ out' = Result(a, IF o.s.oob THEN NoWord
                             ELSE [i \in {0} |-> word[a % WordBytes]])
  BY DEF ReadByte
<1>2. Typed(o.s, a) /\ o.word \in Word \cup {NoWord}
  BY WithinState, AddrType, ReadType DEF ReadByte
<1>3. Received(o) \subseteq Word
  BY <1>2 DEF Received
<1>4. PICK word \in Word :
         /\ Become(o.s)
         /\ out' = Result(a, IF o.s.oob THEN NoWord
                             ELSE [i \in {0} |-> word[a % WordBytes]])
  BY <1>1, <1>3
<1>5. State' = o.s
  BY <1>2, <1>4, BecomeState DEF Typed
<1>6. [i \in {0} |-> word[a % WordBytes]] \in [{0} -> Byte]
  BY AddrType, IndexType DEF Word
<1> QED
  BY <1>2, <1>4, <1>5, <1>6 DEF Result, OutType

LEMMA WriteTyped ==
    ASSUME TypeInv, NEW a \in DataAddrs, NEW word \in WriteWords, Write(a, word)
    PROVE  Typed(State', a) /\ Landed(State', a, word) /\ OutType'
<1>1. a \in Nat /\ word \in Word
  BY AddrType, UseAssumption DEF Addrs
<1>2. ~oob
  BY DEF Write, WriteL1Hit, WriteL2Hit, WriteMiss, Completes
<1>3. \A t \in WriteOut(State, a, word) : Typed(t, a) /\ Landed(t, a, word)
  BY <1>1, <1>2, WithinState, WriteType
<1>4. PICK states \in SUBSET WriteOut(State, a, word) : Completes(states)
  BY DEF Write, WriteL1Hit, WriteL2Hit, WriteMiss, WriteOut
<1>5. PICK t \in WriteOut(State, a, word) : Become(t)
  BY <1>4 DEF Completes
<1>6. State' = t
  BY <1>3, <1>5, BecomeState DEF Typed
<1> QED
  BY <1>3, <1>4, <1>6, CompletesTyped

LEMMA WriteByteTyped ==
    ASSUME TypeInv, NEW a \in DataAddrs, NEW b \in WriteBytes, WriteByte(a, b)
    PROVE  Typed(State', a) /\ OutType'
<1>1. a \in Nat /\ "DATA" \in Access /\ b \in Byte
  BY AddrType, UseAssumption DEF Addrs, Access
<1>2. Completes(WriteByteOut(State, a, b)) /\ Within(State)
  BY WithinState DEF WriteByte, Completes
<1>3. ASSUME NEW t \in WriteByteOut(State, a, b) PROVE Typed(t, a)
  <2>1. PICK o \in ReadOut(State, "DATA", a) :
           \/ o.s.oob /\ t = o.s
           \/ ~o.s.oob /\ \E word \in Received(o) :
                 t \in WriteOut(o.s, a, OrByte(word, a % WordBytes, b))
    BY DEF WriteByteOut
  <2>2. Typed(o.s, a) /\ o.word \in Word \cup {NoWord}
    BY <1>1, <1>2, ReadType
  <2>3. CASE o.s.oob /\ t = o.s
    BY <2>2, <2>3
  <2>4. ASSUME ~o.s.oob, NEW word \in Received(o),
               t \in WriteOut(o.s, a, OrByte(word, a % WordBytes, b))
        PROVE  Typed(t, a)
    <3>1. Within(o.s)
      BY <2>2, <2>4 DEF Typed, Within
    <3>2. word \in Word
      BY <2>2 DEF Received
    <3>3. OrByte(word, a % WordBytes, b) \in Word
      BY <1>1, <3>2, IndexType, OrByteType
    <3> QED
      BY <1>1, <2>4, <3>1, <3>3, WriteType
  <2> QED
    BY <2>1, <2>3, <2>4
<1> QED
  BY <1>2, <1>3, CompletesTyped

LEMMA FlushTyped ==
    ASSUME TypeInv, NEW cache \in FlushCaches, Flush(cache)
    PROVE  Within(State') /\ OutType'
<1>1. /\ l1 \in L1Array /\ l2 \in L2Array /\ mem \in Memory
      /\ oob' = FALSE /\ mem' = mem /\ out' = Done
  BY StateFields, WithinState DEF TypeInv, Within, StateType, Flush
<1>2. l1' \in L1Array /\ l2' \in L2Array
  <2>1. /\ L1Lines \in Nat /\ L1Ways \in Nat \ {0} /\ L2Lines \in Nat /\ L2Ways \in Nat \ {0}
    BY Sizes
  <2>2. CASE cache = "L2"
    <3>1. l2' = Flushed(l2) /\ l1' = l1
      BY <2>2 DEF Flush
    <3>2. l2 \in [0 .. L2Lines - 1 -> SetOf(L2Ways, Line)]
      BY <1>1 DEF L2Array
    <3> QED
      BY <1>1, <2>1, <3>1, <3>2, FlushedRow DEF L2Array
  <2>3. CASE cache # "L2"
    <3>1. cache \in Access
      BY <2>3, UseAssumption
    <3>2. l1' = [l1 EXCEPT ![cache] = Flushed(l1[cache])] /\ l2' = l2
      BY <2>3 DEF Flush
    <3>3. l1[cache] \in [0 .. L1Lines - 1 -> SetOf(L1Ways, Line)]
      BY <1>1, <3>1 DEF L1Array
    <3>4. Flushed(l1[cache]) \in [0 .. L1Lines - 1 -> SetOf(L1Ways, Line)]
      BY <2>1, <3>3, FlushedRow
    <3> QED
      BY <1>1, <3>1, <3>2, <3>4 DEF L1Array
  <2> QED
    BY <2>2, <2>3
<1> QED
  BY <1>1, <1>2 DEF Within, StateType, State, Done, Result, OutType

(* Every step keeps the types, and leaves the arrays only by the paths of  *)
(* StrayNeedsL2.                                                           *)
LEMMA StepTyped ==
    ASSUME TypeInv, Next
    PROVE  /\ OutType'
           /\ Within(State') \/ \E a \in Addrs : Typed(State', a)
<1>1. ASSUME NEW ac \in Access, NEW a \in AddrsOf(ac), Read(ac, a) \/ ReadByte(ac, a)
      PROVE  OutType' /\ \E x \in Addrs : Typed(State', x)
  <2>1. a \in Addrs
    BY DEF AddrsOf, Addrs
  <2> QED
    BY <1>1, <2>1, ReadTyped, ReadByteTyped
<1>2. ASSUME NEW a \in DataAddrs, NEW word \in WriteWords, Write(a, word)
      PROVE  OutType' /\ \E x \in Addrs : Typed(State', x)
  BY <1>2, WriteTyped DEF Addrs
<1>3. ASSUME NEW a \in DataAddrs, NEW b \in WriteBytes, WriteByte(a, b)
      PROVE  OutType' /\ \E x \in Addrs : Typed(State', x)
  BY <1>3, WriteByteTyped DEF Addrs
<1>4. ASSUME NEW b \in WriteBytes, WriteByteZero(b)
      PROVE  OutType' /\ Within(State')
  <2>1. State' = State /\ out' = Refusal /\ ~oob
    BY <1>4 DEF WriteByteZero, State
  <2> QED
    BY <2>1, WithinState DEF Refusal, OutType
<1>5. ASSUME NEW cache \in FlushCaches, Flush(cache)
      PROVE  OutType' /\ Within(State')
  BY <1>5, FlushTyped
<1> QED
  BY <1>1, <1>2, <1>3, <1>4, <1>5 DEF Next

LEMMA NextTyped ==
    ASSUME TypeInv, [Next]_vars
    PROVE  TypeInv'
<1>1. CASE Next
  BY <1>1, StepTyped DEF Typed, Within, TypeInv
<1>2. CASE UNCHANGED vars
  BY <1>2 DEF vars, State, TypeInv, OutType
<1> QED
  BY <1>1, <1>2

LEMMA TypeInvMeans == ASSUME TypeInv PROVE TypeOK
<1>1. mem \in Memory /\ l1 \in L1Array /\ l2 \in L2Array /\ oob \in BOOLEAN
  BY StateFields DEF TypeInv, StateType
<1> QED
  BY <1>1 DEF TypeInv, OutType, TypeOK, L1Array, L2Array

LEMMA InitTyped == ASSUME Init PROVE TypeInv
BY EmptyClean DEF CleanInv, Clean, TypeInv

(* No hypothesis on malloc or on the addresses is needed for this one.     *)
THEOREM TypeInvAlways == Spec => []TypeInv
<1>1. Init => TypeInv
  BY InitTyped
<1>2. TypeInv /\ [Next]_vars => TypeInv'
  BY NextTyped
<1> QED
  BY <1>1, <1>2, PTL DEF Spec

(* Every value a call can meet has its type (see TypeOK): ages stay in the *)
(* bit field of their cache even when an L1 entry is read as an L2 entry.  *)
THEOREM CacheTypeOK == Spec => []TypeOK
<1>1. TypeInv => TypeOK
  BY TypeInvMeans
<1> QED
  BY <1>1, TypeInvAlways, PTL

LEMMA StrayStep ==
    ASSUME InsideMemory, TypeInv, StrayNeedsL2, [Next]_vars
    PROVE  StrayNeedsL2'
<1>1. ASSUME NEW a \in Addrs, Typed(State', a) PROVE StrayNeedsL2'
  <2>1. ~Outside(a)
    BY UsedAddr, Sizes DEF Outside
  <2>2. l2' = State'.l2 /\ oob' = State'.oob
    BY DEF State
  <2> QED
    BY <1>1, <2>1, <2>2 DEF Typed, Strays, StrayNeedsL2, L2Empty
<1>2. ASSUME Within(State') PROVE StrayNeedsL2'
  BY <1>2 DEF Within, State, StrayNeedsL2
<1>3. CASE Next
  BY <1>1, <1>2, <1>3, StepTyped
<1>4. CASE UNCHANGED vars
  BY <1>4 DEF vars, StrayNeedsL2, L2Empty
<1> QED
  BY <1>3, <1>4

(* Only a hit in L2 ever takes a call past the end of an array.            *)
THEOREM StraysComeFromL2 ==
    ASSUME InsideMemory
    PROVE  Spec => []StrayNeedsL2
<1>1. Init => StrayNeedsL2
  BY DEF Init, StrayNeedsL2
<1>2. TypeInv /\ StrayNeedsL2 /\ [Next]_vars => StrayNeedsL2'
  BY StrayStep
<1> QED
  BY <1>1, <1>2, TypeInvAlways, PTL DEF Spec

LEMMA LineHasWord ==
    LineBytes >= WordBytes /\ {LineBytes, WordBytes, MemBytes} \subseteq Nat
<1>1. WordsPerLine * WordBytes >= 1 * WordBytes
  BY Sizes
<1> QED
  BY <1>1, Sizes DEF LineBytes

(* The first word of a line starts where the line does.                    *)
LEMMA FirstOfLine ==
    ASSUME NEW m, NEW a \in Nat, NEW word, WordOf(Load(m, a), 0) = word
    PROVE  InMemory(m, a, word)
<1>1. ASSUME NEW i \in 0 .. WordBytes - 1 PROVE m[a + i] = word[i]
  <2>1. 0 * WordBytes + i = i /\ i \in 0 .. LineBytes - 1
    BY LineHasWord
  <2>2. word[i] = Load(m, a)[0 * WordBytes + i]
    BY DEF WordOf
  <2> QED
    BY <2>1, <2>2 DEF Load
<1> QED
  BY <1>1 DEF InMemory

LEMMA WriteLandsStep ==
    ASSUME TypeInv, NEW a \in DataAddrs, NEW word \in WriteWords,
           Write(a, word), ~oob', WSelect(a) = 0
    PROVE  InMemory(mem', a, word)
<1>1. Landed(State', a, word) /\ State'.oob = oob' /\ State'.mem = mem'
  BY WriteTyped DEF State
<1>2. a \in Nat
  BY AddrType DEF Addrs
<1>3. WordOf(Load(mem', a), 0) = word
  BY <1>1 DEF Landed
<1> QED
  BY <1>2, <1>3, FirstOfLine

(* Whichever path cache_write takes, and whatever L2 holds: a write to the *)
(* first word of a line is in memory, at its address, when it returns.     *)
THEOREM WritesLand == Spec => WriteLands
<1>1. TypeInv /\ [Next]_vars =>
        [\A a \in DataAddrs, word \in WriteWords :
            Write(a, word) /\ ~oob' /\ WSelect(a) = 0 => InMemory(mem', a, word)]_vars
  BY WriteLandsStep
<1> QED
  BY <1>1, TypeInvAlways, PTL DEF Spec, WriteLands

-----------------------------------------------------------------------------
(***************************************************************************)
(* What a call leaves behind, with zeroed memory from malloc: the line it  *)
(* used is the one the next lookup of the address finds, and at most one   *)
(* other line is gone.                                                     *)
(***************************************************************************)

(* Lost tags: none, or one of a full set.                                  *)
OneGone(row, new) ==
    LET lost == CachedTags(row) \ CachedTags(new)
    IN  lost # {} => Full(row) /\ \A s, t \in lost : s = t

LEMMA AgeingKeepsTags ==
    ASSUME NEW row, NEW new, SameButAges(row, new)
    PROVE  CachedTags(new) = CachedTags(row)
BY DEF SameButAges, CachedTags

(* The set a hit leaves answers for the tag with the same line.            *)
LEMMA TouchHits ==
    ASSUME NEW n \in Nat \ {0}, NEW L, NEW row, Sound(row, n, L),
           NEW tag, NEW w \in HitWays(row, tag)
    PROVE  /\ HitWays(AgeUpdate(row, w), tag) = {w}
           /\ AgeUpdate(row, w)[w].line = row[w].line
           /\ CachedTags(AgeUpdate(row, w)) = CachedTags(row)
<1>1. row \in SetOf(n, L) /\ DOMAIN row = 0 .. n - 1
  BY DEF Sound, SetOf
<1>2. w \in 0 .. n - 1 /\ row[w].v = 1 /\ row[w].tag = tag
  BY <1>1 DEF HitWays
<1> DEFINE new == AgeUpdate(row, w)
<1>3. Sound(new, n, L) /\ SameButAges(row, new)
  BY <1>1, <1>2, AgeUpdateType, TouchSound
<1> HIDE DEF new
<1>4. new[w].v = 1 /\ new[w].tag = tag /\ new[w].line = row[w].line
  BY <1>1, <1>2, <1>3 DEF SameButAges
<1> QED
  BY <1>2, <1>3, <1>4, HitAt, AgeingKeepsTags DEF new

(* Overwriting the hit entry with one of the same tag.                     *)
LEMMA RewriteHits ==
    ASSUME NEW n \in Nat \ {0}, NEW L, NEW row, Sound(row, n, L),
           NEW tag, NEW w \in HitWays(row, tag),
           NEW e \in EntriesOf(n, L), e.v = 1, e.tag = tag
    PROVE  LET new == Insert(AgeUpdate(row, w), w, e)
           IN  /\ HitWays(new, tag) = {w}
               /\ new[w].line = e.line
               /\ CachedTags(new) = CachedTags(row)
<1> DEFINE aged == AgeUpdate(row, w)
           new == Insert(aged, w, e)
<1>1. row \in SetOf(n, L) /\ DOMAIN row = 0 .. n - 1
  BY DEF Sound, SetOf
<1>2. w \in 0 .. n - 1 /\ row[w].v = 1 /\ row[w].tag = tag
  BY <1>1 DEF HitWays
<1>3. Sound(new, n, L)
  BY RewriteSound
<1>4. aged \in SetOf(n, L) /\ SameButAges(row, aged) /\ DOMAIN aged = 0 .. n - 1
  <2>1. aged \in SetOf(n, L) /\ SameButAges(row, aged)
    BY <1>1, <1>2, AgeUpdateType
  <2> QED
    BY <2>1 DEF SetOf
<1> HIDE DEF aged
<1>5. new[w] = e /\ \A x \in 0 .. n - 1 : x # w => new[x] = aged[x]
  BY <1>2, <1>4, InsertType
<1>6. DOMAIN new = 0 .. n - 1
  BY <1>3 DEF Sound, SetOf
<1> HIDE DEF new
<1>7. \A x \in 0 .. n - 1 : new[x].v = row[x].v /\ new[x].tag = row[x].tag
  BY <1>1, <1>2, <1>4, <1>5 DEF SameButAges
<1>8. CachedTags(new) = CachedTags(row)
  BY <1>1, <1>6, <1>7 DEF CachedTags
<1>9. HitWays(new, tag) = {w}
  BY <1>2, <1>3, <1>5, HitAt
<1> QED
  BY <1>5, <1>8, <1>9 DEF new, aged

(* The two ways of filling a set on a miss.                                *)
LEMMA FillHits ==
    ASSUME NEW n \in Nat \ {0}, NEW L, NEW row, Sound(row, n, L),
           NEW e \in EntriesOf(n, L), e.v = 1, HitWays(row, e.tag) = {},
           NEW new \in {AgeUpdate(Insert(row, Victim(row), e), Victim(row)),
                        Replace(row, e, n)}
    PROVE  /\ HitWays(new, e.tag) = {Victim(row)}
           /\ new[Victim(row)].line = e.line
           /\ OneGone(row, new)
<1> DEFINE w == Victim(row)
           put == Insert(row, w, e)
<1>1. row \in SetOf(n, L) /\ DOMAIN row = 0 .. n - 1
  BY DEF Sound, SetOf
<1>2. w \in 0 .. n - 1
  BY <1>1, VictimWay
<1>3. Sound(new, n, L)
  BY FillSound
<1>4. put \in SetOf(n, L) /\ put[w] = e /\ \A x \in 0 .. n - 1 : x # w => put[x] = row[x]
  BY <1>1, <1>2, InsertType
<1>5. SameButAges(put, new)
  <2>1. SameButAges(put, AgeUpdate(put, w)) /\ SameButAges(put, AgeIncrease(put, w, n))
    BY <1>2, <1>4, AgeUpdateType, AgeIncreaseType
  <2> QED
    BY <2>1 DEF Replace
<1>6. ~Full(row) => row[w].v = 0
  BY <1>1, FirstInvalidWay DEF Victim
<1> HIDE DEF w, put
<1>7. DOMAIN put = 0 .. n - 1
  BY <1>4 DEF SetOf
<1>8. new[w].v = 1 /\ new[w].tag = e.tag /\ new[w].line = e.line
  BY <1>2, <1>4, <1>5, <1>7 DEF SameButAges
<1>9. HitWays(new, e.tag) = {w}
  BY <1>2, <1>3, <1>8, HitAt
<1>10. CachedTags(new) = CachedTags(put)
  BY <1>5, AgeingKeepsTags
<1>11. ASSUME NEW t \in CachedTags(row), t \notin CachedTags(new)
       PROVE  Full(row) /\ t = row[w].tag
  <2>1. PICK x \in 0 .. n - 1 : row[x].v = 1 /\ row[x].tag = t
    BY <1>1, <1>11 DEF CachedTags
  <2>2. x = w
    BY <1>4, <1>7, <1>10, <1>11, <2>1 DEF CachedTags
  <2> QED
    BY <1>6, <2>1, <2>2
<1>12. OneGone(row, new)
  BY <1>11 DEF OneGone
<1> QED
  BY <1>8, <1>9, <1>12 DEF w

(* The next read of the address hits in L1, and what it delivers.          *)
Answers(t, ac, a, word) ==
    \E w : /\ L1Hit(t, ac, a) = {w}
           /\ WordOf(t.l1[ac][L1Index(a)][w].line, WSelect(a)) = word

(* Between two L1 arrays.                                                  *)
Evicts(l, m) ==
    \A ac \in Access, i \in 0 .. L1Lines - 1 : OneGone(l[ac][i], m[ac][i])
SameTags(l, m) ==
    \A ac \in Access, i \in 0 .. L1Lines - 1 :
        CachedTags(l[ac][i]) = CachedTags(m[ac][i])

LEMMA AnswersRead ==
    ASSUME NEW t, NEW ac, NEW a, NEW word, Answers(t, ac, a, word),
           NEW o \in ReadOut(t, ac, a)
    PROVE  o.word = word
<1>1. PICK w : /\ L1Hit(t, ac, a) = {w}
               /\ WordOf(t.l1[ac][L1Index(a)][w].line, WSelect(a)) = word
  BY DEF Answers
<1>2. ReadFromL2(t, ac, a) = {} /\ ReadFromMemory(t, ac, a) = {}
  BY <1>1 DEF ReadFromL2, ReadFromMemory, L2Hit, Miss
<1>3. o \in ReadFromL1(t, ac, a)
  BY <1>2 DEF ReadOut
<1> HIDE DEF ReadOut
<1>4. PICK x \in L1Hit(t, ac, a) :
         o = [s |-> [t EXCEPT !.l1[ac][L1Index(a)] = AgeUpdate(t.l1[ac][L1Index(a)], x)],
              word |-> WordOf(t.l1[ac][L1Index(a)][x].line, WSelect(a))]
  BY <1>3 DEF ReadFromL1
<1> QED
  BY <1>1, <1>4

(* A call that changes one L1 set.                                         *)
LEMMA OneRow ==
    ASSUME NEW l \in L1Array, NEW ac \in Access, NEW i \in 0 .. L1Lines - 1,
           NEW row, OneGone(l[ac][i], row)
    PROVE  LET m == [l EXCEPT ![ac][i] = row]
           IN  /\ m[ac][i] = row
               /\ Evicts(l, m)
               /\ CachedTags(l[ac][i]) = CachedTags(row) => SameTags(l, m)
<1> DEFINE m == [l EXCEPT ![ac][i] = row]
<1>1. /\ m[ac][i] = row
      /\ \A c \in Access, j \in 0 .. L1Lines - 1 :
            m[c][j] = l[c][j] \/ (c = ac /\ j = i)
  BY DEF L1Array
<1> HIDE DEF m
<1>2. \A r : OneGone(r, r)
  BY DEF OneGone
<1>3. ASSUME NEW c \in Access, NEW j \in 0 .. L1Lines - 1 PROVE OneGone(l[c][j], m[c][j])
  <2>1. CASE m[c][j] = l[c][j]
    BY <1>2, <2>1
  <2>2. CASE c = ac /\ j = i
    BY <1>1, <2>2
  <2> QED
    BY <1>1, <2>1, <2>2
<1>4. Evicts(l, m)
  BY <1>3 DEF Evicts
<1>5. CachedTags(l[ac][i]) = CachedTags(row) => SameTags(l, m)
  BY <1>1 DEF SameTags
<1> QED
  BY <1>1, <1>4, <1>5 DEF m

LEMMA ReadKeeps ==
    ASSUME NEW s, Clean(s), NEW ac \in Access, NEW a \in Nat,
           a + LineBytes <= MemBytes, NEW o \in ReadOut(s, ac, a)
    PROVE  Answers(o.s, ac, a, o.word) /\ Evicts(s.l1, o.s.l1)
<1> DEFINE i == L1Index(a)
           tag == L1Tag(a)
           row == s.l1[ac][i]
<1>1. /\ i \in 0 .. L1Lines - 1 /\ L1Ways \in Nat \ {0} /\ Sound(row, L1Ways, Line)
  BY IndexType, L1RowSound, Sizes
<1>2. row = s.l1[ac][i]
  OBVIOUS
<1>3. s.l1 \in L1Array
  BY DEF Clean, StateType
<1>4. \A new : [s EXCEPT !.l1[ac][i] = new].l1 = [s.l1 EXCEPT ![ac][i] = new]
  BY DEF Clean, StateType
<1>5. ASSUME o \in ReadFromL1(s, ac, a) PROVE Answers(o.s, ac, a, o.word) /\ Evicts(s.l1, o.s.l1)
  <2>1. PICK w \in HitWays(row, tag) :
           o = [s |-> [s EXCEPT !.l1[ac][i] = AgeUpdate(row, w)],
                word |-> WordOf(row[w].line, WSelect(a))]
    BY <1>5 DEF ReadFromL1, L1Hit
  <2> DEFINE new == AgeUpdate(row, w)
  <2>2. /\ HitWays(new, tag) = {w} /\ new[w].line = row[w].line
        /\ CachedTags(new) = CachedTags(row)
    BY <1>1, TouchHits
  <2>3. o.s.l1 = [s.l1 EXCEPT ![ac][i] = new] /\ o.word = WordOf(row[w].line, WSelect(a))
    BY <1>4, <2>1
  <2> HIDE DEF new, row, i
  <2>4. OneGone(s.l1[ac][i], new)
    BY <1>2, <2>2 DEF OneGone
  <2>5. o.s.l1[ac][i] = new /\ Evicts(s.l1, o.s.l1)
    <3> DEFINE m == [s.l1 EXCEPT ![ac][i] = new]
    <3>1. m[ac][i] = new
      BY <1>1, <1>3 DEF L1Array
    <3>2. Evicts(s.l1, m)
      BY <1>1, <1>3, <2>4, OneRow, Zenon
    <3> QED
      BY <2>3, <3>1, <3>2
  <2> QED
    BY <2>2, <2>3, <2>5 DEF Answers, L1Hit, i
<1>6. ASSUME o \in ReadFromMemory(s, ac, a) PROVE Answers(o.s, ac, a, o.word) /\ Evicts(s.l1, o.s.l1)
  <2> DEFINE e == Fetched(s.mem, a)
             w == Victim(row)
             new == AgeUpdate(Insert(row, w, e), w)
  <2>1. HitWays(row, tag) = {} /\ ~Outside(a)
    BY <1>6, Sizes DEF ReadFromMemory, Miss, L1Hit, Outside
  <2>2. o = [s |-> [s EXCEPT !.l1[ac][i] = new],
             word |-> WordOf(Load(s.mem, a), WSelect(a))]
    BY <1>6, <2>1 DEF ReadFromMemory
  <2>3. /\ e \in EntriesOf(L1Ways, Line) /\ e.v = 1 /\ e.tag = tag
        /\ e.line = Load(s.mem, a)
    BY FetchedType DEF Clean, StateType
  <2>4. o.s.l1 = [s.l1 EXCEPT ![ac][i] = new] /\ o.word = WordOf(Load(s.mem, a), WSelect(a))
    BY <1>4, <2>2
  <2>5. new \in {AgeUpdate(Insert(row, Victim(row), e), Victim(row)), Replace(row, e, L1Ways)}
    OBVIOUS
  <2> HIDE DEF new, row, i, tag, e
  <2>6. /\ HitWays(new, tag) = {w} /\ new[w].line = e.line /\ OneGone(row, new)
    BY <1>1, <2>1, <2>3, <2>5, FillHits
  <2>7. OneGone(s.l1[ac][i], new)
    BY <1>2, <2>6
  <2>8. o.s.l1[ac][i] = new /\ Evicts(s.l1, o.s.l1)
    <3> DEFINE m == [s.l1 EXCEPT ![ac][i] = new]
    <3>1. m[ac][i] = new
      BY <1>1, <1>3 DEF L1Array
    <3>2. Evicts(s.l1, m)
      BY <1>1, <1>3, <2>7, OneRow, Zenon
    <3> QED
      BY <2>4, <3>1, <3>2
  <2> QED
    BY <2>3, <2>4, <2>6, <2>8 DEF Answers, L1Hit, i, tag
<1>7. ReadFromL2(s, ac, a) = {}
  BY NoL2Hit DEF ReadFromL2
<1> QED
  BY <1>5, <1>6, <1>7 DEF ReadOut

(* After cache_write the line of L1 is the line of memory, with the word.  *)
Through(t, a) ==
    \E w \in L1Hit(t, "DATA", a) : t.l1["DATA"][L1Index(a)][w].line = Load(t.mem, a)

LEMMA WriteKeeps ==
    ASSUME NEW s, Clean(s), NEW a \in Nat, a + LineBytes <= MemBytes,
           NEW word \in Word, NEW t \in WriteOut(s, a, word)
    PROVE  /\ Answers(t, "DATA", a, word) /\ Through(t, a) /\ Evicts(s.l1, t.l1)
           /\ L1Hit(s, "DATA", a) # {} => SameTags(s.l1, t.l1)
<1> DEFINE i == L1Index(a)
           tag == L1Tag(a)
           row == s.l1["DATA"][i]
           put(line) == PutWord(line, WSelect(a), word)
<1>1. /\ i \in 0 .. L1Lines - 1 /\ L1Ways \in Nat \ {0} /\ "DATA" \in Access
      /\ WSelect(a) \in 0 .. WordsPerLine - 1 /\ s.mem \in Memory
  BY IndexType, Sizes DEF Access, Clean, StateType
<1>2. Sound(row, L1Ways, Line)
  BY <1>1, L1RowSound
<1>3. row = s.l1["DATA"][i]
  OBVIOUS
<1>4. s.l1 \in L1Array
  BY DEF Clean, StateType
<1>5. ~Outside(a)
  BY Sizes DEF Outside
<1>6. \A m, new : /\ [s EXCEPT !.mem = m, !.l1["DATA"][i] = new].l1 = [s.l1 EXCEPT !["DATA"][i] = new]
                  /\ [s EXCEPT !.mem = m, !.l1["DATA"][i] = new].mem = m
  BY DEF Clean, StateType
<1>7. ASSUME t \in WriteToL1(s, a, word)
      PROVE  Answers(t, "DATA", a, word) /\ Through(t, a) /\ Evicts(s.l1, t.l1) /\ SameTags(s.l1, t.l1)
  <2> DEFINE e(w) == Entry(1, 0, tag, put(row[w].line))
             new(w) == Insert(AgeUpdate(row, w), w, e(w))
  <2>1. PICK w \in HitWays(row, tag) :
           t = [s EXCEPT !.mem = Store(s.mem, a, put(row[w].line)), !.l1["DATA"][i] = new(w)]
    BY <1>5, <1>7 DEF WriteToL1, L1Hit
  <2>2. row[w].line \in Line
    BY <1>1, <1>2, HitWay DEF Sound, EntriesOf
  <2>3. /\ put(row[w].line) \in Line /\ WordOf(put(row[w].line), WSelect(a)) = word
        /\ Load(Store(s.mem, a, put(row[w].line)), a) = put(row[w].line)
    BY <1>1, <2>2, PutWordType, WordPut, StoreThere
  <2>4. /\ e(w) \in EntriesOf(L1Ways, Line) /\ e(w).v = 1 /\ e(w).tag = tag
        /\ e(w).line = put(row[w].line)
    BY <2>3, LineEntryType
  <2>5. t.l1 = [s.l1 EXCEPT !["DATA"][i] = new(w)] /\ t.mem = Store(s.mem, a, put(row[w].line))
    BY <1>6, <2>1
  <2> HIDE DEF row, i, tag, put, e
  <2>6. /\ HitWays(new(w), tag) = {w} /\ new(w)[w].line = put(row[w].line)
        /\ CachedTags(new(w)) = CachedTags(row)
    BY <1>1, <1>2, <2>4, RewriteHits
  <2> HIDE DEF new
  <2>7. OneGone(s.l1["DATA"][i], new(w))
    BY <1>3, <2>6 DEF OneGone
  <2>8. t.l1["DATA"][i] = new(w) /\ Evicts(s.l1, t.l1) /\ SameTags(s.l1, t.l1)
    <3> DEFINE m == [s.l1 EXCEPT !["DATA"][i] = new(w)]
    <3>1. m["DATA"][i] = new(w)
      BY <1>1, <1>4 DEF L1Array
    <3>2. Evicts(s.l1, m)
      BY <1>1, <1>4, <2>7, OneRow, Zenon
    <3>3. CachedTags(s.l1["DATA"][i]) = CachedTags(new(w))
      BY <1>3, <2>6
    <3>4. SameTags(s.l1, m)
      BY <1>1, <1>4, <2>7, <3>3, OneRow, Zenon
    <3> QED
      BY <2>5, <3>1, <3>2, <3>4
  <2> QED
    BY <2>3, <2>5, <2>6, <2>8 DEF Answers, Through, L1Hit, i, tag
<1>8. ASSUME t \in WriteToMemory(s, a, word)
      PROVE  /\ Answers(t, "DATA", a, word) /\ Through(t, a) /\ Evicts(s.l1, t.l1)
             /\ L1Hit(s, "DATA", a) = {}
  <2> DEFINE line == put(Load(s.mem, a))
             e == Entry(1, 0, tag, line)
             new == Replace(row, e, L1Ways)
             w == Victim(row)
             placed == [s EXCEPT !.mem = Store(s.mem, a, line), !.l1["DATA"][i] = new]
  <2>1. HitWays(row, tag) = {} /\ L1Hit(s, "DATA", a) = {}
    BY <1>8 DEF WriteToMemory, Miss, L1Hit
  <2>2. \/ t = placed
        \/ \E r : t = [placed EXCEPT !.l2[L2Index(a)] = Replace(@, r, L2Ways)]
    BY <1>5, <1>8 DEF WriteToMemory
  <2>3. Load(s.mem, a) \in Line
    BY <1>1, LoadType
  <2>4. /\ line \in Line /\ WordOf(line, WSelect(a)) = word
        /\ Load(Store(s.mem, a, line), a) = line
    BY <1>1, <2>3, PutWordType, WordPut, StoreThere
  <2>5. placed.l1 = [s.l1 EXCEPT !["DATA"][i] = new] /\ placed.mem = Store(s.mem, a, line)
    BY <1>6
  <2>6. \A r : /\ [placed EXCEPT !.l2[L2Index(a)] = r].l1 = placed.l1
                /\ [placed EXCEPT !.l2[L2Index(a)] = r].mem = placed.mem
    BY DEF Clean, StateType
  <2> HIDE DEF placed, line
  <2>7. t.l1 = [s.l1 EXCEPT !["DATA"][i] = new] /\ t.mem = Store(s.mem, a, line)
    BY <2>2, <2>5, <2>6
  <2>8. e \in EntriesOf(L1Ways, Line) /\ e.v = 1 /\ e.tag = tag /\ e.line = line
    BY <2>4, LineEntryType
  <2>9. new \in {AgeUpdate(Insert(row, Victim(row), e), Victim(row)), Replace(row, e, L1Ways)}
    OBVIOUS
  <2> HIDE DEF row, i, tag, e, new
  <2>10. HitWays(new, tag) = {w} /\ new[w].line = line /\ OneGone(row, new)
    BY <1>1, <1>2, <2>1, <2>8, <2>9, FillHits
  <2>11. OneGone(s.l1["DATA"][i], new)
    BY <1>3, <2>10
  <2>12. t.l1["DATA"][i] = new /\ Evicts(s.l1, t.l1)
    <3> DEFINE m == [s.l1 EXCEPT !["DATA"][i] = new]
    <3>1. m["DATA"][i] = new
      BY <1>1, <1>4 DEF L1Array
    <3>2. Evicts(s.l1, m)
      BY <1>1, <1>4, <2>11, OneRow, Zenon
    <3> QED
      BY <2>7, <3>1, <3>2
  <2> QED
    BY <2>1, <2>4, <2>7, <2>10, <2>12 DEF Answers, Through, L1Hit, i, tag
<1>9. WriteToL2(s, a, word) = {}
  <2>1. L2Hit(s, "DATA", a) = {}
    BY <1>1, NoL2Hit
  <2> QED
    BY <2>1 DEF WriteToL2
<1> QED
  BY <1>7, <1>8, <1>9 DEF WriteOut

(* The calls, in the steps of the specification.                           *)
LEMMA ReadEffect ==
    ASSUME InsideMemory, Clean(State), NEW ac \in Access, NEW a \in Addrs, Read(ac, a)
    PROVE  Answers(State', ac, a, out'.val) /\ Evicts(l1, l1')
<1>1. PICK o \in ReadOut(State, ac, a) : Become(o.s) /\ out' = Result(a, o.word)
  BY DEF Read, ReadL1Hit, ReadL2Hit, ReadMiss, Delivers, ReadOut
<1>2. a \in Nat /\ a + LineBytes <= MemBytes
  BY UsedAddr
<1>3. Answers(o.s, ac, a, o.word) /\ Evicts(State.l1, o.s.l1) /\ Clean(o.s)
  BY <1>2, ReadKeeps, ReadClean
<1>4. State' = o.s /\ l1' = o.s.l1
  BY <1>1, <1>3, BecomeState DEF Clean, Become
<1>5. out'.val = o.word
  BY <1>1 DEF Result
<1> QED
  BY <1>3, <1>4, <1>5, StateFields

LEMMA ReadByteEffect ==
    ASSUME InsideMemory, Clean(State), NEW ac \in Access, NEW a \in Addrs, ReadByte(ac, a)
    PROVE  Evicts(l1, l1')
<1>1. PICK o \in ReadOut(State, ac, a) : Become(o.s)
  BY DEF ReadByte
<1>2. Evicts(State.l1, o.s.l1)
  BY UsedAddr, ReadKeeps
<1> QED
  BY <1>1, <1>2, StateFields DEF Become

LEMMA WriteEffect ==
    ASSUME ZeroHeap, InsideMemory, Clean(State), NEW a \in DataAddrs,
           NEW word \in WriteWords, Write(a, word)
    PROVE  /\ Answers(State', "DATA", a, word) /\ Through(State', a)
           /\ Evicts(l1, l1')
<1>1. PICK t \in WriteOut(State, a, word) : Become(t)
  BY DEF Write, WriteL1Hit, WriteL2Hit, WriteMiss, Completes, WriteOut
<1>2. a \in Nat /\ a + LineBytes <= MemBytes /\ word \in Word
  BY UsedAddr, UseAssumption DEF Addrs
<1>3. /\ Answers(t, "DATA", a, word) /\ Through(t, a) /\ Evicts(State.l1, t.l1)
      /\ Clean(t)
  BY <1>2, WriteKeeps, WriteClean
<1>4. State' = t /\ l1' = t.l1
  BY <1>1, <1>3, BecomeState DEF Clean, Become
<1> QED
  BY <1>3, <1>4, StateFields

(* The write of cache_write_byte hits the line its read has brought in.    *)
LEMMA WriteByteEffect ==
    ASSUME InsideMemory, Clean(State), NEW a \in DataAddrs, NEW b \in WriteBytes,
           WriteByte(a, b)
    PROVE  Evicts(l1, l1')
<1>1. PICK t \in WriteByteOut(State, a, b) : Become(t)
  BY DEF WriteByte, Completes
<1>2. a \in Nat /\ a + LineBytes <= MemBytes /\ "DATA" \in Access /\ b \in Byte
  BY UsedAddr, UseAssumption DEF Addrs, Access
<1>3. PICK o \in ReadOut(State, "DATA", a) :
         \/ o.s.oob
         \/ \E word \in Received(o) : t \in WriteOut(o.s, a, OrByte(word, a % WordBytes, b))
  BY DEF WriteByteOut
<1>4. /\ Clean(o.s) /\ o.word \in Word
      /\ Answers(o.s, "DATA", a, o.word) /\ Evicts(State.l1, o.s.l1)
  BY <1>2, ReadClean, ReadKeeps
<1>5. PICK word \in Word : t \in WriteOut(o.s, a, OrByte(word, a % WordBytes, b))
  BY <1>3, <1>4 DEF Clean, Received
<1>6. OrByte(word, a % WordBytes, b) \in Word
  BY <1>2, IndexType, OrByteType
<1>7. L1Hit(o.s, "DATA", a) # {}
  BY <1>4 DEF Answers
<1>8. SameTags(o.s.l1, t.l1)
  BY <1>2, <1>4, <1>5, <1>6, <1>7, WriteKeeps
<1>9. Evicts(State.l1, t.l1)
  BY <1>4, <1>8 DEF Evicts, SameTags, OneGone
<1> QED
  BY <1>1, <1>9, StateFields DEF Become

(* cache_write leaves the address in L1, in a line equal to memory there.  *)
THEOREM WritesThrough ==
    ASSUME ZeroHeap, InsideMemory
    PROVE  Spec => WriteThrough
<1>1. CleanInv /\ [Next]_vars =>
        [\A a \in DataAddrs, word \in WriteWords :
            Write(a, word) =>
                \E w \in L1Hit(State', "DATA", a) :
                    l1'["DATA"][L1Index(a)][w].line = Load(mem', a)]_vars
  <2> SUFFICES ASSUME CleanInv, NEW a \in DataAddrs, NEW word \in WriteWords, Write(a, word)
               PROVE  \E w \in L1Hit(State', "DATA", a) :
                          l1'["DATA"][L1Index(a)][w].line = Load(mem', a)
    OBVIOUS
  <2>1. Through(State', a)
    BY WriteEffect DEF CleanInv
  <2>2. State'.l1 = l1' /\ State'.mem = mem'
    BY DEF State
  <2> QED
    BY <2>1, <2>2 DEF Through
<1> QED
  BY <1>1, CleanAlways, PTL DEF Spec, WriteThrough

(* The next read of an address delivers the word just written to it.       *)
THEOREM WordsReadBack ==
    ASSUME ZeroHeap, InsideMemory
    PROVE  Spec => ReadBack
<1>1. CleanInv /\ [Next]_vars =>
        [\A a \in DataAddrs, word \in WriteWords :
            Write(a, word) =>
                \A o \in ReadOut(State', "DATA", a) : o.word = word]_vars
  BY WriteEffect, AnswersRead DEF CleanInv
<1> QED
  BY <1>1, CleanAlways, PTL DEF Spec, ReadBack

(* A read leaves its line in L1, and the same read delivers the same word. *)
THEOREM RepeatedReads ==
    ASSUME ZeroHeap, InsideMemory
    PROVE  Spec => ReadsRepeat
<1>1. CleanInv /\ [Next]_vars =>
        [\A ac \in Access : \A a \in AddrsOf(ac) :
            Read(ac, a) =>
                /\ L1Hit(State', ac, a) # {}
                /\ \A o \in ReadOut(State', ac, a) : o.word = out'.val]_vars
  <2> SUFFICES ASSUME CleanInv, NEW ac \in Access, NEW a \in AddrsOf(ac), Read(ac, a)
               PROVE  /\ L1Hit(State', ac, a) # {}
                      /\ \A o \in ReadOut(State', ac, a) : o.word = out'.val
    OBVIOUS
  <2>1. Answers(State', ac, a, out'.val)
    BY ReadEffect DEF CleanInv, AddrsOf, Addrs
  <2>2. L1Hit(State', ac, a) # {}
    BY <2>1 DEF Answers
  <2> QED
    BY <2>1, <2>2, AnswersRead
<1> QED
  BY <1>1, CleanAlways, PTL DEF Spec, ReadsRepeat

LEMMA EvictStep ==
    ASSUME ZeroHeap, InsideMemory, CleanInv, Next
    PROVE  Evicts(l1, l1') \/ \E cache \in FlushCaches : Flush(cache)
<1> USE DEF CleanInv
<1>1. ASSUME NEW ac \in Access, NEW a \in AddrsOf(ac), Read(ac, a) \/ ReadByte(ac, a)
      PROVE  Evicts(l1, l1')
  BY <1>1, ReadEffect, ReadByteEffect DEF AddrsOf, Addrs
<1>2. ASSUME NEW a \in DataAddrs, NEW word \in WriteWords, Write(a, word)
      PROVE  Evicts(l1, l1')
  BY <1>2, WriteEffect
<1>3. ASSUME NEW a \in DataAddrs, NEW b \in WriteBytes, WriteByte(a, b)
      PROVE  Evicts(l1, l1')
  BY <1>3, WriteByteEffect
<1>4. ASSUME NEW b \in WriteBytes, WriteByteZero(b) PROVE Evicts(l1, l1')
  <2>1. l1' = l1
    BY <1>4 DEF WriteByteZero
  <2> QED
    BY <2>1 DEF Evicts, OneGone
<1> QED
  BY <1>1, <1>2, <1>3, <1>4 DEF Next

(* A call that is not a flush takes at most one line from a set, and none  *)
(* from a set with an invalid way.                                         *)
THEOREM EvictionsAreSparse ==
    ASSUME ZeroHeap, InsideMemory
    PROVE  Spec => EvictsOneFromFull
<1>1. CleanInv /\ [Next]_vars =>
        [\A ac \in Access, i \in 0 .. L1Lines - 1 :
            LET lost == CachedTags(l1[ac][i]) \ CachedTags(l1'[ac][i])
            IN  lost # {} => \/ Flush(ac)
                             \/ Full(l1[ac][i]) /\ \A s, t \in lost : s = t]_vars
  <2> SUFFICES ASSUME CleanInv, Next, NEW ac \in Access, NEW i \in 0 .. L1Lines - 1
               PROVE  LET lost == CachedTags(l1[ac][i]) \ CachedTags(l1'[ac][i])
                      IN  lost # {} => \/ Flush(ac)
                                       \/ Full(l1[ac][i]) /\ \A s, t \in lost : s = t
    OBVIOUS
  <2>1. CASE Evicts(l1, l1')
    BY <2>1 DEF Evicts, OneGone
  <2>2. ASSUME NEW cache \in FlushCaches, Flush(cache)
        PROVE  Flush(ac) \/ l1'[ac] = l1[ac]
    <3>1. l1 \in L1Array
      BY StateFields DEF CleanInv, Clean, StateType
    <3> QED
      BY <2>2, <3>1 DEF Flush, L1Array
  <2> QED
    BY <2>1, <2>2, EvictStep
<1> QED
  BY <1>1, CleanAlways, PTL DEF Spec, EvictsOneFromFull
=============================================================================
