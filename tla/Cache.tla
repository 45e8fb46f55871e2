-------------------------------- MODULE Cache --------------------------------
(***************************************************************************)
(* The cache hierarchy of cache_mng.c: an instruction and a data L1 cache  *)
(* over one L2 cache over the byte memory of the simulated machine.  One   *)
(* action is one call of the interface of cache_mng.h, from its first      *)
(* check to its return; each path through cache_read and cache_write is a  *)
(* disjunct of its own.                                                    *)
(*                                                                         *)
(* A call is described by an operator that yields the set of its outcomes  *)
(* (more than one where the code uses memory it never initialised), so     *)
(* that cache_read_byte and cache_write_byte can be built from cache_read  *)
(* and cache_write as the code builds them.                                *)
(***************************************************************************)
EXTENDS CacheSet, Sequences

CONSTANTS
    WordBytes,      \* sizeof(word_t): 4
    WordsPerLine,   \* L1_ICACHE_WORDS_PER_LINE: 4
    L1Lines,        \* L1_DCACHE_LINES: 64
    L1Ways,         \* L1_DCACHE_WAYS: 4
    L2Lines,        \* L2_CACHE_LINES: 512
    L2Ways,         \* L2_CACHE_WAYS: 8
    EvictSpan,      \* 2^(L1_DCACHE_TAG_REMAINING_BITS - L2_CACHE_WORDS_PER_LINE)
    MemBytes,       \* size of mem_space
    Bits,           \* the bits of a byte: a byte is the set of its 1 bits
    InitMem,        \* the memories a program can start from
    FetchAddrs,     \* physical addresses used with access == INSTRUCTION
    DataAddrs,      \* physical addresses used with access == DATA
    WriteWords,     \* the words programs write
    WriteBytes,     \* the bytes programs write
    FlushCaches,    \* the caches programs flush after the start
    HeapV           \* what malloc can leave in the v bit of a new entry

Byte == SUBSET Bits
Word == [0 .. WordBytes - 1 -> Byte]
LineBytes == WordsPerLine * WordBytes
Line == [0 .. LineBytes - 1 -> Byte]
Memory == [0 .. MemBytes - 1 -> Byte]
L1Span == LineBytes * L1Lines       \* 2^L1_DCACHE_TAG_REMAINING_BITS
L2Span == LineBytes * L2Lines       \* 2^L2_CACHE_TAG_REMAINING_BITS
Access == {"INSTRUCTION", "DATA"}
Addrs == FetchAddrs \cup DataAddrs

ASSUME GeometryAssumption ==
    /\ {WordBytes, WordsPerLine, L1Lines, L1Ways, L2Lines, L2Ways, EvictSpan}
          \subseteq Nat \ {0}
    /\ L2Lines % L1Lines = 0 /\ L2Ways % L1Ways = 0

ASSUME UseAssumption ==
    /\ MemBytes \in Nat
    /\ InitMem \subseteq Memory
    /\ Addrs \subseteq 0 .. MemBytes - 1
    /\ WriteWords \subseteq Word
    /\ WriteBytes \subseteq Byte
    /\ FlushCaches \subseteq Access \cup {"L2"}
    /\ HeapV \subseteq {0, 1} /\ HeapV # {}

(* What some theorems and runs assume of the world around the caches:      *)
(* malloc hands out zeroed memory; no line copied from or to memory        *)
(* crosses its end; and no line is both fetched from and used as data.     *)
ZeroHeap == HeapV = {0}
InsideMemory == \A a \in Addrs : a + LineBytes <= MemBytes
CodeApart ==
    \A a \in FetchAddrs, b \in DataAddrs : a \div LineBytes # b \div LineBytes

VARIABLES
    mem,    \* mem_space
    l1,     \* l1[INSTRUCTION] is the L1_ICACHE, l1[DATA] the L1_DCACHE
    l2,     \* the L2_CACHE
    oob,    \* a call has read or written past the end of an array
    out     \* what the last call returned, delivered, and of which address

vars == <<mem, l1, l2, oob, out>>

(* The state a call works on, as a value.                                  *)
State == [mem |-> mem, l1 |-> l1, l2 |-> l2, oob |-> oob]
Become(s) == /\ mem' = s.mem
             /\ l1' = s.l1
             /\ l2' = s.l2
             /\ oob' = s.oob

NoWord == << >>     \* *word is left as the caller had it
NoAddr == -1        \* the call is not there to deliver anything
Result(a, val) == [err |-> "ERR_NONE", at |-> a, val |-> val]
Done == Result(NoAddr, NoWord)
Refusal == [err |-> "ERR_BAD_PARAMETER", at |-> NoAddr, val |-> NoWord]
-----------------------------------------------------------------------------
(* Addresses, lines and words.                                             *)

L1Index(a) == (a \div LineBytes) % L1Lines
L2Index(a) == (a \div LineBytes) % L2Lines
L1Tag(a) == a \div L1Span
L2Tag(a) == a \div L2Span
WSelect(a) == (a \div WordBytes) % WordsPerLine

(* memcpy of a line from and to memory starts at the address of the access *)
(* itself, not at the first byte of the line that contains it.             *)
Load(m, a) == [i \in 0 .. LineBytes - 1 |-> m[a + i]]
(* Mutants: one word is copied, not the line; the copy starts a byte late. *)
StoreWord(m, a, line) ==
    [x \in DOMAIN m |->
        IF a <= x /\ x < a + WordBytes THEN line[x - a] ELSE m[x]]
StoreLate(m, a, line) ==
    [x \in DOMAIN m |->
        IF a < x /\ x < a + LineBytes THEN line[x - a] ELSE m[x]]

Store(m, a, line) ==
    [x \in DOMAIN m |->
        IF a <= x /\ x < a + LineBytes THEN line[x - a] ELSE m[x]]
Outside(a) == a + LineBytes > MemBytes

(* Mutant: the word select is ignored.                                     *)
FirstWord(line, k) == [i \in 0 .. WordBytes - 1 |-> line[i]]

(* Mutant: the word is put in the place of its neighbour.                  *)
PutNeighbour(line, k, w) ==
    [i \in 0 .. LineBytes - 1 |->
        IF i \div WordBytes = (k + 1) % WordsPerLine
        THEN w[i % WordBytes] ELSE line[i]]

WordOf(line, k) == [i \in 0 .. WordBytes - 1 |-> line[k * WordBytes + i]]
PutWord(line, k, w) ==
    [i \in 0 .. LineBytes - 1 |->
        IF k * WordBytes <= i /\ i < (k + 1) * WordBytes
        THEN w[i - k * WordBytes] ELSE line[i]]
OrByte(w, k, b) == [w EXCEPT ![k] = @ \cup b]

(* cache_entry_init, and the entries the other paths fill field by field.  *)
Entry(v, age, tag, line) == [v |-> v, age |-> age, tag |-> tag, line |-> line]
(* Mutant: the entry gets the whole line, the answer still the words at a. *)
FetchedAligned(m, a) == Entry(1, 0, L1Tag(a), Load(m, a - (a % LineBytes)))

Fetched(m, a) == Entry(1, 0, L1Tag(a), Load(m, a))

(* An L1 entry read through an l2_cache_entry_t pointer: the extra age bit *)
(* of the L2 layout is the low bit of the L1 tag.                          *)
AsL2Entry(e) ==
    LET wider == L2Ways \div L1Ways
    IN  Entry(e.v, e.age + L1Ways * (e.tag % wider), e.tag \div wider, e.line)

(* Entry number k of an array of sets, and whether the array has it.       *)
InL1(k) == k < L1Lines * L1Ways
InL2(k) == k < L2Lines * L2Ways
FlatEntry(array, ways, k) == array[k \div ways][k % ways]

OutOfBounds(s) == [s EXCEPT !.oob = TRUE]
-----------------------------------------------------------------------------
(* cache_read: the new state and the word delivered.                       *)

L1Hit(s, ac, a) == HitWays(s.l1[ac][L1Index(a)], L1Tag(a))
L2Hit(s, ac, a) == IF L1Hit(s, ac, a) # {} THEN {}
                   ELSE HitWays(s.l2[L2Index(a)], L2Tag(a))
Miss(s, ac, a) == L1Hit(s, ac, a) = {} /\ L2Hit(s, ac, a) = {}

ReadFromL1(s, ac, a) ==
    {[s |-> [s EXCEPT !.l1[ac][L1Index(a)] = AgeUpdate(@, w)],
      word |-> WordOf(s.l1[ac][L1Index(a)][w].line, WSelect(a))] :
        w \in L1Hit(s, ac, a)}

(* The line is filled from memory into an invalid way or over LRU_way; the *)
(* line it replaces is dropped.                                            *)
ReadFromMemory(s, ac, a) ==
    IF ~Miss(s, ac, a) THEN {}
    ELSE IF Outside(a) THEN {[s |-> OutOfBounds(s), word |-> NoWord]}
    ELSE LET row == s.l1[ac][L1Index(a)]
             way == Victim(row)
             new == AgeUpdate(Insert(row, way, Fetched(s.mem, a)), way)
         IN  {[s |-> [s EXCEPT !.l1[ac][L1Index(a)] = new],
               word |-> WordOf(Load(s.mem, a), WSelect(a))]}

(***************************************************************************)
(* A hit in L2 moves the line to L1.  Two of the three entries involved    *)
(* are addressed with a number of lines where the number of ways belongs:  *)
(* transfer_to_l1 reads entry L2Lines * index + way of L2, and the valid   *)
(* bit is cleared in that entry of L1, `cache' still being l1_cache.  The  *)
(* age of the new entry is never set.  *word is only assigned when L1 had  *)
(* no invalid way.                                                         *)
(***************************************************************************)
Moved(s, ac, a, way2) ==
    LET i1 == L1Index(a)
        i2 == L2Index(a)
        k == i2 * L2Lines + way2
        cleared == [s EXCEPT !.l1[ac][k \div L1Ways][k % L1Ways].v = 0]
        row == cleared.l1[ac][i1]
        line == FlatEntry(s.l2, L2Ways, k).line
        deleted == i1 * L1Lines + LRUWay(row)
        placed(age) == [cleared EXCEPT !.l1[ac][i1] =
                           Replace(row, Entry(1, age, L1Tag(a), line), L1Ways)]
        evicted == AsL2Entry(FlatEntry(cleared.l1[ac], L1Ways, deleted))
    IN  IF ~InL2(k) \/ ~InL1(k) \/ (Full(row) /\ ~InL1(deleted))
        THEN {[s |-> OutOfBounds(s), word |-> NoWord]}
        ELSE {IF Full(row)
              THEN [s |-> [placed(age) EXCEPT !.l2[i2] = Replace(@, evicted, L2Ways)],
                    word |-> WordOf(line, WSelect(a))]
              ELSE [s |-> placed(age), word |-> NoWord] : age \in 0 .. L1Ways - 1}

ReadFromL2(s, ac, a) ==
    UNION {Moved([s EXCEPT !.l2[L2Index(a)] = AgeUpdate(@, w)], ac, a, w) :
              w \in L2Hit(s, ac, a)}

ReadOut(s, ac, a) ==
    ReadFromL1(s, ac, a) \cup ReadFromL2(s, ac, a) \cup ReadFromMemory(s, ac, a)
-----------------------------------------------------------------------------
(* cache_write: the new state.                                             *)

WriteToL1(s, a, word) ==
    LET i == L1Index(a)
        row == s.l1["DATA"][i]
    IN  {LET line == PutWord(row[w].line, WSelect(a), word)
             new == Insert(AgeUpdate(row, w), w, Entry(1, 0, L1Tag(a), line))
         IN  IF Outside(a) THEN OutOfBounds(s)
             ELSE [s EXCEPT !.mem = Store(@, a, line), !.l1["DATA"][i] = new] :
            w \in L1Hit(s, "DATA", a)}

(***************************************************************************)
(* The L2 copy is updated and stays valid, and transfer_to_l1 fetches the  *)
(* line for L1 from the wrong entry as in Moved.  With L1 full, what goes  *)
(* back to L2 is the line just read, not the one L1 loses, and its valid   *)
(* bit is whatever malloc left there.                                      *)
(***************************************************************************)
WrittenBoth(s, a, word, way2) ==
    LET i1 == L1Index(a)
        i2 == L2Index(a)
        k == i2 * L2Lines + way2
        row1 == s.l1["DATA"][i1]
        line == PutWord(s.l2[i2][way2].line, WSelect(a), word)
        row2 == Insert(AgeUpdate(s.l2[i2], way2), way2, Entry(1, 0, L2Tag(a), line))
        stored == [s EXCEPT !.mem = Store(@, a, line), !.l2[i2] = row2]
        moved == FlatEntry(stored.l2, L2Ways, k).line
        placed(age) == [stored EXCEPT !.l1["DATA"][i1] =
                           Replace(row1, Entry(1, age, L1Tag(a), moved), L1Ways)]
        evicted(v) == Entry(v, 0, L1Tag(a) \div (L2Span \div L1Span), moved)
    IN  IF Outside(a) \/ ~InL2(k) THEN {OutOfBounds(s)}
        ELSE IF ~Full(row1) THEN {placed(age) : age \in 0 .. L1Ways - 1}
        ELSE {[placed(age) EXCEPT !.l2[i2] = Replace(row2, evicted(v), L2Ways)] :
                 age \in 0 .. L1Ways - 1, v \in HeapV}

WriteToL2(s, a, word) ==
    UNION {WrittenBoth(s, a, word, w) : w \in L2Hit(s, "DATA", a)}

(* Mutant: the valid bit of the victim is set.                             *)
SentValid(e) == {Entry(1, 0, e.tag \div EvictSpan, e.line)}

(* What a miss sends to L2 of the line L1 loses: its tag shifted by        *)
(* EvictSpan, and a valid bit that is again what malloc left there.        *)
SentToL2(e) == {Entry(v, 0, e.tag \div EvictSpan, e.line) : v \in HeapV}

(* The line is read, changed and written back at the address of the word.  *)
(* The victim of L1 goes to the L2 set of the NEW address.                 *)
WriteToMemory(s, a, word) ==
    LET i1 == L1Index(a)
        row1 == s.l1["DATA"][i1]
        line == PutWord(Load(s.mem, a), WSelect(a), word)
        placed == [s EXCEPT !.mem = Store(@, a, line),
                            !.l1["DATA"][i1] =
                               Replace(@, Entry(1, 0, L1Tag(a), line), L1Ways)]
    IN  IF ~Miss(s, "DATA", a) THEN {}
        ELSE IF Outside(a) THEN {OutOfBounds(s)}
        ELSE IF ~Full(row1) THEN {placed}
        ELSE {[placed EXCEPT !.l2[L2Index(a)] = Replace(@, e, L2Ways)] :
                 e \in SentToL2(row1[Victim(row1)])}

WriteOut(s, a, word) ==
    WriteToL1(s, a, word) \cup WriteToL2(s, a, word) \cup WriteToMemory(s, a, word)
-----------------------------------------------------------------------------
(* The calls.                                                              *)

(* main: memory from a file, the three arrays zeroed and flushed.          *)
ZeroLine == [i \in 0 .. LineBytes - 1 |-> {}]
Empty(lines, ways) ==
    [i \in 0 .. lines - 1 |-> [w \in 0 .. ways - 1 |-> Entry(0, 0, 0, ZeroLine)]]

Init ==
    /\ mem \in InitMem
    /\ l1 = [ac \in Access |-> Empty(L1Lines, L1Ways)]
    /\ l2 = Empty(L2Lines, L2Ways)
    /\ oob = FALSE
    /\ out = Done

(* flush_cache: every entry is reset, but only the first loses its line.   *)
Flushed(array) ==
    [i \in DOMAIN array |-> [w \in DOMAIN array[i] |->
        Entry(0, 0, 0, IF i = 0 /\ w = 0 THEN ZeroLine ELSE array[i][w].line)]]

Flush(cache) ==
    /\ ~oob
    /\ IF cache = "L2" THEN l2' = Flushed(l2) /\ UNCHANGED l1
       ELSE l1' = [l1 EXCEPT ![cache] = Flushed(@)] /\ UNCHANGED l2
    /\ out' = Done
    /\ UNCHANGED <<mem, oob>>

Delivers(a, outcomes) ==
    /\ ~oob
    /\ \E o \in outcomes : Become(o.s) /\ out' = Result(a, o.word)

ReadL1Hit(ac, a) == Delivers(a, ReadFromL1(State, ac, a))
ReadL2Hit(ac, a) == Delivers(a, ReadFromL2(State, ac, a))
ReadMiss(ac, a) == Delivers(a, ReadFromMemory(State, ac, a))

(* A malloc'ed word receives the answer: when cache_read leaves it alone,  *)
(* the byte is taken from what malloc returned.                            *)
Received(o) == IF o.word = NoWord THEN Word ELSE {o.word}

ReadByte(ac, a) ==
    /\ ~oob
    /\ \E o \in ReadOut(State, ac, a) : \E word \in Received(o) :
          /\ Become(o.s)
          /\ out' = Result(a, IF o.s.oob THEN NoWord
                              ELSE [i \in {0} |-> word[a % WordBytes]])

Completes(states) ==
    /\ ~oob
    /\ out' = Done
    /\ \E s \in states : Become(s)

WriteL1Hit(a, word) == Completes(WriteToL1(State, a, word))
WriteL2Hit(a, word) == Completes(WriteToL2(State, a, word))
WriteMiss(a, word) == Completes(WriteToMemory(State, a, word))

(* cache_write_byte: the word is read, the byte OR-ed in, the word written.*)
WriteByteOut(s, a, b) ==
    UNION {IF o.s.oob THEN {o.s}
           ELSE UNION {WriteOut(o.s, a, OrByte(word, a % WordBytes, b)) :
                          word \in Received(o)} : o \in ReadOut(s, "DATA", a)}

WriteByte(a, b) == b # {} /\ Completes(WriteByteOut(State, a, b))

(* M_REQUIRE_NON_NULL(p_byte) tests the byte: zero is refused as a NULL.   *)
WriteByteZero(b) ==
    /\ ~oob
    /\ b = {}
    /\ out' = Refusal
    /\ UNCHANGED <<mem, l1, l2, oob>>

AddrsOf(ac) == IF ac = "DATA" THEN DataAddrs ELSE FetchAddrs

Read(ac, a) == ReadL1Hit(ac, a) \/ ReadL2Hit(ac, a) \/ ReadMiss(ac, a)
Write(a, word) == WriteL1Hit(a, word) \/ WriteL2Hit(a, word) \/ WriteMiss(a, word)

Next ==
    \/ \E ac \in Access : \E a \in AddrsOf(ac) : Read(ac, a) \/ ReadByte(ac, a)
    \/ \E a \in DataAddrs, word \in WriteWords : Write(a, word)
    \/ \E a \in DataAddrs, b \in WriteBytes : WriteByte(a, b) \/ WriteByteZero(b)
    \/ \E cache \in FlushCaches : Flush(cache)

Spec == Init /\ [][Next]_vars
-----------------------------------------------------------------------------
(***************************************************************************)
(* Careful use.  cache_mng.c:482 has a check of the alignment of paddr     *)
(* that is commented out: without it, an access that is not to the first   *)
(* byte of a line copies the wrong line from memory, unless the line is    *)
(* cached already, and a write also puts it back in the wrong place.       *)
(* Careful programs make none of these accesses: they write, and bring a   *)
(* line into the cache, at its first byte, and then read it anywhere.      *)
(* They also write a byte only where it has all the ones of the old one,   *)
(* and is not 0: only then is the OR of cache_write_byte a write.          *)
(***************************************************************************)
LineStart(a) == a % LineBytes = 0
MayRead(ac, a) == LineStart(a) \/ L1Hit(State, ac, a) # {}
MayWriteByte(a, b) == LineStart(a) /\ b # {} /\ mem[a] \subseteq b

CarefulNext ==
    \/ \E ac \in Access : \E a \in AddrsOf(ac) :
          MayRead(ac, a) /\ (Read(ac, a) \/ ReadByte(ac, a))
    \/ \E a \in DataAddrs, word \in WriteWords : LineStart(a) /\ Write(a, word)
    \/ \E a \in DataAddrs, b \in WriteBytes : MayWriteByte(a, b) /\ WriteByte(a, b)
    \/ \E cache \in FlushCaches : Flush(cache)

CarefulSpec == Init /\ [][CarefulNext]_vars
-----------------------------------------------------------------------------
(* Types.  Ages are as wide as their bit fields, so they stay below ways.  *)
TypeOK ==
    /\ mem \in Memory
    /\ l1 \in [Access -> [0 .. L1Lines - 1 -> SetOf(L1Ways, Line)]]
    /\ l2 \in [0 .. L2Lines - 1 -> SetOf(L2Ways, Line)]
    /\ oob \in BOOLEAN
    /\ out.err \in {"ERR_NONE", "ERR_BAD_PARAMETER"}
    /\ out.at \in Addrs \cup {NoAddr}
    /\ out.val \in Word \cup [{0} -> Byte] \cup {NoWord}
-----------------------------------------------------------------------------
(* Invariants.                                                             *)

(* hit_cache stops at the first invalid way: no valid line of an L1 set is *)
(* ever behind an invalid one, so the loop misses nothing.                 *)
L1ValidFirst == \A ac \in Access, i \in 0 .. L1Lines - 1 : ValidFirst(l1[ac][i])

(* A miss is only taken when the line really is absent: no path through    *)
(* cache_read or cache_write caches a second copy of a line in a set.      *)
L1TagsUnique == \A ac \in Access, i \in 0 .. L1Lines - 1 : TagsUnique(l1[ac][i])

(* The victims cache_write sends to L2 carry the v bit malloc left there.  *)
(* If that is 0, L2 never has a valid line: no call ever hits in it.       *)
L2Empty == \A i \in 0 .. L2Lines - 1, w \in 0 .. L2Ways - 1 : l2[i][w].v = 0

(* No call reads or writes past the end of a cache or of the memory: the   *)
(* mistaken strides of the L2 paths are never used.                        *)
InBounds == ~oob

(* Whatever malloc leaves behind, the caches are only left through an L2   *)
(* hit: an access out of bounds implies a valid line in L2.                *)
StrayNeedsL2 == oob => ~L2Empty

(* tests/files/output/cache-01-out.txt: a valid L1 line is the memory of   *)
(* the whole line its tag and index name, whichever word was asked for,    *)
(* and with write-through it remains so on both sides of the split L1.     *)
HoldsItsLine ==
    \A ac \in Access, i \in 0 .. L1Lines - 1, w \in 0 .. L1Ways - 1 :
        LET e == l1[ac][i][w]
            start == e.tag * L1Span + i * LineBytes
        IN  e.v = 1 => e.line = Load(mem, start)
-----------------------------------------------------------------------------
(* Action properties.                                                      *)

(* On every path of cache_write, L2 hits included, a word written to the   *)
(* first word of a line is in memory at its address when the call returns. *)
InMemory(m, a, word) == \A i \in 0 .. WordBytes - 1 : m[a + i] = word[i]
WriteLands ==
    [][\A a \in DataAddrs, word \in WriteWords :
          Write(a, word) /\ ~oob' /\ WSelect(a) = 0 => InMemory(mem', a, word)]_vars

(* After cache_write the same address hits in L1, in a line that equals    *)
(* the memory just stored: the call updates both or neither.               *)
WriteThrough ==
    [][\A a \in DataAddrs, word \in WriteWords :
          Write(a, word) =>
              \E w \in L1Hit(State', "DATA", a) :
                  l1'["DATA"][L1Index(a)][w].line = Load(mem', a)]_vars

(* A word written is the word read back by the next read of the address,   *)
(* wherever the address lies in its line.                                  *)
ReadBack ==
    [][\A a \in DataAddrs, word \in WriteWords :
          Write(a, word) =>
              \A o \in ReadOut(State', "DATA", a) : o.word = word]_vars

(* A read repeated at once delivers the same word, from L1.                *)
ReadsRepeat ==
    [][\A ac \in Access : \A a \in AddrsOf(ac) :
          Read(ac, a) =>
              /\ L1Hit(State', ac, a) # {}
              /\ \A o \in ReadOut(State', ac, a) : o.word = out'.val]_vars

(* A call evicts a line only from a set that was full, and at most one.    *)
CachedTags(row) == {row[w].tag : w \in {x \in DOMAIN row : row[x].v = 1}}
EvictsOneFromFull ==
    [][\A ac \in Access, i \in 0 .. L1Lines - 1 :
          LET lost == CachedTags(l1[ac][i]) \ CachedTags(l1'[ac][i])
          IN  lost # {} => \/ Flush(ac)
                           \/ Full(l1[ac][i]) /\ \A s, t \in lost : s = t]_vars

(* cache.h: a block evicted from L1 "is then placed into L2".              *)
VictimsPlaced ==
    [][\A ac \in Access, i \in 0 .. L1Lines - 1 :
          \A tag \in CachedTags(l1[ac][i]) \ CachedTags(l1'[ac][i]) :
             LET start == tag * L1Span + i * LineBytes
             IN  Flush(ac) \/ L2Tag(start) \in CachedTags(l2'[L2Index(start)])]_vars

(* cache_mng.h: cache_write_byte is to "Write to cache a byte of data":    *)
(* the byte written, a zero too, is what the next read of it delivers.     *)
ByteWritten ==
    [][\A a \in DataAddrs, b \in WriteBytes :
          WriteByte(a, b) \/ WriteByteZero(b) =>
              \A o \in ReadOut(State', "DATA", a) : o.word[a % WordBytes] = b]_vars

(* To a careful program the caches are one flat memory of bytes: in every  *)
(* order of hits, misses, evictions and flushes, a read delivers the bytes *)
(* last written and a write changes no others, though whole lines move.    *)
Flat == INSTANCE FlatMemory
ImplementsFlatMemory == Flat!Spec
=============================================================================
