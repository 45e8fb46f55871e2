------------------------------ MODULE TlbHrchy ------------------------------
(***************************************************************************)
(* The two-level hierarchy of TLBs of tlb_hrchy_mng.c: an instruction and  *)
(* a data L1 TLB over one L2 TLB, all direct mapped, in front of page_walk.*)
(* One action is one call of tlb_search or tlb_flush; the four ways out of *)
(* tlb_search are actions of their own.                                    *)
(***************************************************************************)
EXTENDS PageWalk

CONSTANTS
    L1Lines,        \* L1_ITLB_LINES = L1_DTLB_LINES: 16
    L1LinesBits,    \* L1_ITLB_LINES_BITS: 4
    L2Lines,        \* L2_TLB_LINES: 64
    L2LinesBits,    \* L2_TLB_LINES_BITS: 6
    TagWord,        \* 2^32: `invalidation' rebuilds page numbers in a uint32_t
    PageTables,     \* the memories a program can be given
    Pages,          \* the virtual addresses programs use
    FlushTlbs,      \* the TLBs flushed after the start
    StackEntries    \* what the TLB arrays of main can hold before the flush

Access == {"INSTRUCTION", "DATA"}
NoAsk == << >>      \* no search yet
Vpns == {VirtualPageNumber(va) : va \in Pages}

ASSUME TlbGeometryAssumption ==
    /\ {L1Lines, L2Lines, TagWord} \subseteq Nat \ {0}
    /\ {L1LinesBits, L2LinesBits} \subseteq Nat
    /\ L1Lines = 2^L1LinesBits /\ L2Lines = 2^L2LinesBits
    /\ L2Lines % L1Lines = 0 /\ TagWord % L2Lines = 0

TlbEntry == [v : {0, 1}, tag : Nat, ppn : Nat]
Entry(v, tag, ppn) == [v |-> v, tag |-> tag, ppn |-> ppn]
NoEntry == Entry(0, 0, 0)

ASSUME TlbUseAssumption ==
    /\ Pages \subseteq VirtAddr
    /\ \A m \in PageTables : \A va \in Pages : Walks(m, va) => PageOf(m, va) \in Nat
    /\ FlushTlbs \subseteq Access \cup {"L2"}
    /\ StackEntries \subseteq TlbEntry

(* Pages that are told apart by the middle bits alone, which the lookup in *)
(* L2 ignores; and a page of the program that no other is confused with.   *)
Aliases(p, q) == p # q /\ p \div L2Lines = q \div L2Lines /\ p % L1Lines = q % L1Lines
Alone(va) == \A q \in Vpns : ~Aliases(VirtualPageNumber(va), q)

(* Under which the properties below hold: no entry the arrays of main      *)
(* start with passes for valid, and L2 is only flushed at the start, as in *)
(* the programs of the repository; for some, that no page has an alias.    *)
StackInvalid == \A e \in StackEntries : e.v = 0
L2Kept == "L2" \notin FlushTlbs
NoAliases == \A va \in Pages : Alone(va)

VARIABLES
    mem,        \* mem_space: only read
    l1,         \* l1[INSTRUCTION] is l1_itlb, l1[DATA] l1_dtlb
    l2,         \* l2_tlb
    answer,     \* the address asked for, the error code, the page in *paddr
    hit         \* *hit_or_miss

vars == <<mem, l1, l2, answer, hit>>
-----------------------------------------------------------------------------
(* tlb_hit: every TLB is looked up at the low L1LinesBits bits (mask4bit), *)
(* the L2 TLB too.                                                         *)
L1Index(p) == p % L1Lines
L2Index(p) == p % L2Lines       \* where an entry is inserted
Line(tlb, p) == tlb[L1Index(p)]
(* Mutant: the tag is not compared.                                        *)
HitsAnyTag(tlb, lines, p) == Line(tlb, p).v = 1

Hits(tlb, lines, p) == Line(tlb, p).v = 1 /\ Line(tlb, p).tag = p \div lines

(* Mutant: the tag of the L2 TLB is stored in an L1 TLB.                   *)
InsertL2Tag(tlb, p, ppn) == [tlb EXCEPT ![L1Index(p)] = Entry(1, p \div L2Lines, ppn)]

(* insert_l1                                                               *)
InsertL1(tlb, p, ppn) == [tlb EXCEPT ![L1Index(p)] = Entry(1, p \div L1Lines, ppn)]

(* The page number an entry stands for, as far as a uint32_t can hold it.  *)
Rebuilt(tag, lines, index) == (tag * lines + index) % TagWord

(***************************************************************************)
(* invalidation: the L1 TLB of the other kind of access loses the page     *)
(* that p is about to replace in L2.  Whether that L2 entry was valid is   *)
(* not asked.                                                              *)
(***************************************************************************)
Replaces(tlb, p) ==
    Rebuilt(Line(tlb, p).tag, L1Lines, L1Index(p))
        = Rebuilt(l2[L2Index(p)].tag, L2Lines, L2Index(p))
(* Mutant: only a page with the tag of the new one is invalidated.         *)
InvalidatedSame(tlb, p) ==
    IF Hits(tlb, L1Lines, p) THEN [tlb EXCEPT ![L1Index(p)].v = 0] ELSE tlb

Invalidated(tlb, p) ==
    IF Line(tlb, p).v = 1 /\ Replaces(tlb, p)
    THEN [tlb EXCEPT ![L1Index(p)].v = 0] ELSE tlb
-----------------------------------------------------------------------------
(* The calls.                                                              *)

(* Mutant: the loop of tlb_flush runs over all lines, and one more.        *)
FlushedPast(tlb, bits) == [i \in 0 .. 2^bits |-> NoEntry]

(* tlb_flush stops after as many lines as the index has bits.              *)
Flushed(tlb, bits) == [i \in DOMAIN tlb |-> IF i < bits THEN NoEntry ELSE tlb[i]]

(* main: arrays on the stack, flushed.                                     *)
Init ==
    /\ mem \in PageTables
    /\ \E i, d \in [0 .. L1Lines - 1 -> StackEntries] :
          l1 = [ac \in Access |->
                   Flushed(IF ac = "DATA" THEN d ELSE i, L1LinesBits)]
    /\ \E t \in [0 .. L2Lines - 1 -> StackEntries] : l2 = Flushed(t, L2LinesBits)
    /\ answer = [asked |-> NoAsk, err |-> "ERR_NONE", ppn |-> 0]
    /\ hit = 0

Flush(tlb) ==
    /\ IF tlb = "L2" THEN l2' = Flushed(l2, L2LinesBits) /\ UNCHANGED l1
       ELSE l1' = [l1 EXCEPT ![tlb] = Flushed(@, L1LinesBits)] /\ UNCHANGED l2
    /\ UNCHANGED <<mem, answer, hit>>

Answers(va, ppn) == answer' = [asked |-> va, err |-> "ERR_NONE", ppn |-> ppn]

InL1(ac, p) == Hits(l1[ac], L1Lines, p)
InL2(p) == Hits(l2, L2Lines, p)

SearchL1Hit(ac, va) ==
    LET p == VirtualPageNumber(va)
    IN  /\ InL1(ac, p)
        /\ Answers(va, Line(l1[ac], p).ppn)
        /\ hit' = 1
        /\ UNCHANGED <<mem, l1, l2>>

SearchL2Hit(ac, va) ==
    LET p == VirtualPageNumber(va)
        ppn == Line(l2, p).ppn
    IN  /\ ~InL1(ac, p) /\ InL2(p)
        /\ l1' = [l1 EXCEPT ![ac] = InsertL1(@, p, ppn)]
        /\ Answers(va, ppn)
        /\ hit' = 1
        /\ UNCHANGED <<mem, l2>>

SearchMiss(ac, va) ==
    LET p == VirtualPageNumber(va)
        ppn == PageOf(mem, va)
    IN  /\ ~InL1(ac, p) /\ ~InL2(p) /\ Walks(mem, va)
        /\ l1' = [x \in Access |-> IF x = ac THEN InsertL1(l1[x], p, ppn)
                                   ELSE Invalidated(l1[x], p)]
        /\ l2' = [l2 EXCEPT ![L2Index(p)] = Entry(1, p \div L2Lines, ppn)]
        /\ Answers(va, ppn)
        /\ hit' = 0
        /\ UNCHANGED mem

(* page_walk meets an entry that is not the address of a page.             *)
SearchFault(ac, va) ==
    LET p == VirtualPageNumber(va)
    IN  /\ ~InL1(ac, p) /\ ~InL2(p) /\ ~Walks(mem, va)
        /\ answer' = [asked |-> va, err |-> "ERR_BAD_PARAMETER", ppn |-> answer.ppn]
        /\ hit' = 0
        /\ UNCHANGED <<mem, l1, l2>>

Search(ac, va) ==
    \/ SearchL1Hit(ac, va)
    \/ SearchL2Hit(ac, va)
    \/ SearchMiss(ac, va)
    \/ SearchFault(ac, va)

Next ==
    \/ \E ac \in Access, va \in Pages : Search(ac, va)
    \/ \E tlb \in FlushTlbs : Flush(tlb)

Spec == Init /\ [][Next]_vars

TypeOK ==
    /\ mem \in PageTables
    /\ l1 \in [Access -> [0 .. L1Lines - 1 -> TlbEntry]]
    /\ l2 \in [0 .. L2Lines - 1 -> TlbEntry]
    /\ answer \in [asked : Pages \cup {NoAsk},
                   err : {"ERR_NONE", "ERR_BAD_PARAMETER"}, ppn : Nat]
    /\ hit \in {0, 1}
-----------------------------------------------------------------------------
(* Properties.                                                             *)

(* The purpose of `invalidation': a page in an L1 TLB is in the L2 TLB as  *)
(* well, at its own index, with the same physical page.                    *)
Inclusion ==
    \A ac \in Access, i \in 0 .. L1Lines - 1 :
        LET e == l1[ac][i]
            p == e.tag * L1Lines + i
        IN  e.v = 1 => l2[L2Index(p)] = Entry(1, p \div L2Lines, e.ppn)

(* Of the pages that have no alias it holds whatever the others do: they   *)
(* too are replaced, in both levels, and invalidated in the other L1 TLB.  *)
AloneIncluded ==
    \A ac \in Access, va \in Pages :
        LET p == VirtualPageNumber(va)
        IN  Alone(va) /\ InL1(ac, p) =>
               l2[L2Index(p)] = Entry(1, p \div L2Lines, Line(l1[ac], p).ppn)

(* A search that succeeds leaves its page in the L1 TLB of its access,     *)
(* with the translation it answered, whichever level that came from.       *)
SearchFills ==
    [][\A ac \in Access, va \in Pages :
          Search(ac, va) /\ answer'.err = "ERR_NONE" =>
              LET e == Line(l1'[ac], VirtualPageNumber(va))
              IN  e = Entry(1, VirtualPageNumber(va) \div L1Lines, answer'.ppn)]_vars

(* The TLBs are transparent: every search answers what a walk would.       *)
Walker == INSTANCE Mmu
ImplementsMmu == Walker!Spec

(* tlb_hrchy_mng.h: tlb_search is to "Ask TLB for the translation": what   *)
(* it answers is the translation of the address asked for.                 *)
Translates ==
    [][\A ac \in Access, va \in Pages :
          Search(ac, va) /\ answer'.err = "ERR_NONE" =>
              Walks(mem, va) /\ answer'.ppn = PageOf(mem, va)]_vars

(* Of a page that has no alias it is, whichever TLB it comes from, whatever*)
(* is flushed, and although other pages of the program have aliases.       *)
AloneTranslates ==
    [][\A ac \in Access, va \in Pages :
          Search(ac, va) /\ Alone(va) /\ answer'.err = "ERR_NONE" =>
              Walks(mem, va) /\ answer'.ppn = PageOf(mem, va)]_vars
=============================================================================
