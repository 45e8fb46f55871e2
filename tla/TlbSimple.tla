----------------------------- MODULE TlbSimple -----------------------------
(***************************************************************************)
(* tlb_mng.c: the fully associative TLB.  The lines are kept in a list     *)
(* ordered by use, which is scanned from the back for a hit and whose      *)
(* front is the line to replace.  The list is the sequence of ListSeq,     *)
(* which LinkedList implements.                                            *)
(***************************************************************************)
EXTENDS PageWalk, Sequences, FiniteSets

CONSTANTS
    TlbLines,   \* TLB_LINES: 128
    HeapNodes,  \* the list nodes memory has room for
    PageTables, \* the memories a program can be given
    Pages       \* the virtual addresses programs use

LineNo == 0 .. TlbLines - 1
Vpns == {VirtualPageNumber(va) : va \in Pages}
NoAsk == << >>      \* no search yet

TlbEntry == [v : {0, 1}, tag : Nat, ppn : Nat]
Entry(v, tag, ppn) == [v |-> v, tag |-> tag, ppn |-> ppn]
NoEntry == Entry(0, 0, 0)

ASSUME SimpleTlbAssumption ==
    /\ TlbLines \in Nat \ {0}
    /\ HeapNodes \in Nat
    /\ Pages \subseteq VirtAddr
    /\ \A m \in PageTables : \A va \in Pages : Walks(m, va) => PageOf(m, va) \in Nat

(* Memory has room for the node that moving the front copies it to.        *)
RoomToMove == HeapNodes > TlbLines

VARIABLES
    mem,        \* mem_space: only read
    tlb,        \* the entries
    order,      \* replacement_policy->ll: lines, the next to replace first
    answer,     \* the address asked for, the error code, the page in *paddr
    hit         \* *hit_or_miss

vars == <<mem, tlb, order, answer, hit>>

List == INSTANCE ListSeq WITH items <- order, Value <- LineNo, Capacity <- HeapNodes
-----------------------------------------------------------------------------
(* Mutant: lines are numbered from 1.                                      *)
LinesFromOne == [i \in 1 .. TlbLines |-> i]

AllLines == [i \in 1 .. TlbLines |-> i - 1]

(* main: a flushed TLB and a list of all its lines.                        *)
Init ==
    /\ mem \in PageTables
    /\ tlb = [l \in LineNo |-> NoEntry]
    /\ order = AllLines
    /\ answer = [asked |-> NoAsk, err |-> "ERR_NONE", ppn |-> 0]
    /\ hit = 0

(* tlb_flush does not touch the list.                                      *)
Flush ==
    /\ tlb' = [l \in LineNo |-> NoEntry]
    /\ UNCHANGED <<mem, order, answer, hit>>

(* Mutant: the valid bit is not looked at.                                 *)
HoldsInvalid(i, p) == tlb[order[i]].tag = p

(* The line at place i of the list holds page p.                           *)
Holds(i, p) == tlb[order[i]].tag = p /\ tlb[order[i]].v = 1

(* Mutant: the line replaced is the one used last.                         *)
NewestLine == order[Len(order)]

LineToReplace == order[1]

(* Mutant: a hit does not move its line.                                   *)
NotMoved(i) == order

Used(i) == List!Moved(order, i)

(* Mutant: the scan starts one line before the back.                       *)
MissedButBack(p) == \A i \in 1 .. Len(order) - 1 : ~Holds(i, p)

Missed(p) == \A i \in DOMAIN order : ~Holds(i, p)

Answers(va, ppn) == answer' = [asked |-> va, err |-> "ERR_NONE", ppn |-> ppn]

(* The scan goes from the back to the first line that holds the page.      *)
SearchHit(va) ==
    LET p == VirtualPageNumber(va)
    IN  \E i \in DOMAIN order :
           /\ Holds(i, p)
           /\ \A j \in DOMAIN order : Holds(j, p) => j <= i
           /\ Answers(va, tlb[order[i]].ppn)
           /\ order' = Used(i)
           /\ hit' = 1
           /\ UNCHANGED <<mem, tlb>>

SearchMiss(va) ==
    LET p == VirtualPageNumber(va)
    IN  /\ Missed(p) /\ Walks(mem, va)
        /\ tlb' = [tlb EXCEPT ![LineToReplace] = Entry(1, p, PageOf(mem, va))]
        /\ order' = Used(1)
        /\ Answers(va, PageOf(mem, va))
        /\ hit' = 0
        /\ UNCHANGED mem

SearchFault(va) ==
    /\ Missed(VirtualPageNumber(va)) /\ ~Walks(mem, va)
    /\ answer' = [asked |-> va, err |-> "ERR_BAD_PARAMETER", ppn |-> answer.ppn]
    /\ hit' = 0
    /\ UNCHANGED <<mem, tlb, order>>

Search(va) == SearchHit(va) \/ SearchMiss(va) \/ SearchFault(va)

Next == Flush \/ \E va \in Pages : Search(va)

Spec == Init /\ [][Next]_vars

TypeOK ==
    /\ mem \in PageTables
    /\ tlb \in [LineNo -> TlbEntry]
    /\ order \in Seq(LineNo)
    /\ answer \in [asked : Pages \cup {NoAsk},
                   err : {"ERR_NONE", "ERR_BAD_PARAMETER"}, ppn : Nat]
    /\ hit \in {0, 1}
-----------------------------------------------------------------------------
(* Properties.                                                             *)

(* Whatever was searched, the list holds each line of the TLB once: every  *)
(* line is scanned, and every line gets its turn to be replaced.           *)
EachLineOnce ==
    /\ Len(order) = TlbLines
    /\ \A l \in LineNo : \E i \in DOMAIN order :
          \A j \in DOMAIN order : order[j] = l <=> j = i

(* No page is cached in two lines.                                         *)
PagesUnique ==
    \A l, k \in LineNo :
        tlb[l].v = 1 /\ tlb[k].v = 1 /\ tlb[l].tag = tlb[k].tag => l = k

(* Invalid lines come before valid ones in the list: no page is evicted    *)
(* while a line is free, although the search never looks for a free line.  *)
InvalidFirst ==
    \A i, j \in DOMAIN order :
        i < j /\ tlb[order[i]].v = 1 => tlb[order[j]].v = 1

(* The TLB is transparent: every search answers what a walk would.         *)
Walker == INSTANCE Mmu
ImplementsMmu == Walker!Spec

(* tlb_mng.h: "Eviction policy is least recently used (LRU)".  The lines   *)
(* in use are those behind the free ones in the list: a free line among    *)
(* them holds no page, and a sequence with NoPage is none of Lru's.        *)
NoPage == -1
Free == Cardinality({i \in DOMAIN order : tlb[order[i]].v = 0})
PageIn(l) == IF tlb[l].v = 1 THEN tlb[l].tag ELSE NoPage
Recent == [i \in 1 .. Len(order) - Free |-> PageIn(order[Free + i])]
Recency == INSTANCE Lru WITH Page <- Vpns, Lines <- TlbLines, recent <- Recent
ImplementsLru == Recency!Spec
=============================================================================
