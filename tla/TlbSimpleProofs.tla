-------------------------- MODULE TlbSimpleProofs --------------------------
(***************************************************************************)
(* The fully associative TLB is transparent, whether or not memory has     *)
(* room to move a node; and if it has, the list keeps every line once, no  *)
(* page is cached twice, free lines are filled before any is replaced, and *)
(* the pages evicted are the least recently used.                          *)
(***************************************************************************)
EXTENDS TlbSimple, PageWalkProofs, SequenceTheorems, FiniteSetTheorems

(* The list is never empty, so there is always a line to replace.          *)
Lines == order \in Seq(LineNo) /\ order # << >>
-----------------------------------------------------------------------------
(* Moving a line to the back of the list.                                  *)

LEMMA UsedPage ==
    ASSUME NEW va \in Pages
    PROVE  VirtualPageNumber(va) \in Nat /\ VirtualPageNumber(va) \in Vpns /\ va \in VirtAddr
BY SimpleTlbAssumption, VpnType DEF Vpns

LEMMA ToBackType ==
    ASSUME NEW s \in Seq(LineNo), NEW i \in DOMAIN s
    PROVE  /\ List!ToBack(s, i) \in [1 .. Len(s) -> LineNo]
           /\ List!ToBack(s, i) \in Seq(LineNo)
           /\ Len(List!ToBack(s, i)) = Len(s)
           /\ DOMAIN s = 1 .. Len(s)
<1>1. Len(s) \in Nat /\ s \in [1 .. Len(s) -> LineNo] /\ DOMAIN s = 1 .. Len(s)
  BY LenProperties
<1>2. List!ToBack(s, i) \in [1 .. Len(s) -> LineNo]
  BY <1>1 DEF List!ToBack
<1>3. List!ToBack(s, i) \in Seq(LineNo)
  BY <1>1, <1>2, SeqDef
<1>4. DOMAIN List!ToBack(s, i) = 1 .. Len(s)
  BY <1>2
<1>5. Len(List!ToBack(s, i)) = Len(s)
  BY <1>1, <1>3, <1>4, LenProperties
<1> QED
  BY <1>1, <1>2, <1>3, <1>5

LEMMA MovedType ==
    ASSUME NEW s \in Seq(LineNo), NEW i \in DOMAIN s
    PROVE  List!Moved(s, i) \in Seq(LineNo) /\ List!Moved(s, i) # << >>
<1>1. Len(s) \in Nat /\ i \in 1 .. Len(s)
  BY LenProperties
<1>2. CASE i = 1 /\ Len(s) > 1 /\ ~List!HasRoom(s)
  <2> DEFINE t == Tail(s)
  <2>1. t \in Seq(LineNo) /\ Len(t) = Len(s) - 1
    BY <1>1, <1>2, HeadTailProperties
  <2> HIDE DEF t
  <2>2. t # << >>
    BY <1>1, <1>2, <2>1, EmptySeq
  <2>3. List!Moved(s, i) = t
    BY <1>2 DEF List!Moved, t
  <2> QED
    BY <2>1, <2>2, <2>3
<1>3. CASE ~(i = 1 /\ Len(s) > 1 /\ ~List!HasRoom(s))
  <2>1. List!ToBack(s, i) \in Seq(LineNo) /\ Len(List!ToBack(s, i)) = Len(s)
    BY ToBackType
  <2>2. List!ToBack(s, i) # << >>
    BY <1>1, <2>1
  <2> QED
    BY <1>3, <2>1, <2>2 DEF List!Moved
<1> QED
  BY <1>2, <1>3

LEMMA FrontLine ==
    ASSUME Lines
    PROVE  1 \in DOMAIN order /\ LineToReplace \in LineNo
<1>1. Len(order) \in Nat /\ DOMAIN order = 1 .. Len(order) /\ order \in [1 .. Len(order) -> LineNo]
  BY LenProperties DEF Lines
<1>2. Len(order) # 0
  BY EmptySeq DEF Lines
<1> QED
  BY <1>1, <1>2 DEF LineToReplace
-----------------------------------------------------------------------------
(* Transparency.                                                           *)

(* A valid entry is the walk of a page of the program.                     *)
HoldsWalks ==
    \A l \in LineNo : tlb[l].v = 1 =>
        \E va \in Pages : /\ tlb[l].tag = VirtualPageNumber(va)
                          /\ Walks(mem, va)
                          /\ tlb[l].ppn = PageOf(mem, va)

WalkInv == TypeOK /\ Lines /\ HoldsWalks

LEMMA InitWalk == ASSUME Init PROVE WalkInv
<1>1. TlbLines \in Nat \ {0}
  BY SimpleTlbAssumption
<1>2. order \in [1 .. TlbLines -> LineNo]
  BY <1>1 DEF Init, AllLines, LineNo
<1>3. order \in Seq(LineNo)
  BY <1>1, <1>2, SeqDef
<1>4. 1 \in DOMAIN order
  BY <1>1, <1>2
<1>5. order # << >>
  BY <1>4
<1>6. tlb \in [LineNo -> TlbEntry] /\ \A l \in LineNo : tlb[l].v = 0
  BY DEF Init, NoEntry, Entry, TlbEntry
<1> QED
  BY <1>3, <1>5, <1>6 DEF Init, WalkInv, TypeOK, Lines, HoldsWalks

LEMMA HitIsWalk ==
    ASSUME WalkInv, NEW va \in Pages, NEW i \in DOMAIN order,
           Holds(i, VirtualPageNumber(va))
    PROVE  /\ order[i] \in LineNo
           /\ Walks(mem, va)
           /\ tlb[order[i]].ppn = PageOf(mem, va)
<1>1. order[i] \in LineNo
  BY LenProperties DEF WalkInv, Lines
<1>2. PICK vb \in Pages : /\ tlb[order[i]].tag = VirtualPageNumber(vb)
                          /\ Walks(mem, vb)
                          /\ tlb[order[i]].ppn = PageOf(mem, vb)
  BY <1>1 DEF WalkInv, HoldsWalks, Holds
<1>3. va = vb
  BY <1>2, UsedPage, VpnInjective DEF Holds
<1> QED
  BY <1>1, <1>2, <1>3

LEMMA SearchWalk ==
    ASSUME WalkInv, NEW va \in Pages, Search(va)
    PROVE  WalkInv'
<1> DEFINE p == VirtualPageNumber(va)
<1>1. p \in Nat
  BY UsedPage
<1>2. CASE SearchHit(va)
  <2>1. PICK i \in DOMAIN order : /\ Holds(i, p)
                                  /\ Answers(va, tlb[order[i]].ppn)
                                  /\ order' = Used(i)
                                  /\ hit' = 1 /\ UNCHANGED <<mem, tlb>>
    BY <1>2 DEF SearchHit
  <2>2. order[i] \in LineNo
    BY <2>1, HitIsWalk
  <2>3. Lines'
    BY <2>1, MovedType DEF Used, WalkInv, Lines
  <2>4. answer' \in [asked : Pages \cup {NoAsk},
                     err : {"ERR_NONE", "ERR_BAD_PARAMETER"}, ppn : Nat]
    BY <2>1, <2>2 DEF WalkInv, TypeOK, TlbEntry, Answers
  <2> QED
    BY <2>1, <2>3, <2>4 DEF WalkInv, TypeOK, Lines, HoldsWalks
<1>3. CASE SearchMiss(va)
  <2>1. LineToReplace \in LineNo /\ 1 \in DOMAIN order
    BY FrontLine DEF WalkInv
  <2>2. Walks(mem, va) /\ PageOf(mem, va) \in Nat
    BY <1>3, SimpleTlbAssumption DEF SearchMiss, WalkInv, TypeOK
  <2>3. Lines'
    BY <1>3, <2>1, MovedType DEF SearchMiss, Used, WalkInv, Lines
  <2>4. Entry(1, p, PageOf(mem, va)) \in TlbEntry
    BY <1>1, <2>2 DEF Entry, TlbEntry
  <2>5. tlb' = [tlb EXCEPT ![LineToReplace] = Entry(1, p, PageOf(mem, va))] /\ mem' = mem
    BY <1>3 DEF SearchMiss
  <2>6. tlb' \in [LineNo -> TlbEntry]
    BY <2>1, <2>4, <2>5 DEF WalkInv, TypeOK
  <2>7. HoldsWalks'
    <3>1. SUFFICES ASSUME NEW l \in LineNo, tlb'[l].v = 1
                   PROVE  \E vb \in Pages : /\ tlb'[l].tag = VirtualPageNumber(vb)
                                            /\ Walks(mem, vb)
                                            /\ tlb'[l].ppn = PageOf(mem, vb)
      BY <2>5 DEF HoldsWalks
    <3>2. CASE l = LineToReplace
      BY <2>1, <2>2, <2>5, <3>2 DEF WalkInv, TypeOK, Entry
    <3>3. CASE l # LineToReplace
      BY <2>5, <3>1, <3>3 DEF WalkInv, TypeOK, HoldsWalks
    <3> QED
      BY <3>2, <3>3
  <2>8. answer' \in [asked : Pages \cup {NoAsk},
                     err : {"ERR_NONE", "ERR_BAD_PARAMETER"}, ppn : Nat]
    BY <1>3, <2>2 DEF SearchMiss, Answers
  <2> QED
    BY <1>3, <2>3, <2>6, <2>7, <2>8 DEF SearchMiss, WalkInv, TypeOK, Lines
<1>4. CASE SearchFault(va)
  BY <1>4 DEF SearchFault, WalkInv, TypeOK, Lines, HoldsWalks
<1> QED
  BY <1>2, <1>3, <1>4 DEF Search

LEMMA NextWalk == ASSUME WalkInv, [Next]_vars PROVE WalkInv'
<1>1. CASE Flush
  <2>1. tlb' \in [LineNo -> TlbEntry] /\ \A l \in LineNo : tlb'[l].v = 0
    BY <1>1 DEF Flush, NoEntry, Entry, TlbEntry
  <2> QED
    BY <1>1, <2>1 DEF Flush, WalkInv, TypeOK, Lines, HoldsWalks
<1>2. ASSUME NEW va \in Pages, Search(va) PROVE WalkInv'
  BY <1>2, SearchWalk
<1>3. CASE UNCHANGED vars
  BY <1>3 DEF vars, WalkInv, TypeOK, Lines, HoldsWalks
<1> QED
  BY <1>1, <1>2, <1>3 DEF Next

(* Everything keeps its type; in particular a line taken from the list is  *)
(* a line of the TLB, which tlb_insert would refuse otherwise.             *)
THEOREM SimpleTlbTypeOK == Spec => []TypeOK
<1>1. Init => WalkInv
  BY InitWalk
<1>2. WalkInv /\ [Next]_vars => WalkInv'
  BY NextWalk
<1>3. WalkInv => TypeOK
  BY DEF WalkInv
<1> QED
  BY <1>1, <1>2, <1>3, PTL DEF Spec

LEMMA SameWalk ==
    ASSUME NEW va
    PROVE  /\ Walker!Walks(mem, va) <=> Walks(mem, va)
           /\ Walker!PageOf(mem, va) = PageOf(mem, va)
BY DEF Walker!Walks, Walks, Walker!PageOf, PageOf, Walker!Physical, Physical,
       Walker!Pte, Pte, Walker!Pmd, Pmd, Walker!Pud, Pud,
       Walker!ReadPageEntry, ReadPageEntry, Walker!PageAligned, PageAligned

(* Every program gets from the TLB exactly what page walks would give it,  *)
(* errors included, even when moving a node fails for lack of memory.      *)
THEOREM SimpleTlbIsTransparent == Spec => ImplementsMmu
<1>1. Init => WalkInv /\ Walker!Init
  BY InitWalk DEF Init, NoAsk, Walker!Init
<1>2. WalkInv /\ [Next]_vars => WalkInv'
  BY NextWalk
<1>3. ASSUME WalkInv, NEW va \in Pages, Search(va) PROVE Walker!Translate(va)
  <2>1. CASE SearchHit(va)
    <3>1. PICK i \in DOMAIN order : /\ Holds(i, VirtualPageNumber(va))
                                    /\ Answers(va, tlb[order[i]].ppn)
                                    /\ UNCHANGED mem
      BY <2>1 DEF SearchHit
    <3>2. Walks(mem, va) /\ tlb[order[i]].ppn = PageOf(mem, va)
      BY <1>3, <3>1, HitIsWalk
    <3> QED
      BY <3>1, <3>2, SameWalk DEF Walker!Translate, Answers
  <2>2. CASE SearchMiss(va)
    BY <2>2, SameWalk DEF SearchMiss, Walker!Translate, Answers
  <2>3. CASE SearchFault(va)
    BY <2>3, SameWalk DEF SearchFault, Walker!Translate
  <2> QED
    BY <1>3, <2>1, <2>2, <2>3 DEF Search
<1>4. WalkInv /\ [Next]_vars => [Walker!Next]_<<mem, answer>>
  BY <1>3 DEF Next, Flush, vars, Walker!Next
<1> QED
  BY <1>1, <1>2, <1>4, PTL DEF Spec, ImplementsMmu, Walker!Spec
-----------------------------------------------------------------------------
(* The order of use.                                                       *)

OrderInv == WalkInv /\ EachLineOnce /\ PagesUnique /\ InvalidFirst

(* With room to move nodes, Used is a rotation of a part of the list.      *)
LEMMA UsedIs ==
    ASSUME RoomToMove, OrderInv, NEW i \in DOMAIN order
    PROVE  /\ DOMAIN order = 1 .. TlbLines /\ i \in 1 .. TlbLines /\ TlbLines \in Nat
           /\ DOMAIN Used(i) = 1 .. TlbLines /\ Len(Used(i)) = TlbLines
           /\ \A j \in 1 .. TlbLines :
                 Used(i)[j] = IF j < i THEN order[j]
                              ELSE IF j < TlbLines THEN order[j + 1] ELSE order[i]
<1>1. Len(order) = TlbLines /\ TlbLines \in Nat /\ DOMAIN order = 1 .. TlbLines
  BY SimpleTlbAssumption, LenProperties DEF OrderInv, EachLineOnce, WalkInv, Lines
<1>2. Used(i) = List!ToBack(order, i)
  BY <1>1 DEF RoomToMove, Used, List!Moved, List!HasRoom
<1>3. Len(Used(i)) = TlbLines /\ Used(i) \in [1 .. TlbLines -> LineNo]
  BY <1>1, <1>2, ToBackType DEF OrderInv, WalkInv, Lines
<1>4. \A j \in 1 .. TlbLines :
         Used(i)[j] = IF j < i THEN order[j]
                      ELSE IF j < TlbLines THEN order[j + 1] ELSE order[i]
  BY <1>1, <1>2 DEF List!ToBack
<1> QED
  BY <1>1, <1>3, <1>4

(* Each line stays in the list once: at the back if it was moved, one      *)
(* place nearer to the front if it was behind the line moved.              *)
LEMMA UsedKeepsLines ==
    ASSUME RoomToMove, OrderInv, NEW i \in DOMAIN order, NEW l \in LineNo
    PROVE  \E k \in 1 .. TlbLines : \A j \in 1 .. TlbLines : Used(i)[j] = l <=> j = k
<1>1. /\ DOMAIN order = 1 .. TlbLines /\ TlbLines \in Nat /\ i \in 1 .. TlbLines
      /\ \A j \in 1 .. TlbLines :
            Used(i)[j] = IF j < i THEN order[j]
                         ELSE IF j < TlbLines THEN order[j + 1] ELSE order[i]
  BY UsedIs
<1>2. PICK m \in DOMAIN order : \A j \in DOMAIN order : order[j] = l <=> j = m
  BY DEF OrderInv, EachLineOnce
<1>3. m \in 1 .. TlbLines /\ \A j \in 1 .. TlbLines : order[j] = l <=> j = m
  BY <1>1, <1>2
<1>4. CASE m < i
  <2>1. \A j \in 1 .. TlbLines : Used(i)[j] = l <=> j = m
    BY <1>1, <1>3, <1>4
  <2> QED
    BY <1>3, <2>1
<1>5. CASE m = i
  <2>1. TlbLines \in 1 .. TlbLines
    BY <1>1
  <2>2. \A j \in 1 .. TlbLines : Used(i)[j] = l <=> j = TlbLines
    BY <1>1, <1>3, <1>5
  <2> QED
    BY <2>1, <2>2
<1>6. CASE m > i
  <2>1. m - 1 \in 1 .. TlbLines
    BY <1>1, <1>6
  <2>2. \A j \in 1 .. TlbLines : Used(i)[j] = l <=> j = m - 1
    BY <1>1, <1>3, <1>6
  <2> QED
    BY <2>1, <2>2
<1> QED
  BY <1>1, <1>3, <1>4, <1>5, <1>6

LEMMA UsedEachOnce ==
    ASSUME RoomToMove, OrderInv, NEW i \in DOMAIN order, order' = Used(i)
    PROVE  EachLineOnce'
<1>1. DOMAIN order' = 1 .. TlbLines /\ Len(order') = TlbLines
  BY UsedIs
<1>2. \A l \in LineNo : \E k \in 1 .. TlbLines : \A j \in 1 .. TlbLines : order'[j] = l <=> j = k
  BY UsedKeepsLines
<1>3. \A l \in LineNo : \E k \in DOMAIN order' : \A j \in DOMAIN order' : order'[j] = l <=> j = k
  <2>1. SUFFICES ASSUME NEW l \in LineNo
                 PROVE  \E k \in DOMAIN order' : \A j \in DOMAIN order' : order'[j] = l <=> j = k
    OBVIOUS
  <2>2. PICK k \in 1 .. TlbLines : \A j \in 1 .. TlbLines : order'[j] = l <=> j = k
    BY <1>2
  <2>3. k \in DOMAIN order' /\ \A j \in DOMAIN order' : order'[j] = l <=> j = k
    BY <1>1, <2>2
  <2> QED
    BY <2>3
<1> QED
  BY <1>1, <1>3, Zenon DEF EachLineOnce

(* A line is at one place only.                                            *)
LEMMA OnePlace ==
    ASSUME OrderInv, NEW i \in DOMAIN order, NEW j \in DOMAIN order, order[i] = order[j]
    PROVE  i = j
<1>1. order[i] \in LineNo
  BY LenProperties DEF OrderInv, WalkInv, Lines
<1> QED
  BY <1>1 DEF OrderInv, EachLineOnce

LEMMA HitKeepsOrder ==
    ASSUME RoomToMove, OrderInv, NEW va \in Pages, SearchHit(va)
    PROVE  EachLineOnce' /\ PagesUnique' /\ InvalidFirst'
<1>1. PICK i \in DOMAIN order : /\ tlb[order[i]].v = 1
                                /\ order' = Used(i) /\ tlb' = tlb
  BY DEF SearchHit, Holds
<1>2. EachLineOnce'
  BY <1>1, UsedEachOnce
<1>3. PagesUnique'
  BY <1>1 DEF OrderInv, PagesUnique
<1>4. InvalidFirst'
  <2>1. SUFFICES ASSUME NEW j \in 1 .. TlbLines, NEW k \in 1 .. TlbLines,
                        j < k, tlb[Used(i)[j]].v = 1
                 PROVE  tlb[Used(i)[k]].v = 1
    BY <1>1, UsedIs DEF InvalidFirst
  <2>2. \A m, n \in 1 .. TlbLines : m < n /\ tlb[order[m]].v = 1 => tlb[order[n]].v = 1
    BY UsedIs DEF OrderInv, InvalidFirst
  <2>3. CASE k = TlbLines
    BY <1>1, <2>3, UsedIs
  <2>4. CASE k # TlbLines
    BY <1>1, <2>1, <2>2, <2>4, UsedIs
  <2> QED
    BY <2>3, <2>4
<1> QED
  BY <1>2, <1>3, <1>4

LEMMA MissKeepsOrder ==
    ASSUME RoomToMove, OrderInv, NEW va \in Pages, SearchMiss(va)
    PROVE  EachLineOnce' /\ PagesUnique' /\ InvalidFirst'
<1> DEFINE p == VirtualPageNumber(va)
           new == Entry(1, p, PageOf(mem, va))
<1>1. /\ tlb' = [tlb EXCEPT ![order[1]] = new]
      /\ order' = Used(1)
      /\ \A i \in DOMAIN order : ~Holds(i, p)
  BY DEF SearchMiss, LineToReplace, Missed
<1>2. /\ 1 \in DOMAIN order /\ order[1] \in LineNo
      /\ tlb \in [LineNo -> TlbEntry]
  BY FrontLine DEF OrderInv, WalkInv, TypeOK, LineToReplace
<1>3. /\ tlb'[order[1]].v = 1 /\ tlb'[order[1]].tag = p
      /\ \A l \in LineNo : l # order[1] => tlb'[l] = tlb[l]
  BY <1>1, <1>2 DEF Entry
<1>4. EachLineOnce'
  BY <1>1, <1>2, UsedEachOnce
<1>5. PagesUnique'
  <2>1. \A l \in LineNo : ~(tlb[l].v = 1 /\ tlb[l].tag = p)
    BY <1>1 DEF OrderInv, EachLineOnce, Holds
  <2> QED
    BY <1>3, <2>1 DEF OrderInv, PagesUnique
<1>6. InvalidFirst'
  <2>1. SUFFICES ASSUME NEW j \in 1 .. TlbLines, NEW k \in 1 .. TlbLines,
                        j < k, tlb'[Used(1)[j]].v = 1
                 PROVE  tlb'[Used(1)[k]].v = 1
    BY <1>1, <1>2, UsedIs DEF InvalidFirst
  <2>2. CASE k = TlbLines
    BY <1>2, <1>3, <2>2, UsedIs
  <2>3. CASE k # TlbLines
    <3>1. /\ j + 1 \in DOMAIN order /\ k + 1 \in DOMAIN order
          /\ Used(1)[j] = order[j + 1] /\ Used(1)[k] = order[k + 1]
      BY <1>2, <2>1, <2>3, UsedIs
    <3>2. order[j + 1] # order[1] /\ order[k + 1] # order[1]
      BY <1>2, <3>1, OnePlace, UsedIs
    <3>3. order[j + 1] \in LineNo /\ order[k + 1] \in LineNo
      BY <3>1, LenProperties DEF OrderInv, WalkInv, Lines
    <3>4. tlb[order[j + 1]].v = 1
      BY <1>3, <2>1, <3>1, <3>2, <3>3
    <3>5. tlb[order[k + 1]].v = 1
      BY <2>1, <3>1, <3>4 DEF OrderInv, InvalidFirst
    <3> QED
      BY <1>3, <3>1, <3>2, <3>3, <3>5
  <2> QED
    BY <2>2, <2>3
<1> QED
  BY <1>4, <1>5, <1>6

LEMMA FlushKeepsOrder ==
    ASSUME OrderInv, Flush
    PROVE  EachLineOnce' /\ PagesUnique' /\ InvalidFirst'
<1>1. \A l \in LineNo : tlb'[l].v = 0
  BY DEF Flush, NoEntry, Entry
<1>2. \A i \in DOMAIN order : order[i] \in LineNo
  BY LenProperties DEF OrderInv, WalkInv, Lines
<1> QED
  BY <1>1, <1>2 DEF Flush, OrderInv, EachLineOnce, PagesUnique, InvalidFirst

LEMMA InitOrder == ASSUME Init PROVE OrderInv
<1>1. TlbLines \in Nat \ {0}
  BY SimpleTlbAssumption
<1>2. \A l \in LineNo : tlb[l].v = 0
  BY DEF Init, NoEntry, Entry
<1>3. /\ order = [i \in 1 .. TlbLines |-> i - 1] /\ DOMAIN order = 1 .. TlbLines
      /\ order \in Seq(LineNo)
  BY InitWalk DEF Init, AllLines, WalkInv, Lines
<1>4. Len(order) = TlbLines
  BY <1>1, <1>3, LenProperties
<1>5. \A l \in LineNo : \E i \in DOMAIN order :
          \A j \in DOMAIN order : order[j] = l <=> j = i
  <2>1. SUFFICES ASSUME NEW l \in LineNo
                 PROVE  \E i \in DOMAIN order :
                           \A j \in DOMAIN order : order[j] = l <=> j = i
    OBVIOUS
  <2>2. l + 1 \in DOMAIN order
    BY <1>1, <1>3 DEF LineNo
  <2>3. \A j \in DOMAIN order : order[j] = l <=> j = l + 1
    BY <1>1, <1>3 DEF LineNo
  <2> QED
    BY <2>2, <2>3
<1>6. \A i \in DOMAIN order : order[i] \in LineNo
  BY <1>1, <1>3 DEF LineNo
<1> QED
  BY <1>2, <1>4, <1>5, <1>6, InitWalk DEF OrderInv, EachLineOnce, PagesUnique, InvalidFirst

LEMMA NextOrder == ASSUME RoomToMove, OrderInv, [Next]_vars PROVE OrderInv'
<1>1. WalkInv'
  BY NextWalk DEF OrderInv
<1>2. ASSUME NEW va \in Pages, Search(va)
      PROVE  EachLineOnce' /\ PagesUnique' /\ InvalidFirst'
  <2>1. CASE SearchFault(va)
    BY <2>1 DEF SearchFault, OrderInv, EachLineOnce, PagesUnique, InvalidFirst
  <2> QED
    BY <1>2, <2>1, HitKeepsOrder, MissKeepsOrder DEF Search
<1>3. CASE UNCHANGED vars
  BY <1>3 DEF vars, OrderInv, WalkInv, TypeOK, Lines, HoldsWalks, EachLineOnce,
             PagesUnique, InvalidFirst
<1> QED
  BY <1>1, <1>2, <1>3, FlushKeepsOrder DEF Next, OrderInv

(* The list keeps each line of the TLB exactly once: none is forgotten,    *)
(* and a scan that finds nothing has looked at every line.                 *)
THEOREM ListKeepsLines ==
    ASSUME RoomToMove
    PROVE  Spec => []EachLineOnce
<1>1. Init => OrderInv
  BY InitOrder
<1>2. OrderInv /\ [Next]_vars => OrderInv'
  BY NextOrder
<1>3. OrderInv => EachLineOnce
  BY DEF OrderInv
<1> QED
  BY <1>1, <1>2, <1>3, PTL DEF Spec

LEMMA OrderAlways ==
    ASSUME RoomToMove
    PROVE  Spec => []OrderInv
<1>1. Init => OrderInv
  BY InitOrder
<1>2. OrderInv /\ [Next]_vars => OrderInv'
  BY NextOrder
<1> QED
  BY <1>1, <1>2, PTL DEF Spec

(* No page is evicted while a line is free.                                *)
THEOREM FreeLinesFirst ==
    ASSUME RoomToMove
    PROVE  Spec => []InvalidFirst
<1>1. OrderInv => InvalidFirst
  BY DEF OrderInv
<1> QED
  BY <1>1, OrderAlways, PTL

(* No page is in two lines, so a hit does not depend on the order of the   *)
(* scan.                                                                   *)
THEOREM PagesCachedOnce ==
    ASSUME RoomToMove
    PROVE  Spec => []PagesUnique
<1>1. OrderInv => PagesUnique
  BY DEF OrderInv
<1> QED
  BY <1>1, OrderAlways, PTL
-----------------------------------------------------------------------------
(* Least recently used.                                                    *)

(* n lines are free, and they are the first of the list.                   *)
FirstAreFree(n) ==
    /\ n \in 0 .. TlbLines
    /\ \A i \in 1 .. TlbLines : tlb[order[i]].v = IF i <= n THEN 0 ELSE 1

UseInv == OrderInv /\ \E n \in 0 .. TlbLines : FirstAreFree(n)

LEMMA FunctionIsSeq ==
    ASSUME NEW m \in Nat, NEW S, NEW f \in [1 .. m -> S]
    PROVE  f \in Seq(S) /\ Len(f) = m
<1>1. f \in Seq(S)
  BY SeqDef
<1> QED
  BY <1>1, LenProperties

(* With the lines in order o and entries T of which the first n are free.  *)
LEMMA TagsInUse ==
    ASSUME NEW o \in Seq(LineNo), Len(o) = TlbLines, NEW T \in [LineNo -> TlbEntry],
           NEW n \in 0 .. TlbLines,
           \A i \in 1 .. TlbLines : T[o[i]].v = IF i <= n THEN 0 ELSE 1,
           NEW r, r = [k \in 1 .. TlbLines - n |-> T[o[n + k]].tag]
    PROVE  /\ Cardinality({i \in DOMAIN o : T[o[i]].v = 0}) = n
           /\ r \in Seq(Nat)
           /\ Len(r) = TlbLines - n
<1>1. TlbLines \in Nat /\ DOMAIN o = 1 .. TlbLines
  BY SimpleTlbAssumption, LenProperties
<1>2. {i \in DOMAIN o : T[o[i]].v = 0} = 1 .. n
  BY <1>1
<1>3. Cardinality(1 .. n) = n
  BY <1>1, FS_Interval
<1>4. \A k \in 1 .. TlbLines - n : T[o[n + k]].tag \in Nat
  <2>1. \A j \in 1 .. TlbLines : o[j] \in LineNo
    BY <1>1, LenProperties
  <2> QED
    BY <1>1, <2>1 DEF TlbEntry
<1>5. r \in [1 .. TlbLines - n -> Nat]
  BY <1>4, Zenon
<1>6. TlbLines - n \in Nat
  BY <1>1
<1>7. r \in Seq(Nat) /\ Len(r) = TlbLines - n
  BY <1>5, <1>6, FunctionIsSeq
<1> QED
  BY <1>2, <1>3, <1>7

LEMMA RecentIs ==
    ASSUME OrderInv, NEW n \in 0 .. TlbLines, FirstAreFree(n)
    PROVE  /\ Recent = [k \in 1 .. TlbLines - n |-> tlb[order[n + k]].tag]
           /\ Recent \in Seq(Nat)
           /\ Len(Recent) = TlbLines - n
<1> DEFINE r == [k \in 1 .. TlbLines - n |-> tlb[order[n + k]].tag]
<1>1. order \in Seq(LineNo) /\ Len(order) = TlbLines /\ tlb \in [LineNo -> TlbEntry]
  BY DEF OrderInv, WalkInv, TypeOK, EachLineOnce
<1>2. \A i \in 1 .. TlbLines : tlb[order[i]].v = IF i <= n THEN 0 ELSE 1
  BY DEF FirstAreFree
<1>3. r = [k \in 1 .. TlbLines - n |-> tlb[order[n + k]].tag]
  OBVIOUS
<1> HIDE DEF r
<1>4. /\ Cardinality({i \in DOMAIN order : tlb[order[i]].v = 0}) = n
      /\ r \in Seq(Nat) /\ Len(r) = TlbLines - n
  BY <1>1, <1>2, <1>3, TagsInUse, Zenon
<1>5. Free = n
  BY <1>4 DEF Free
<1>6. \A k \in 1 .. TlbLines - n : PageIn(order[n + k]) = tlb[order[n + k]].tag
  <2>1. SUFFICES ASSUME NEW k \in 1 .. TlbLines - n
                 PROVE  PageIn(order[n + k]) = tlb[order[n + k]].tag
    OBVIOUS
  <2>2. n + k \in 1 .. TlbLines /\ ~(n + k <= n)
    BY SimpleTlbAssumption
  <2>3. tlb[order[n + k]].v = 1
    BY <1>2, <2>2
  <2> QED
    BY <2>3 DEF PageIn
<1>7. Recent = r
  BY <1>1, <1>3, <1>5, <1>6 DEF Recent
<1> QED
  BY <1>3, <1>4, <1>7

LEMMA NextRecentIs ==
    ASSUME OrderInv', NEW n \in 0 .. TlbLines, FirstAreFree(n)'
    PROVE  /\ Recent' = [k \in 1 .. TlbLines - n |-> tlb'[order'[n + k]].tag]
           /\ Recent' \in Seq(Nat)
           /\ Len(Recent') = TlbLines - n
<1> DEFINE r == [k \in 1 .. TlbLines - n |-> tlb'[order'[n + k]].tag]
<1>1. order' \in Seq(LineNo) /\ Len(order') = TlbLines /\ tlb' \in [LineNo -> TlbEntry]
  BY DEF OrderInv, WalkInv, TypeOK, EachLineOnce
<1>2. \A i \in 1 .. TlbLines : tlb'[order'[i]].v = IF i <= n THEN 0 ELSE 1
  BY DEF FirstAreFree
<1>3. r = [k \in 1 .. TlbLines - n |-> tlb'[order'[n + k]].tag]
  OBVIOUS
<1> HIDE DEF r
<1>4. /\ Cardinality({i \in DOMAIN order' : tlb'[order'[i]].v = 0}) = n
      /\ r \in Seq(Nat) /\ Len(r) = TlbLines - n
  BY <1>1, <1>2, <1>3, TagsInUse, Zenon
<1>5. Free' = n
  BY <1>4 DEF Free
<1>6. \A k \in 1 .. TlbLines - n : PageIn(order[n + k])' = tlb'[order'[n + k]].tag
  <2>1. SUFFICES ASSUME NEW k \in 1 .. TlbLines - n
                 PROVE  PageIn(order[n + k])' = tlb'[order'[n + k]].tag
    OBVIOUS
  <2>2. n + k \in 1 .. TlbLines /\ ~(n + k <= n)
    BY SimpleTlbAssumption
  <2>3. tlb'[order'[n + k]].v = 1
    BY <1>2, <2>2
  <2> QED
    BY <2>3 DEF PageIn
<1>7. Recent' = r
  BY <1>1, <1>3, <1>5, <1>6 DEF Recent
<1> QED
  BY <1>3, <1>4, <1>7

LEMMA PartOf ==
    ASSUME NEW s \in Seq(Nat), NEW m \in 1 .. Len(s) + 1, NEW n \in 0 .. Len(s), m <= n + 1
    PROVE  /\ SubSeq(s, m, n) \in Seq(Nat)
           /\ Len(SubSeq(s, m, n)) = n - m + 1
           /\ \A i \in 1 .. n - m + 1 : SubSeq(s, m, n)[i] = s[m + i - 1]
OBVIOUS

(* Removing an element and appending it is moving it to the back.          *)
LEMMA RemovedAndAppended ==
    ASSUME NEW s \in Seq(Nat), NEW n \in Nat, Len(s) = n, NEW a \in 1 .. n
    PROVE  Append(Recency!RemoveAt(s, a), s[a]) = List!ToBack(s, a)
<1> DEFINE p == s[a]
<1> DEFINE u == SubSeq(s, 1, a - 1)
           w == SubSeq(s, a + 1, n)
           r == u \o w
<1>1. n \in Nat /\ n = Len(s) /\ a \in 1 .. n /\ p \in Nat
      /\ \A i \in 1 .. n : s[i] \in Nat
  BY LenProperties
<1>2. /\ u \in Seq(Nat) /\ Len(u) = a - 1
      /\ \A i \in 1 .. a - 1 : u[i] = s[i]
  BY <1>1, SubSeqProperties
<1>3. /\ w \in Seq(Nat) /\ Len(w) = n - a
      /\ \A i \in 1 .. n - a : w[i] = s[a + i]
  <2>1. a + 1 \in 1 .. n + 1 /\ n \in 0 .. n /\ a + 1 <= n + 1
    BY <1>1
  <2>3. /\ w \in Seq(Nat)
        /\ Len(w) = n - (a + 1) + 1
        /\ \A i \in 1 .. n - (a + 1) + 1 : w[i] = s[a + 1 + i - 1]
    BY <2>1, PartOf, Zenon
  <2> HIDE DEF w
  <2>4. Len(w) = n - a
    BY <1>1, <2>3
  <2>5. ASSUME NEW i \in 1 .. n - a PROVE w[i] = s[a + i]
    <3>1. i \in 1 .. n - (a + 1) + 1 /\ a + 1 + i - 1 = a + i
      BY <1>1, <2>5
    <3>2. w[i] = s[a + 1 + i - 1]
      BY <2>3, <3>1
    <3> QED
      BY <3>1, <3>2
  <2> QED
    BY <2>3, <2>4, <2>5
<1> HIDE DEF p, u, w
<1>4. /\ r \in Seq(Nat) /\ Len(r) = n - 1
      /\ \A i \in 1 .. n - 1 : r[i] = IF i <= a - 1 THEN u[i] ELSE w[i - (a - 1)]
  <2>1. /\ r \in Seq(Nat) /\ Len(r) = Len(u) + Len(w)
        /\ \A i \in 1 .. Len(u) + Len(w) : r[i] = IF i <= Len(u) THEN u[i] ELSE w[i - Len(u)]
    BY <1>2, <1>3, ConcatProperties, Zenon
  <2> HIDE DEF r
  <2>2. Len(u) + Len(w) = n - 1
    BY <1>1, <1>2, <1>3
  <2> QED
    BY <1>2, <2>1, <2>2
<1> HIDE DEF r
<1>5. \A i \in 1 .. n - 1 : r[i] = IF i < a THEN s[i] ELSE s[i + 1]
  <2>1. SUFFICES ASSUME NEW i \in 1 .. n - 1
                 PROVE  r[i] = IF i < a THEN s[i] ELSE s[i + 1]
    OBVIOUS
  <2>2. CASE i < a
    BY <1>1, <1>2, <1>4, <2>2
  <2>3. CASE i >= a
    <3>1. i - (a - 1) \in 1 .. n - a /\ a + (i - (a - 1)) = i + 1
      BY <1>1, <2>3
    <3>2. r[i] = w[i - (a - 1)]
      BY <1>1, <1>4, <2>3, SMT
    <3>3. w[i - (a - 1)] = s[a + (i - (a - 1))]
      BY <1>3, <3>1
    <3>4. ~(i < a)
      BY <1>1, <2>3
    <3> QED
      BY <3>1, <3>2, <3>3, <3>4, Zenon
  <2> QED
    BY <1>1, <2>2, <2>3
<1>6. /\ Append(r, p) \in Seq(Nat) /\ Len(Append(r, p)) = n
      /\ \A j \in 1 .. n : Append(r, p)[j] = IF j < n THEN r[j] ELSE p
  BY <1>1, <1>4, AppendProperties
<1>7. \A j \in 1 .. n :
         Append(r, p)[j] = IF j < a THEN s[j] ELSE IF j < n THEN s[j + 1] ELSE p
  <2>1. SUFFICES ASSUME NEW j \in 1 .. n
                 PROVE  Append(r, p)[j] = IF j < a THEN s[j] ELSE IF j < n THEN s[j + 1] ELSE p
    OBVIOUS
  <2>2. CASE j < n
    <3>1. j \in 1 .. n - 1 /\ Append(r, p)[j] = r[j]
      BY <1>1, <1>6, <2>2
    <3> QED
      BY <1>5, <2>2, <3>1, Zenon
  <2>3. CASE ~(j < n)
    <3>1. ~(j < a)
      BY <1>1, <2>3
    <3>2. Append(r, p)[j] = p
      BY <1>6, <2>3, Zenon
    <3> QED
      BY <2>3, <3>1, <3>2, Zenon
  <2> QED
    BY <2>2, <2>3
<1> DEFINE g == [j \in 1 .. n |-> IF j < a THEN s[j] ELSE IF j < n THEN s[j + 1] ELSE p]
<1>8. g \in [1 .. n -> Nat]
  BY <1>1
<1>9. g \in Seq(Nat) /\ Len(g) = n
  <2> HIDE DEF g
  <2> QED
    BY <1>8, FunctionIsSeq
<1>10. \A j \in 1 .. n : g[j] = Append(r, p)[j]
  BY <1>7
<1>11. g = Append(r, p)
  <2> HIDE DEF g
  <2> QED
    BY <1>6, <1>9, <1>10, SeqEqual
<1>12. g = List!ToBack(s, a)
  BY DEF List!ToBack, p
<1>13. r = Recency!RemoveAt(s, a)
  BY DEF r, u, w, Recency!RemoveAt
<1> QED
  BY <1>11, <1>12, <1>13 DEF p

LEMMA InitUse == ASSUME Init PROVE UseInv /\ Recency!Init
<1>1. OrderInv /\ Lines
  BY InitOrder DEF OrderInv, WalkInv
<1>2. /\ TlbLines \in 0 .. TlbLines /\ DOMAIN order = 1 .. TlbLines
      /\ \A i \in DOMAIN order : order[i] \in LineNo
  BY <1>1, SimpleTlbAssumption, LenProperties DEF Lines, OrderInv, EachLineOnce
<1>3. \A l \in LineNo : tlb[l].v = 0
  BY DEF Init, NoEntry, Entry
<1>4. FirstAreFree(TlbLines)
  BY <1>2, <1>3 DEF FirstAreFree
<1>5. Recent \in Seq(Nat) /\ Len(Recent) = TlbLines - TlbLines
  BY <1>1, <1>2, <1>4, RecentIs
<1>6. Recent = << >>
  BY <1>2, <1>5, EmptySeq
<1> QED
  BY <1>1, <1>2, <1>4, <1>6 DEF UseInv, Recency!Init, Init

(* The page of a hit is the one its line holds in recent, and goes to the  *)
(* back there as its line does in the list.                                *)
LEMMA HitUse ==
    ASSUME RoomToMove, UseInv, OrderInv', NEW va \in Pages, SearchHit(va)
    PROVE  UseInv' /\ Recency!Hit(VirtualPageNumber(va))
<1> DEFINE p == VirtualPageNumber(va)
<1>0. p \in Nat
  BY UsedPage
<1>1. PICK i \in DOMAIN order : /\ tlb[order[i]].v = 1 /\ tlb[order[i]].tag = p
                                /\ order' = Used(i) /\ tlb' = tlb /\ hit' = 1
  BY DEF SearchHit, Holds
<1>2. PICK n \in 0 .. TlbLines : FirstAreFree(n)
  BY DEF UseInv
<1>3. /\ OrderInv /\ DOMAIN order = 1 .. TlbLines /\ i \in 1 .. TlbLines /\ TlbLines \in Nat
      /\ \A j \in 1 .. TlbLines :
            Used(i)[j] = IF j < i THEN order[j]
                         ELSE IF j < TlbLines THEN order[j + 1] ELSE order[i]
  BY UsedIs DEF UseInv
<1>4. i > n /\ \A j \in 1 .. TlbLines : tlb[order[j]].v = IF j <= n THEN 0 ELSE 1
  BY <1>1, <1>2, <1>3 DEF FirstAreFree
<1>5. FirstAreFree(n)'
  BY <1>1, <1>3, <1>4 DEF FirstAreFree
<1>6. UseInv'
  BY <1>5 DEF UseInv
<1>7. /\ Recent = [k \in 1 .. TlbLines - n |-> tlb[order[n + k]].tag]
      /\ Recent \in Seq(Nat) /\ Len(Recent) = TlbLines - n
  BY <1>2, <1>3, RecentIs
<1>8. /\ Recent' = [k \in 1 .. TlbLines - n |-> tlb'[order'[n + k]].tag]
      /\ Recent' \in Seq(Nat) /\ Len(Recent') = TlbLines - n
  BY <1>5, NextRecentIs
<1> DEFINE a == i - n
<1>9. /\ a \in 1 .. TlbLines - n /\ n + a = i /\ DOMAIN Recent = 1 .. TlbLines - n
      /\ n \in Nat /\ TlbLines \in Nat
  BY <1>3, <1>4, <1>7
<1>10. Recent[a] = p
  BY <1>1, <1>7, <1>9
<1> HIDE DEF a
<1>11. \A k \in 1 .. TlbLines - n :
          /\ Recent[k] = tlb[order[n + k]].tag
          /\ Recent'[k] = tlb[Used(i)[n + k]].tag
  BY <1>1, <1>7, <1>8
<1>12. \A k \in 1 .. TlbLines - n :
          Recent'[k] = IF k < a THEN Recent[k]
                       ELSE IF k < TlbLines - n THEN Recent[k + 1] ELSE Recent[a]
  <2> DEFINE t(k) == IF k < a THEN Recent[k]
                     ELSE IF k < TlbLines - n THEN Recent[k + 1] ELSE Recent[a]
  <2>1. SUFFICES ASSUME NEW k \in 1 .. TlbLines - n PROVE Recent'[k] = t(k)
    OBVIOUS
  <2>2. Recent'[k] = tlb[Used(i)[n + k]].tag /\ n + k \in 1 .. TlbLines
    BY <1>3, <1>9, <1>11
  <2>3. CASE k < a
    <3>1. n + k < i
      BY <1>3, <1>9, <2>3
    <3>2. Used(i)[n + k] = order[n + k]
      BY <1>3, <2>2, <3>1
    <3>3. t(k) = Recent[k] /\ Recent[k] = tlb[order[n + k]].tag
      BY <1>11, <2>3
    <3> QED
      BY <2>2, <3>2, <3>3
  <2>4. CASE k >= a /\ k < TlbLines - n
    <3>1. /\ ~(n + k < i) /\ n + k < TlbLines /\ ~(k < a)
          /\ k + 1 \in 1 .. TlbLines - n /\ n + (k + 1) = (n + k) + 1
      BY <1>3, <1>9, <2>4
    <3>2. Used(i)[n + k] = order[(n + k) + 1]
      BY <1>3, <2>2, <3>1
    <3>3. t(k) = Recent[k + 1] /\ Recent[k + 1] = tlb[order[n + (k + 1)]].tag
      BY <1>11, <2>4, <3>1
    <3> QED
      BY <2>2, <3>1, <3>2, <3>3
  <2>5. CASE k = TlbLines - n
    <3>1. ~(n + k < i) /\ ~(n + k < TlbLines) /\ ~(k < a) /\ ~(k < TlbLines - n)
      BY <1>3, <1>9, <2>5
    <3>2. Used(i)[n + k] = order[i]
      BY <1>3, <2>2, <3>1
    <3>3. t(k) = p
      BY <1>10, <3>1
    <3> QED
      BY <1>1, <2>2, <3>2, <3>3
  <2> QED
    <3>1. k < a \/ (k >= a /\ k < TlbLines - n) \/ k = TlbLines - n
      BY <1>9
    <3> QED
      BY <2>3, <2>4, <2>5, <3>1
<1>13. Recent' = List!ToBack(Recent, a)
  <2>1. Recent' = [k \in 1 .. TlbLines - n |-> Recent'[k]]
    BY <1>8
  <2>2. Recent \in Seq(Nat) /\ TlbLines - n \in Nat /\ Len(Recent) = TlbLines - n
    BY <1>7, <1>9
  <2>3. List!ToBack(Recent, a) =
           [k \in 1 .. TlbLines - n |->
              IF k < a THEN Recent[k]
              ELSE IF k < TlbLines - n THEN Recent[k + 1] ELSE Recent[a]]
    BY <2>2 DEF List!ToBack
  <2> QED
    BY <2>1, <1>12, <2>3
<1>14. Recent' = Append(Recency!RemoveAt(Recent, a), p)
  <2>1. Recent \in Seq(Nat) /\ Len(Recent) \in Nat /\ a \in 1 .. Len(Recent)
    BY <1>7, <1>9
  <2>2. Append(Recency!RemoveAt(Recent, a), Recent[a]) = List!ToBack(Recent, a)
    BY <2>1, RemovedAndAppended
  <2> QED
    BY <1>10, <1>13, <2>2
<1> QED
  BY <1>1, <1>6, <1>9, <1>10, <1>14 DEF Recency!Hit

(* Appending to a sequence, and to one without its first element.          *)
LEMMA Appended ==
    ASSUME NEW s \in Seq(Nat), NEW n \in Nat, Len(s) = n, NEW p \in Nat
    PROVE  Append(s, p) = [j \in 1 .. n + 1 |-> IF j <= n THEN s[j] ELSE p]
<1>1. /\ Append(s, p) \in Seq(Nat) /\ Len(Append(s, p)) = n + 1
      /\ \A j \in 1 .. n + 1 : Append(s, p)[j] = IF j <= n THEN s[j] ELSE p
  BY AppendProperties
<1>2. Append(s, p) = [j \in 1 .. n + 1 |-> Append(s, p)[j]]
  BY <1>1, LenProperties
<1> QED
  BY <1>1, <1>2

LEMMA TailAppended ==
    ASSUME NEW s \in Seq(Nat), NEW n \in Nat, Len(s) = n, n > 0, NEW p \in Nat
    PROVE  Append(Tail(s), p) = [j \in 1 .. n |-> IF j < n THEN s[j + 1] ELSE p]
<1> DEFINE t == Tail(s)
           m == n - 1
<1>1. m \in Nat /\ m + 1 = n
  OBVIOUS
<1>2. t \in Seq(Nat) /\ Len(t) = m /\ \A j \in 1 .. m : t[j] = s[j + 1]
  BY HeadTailProperties, EmptySeq
<1> HIDE DEF t, m
<1>3. Append(t, p) = [j \in 1 .. n |-> IF j <= m THEN t[j] ELSE p]
  BY <1>1, <1>2, Appended
<1>4. \A j \in 1 .. n : (IF j <= m THEN t[j] ELSE p) = IF j < n THEN s[j + 1] ELSE p
  BY <1>1, <1>2
<1>5. Append(t, p) = [j \in 1 .. n |-> IF j < n THEN s[j + 1] ELSE p]
  BY <1>3, <1>4
<1> QED
  BY <1>5 DEF t

(* A miss fills the last free line, if there is one, or else the line that *)
(* was used first; its page is new.                                        *)
LEMMA MissUse ==
    ASSUME RoomToMove, UseInv, OrderInv', NEW va \in Pages, SearchMiss(va)
    PROVE  UseInv' /\ Recency!Miss(VirtualPageNumber(va))
<1> DEFINE p == VirtualPageNumber(va)
           new == Entry(1, p, PageOf(mem, va))
<1>0. p \in Nat
  BY UsedPage
<1>1. /\ tlb' = [tlb EXCEPT ![order[1]] = new]
      /\ order' = Used(1) /\ hit' = 0
      /\ \A i \in DOMAIN order : ~(tlb[order[i]].tag = p /\ tlb[order[i]].v = 1)
  BY DEF SearchMiss, LineToReplace, Missed, Holds
<1>2. PICK n \in 0 .. TlbLines : FirstAreFree(n)
  BY DEF UseInv
<1>3. /\ OrderInv /\ DOMAIN order = 1 .. TlbLines /\ 1 \in 1 .. TlbLines /\ TlbLines \in Nat
      /\ \A j \in 1 .. TlbLines : order[j] \in LineNo
      /\ tlb \in [LineNo -> TlbEntry]
  <2>1. OrderInv /\ 1 \in DOMAIN order
    BY FrontLine DEF UseInv, OrderInv, WalkInv
  <2>2. DOMAIN order = 1 .. TlbLines /\ 1 \in 1 .. TlbLines /\ TlbLines \in Nat
    BY <2>1, UsedIs
  <2> QED
    BY <2>1, <2>2, LenProperties DEF OrderInv, WalkInv, TypeOK, Lines
<1>4. \A j \in 1 .. TlbLines : order'[j] = IF j < TlbLines THEN order[j + 1] ELSE order[1]
  <2>1. \A j \in 1 .. TlbLines :
            Used(1)[j] = IF j < 1 THEN order[j]
                         ELSE IF j < TlbLines THEN order[j + 1] ELSE order[1]
    BY <1>3, UsedIs
  <2> QED
    BY <1>1, <2>1
<1>5. \A j \in 1 .. TlbLines :
          tlb'[order'[j]] = IF j < TlbLines THEN tlb[order[j + 1]] ELSE new
  <2>1. SUFFICES ASSUME NEW j \in 1 .. TlbLines
                 PROVE  tlb'[order'[j]] = IF j < TlbLines THEN tlb[order[j + 1]] ELSE new
    OBVIOUS
  <2>2. CASE j < TlbLines
    <3>1. j + 1 \in 1 .. TlbLines /\ j + 1 # 1
      BY <1>3, <2>2
    <3>2. order[j + 1] # order[1] /\ order[j + 1] \in LineNo /\ order[1] \in LineNo
      BY <1>3, <3>1, OnePlace
    <3>3. order'[j] = order[j + 1]
      BY <1>4, <2>2
    <3> QED
      BY <1>1, <1>3, <2>2, <3>2, <3>3, Zenon
  <2>3. CASE ~(j < TlbLines)
    <3>1. order'[j] = order[1] /\ order[1] \in LineNo
      BY <1>3, <1>4, <2>3
    <3> QED
      BY <1>1, <1>3, <2>3, <3>1, Zenon
  <2> QED
    BY <2>2, <2>3
<1>6. new.v = 1 /\ new.tag = p
  BY DEF Entry
<1> HIDE DEF new
<1>7. /\ Recent = [k \in 1 .. TlbLines - n |-> tlb[order[n + k]].tag]
      /\ Recent \in Seq(Nat) /\ Len(Recent) = TlbLines - n
  BY <1>2, <1>3, RecentIs
<1>8. \A j \in 1 .. TlbLines : tlb[order[j]].v = IF j <= n THEN 0 ELSE 1
  BY <1>2 DEF FirstAreFree
<1>9. p \notin Recency!Cached
  <2>1. \A k \in 1 .. TlbLines - n : n + k \in 1 .. TlbLines /\ tlb[order[n + k]].v = 1
    BY <1>3, <1>8
  <2>2. \A k \in 1 .. TlbLines - n : tlb[order[n + k]].tag # p
    BY <1>1, <1>3, <2>1
  <2> QED
    BY <1>7, <2>2 DEF Recency!Cached
<1>10. CASE n = 0
  <2>1. FirstAreFree(n)'
    <3>1. \A j \in 1 .. TlbLines : tlb'[order'[j]].v = 1
      <4>1. SUFFICES ASSUME NEW j \in 1 .. TlbLines PROVE tlb'[order'[j]].v = 1
        OBVIOUS
      <4>2. CASE j < TlbLines
        <5>1. j + 1 \in 1 .. TlbLines /\ ~(j + 1 <= n)
          BY <1>3, <1>10, <4>2
        <5>2. tlb[order[j + 1]].v = 1
          BY <1>8, <5>1
        <5> QED
          BY <1>5, <4>2, <5>2
      <4>3. CASE ~(j < TlbLines)
        BY <1>5, <1>6, <4>3
      <4> QED
        BY <4>2, <4>3
    <3> QED
      BY <1>10, <3>1 DEF FirstAreFree
  <2>2. Recent' = [k \in 1 .. TlbLines - n |-> tlb'[order'[n + k]].tag]
    BY <2>1, NextRecentIs
  <2>3. Recent' = [k \in 1 .. TlbLines |-> tlb'[order'[k]].tag]
    BY <1>3, <1>10, <2>2
  <2>4. Recent = [k \in 1 .. TlbLines |-> tlb[order[k]].tag] /\ Len(Recent) = TlbLines
    BY <1>3, <1>7, <1>10
  <2>5. Append(Tail(Recent), p)
           = [j \in 1 .. TlbLines |-> IF j < TlbLines THEN Recent[j + 1] ELSE p]
    <3>1. TlbLines > 0 /\ TlbLines \in Nat /\ Recent \in Seq(Nat) /\ Len(Recent) = TlbLines
      BY <1>7, <2>4, SimpleTlbAssumption
    <3> HIDE DEF p
    <3> QED
      BY <1>0, <3>1, TailAppended
  <2>6. \A j \in 1 .. TlbLines :
            tlb'[order'[j]].tag = IF j < TlbLines THEN Recent[j + 1] ELSE p
    BY <1>3, <1>5, <1>6, <2>4
  <2>7. Recent' = Append(Tail(Recent), p)
    BY <2>3, <2>5, <2>6
  <2> QED
    BY <1>1, <1>9, <2>1, <2>4, <2>7 DEF UseInv, Recency!Miss
<1>11. CASE n > 0
  <2> DEFINE m == n - 1
  <2>1. m \in 0 .. TlbLines /\ n = m + 1 /\ TlbLines - m = (TlbLines - n) + 1
    BY <1>3, <1>11
  <2> HIDE DEF m
  <2>2. FirstAreFree(m)'
    <3>1. ASSUME NEW j \in 1 .. TlbLines
          PROVE  tlb'[order'[j]].v = IF j <= m THEN 0 ELSE 1
      <4>1. CASE j < TlbLines
        <5>1. j + 1 \in 1 .. TlbLines /\ (j + 1 <= n <=> j <= m)
          BY <1>3, <2>1, <4>1
        <5> QED
          BY <1>5, <1>8, <4>1, <5>1, Zenon
      <4>2. CASE ~(j < TlbLines)
        <5>1. ~(j <= m)
          BY <1>3, <2>1, <4>2
        <5> QED
          BY <1>5, <1>6, <4>2, <5>1, Zenon
      <4> QED
        BY <4>1, <4>2
    <3> QED
      BY <2>1, <3>1 DEF FirstAreFree
  <2>3. Recent' = [k \in 1 .. TlbLines - m |-> tlb'[order'[m + k]].tag]
    BY <2>1, <2>2, NextRecentIs
  <2>4. Append(Recent, p)
           = [j \in 1 .. (TlbLines - n) + 1 |-> IF j <= TlbLines - n THEN Recent[j] ELSE p]
    <3>1. TlbLines - n \in Nat
      BY <1>3
    <3> QED
      BY <1>0, <1>7, <3>1, Appended
  <2>5. \A j \in 1 .. TlbLines - m :
            tlb'[order'[m + j]].tag = IF j <= TlbLines - n THEN Recent[j] ELSE p
    <3>1. SUFFICES ASSUME NEW j \in 1 .. TlbLines - m
                   PROVE  tlb'[order'[m + j]].tag = IF j <= TlbLines - n THEN Recent[j] ELSE p
      OBVIOUS
    <3>2. m + j \in 1 .. TlbLines
      BY <1>3, <2>1
    <3>3. CASE j <= TlbLines - n
      <4>1. m + j < TlbLines /\ (m + j) + 1 = n + j /\ j \in 1 .. TlbLines - n
        BY <1>3, <2>1, <3>3
      <4>2. tlb'[order'[m + j]] = tlb[order[n + j]]
        BY <1>5, <3>2, <4>1
      <4> QED
        BY <1>7, <3>3, <4>1, <4>2
    <3>4. CASE ~(j <= TlbLines - n)
      <4>1. ~(m + j < TlbLines)
        BY <1>3, <2>1, <3>4
      <4> QED
        BY <1>5, <1>6, <3>2, <3>4, <4>1
    <3> QED
      BY <3>3, <3>4
  <2>6. Recent' = Append(Recent, p)
    BY <2>1, <2>3, <2>4, <2>5
  <2>7. Len(Recent) # TlbLines
    BY <1>3, <1>7, <1>11
  <2> QED
    BY <1>1, <1>9, <2>1, <2>2, <2>6, <2>7 DEF UseInv, Recency!Miss
<1> QED
  BY <1>3, <1>10, <1>11

LEMMA FlushUse ==
    ASSUME UseInv, OrderInv', Flush
    PROVE  UseInv' /\ Recency!Forget
<1>1. /\ \A l \in LineNo : tlb'[l].v = 0
      /\ order' = order /\ hit' = hit
  BY DEF Flush, NoEntry, Entry
<1>2. /\ TlbLines \in 0 .. TlbLines /\ TlbLines \in Nat
      /\ \A j \in 1 .. TlbLines : order[j] \in LineNo
  BY SimpleTlbAssumption, LenProperties DEF UseInv, OrderInv, EachLineOnce, WalkInv, Lines
<1>3. FirstAreFree(TlbLines)'
  BY <1>1, <1>2 DEF FirstAreFree
<1>4. Recent' \in Seq(Nat) /\ Len(Recent') = TlbLines - TlbLines
  BY <1>2, <1>3, NextRecentIs
<1>5. Recent' = << >>
  BY <1>2, <1>4, EmptySeq
<1> QED
  BY <1>1, <1>2, <1>3, <1>5 DEF UseInv, Recency!Forget

LEMMA UnmovedUse ==
    ASSUME UseInv, OrderInv', UNCHANGED <<tlb, order>>
    PROVE  UseInv' /\ UNCHANGED Recent
BY DEF UseInv, FirstAreFree, Recent, PageIn, Free

LEMMA FaultUse ==
    ASSUME UseInv, OrderInv', NEW va \in Pages, SearchFault(va)
    PROVE  UseInv' /\ Recency!Fail(VirtualPageNumber(va))
<1> DEFINE p == VirtualPageNumber(va)
<1>1. UseInv' /\ UNCHANGED Recent /\ hit' = 0
  BY UnmovedUse DEF SearchFault
<1>2. \A i \in DOMAIN order : ~(tlb[order[i]].tag = p /\ tlb[order[i]].v = 1)
  BY DEF SearchFault, Missed, Holds
<1>3. PICK n \in 0 .. TlbLines : FirstAreFree(n)
  BY DEF UseInv
<1>4. DOMAIN order = 1 .. TlbLines /\ TlbLines \in Nat
  BY SimpleTlbAssumption, LenProperties DEF UseInv, OrderInv, EachLineOnce, WalkInv, Lines
<1>5. \A k \in 1 .. TlbLines - n : n + k \in 1 .. TlbLines /\ tlb[order[n + k]].v = 1
  BY <1>3, <1>4 DEF FirstAreFree
<1>6. Recent = [k \in 1 .. TlbLines - n |-> tlb[order[n + k]].tag]
  BY <1>3, RecentIs DEF UseInv
<1>7. p \notin Recency!Cached
  <2>1. \A k \in 1 .. TlbLines - n : tlb[order[n + k]].tag # p
    BY <1>2, <1>4, <1>5
  <2> QED
    BY <1>6, <2>1 DEF Recency!Cached
<1> QED
  BY <1>1, <1>7 DEF Recency!Fail

(* Eviction is least recently used, as tlb_mng.h says: the pages cached    *)
(* are always the last ones used, as many as there are lines.              *)
THEOREM EvictionIsLru ==
    ASSUME RoomToMove
    PROVE  Spec => ImplementsLru
<1>1. Init => UseInv /\ Recency!Init
  BY InitUse
<1>2. ASSUME UseInv, OrderInv', NEW va \in Pages, Search(va)
      PROVE  UseInv' /\ Recency!Next
  <2>1. VirtualPageNumber(va) \in Vpns
    BY UsedPage
  <2>2. CASE SearchHit(va)
    BY <1>2, <2>1, <2>2, HitUse DEF Recency!Next
  <2>3. CASE SearchMiss(va)
    BY <1>2, <2>1, <2>3, MissUse DEF Recency!Next
  <2>4. CASE SearchFault(va)
    BY <1>2, <2>1, <2>4, FaultUse DEF Recency!Next
  <2> QED
    BY <1>2, <2>2, <2>3, <2>4 DEF Search
<1>3. UseInv /\ OrderInv' /\ [Next]_vars => UseInv' /\ [Recency!Next]_<<Recent, hit>>
  <2> SUFFICES ASSUME UseInv, OrderInv', [Next]_vars
               PROVE  UseInv' /\ [Recency!Next]_<<Recent, hit>>
    OBVIOUS
  <2>1. CASE Flush
    BY <2>1, FlushUse DEF Recency!Next
  <2>2. CASE UNCHANGED vars
    BY <2>2, UnmovedUse DEF vars
  <2> QED
    BY <1>2, <2>1, <2>2 DEF Next
<1>4. Spec => []OrderInv
  BY OrderAlways
<1> QED
  BY <1>1, <1>3, <1>4, PTL DEF Spec, ImplementsLru, Recency!Spec
=============================================================================
