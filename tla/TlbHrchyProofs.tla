--------------------------- MODULE TlbHrchyProofs ---------------------------
(***************************************************************************)
(* What the two levels of TLB answer.  Where no valid entry was left on the*)
(* stack (StackInvalid), a page that differs from every other page in more *)
(* than the middle bits (Alone) is answered as a walk would, and its entry *)
(* in an L1 TLB is in the L2 TLB too as long as that is not flushed.  With *)
(* NoAliases every page is of this kind, and the hierarchy is transparent. *)
(*                                                                         *)
(* The argument: a valid entry, wherever it is, is the walk of a page of   *)
(* the program, if that page is Alone.  An L2 lookup compares less than    *)
(* the page number, but what it compares still determines such a page; so  *)
(* what is copied from L2 to L1 is right, and what invalidation rebuilds   *)
(* is the page that is about to leave L2.                                  *)
(***************************************************************************)
EXTENDS TlbHrchy, PageWalkProofs
-----------------------------------------------------------------------------
(* Page numbers, indexes and tags.                                         *)

LEMMA Geometry ==
    /\ {L1Lines, L2Lines, TagWord, PdEntries} \subseteq Nat \ {0}
    /\ L1Lines <= L2Lines
    /\ 0 .. L1Lines - 1 \subseteq 0 .. L2Lines - 1
<1>1. {L1Lines, L2Lines, TagWord, PdEntries} \subseteq Nat \ {0} /\ L2Lines % L1Lines = 0
  BY TlbGeometryAssumption, PagingAssumption
<1>2. L1Lines <= L2Lines
  <2>1. \A x, n \in Nat \ {0} : x < n => x % n = x
    OBVIOUS
  <2> QED
    BY <1>1, <2>1
<1> QED
  BY <1>1, <1>2

LEMMA DivMod ==
    ASSUME NEW n \in Nat \ {0}, NEW p \in Nat
    PROVE  /\ p \div n \in Nat
           /\ p % n \in 0 .. n - 1
           /\ p = (p \div n) * n + (p % n)
OBVIOUS

LEMMA UsedVpn ==
    ASSUME NEW va \in Pages
    PROVE  /\ va \in VirtAddr
           /\ VirtualPageNumber(va) \in Vpns
           /\ VirtualPageNumber(va) \in Nat
BY TlbUseAssumption, VpnType DEF Vpns

LEMMA VpnsNat == Vpns \subseteq Nat
BY UsedVpn DEF Vpns

(* Every TLB index of a page follows from its L2 index.                    *)
LEMMA IndexType ==
    ASSUME NEW p \in Nat
    PROVE  /\ L1Index(p) \in 0 .. L1Lines - 1
           /\ L1Index(p) \in 0 .. L2Lines - 1
           /\ L2Index(p) \in 0 .. L2Lines - 1
           /\ p \div L1Lines \in Nat
           /\ p \div L2Lines \in Nat
           /\ p = (p \div L1Lines) * L1Lines + L1Index(p)
           /\ p = (p \div L2Lines) * L2Lines + L2Index(p)
<1>1. L1Lines \in Nat \ {0} /\ L2Lines \in Nat \ {0}
  BY Geometry
<1> QED
  BY <1>1, DivMod, Geometry DEF L1Index, L2Index

LEMMA SameL2SameL1 ==
    ASSUME NEW p \in Nat, NEW q \in Nat, L2Index(p) = L2Index(q)
    PROVE  L1Index(p) = L1Index(q)
<1> DEFINE k == L2Lines \div L1Lines
<1>1. L1Lines \in Nat \ {0} /\ L2Lines \in Nat \ {0} /\ k \in Nat /\ L2Lines = k * L1Lines
  <2>1. L2Lines % L1Lines = 0 /\ L1Lines \in Nat \ {0} /\ L2Lines \in Nat \ {0}
    BY Geometry, TlbGeometryAssumption
  <2>2. k \in Nat /\ L2Lines = k * L1Lines + (L2Lines % L1Lines)
    BY <2>1, DivMod
  <2> HIDE DEF k
  <2>3. k * L1Lines \in Nat
    BY <2>1, <2>2
  <2> QED
    BY <2>1, <2>2, <2>3
<1> HIDE DEF k
<1>2. ASSUME NEW x \in Nat
      PROVE  x % L1Lines = L2Index(x) % L1Lines
  <2> DEFINE t == x \div L2Lines
             r == L2Index(x)
             u == r \div L1Lines
             s == r % L1Lines
  <2>1. t \in Nat /\ r \in Nat /\ x = t * L2Lines + r
    BY IndexType
  <2>2. u \in Nat /\ s \in 0 .. L1Lines - 1 /\ r = u * L1Lines + s
    BY <1>1, <2>1, DivMod
  <2> HIDE DEF t, r, u, s
  <2>3. t * (k * L1Lines) = (t * k) * L1Lines /\ t * k \in Nat
    BY <1>1, <2>1
  <2>4. x = (t * k + u) * L1Lines + s /\ t * k + u \in Nat
    BY <1>1, <2>1, <2>2, <2>3
  <2>5. x % L1Lines = s
    BY <1>1, <2>2, <2>4, QuotientUnique
  <2> QED
    BY <2>5 DEF s, r
<1> QED
  BY <1>2 DEF L1Index
-----------------------------------------------------------------------------
(* Types hold whatever the stack held and however pages alias.             *)

L1Array == [Access -> [0 .. L1Lines - 1 -> TlbEntry]]
L2Array == [0 .. L2Lines - 1 -> TlbEntry]

LEMMA EntryType ==
    ASSUME NEW v \in {0, 1}, NEW tag \in Nat, NEW ppn \in Nat
    PROVE  /\ Entry(v, tag, ppn) \in TlbEntry
           /\ Entry(v, tag, ppn).v = v
           /\ Entry(v, tag, ppn).tag = tag
           /\ Entry(v, tag, ppn).ppn = ppn
BY DEF Entry, TlbEntry

LEMMA FlushedType ==
    ASSUME NEW n \in Nat, NEW tlb \in [0 .. n - 1 -> TlbEntry], NEW bits \in Nat
    PROVE  /\ Flushed(tlb, bits) \in [0 .. n - 1 -> TlbEntry]
           /\ \A i \in 0 .. n - 1 : \/ Flushed(tlb, bits)[i] = tlb[i]
                                    \/ Flushed(tlb, bits)[i] = NoEntry
BY EntryType DEF Flushed, NoEntry

LEMMA InsertL1Is ==
    ASSUME NEW tlb \in [0 .. L1Lines - 1 -> TlbEntry], NEW p \in Nat, NEW ppn \in Nat
    PROVE  /\ InsertL1(tlb, p, ppn) \in [0 .. L1Lines - 1 -> TlbEntry]
           /\ InsertL1(tlb, p, ppn)[L1Index(p)] = Entry(1, p \div L1Lines, ppn)
           /\ \A i \in 0 .. L1Lines - 1 :
                 i # L1Index(p) => InsertL1(tlb, p, ppn)[i] = tlb[i]
BY IndexType, EntryType DEF InsertL1

LEMMA InvalidatedIs ==
    ASSUME NEW tlb \in [0 .. L1Lines - 1 -> TlbEntry], NEW p \in Nat
    PROVE  /\ Invalidated(tlb, p) \in [0 .. L1Lines - 1 -> TlbEntry]
           /\ \A i \in 0 .. L1Lines - 1 :
                 Invalidated(tlb, p)[i].v = 1 =>
                    /\ Invalidated(tlb, p)[i] = tlb[i]
                    /\ i = L1Index(p) => ~Replaces(tlb, p)
<1>1. L1Index(p) \in 0 .. L1Lines - 1
  BY IndexType
<1>2. CASE Line(tlb, p).v = 1 /\ Replaces(tlb, p)
  <2> DEFINE new == [tlb EXCEPT ![L1Index(p)].v = 0]
  <2>1. Invalidated(tlb, p) = new
    BY <1>2 DEF Invalidated
  <2>2. [tlb[L1Index(p)] EXCEPT !.v = 0] \in TlbEntry
        /\ [tlb[L1Index(p)] EXCEPT !.v = 0].v = 0
    BY <1>1 DEF TlbEntry
  <2>3. new = [tlb EXCEPT ![L1Index(p)] = [tlb[L1Index(p)] EXCEPT !.v = 0]]
    OBVIOUS
  <2> HIDE DEF new
  <2>4. /\ new \in [0 .. L1Lines - 1 -> TlbEntry]
        /\ new[L1Index(p)].v = 0
        /\ \A i \in 0 .. L1Lines - 1 : i # L1Index(p) => new[i] = tlb[i]
    BY <1>1, <2>2, <2>3
  <2> QED
    BY <2>1, <2>4
<1>3. CASE ~(Line(tlb, p).v = 1 /\ Replaces(tlb, p))
  <2>1. Invalidated(tlb, p) = tlb
    BY <1>3 DEF Invalidated
  <2> QED
    BY <1>3, <2>1 DEF Line
<1> QED
  BY <1>2, <1>3

LEMMA InitType == ASSUME Init PROVE TypeOK
<1>1. L1Lines \in Nat /\ L2Lines \in Nat /\ L1LinesBits \in Nat /\ L2LinesBits \in Nat
  BY Geometry, TlbGeometryAssumption
<1>2. StackEntries \subseteq TlbEntry
  BY TlbUseAssumption
<1>3. l1 \in L1Array
  <2>1. PICK i \in [0 .. L1Lines - 1 -> StackEntries],
             d \in [0 .. L1Lines - 1 -> StackEntries] :
           l1 = [ac \in Access |-> Flushed(IF ac = "DATA" THEN d ELSE i, L1LinesBits)]
    BY DEF Init
  <2>2. i \in [0 .. L1Lines - 1 -> TlbEntry] /\ d \in [0 .. L1Lines - 1 -> TlbEntry]
    BY <1>2
  <2>3. /\ Flushed(i, L1LinesBits) \in [0 .. L1Lines - 1 -> TlbEntry]
        /\ Flushed(d, L1LinesBits) \in [0 .. L1Lines - 1 -> TlbEntry]
    BY <1>1, <2>2, FlushedType
  <2> QED
    BY <2>1, <2>3 DEF L1Array
<1>4. l2 \in L2Array
  <2>1. PICK u \in [0 .. L2Lines - 1 -> StackEntries] : l2 = Flushed(u, L2LinesBits)
    BY DEF Init
  <2> QED
    BY <1>1, <1>2, <2>1, FlushedType DEF L2Array
<1> QED
  BY <1>3, <1>4 DEF Init, TypeOK, L1Array, L2Array

LEMMA FlushStepType ==
    ASSUME TypeOK, NEW tlb \in FlushTlbs, Flush(tlb)
    PROVE  /\ TypeOK'
           /\ \A ac \in Access, i \in 0 .. L1Lines - 1 :
                 l1'[ac][i] = l1[ac][i] \/ l1'[ac][i] = NoEntry
           /\ \A i \in 0 .. L2Lines - 1 : l2'[i] = l2[i] \/ l2'[i] = NoEntry
<1>1. L1Lines \in Nat /\ L2Lines \in Nat /\ L1LinesBits \in Nat /\ L2LinesBits \in Nat
  BY Geometry, TlbGeometryAssumption
<1>2. l1 \in L1Array /\ l2 \in L2Array
  BY DEF TypeOK, L1Array, L2Array
<1>3. CASE tlb = "L2"
  <2>1. l2' = Flushed(l2, L2LinesBits) /\ l1' = l1
    BY <1>3 DEF Flush
  <2> QED
    BY <1>1, <1>2, <2>1, FlushedType DEF Flush, TypeOK, L1Array, L2Array
<1>4. CASE tlb # "L2"
  <2>1. /\ tlb \in Access
        /\ l1' = [l1 EXCEPT ![tlb] = Flushed(l1[tlb], L1LinesBits)] /\ l2' = l2
    BY <1>4, TlbUseAssumption DEF Flush
  <2>2. l1[tlb] \in [0 .. L1Lines - 1 -> TlbEntry]
    BY <1>2, <2>1 DEF L1Array
  <2>3. /\ Flushed(l1[tlb], L1LinesBits) \in [0 .. L1Lines - 1 -> TlbEntry]
        /\ \A i \in 0 .. L1Lines - 1 : \/ Flushed(l1[tlb], L1LinesBits)[i] = l1[tlb][i]
                                        \/ Flushed(l1[tlb], L1LinesBits)[i] = NoEntry
    BY <1>1, <2>2, FlushedType
  <2>4. /\ l1' \in L1Array
        /\ l1'[tlb] = Flushed(l1[tlb], L1LinesBits)
        /\ \A ac \in Access : ac # tlb => l1'[ac] = l1[ac]
    BY <1>2, <2>1, <2>3 DEF L1Array
  <2>5. \A ac \in Access, i \in 0 .. L1Lines - 1 :
           l1'[ac][i] = l1[ac][i] \/ l1'[ac][i] = NoEntry
    BY <2>3, <2>4
  <2> QED
    BY <2>1, <2>4, <2>5 DEF Flush, TypeOK, L1Array, L2Array
<1> QED
  BY <1>3, <1>4

(* What the two searches that fill a TLB do to it, line by line.           *)
LEMMA L2HitStep ==
    ASSUME TypeOK, NEW ac \in Access, NEW va \in Pages, SearchL2Hit(ac, va)
    PROVE  LET p == VirtualPageNumber(va)
               ppn == Line(l2, p).ppn
           IN  /\ TypeOK'
               /\ ppn \in Nat
               /\ l1'[ac] = InsertL1(l1[ac], p, ppn)
               /\ \A x \in Access : x # ac => l1'[x] = l1[x]
<1> DEFINE p == VirtualPageNumber(va)
           ppn == Line(l2, p).ppn
<1>1. p \in Nat /\ l1 \in L1Array /\ l2 \in L2Array
  BY UsedVpn DEF TypeOK, L1Array, L2Array
<1>2. ppn \in Nat
  BY <1>1, IndexType DEF Line, L2Array, TlbEntry
<1>3. l1[ac] \in [0 .. L1Lines - 1 -> TlbEntry]
  BY <1>1 DEF L1Array
<1>4. InsertL1(l1[ac], p, ppn) \in [0 .. L1Lines - 1 -> TlbEntry]
  BY <1>1, <1>2, <1>3, InsertL1Is
<1>5. /\ l1' = [l1 EXCEPT ![ac] = InsertL1(l1[ac], p, ppn)]
      /\ answer' = [asked |-> va, err |-> "ERR_NONE", ppn |-> ppn] /\ hit' = 1
      /\ mem' = mem /\ l2' = l2
  BY DEF SearchL2Hit, Answers
<1> HIDE DEF p, ppn
<1>6. l1' \in L1Array /\ l1'[ac] = InsertL1(l1[ac], p, ppn)
      /\ \A x \in Access : x # ac => l1'[x] = l1[x]
  BY <1>1, <1>4, <1>5 DEF L1Array
<1>7. TypeOK'
  BY <1>2, <1>5, <1>6 DEF TypeOK, L1Array
<1> QED
  BY <1>2, <1>6, <1>7 DEF p, ppn

LEMMA MissStep ==
    ASSUME TypeOK, NEW ac \in Access, NEW va \in Pages, SearchMiss(ac, va)
    PROVE  LET p == VirtualPageNumber(va)
               ppn == PageOf(mem, va)
           IN  /\ TypeOK'
               /\ ppn \in Nat
               /\ l1'[ac] = InsertL1(l1[ac], p, ppn)
               /\ \A x \in Access : x # ac => l1'[x] = Invalidated(l1[x], p)
               /\ l2'[L2Index(p)] = Entry(1, p \div L2Lines, ppn)
               /\ \A i \in 0 .. L2Lines - 1 : i # L2Index(p) => l2'[i] = l2[i]
<1> DEFINE p == VirtualPageNumber(va)
           ppn == PageOf(mem, va)
<1>1. p \in Nat /\ l1 \in L1Array /\ l2 \in L2Array
  BY UsedVpn DEF TypeOK, L1Array, L2Array
<1>2. ppn \in Nat
  BY TlbUseAssumption DEF SearchMiss, TypeOK
<1>3. \A x \in Access : l1[x] \in [0 .. L1Lines - 1 -> TlbEntry]
  BY <1>1 DEF L1Array
<1>4. \A x \in Access : /\ InsertL1(l1[x], p, ppn) \in [0 .. L1Lines - 1 -> TlbEntry]
                         /\ Invalidated(l1[x], p) \in [0 .. L1Lines - 1 -> TlbEntry]
  BY <1>1, <1>2, <1>3, InsertL1Is, InvalidatedIs
<1>5. /\ l1' = [x \in Access |-> IF x = ac THEN InsertL1(l1[x], p, ppn)
                                  ELSE Invalidated(l1[x], p)]
      /\ l2' = [l2 EXCEPT ![L2Index(p)] = Entry(1, p \div L2Lines, ppn)]
      /\ answer' = [asked |-> va, err |-> "ERR_NONE", ppn |-> ppn] /\ hit' = 0 /\ mem' = mem
  BY DEF SearchMiss, Answers
<1>6. p \div L2Lines \in Nat /\ L2Index(p) \in 0 .. L2Lines - 1
  BY <1>1, IndexType
<1>7. Entry(1, p \div L2Lines, ppn) \in TlbEntry
  BY <1>2, <1>6, EntryType
<1> HIDE DEF p, ppn
<1>8. /\ l1' \in L1Array /\ l1'[ac] = InsertL1(l1[ac], p, ppn)
      /\ \A x \in Access : x # ac => l1'[x] = Invalidated(l1[x], p)
  BY <1>4, <1>5 DEF L1Array
<1>9. /\ l2' \in L2Array
      /\ l2'[L2Index(p)] = Entry(1, p \div L2Lines, ppn)
      /\ \A i \in 0 .. L2Lines - 1 : i # L2Index(p) => l2'[i] = l2[i]
  BY <1>1, <1>5, <1>6, <1>7 DEF L2Array
<1>10. TypeOK'
  BY <1>2, <1>5, <1>8, <1>9 DEF TypeOK, L1Array, L2Array
<1> QED
  BY <1>2, <1>8, <1>9, <1>10 DEF p, ppn

LEMMA NextType == ASSUME TypeOK, [Next]_vars PROVE TypeOK'
<1>1. ASSUME NEW ac \in Access, NEW va \in Pages, SearchL1Hit(ac, va) PROVE TypeOK'
  <2> DEFINE p == VirtualPageNumber(va)
  <2>1. L1Index(p) \in 0 .. L1Lines - 1
    BY UsedVpn, IndexType
  <2>2. Line(l1[ac], p).ppn \in Nat
    BY <2>1 DEF TypeOK, Line, TlbEntry
  <2> QED
    BY <1>1, <2>2 DEF SearchL1Hit, Answers, TypeOK
<1>2. ASSUME NEW ac \in Access, NEW va \in Pages, SearchFault(ac, va) PROVE TypeOK'
  BY <1>2 DEF SearchFault, TypeOK
<1>3. CASE UNCHANGED vars
  BY <1>3 DEF vars, TypeOK
<1> QED
  BY <1>1, <1>2, <1>3, L2HitStep, MissStep, FlushStepType DEF Next, Search

(* Every entry, answer and flag keeps its type, whatever was on the stack. *)
THEOREM TlbTypeOK == Spec => []TypeOK
BY InitType, NextType, PTL DEF Spec
-----------------------------------------------------------------------------
(* What a search leaves in the L1 TLB of its access.                       *)

Filled(ac, va) ==
    Line(l1'[ac], VirtualPageNumber(va))
        = Entry(1, VirtualPageNumber(va) \div L1Lines, answer'.ppn)

LEMMA EntryIs ==
    ASSUME NEW e \in TlbEntry
    PROVE  e = Entry(e.v, e.tag, e.ppn)
BY DEF TlbEntry, Entry

LEMMA SearchLeavesPage ==
    ASSUME TypeOK, NEW ac \in Access, NEW va \in Pages,
           Search(ac, va), answer'.err = "ERR_NONE"
    PROVE  Filled(ac, va)
<1> DEFINE p == VirtualPageNumber(va)
<1>1. p \in Nat /\ L1Index(p) \in 0 .. L1Lines - 1
  BY UsedVpn, IndexType
<1>2. l1[ac] \in [0 .. L1Lines - 1 -> TlbEntry]
  BY DEF TypeOK
<1>3. CASE SearchL1Hit(ac, va)
  <2> DEFINE e == Line(l1[ac], p)
  <2>1. e \in TlbEntry
    BY <1>1, <1>2 DEF Line
  <2>2. e.v = 1 /\ e.tag = p \div L1Lines /\ answer'.ppn = e.ppn /\ l1' = l1
    BY <1>3 DEF SearchL1Hit, InL1, Hits, Answers
  <2>3. Line(l1'[ac], p) = e
    BY <2>2
  <2> HIDE DEF e
  <2>4. e = Entry(1, p \div L1Lines, answer'.ppn)
    BY <2>1, <2>2, EntryIs
  <2> QED
    BY <2>3, <2>4 DEF Filled
<1>4. CASE SearchL2Hit(ac, va)
  <2> DEFINE ppn == Line(l2, p).ppn
  <2>1. ppn \in Nat /\ l1'[ac] = InsertL1(l1[ac], p, ppn)
    BY <1>4, L2HitStep
  <2>2. answer'.ppn = ppn
    BY <1>4 DEF SearchL2Hit, Answers
  <2> HIDE DEF ppn
  <2> QED
    BY <1>1, <1>2, <2>1, <2>2, InsertL1Is DEF Filled, Line
<1>5. CASE SearchMiss(ac, va)
  <2> DEFINE ppn == PageOf(mem, va)
  <2>1. ppn \in Nat /\ l1'[ac] = InsertL1(l1[ac], p, ppn)
    BY <1>5, MissStep
  <2>2. answer'.ppn = ppn
    BY <1>5 DEF SearchMiss, Answers
  <2> HIDE DEF ppn
  <2> QED
    BY <1>1, <1>2, <2>1, <2>2, InsertL1Is DEF Filled, Line
<1>6. CASE SearchFault(ac, va)
  BY <1>6 DEF SearchFault
<1> QED
  BY <1>3, <1>4, <1>5, <1>6 DEF Search

(* A search that succeeds leaves its page in the L1 TLB of its access with *)
(* the translation it answered, whatever the stack held, whatever was      *)
(* flushed and however pages alias.                                        *)
THEOREM SearchesFill == Spec => SearchFills
<1>1. Init => TypeOK
  BY InitType
<1>2. TypeOK /\ [Next]_vars => TypeOK'
  BY NextType
<1>3. TypeOK /\ [Next]_vars =>
         [\A ac \in Access, va \in Pages :
             Search(ac, va) /\ answer'.err = "ERR_NONE" =>
                LET e == Line(l1'[ac], VirtualPageNumber(va))
                IN  e = Entry(1, VirtualPageNumber(va) \div L1Lines, answer'.ppn)]_vars
  BY SearchLeavesPage DEF Filled
<1> QED
  BY <1>1, <1>2, <1>3, PTL DEF Spec, SearchFills
-----------------------------------------------------------------------------
(* Valid entries are walks.                                                *)

(* An entry is for this page of the program, and if no other page is       *)
(* confused with it, it is its translation.                                *)
IsWalkOf(e, va, lines) ==
    /\ e.tag = VirtualPageNumber(va) \div lines
    /\ Alone(va) => Walks(mem, va) /\ e.ppn = PageOf(mem, va)

HoldsWalks ==
    /\ \A ac \in Access, i \in 0 .. L1Lines - 1 :
          l1[ac][i].v = 1 =>
             \E va \in Pages : /\ L1Index(VirtualPageNumber(va)) = i
                               /\ IsWalkOf(l1[ac][i], va, L1Lines)
    /\ \A i \in 0 .. L2Lines - 1 :
          l2[i].v = 1 =>
             \E va \in Pages : /\ L2Index(VirtualPageNumber(va)) = i
                               /\ IsWalkOf(l2[i], va, L2Lines)

WalkInv == TypeOK /\ HoldsWalks

(* A page is named by its L1 index and L1 tag.                             *)
LEMMA L1Names ==
    ASSUME NEW va \in Pages, NEW vb \in Pages,
           L1Index(VirtualPageNumber(va)) = L1Index(VirtualPageNumber(vb)),
           VirtualPageNumber(va) \div L1Lines = VirtualPageNumber(vb) \div L1Lines
    PROVE  va = vb
<1> DEFINE p == VirtualPageNumber(va)
           q == VirtualPageNumber(vb)
<1>1. p \in Nat /\ q \in Nat
  BY UsedVpn
<1>2. p = (p \div L1Lines) * L1Lines + L1Index(p) /\ q = (q \div L1Lines) * L1Lines + L1Index(q)
  BY <1>1, IndexType
<1>3. p = q
  BY <1>2
<1> QED
  BY <1>3, UsedVpn, VpnInjective

LEMMA L1HitIsWalk ==
    ASSUME WalkInv, NEW ac \in Access, NEW va \in Pages, Alone(va),
           InL1(ac, VirtualPageNumber(va))
    PROVE  Walks(mem, va) /\ Line(l1[ac], VirtualPageNumber(va)).ppn = PageOf(mem, va)
<1> DEFINE p == VirtualPageNumber(va)
           e == Line(l1[ac], p)
<1>1. L1Index(p) \in 0 .. L1Lines - 1
  BY UsedVpn, IndexType
<1>2. e.v = 1 /\ e.tag = p \div L1Lines
  BY DEF InL1, Hits
<1>3. PICK vb \in Pages : /\ L1Index(VirtualPageNumber(vb)) = L1Index(p)
                          /\ IsWalkOf(e, vb, L1Lines)
  BY <1>1, <1>2 DEF WalkInv, HoldsWalks, Line
<1>4. va = vb
  BY <1>2, <1>3, L1Names DEF IsWalkOf
<1> QED
  BY <1>3, <1>4 DEF IsWalkOf

(* Of a page with no alias, what the L2 lookup compares names it as well.  *)
LEMMA L2HitIsWalk ==
    ASSUME WalkInv, NEW va \in Pages, Alone(va), InL2(VirtualPageNumber(va))
    PROVE  /\ Walks(mem, va)
           /\ Line(l2, VirtualPageNumber(va)).ppn = PageOf(mem, va)
           /\ L2Index(VirtualPageNumber(va)) = L1Index(VirtualPageNumber(va))
<1> DEFINE p == VirtualPageNumber(va)
           e == Line(l2, p)
<1>1. L1Index(p) \in 0 .. L2Lines - 1 /\ p \in Nat /\ p \in Vpns
  BY UsedVpn, IndexType
<1>2. e.v = 1 /\ e.tag = p \div L2Lines
  BY DEF InL2, Hits
<1>3. PICK vb \in Pages : /\ L2Index(VirtualPageNumber(vb)) = L1Index(p)
                          /\ IsWalkOf(e, vb, L2Lines)
  BY <1>1, <1>2 DEF WalkInv, HoldsWalks, Line
<1> DEFINE q == VirtualPageNumber(vb)
<1>4. q \in Nat /\ q \in Vpns
  BY UsedVpn
<1>5. L1Index(q) = L1Index(p)
  <2>1. L2Index(q) = L1Index(p)
    BY <1>3
  <2>2. L1Index(p) \in Nat
    BY <1>1, Geometry
  <2>3. L2Index(L1Index(p)) = L1Index(p) /\ L1Index(L1Index(p)) = L1Index(p)
    <3>1. \A n \in Nat \ {0} : \A x \in 0 .. n - 1 : x % n = x
      OBVIOUS
    <3>2. L1Index(p) \in 0 .. L1Lines - 1
      BY <1>1, IndexType
    <3> QED
      BY <1>1, <3>1, <3>2, Geometry DEF L1Index, L2Index
  <2>4. L2Index(q) = L2Index(L1Index(p))
    BY <2>1, <2>3
  <2> QED
    BY <1>4, <2>2, <2>3, <2>4, SameL2SameL1
<1>6. p = q
  BY <1>1, <1>2, <1>3, <1>4, <1>5 DEF Alone, Aliases, IsWalkOf, L1Index
<1>7. va = vb
  BY <1>6, UsedVpn, VpnInjective
<1> QED
  BY <1>3, <1>7 DEF IsWalkOf

LEMMA InitNoEntry ==
    ASSUME StackInvalid, Init
    PROVE  /\ \A ac \in Access, i \in 0 .. L1Lines - 1 : l1[ac][i].v = 0
           /\ \A i \in 0 .. L2Lines - 1 : l2[i].v = 0
<1>1. NoEntry.v = 0
  BY DEF NoEntry, Entry
<1> QED
  BY <1>1 DEF Init, Flushed, StackInvalid

(* What each step may put into a line, and where: the frame the invariants *)
(* below are proved from.                                                  *)
LEMMA L2HitLines ==
    ASSUME TypeOK, NEW ac \in Access, NEW va \in Pages, SearchL2Hit(ac, va),
           NEW x \in Access, NEW i \in 0 .. L1Lines - 1
    PROVE  LET p == VirtualPageNumber(va)
           IN  \/ l1'[x][i] = l1[x][i]
               \/ /\ x = ac /\ i = L1Index(p)
                  /\ l1'[x][i] = Entry(1, p \div L1Lines, Line(l2, p).ppn)
<1>1. VirtualPageNumber(va) \in Nat
  BY UsedVpn
<1>2. l1[x] \in [0 .. L1Lines - 1 -> TlbEntry]
  BY DEF TypeOK
<1> QED
  BY <1>1, <1>2, L2HitStep, InsertL1Is

LEMMA MissLines ==
    ASSUME TypeOK, NEW ac \in Access, NEW va \in Pages, SearchMiss(ac, va),
           NEW x \in Access, NEW i \in 0 .. L1Lines - 1, l1'[x][i].v = 1
    PROVE  LET p == VirtualPageNumber(va)
           IN  \/ /\ l1'[x][i] = l1[x][i]
                  /\ i = L1Index(p) => ~Replaces(l1[x], p)
               \/ /\ x = ac /\ i = L1Index(p)
                  /\ l1'[x][i] = Entry(1, p \div L1Lines, PageOf(mem, va))
<1> DEFINE p == VirtualPageNumber(va)
<1>1. p \in Nat
  BY UsedVpn
<1>2. l1[x] \in [0 .. L1Lines - 1 -> TlbEntry] /\ l1[ac] \in [0 .. L1Lines - 1 -> TlbEntry]
  BY DEF TypeOK
<1>3. CASE x = ac
  BY <1>1, <1>2, <1>3, MissStep, InsertL1Is
<1>4. CASE x # ac
  <2>1. l1'[x] = Invalidated(l1[x], p)
    BY <1>4, MissStep
  <2> QED
    BY <1>1, <1>2, <2>1, InvalidatedIs
<1> QED
  BY <1>3, <1>4

LEMMA WalkEntry ==
    ASSUME NEW va \in Pages, NEW lines \in Nat \ {0}, Walks(mem, va),
           NEW ppn \in Nat, ppn = PageOf(mem, va)
    PROVE  IsWalkOf(Entry(1, VirtualPageNumber(va) \div lines, ppn), va, lines)
BY DEF IsWalkOf, Entry

LEMMA NextWalk == ASSUME WalkInv, [Next]_vars PROVE WalkInv'
<1>1. TypeOK'
  BY NextType DEF WalkInv
<1>2. mem' = mem
  BY DEF Next, Search, SearchL1Hit, SearchL2Hit, SearchMiss, SearchFault, Flush, vars
<1>3. \A e, va, lines : IsWalkOf(e, va, lines)' <=> IsWalkOf(e', va, lines)
  BY <1>2 DEF IsWalkOf
<1>4. NoEntry.v = 0
  BY DEF NoEntry, Entry
<1>5. L1Lines \in Nat \ {0} /\ L2Lines \in Nat \ {0}
  BY Geometry
<1>6. ASSUME UNCHANGED <<l1, l2>> PROVE HoldsWalks'
  BY <1>2, <1>6 DEF WalkInv, HoldsWalks, IsWalkOf
<1>7. ASSUME NEW tlb \in FlushTlbs, Flush(tlb) PROVE HoldsWalks'
  <2>1. \A ac \in Access, i \in 0 .. L1Lines - 1 :
           l1'[ac][i] = l1[ac][i] \/ l1'[ac][i] = NoEntry
    BY <1>7, FlushStepType DEF WalkInv
  <2>2. \A i \in 0 .. L2Lines - 1 : l2'[i] = l2[i] \/ l2'[i] = NoEntry
    BY <1>7, FlushStepType DEF WalkInv
  <2> QED
    BY <1>2, <1>4, <2>1, <2>2 DEF WalkInv, HoldsWalks, IsWalkOf
<1>8. ASSUME NEW ac \in Access, NEW va \in Pages, SearchL2Hit(ac, va) PROVE HoldsWalks'
  <2> DEFINE p == VirtualPageNumber(va)
             e == Entry(1, p \div L1Lines, Line(l2, p).ppn)
  <2>1. Alone(va) => Walks(mem, va) /\ Line(l2, p).ppn = PageOf(mem, va)
    BY <1>8, L2HitIsWalk DEF SearchL2Hit
  <2>2. IsWalkOf(e, va, L1Lines)
    BY <2>1 DEF IsWalkOf, Entry
  <2>3. \A x \in Access, i \in 0 .. L1Lines - 1 :
           l1'[x][i] = l1[x][i] \/ (i = L1Index(p) /\ l1'[x][i] = e)
    BY <1>8, L2HitLines DEF WalkInv
  <2>4. l2' = l2
    BY <1>8 DEF SearchL2Hit
  <2> HIDE DEF e
  <2> QED
    BY <1>2, <2>2, <2>3, <2>4 DEF WalkInv, HoldsWalks, IsWalkOf
<1>9. ASSUME NEW ac \in Access, NEW va \in Pages, SearchMiss(ac, va) PROVE HoldsWalks'
  <2> DEFINE p == VirtualPageNumber(va)
             e == Entry(1, p \div L1Lines, PageOf(mem, va))
             f == Entry(1, p \div L2Lines, PageOf(mem, va))
  <2>1. Walks(mem, va) /\ PageOf(mem, va) \in Nat
    BY <1>9, MissStep DEF SearchMiss, WalkInv
  <2>2. IsWalkOf(e, va, L1Lines) /\ IsWalkOf(f, va, L2Lines)
    BY <1>5, <2>1, WalkEntry
  <2>3. \A x \in Access, i \in 0 .. L1Lines - 1 :
           l1'[x][i].v = 1 => l1'[x][i] = l1[x][i] \/ (i = L1Index(p) /\ l1'[x][i] = e)
    BY <1>9, MissLines DEF WalkInv
  <2>4. \A i \in 0 .. L2Lines - 1 : l2'[i] = l2[i] \/ (i = L2Index(p) /\ l2'[i] = f)
    BY <1>9, MissStep DEF WalkInv
  <2> HIDE DEF e, f
  <2>5. \A ac2 \in Access, i \in 0 .. L1Lines - 1 :
          l1'[ac2][i].v = 1 =>
             \E vb \in Pages : /\ L1Index(VirtualPageNumber(vb)) = i
                               /\ IsWalkOf(l1'[ac2][i], vb, L1Lines)
    BY <2>2, <2>3 DEF WalkInv, HoldsWalks
  <2>6. \A i \in 0 .. L2Lines - 1 :
          l2'[i].v = 1 =>
             \E vb \in Pages : /\ L2Index(VirtualPageNumber(vb)) = i
                               /\ IsWalkOf(l2'[i], vb, L2Lines)
    BY <2>2, <2>4 DEF WalkInv, HoldsWalks
  <2> QED
    BY <1>2, <2>5, <2>6 DEF HoldsWalks, IsWalkOf
<1>10. HoldsWalks'
  <2>1. CASE UNCHANGED vars
    BY <1>6, <2>1 DEF vars
  <2>2. ASSUME NEW ac \in Access, NEW va \in Pages,
               SearchL1Hit(ac, va) \/ SearchFault(ac, va)
        PROVE  HoldsWalks'
    BY <1>6, <2>2 DEF SearchL1Hit, SearchFault
  <2> QED
    BY <1>7, <1>8, <1>9, <2>1, <2>2 DEF Next, Search
<1> QED
  BY <1>1, <1>10 DEF WalkInv

LEMMA InitWalk == ASSUME StackInvalid, Init PROVE WalkInv
BY InitType, InitNoEntry DEF WalkInv, HoldsWalks

LEMMA SameWalk ==
    ASSUME NEW va
    PROVE  /\ Walker!Walks(mem, va) <=> Walks(mem, va)
           /\ Walker!PageOf(mem, va) = PageOf(mem, va)
BY DEF Walker!Walks, Walks, Walker!PageOf, PageOf, Walker!Physical, Physical,
       Walker!Pte, Pte, Walker!Pmd, Pmd, Walker!Pud, Pud,
       Walker!ReadPageEntry, ReadPageEntry, Walker!PageAligned, PageAligned

(* Every answer is the answer of a walk.                                   *)
LEMMA StepIsTranslate ==
    ASSUME NoAliases, WalkInv, NEW ac \in Access, NEW va \in Pages, Search(ac, va)
    PROVE  Walker!Translate(va)
<1> DEFINE p == VirtualPageNumber(va)
<1>1. SUFFICES /\ mem' = mem
               /\ answer' = IF Walks(mem, va)
                            THEN [asked |-> va, err |-> "ERR_NONE", ppn |-> PageOf(mem, va)]
                            ELSE [asked |-> va, err |-> "ERR_BAD_PARAMETER",
                                  ppn |-> answer.ppn]
  BY SameWalk DEF Walker!Translate
<1>2. CASE SearchL1Hit(ac, va)
  BY <1>2, L1HitIsWalk DEF SearchL1Hit, Answers, NoAliases
<1>3. CASE SearchL2Hit(ac, va)
  BY <1>3, L2HitIsWalk DEF SearchL2Hit, Answers, NoAliases
<1>4. CASE SearchMiss(ac, va)
  BY <1>4 DEF SearchMiss, Answers
<1>5. CASE SearchFault(ac, va)
  BY <1>5 DEF SearchFault
<1> QED
  BY <1>2, <1>3, <1>4, <1>5 DEF Search

(* Programs whose pages do not alias get from the TLBs exactly what page   *)
(* walks would give them, errors included.                                 *)
THEOREM TlbsAreTransparent ==
    ASSUME StackInvalid, NoAliases
    PROVE  Spec => ImplementsMmu
<1>1. Init => WalkInv /\ Walker!Init
  BY InitWalk DEF Init, NoAsk, Walker!Init
<1>2. WalkInv /\ [Next]_vars => WalkInv'
  BY NextWalk
<1>3. WalkInv /\ [Next]_vars => [Walker!Next]_<<mem, answer>>
  <2>1. ASSUME WalkInv, NEW ac \in Access, NEW va \in Pages, Search(ac, va)
        PROVE  Walker!Next
    BY <2>1, StepIsTranslate DEF Walker!Next
  <2> QED
    BY <2>1 DEF Next, Flush, vars
<1> QED
  BY <1>1, <1>2, <1>3, PTL DEF Spec, ImplementsMmu, Walker!Spec

(* And whatever aliases a program has, a page that is none of them is      *)
(* never answered with the translation of another.                         *)
THEOREM SearchTranslates ==
    ASSUME StackInvalid
    PROVE  Spec => AloneTranslates
<1>1. Init => WalkInv
  BY InitWalk
<1>2. WalkInv /\ [Next]_vars => WalkInv'
  BY NextWalk
<1>3. ASSUME WalkInv, [Next]_vars, NEW ac \in Access, NEW va \in Pages,
             Search(ac, va), Alone(va), answer'.err = "ERR_NONE"
      PROVE  Walks(mem, va) /\ answer'.ppn = PageOf(mem, va)
  <2>1. CASE SearchL1Hit(ac, va)
    BY <1>3, <2>1, L1HitIsWalk DEF SearchL1Hit, Answers
  <2>2. CASE SearchL2Hit(ac, va)
    BY <1>3, <2>2, L2HitIsWalk DEF SearchL2Hit, Answers
  <2>3. CASE SearchMiss(ac, va)
    BY <2>3 DEF SearchMiss, Answers
  <2>4. CASE SearchFault(ac, va)
    BY <1>3, <2>4 DEF SearchFault, WalkInv, TypeOK
  <2> QED
    BY <1>3, <2>1, <2>2, <2>3, <2>4 DEF Search
<1>4. WalkInv /\ [Next]_vars =>
         [\A ac \in Access, va \in Pages :
             Search(ac, va) /\ Alone(va) /\ answer'.err = "ERR_NONE" =>
                Walks(mem, va) /\ answer'.ppn = PageOf(mem, va)]_vars
  BY <1>3
<1> QED
  BY <1>1, <1>2, <1>4, PTL DEF Spec, AloneTranslates
-----------------------------------------------------------------------------
(* Inclusion.                                                              *)

IncludedInv == WalkInv /\ AloneIncluded

(* The other L1 TLB keeps nothing of a page that leaves L2: what           *)
(* invalidation rebuilds of two entries for one page is one number.        *)
LEMMA EvictedIsInvalidated ==
    ASSUME NEW p \in Nat, NEW q \in Nat, NEW tlb, L2Index(p) = L2Index(q),
           Line(tlb, p).tag = q \div L1Lines, l2[L2Index(p)].tag = q \div L2Lines
    PROVE  Replaces(tlb, p)
<1>1. L1Index(p) = L1Index(q)
  BY SameL2SameL1
<1>2. /\ (q \div L1Lines) * L1Lines + L1Index(p) = q
      /\ (q \div L2Lines) * L2Lines + L2Index(p) = q
  BY <1>1, IndexType
<1> QED
  BY <1>2 DEF Replaces, Rebuilt

LEMMA L2HitIncluded ==
    ASSUME IncludedInv, NEW ac \in Access, NEW va \in Pages,
           SearchL2Hit(ac, va)
    PROVE  AloneIncluded'
<1> DEFINE p == VirtualPageNumber(va)
           ppn == Line(l2, p).ppn
<1> SUFFICES ASSUME NEW x \in Access, NEW vb \in Pages, Alone(vb),
                    InL1(x, VirtualPageNumber(vb))'
             PROVE  LET q == VirtualPageNumber(vb)
                    IN  l2'[L2Index(q)] = Entry(1, q \div L2Lines, Line(l1'[x], q).ppn)
  BY DEF AloneIncluded
<1> DEFINE q == VirtualPageNumber(vb)
<1>1. TypeOK /\ WalkInv /\ l2' = l2
  BY DEF IncludedInv, WalkInv, SearchL2Hit
<1>2. p \in Nat /\ q \in Nat /\ L1Index(q) \in 0 .. L1Lines - 1
      /\ p \div L1Lines \in Nat
  BY UsedVpn, IndexType
<1>3. Line(l1'[x], q).v = 1 /\ Line(l1'[x], q).tag = q \div L1Lines
  BY DEF InL1, Hits, Line
<1>4. CASE l1'[x][L1Index(q)] = l1[x][L1Index(q)]
  <2>1. InL1(x, q) /\ Line(l1[x], q) = Line(l1'[x], q)
    BY <1>3, <1>4 DEF InL1, Hits, Line
  <2> QED
    BY <1>1, <2>1 DEF IncludedInv, AloneIncluded
<1>5. CASE x = ac /\ L1Index(q) = L1Index(p) /\ l1'[x][L1Index(q)] = Entry(1, p \div L1Lines, ppn)
  <2>1. q \div L1Lines = p \div L1Lines /\ Line(l1'[x], q).ppn = ppn
    BY <1>3, <1>5 DEF Line, Entry
  <2>2. va = vb
    BY <1>5, <2>1, L1Names
  <2>3. L2Index(p) = L1Index(p)
    BY <1>1, <2>2, L2HitIsWalk DEF SearchL2Hit
  <2>4. l2[L2Index(p)] = Entry(1, p \div L2Lines, ppn)
    <3>1. Line(l2, p).v = 1 /\ Line(l2, p).tag = p \div L2Lines /\ Line(l2, p) = l2[L2Index(p)]
      BY <2>3 DEF SearchL2Hit, InL2, Hits, Line
    <3>2. l2[L2Index(p)] \in TlbEntry
      BY <1>1, <1>2, IndexType DEF TypeOK
    <3> QED
      BY <3>1, <3>2 DEF TlbEntry, Entry
  <2> QED
    BY <1>1, <2>1, <2>2, <2>4
<1> QED
  BY <1>1, <1>2, <1>4, <1>5, L2HitLines

LEMMA MissIncluded ==
    ASSUME IncludedInv, NEW ac \in Access, NEW va \in Pages, SearchMiss(ac, va)
    PROVE  AloneIncluded'
<1> DEFINE p == VirtualPageNumber(va)
           ppn == PageOf(mem, va)
<1> SUFFICES ASSUME NEW x \in Access, NEW vb \in Pages, Alone(vb),
                    InL1(x, VirtualPageNumber(vb))'
             PROVE  LET q == VirtualPageNumber(vb)
                    IN  l2'[L2Index(q)] = Entry(1, q \div L2Lines, Line(l1'[x], q).ppn)
  BY DEF AloneIncluded
<1> DEFINE q == VirtualPageNumber(vb)
<1>1. TypeOK /\ WalkInv
  BY DEF IncludedInv, WalkInv
<1>2. /\ p \in Nat /\ q \in Nat /\ L1Index(q) \in 0 .. L1Lines - 1
      /\ L2Index(q) \in 0 .. L2Lines - 1 /\ p \div L1Lines \in Nat
  BY UsedVpn, IndexType
<1>3. l1'[x][L1Index(q)].v = 1 /\ l1'[x][L1Index(q)].tag = q \div L1Lines
  BY DEF InL1, Hits, Line
<1>4. CASE /\ l1'[x][L1Index(q)] = l1[x][L1Index(q)]
           /\ L1Index(q) = L1Index(p) => ~Replaces(l1[x], p)
  <2>1. InL1(x, q) /\ Line(l1[x], q) = Line(l1'[x], q)
    BY <1>3, <1>4 DEF InL1, Hits, Line
  <2>2. l2[L2Index(q)] = Entry(1, q \div L2Lines, Line(l1'[x], q).ppn)
    BY <2>1 DEF IncludedInv, AloneIncluded
  <2>3. L2Index(q) # L2Index(p)
    <3> SUFFICES ASSUME L2Index(q) = L2Index(p) PROVE FALSE
      OBVIOUS
    <3>1. L1Index(q) = L1Index(p)
      BY <1>2, SameL2SameL1
    <3>2. Line(l1[x], p).tag = q \div L1Lines
      BY <1>3, <1>4, <3>1 DEF Line
    <3>3. l2[L2Index(p)].tag = q \div L2Lines
      BY <2>2 DEF Entry
    <3> QED
      BY <1>2, <1>4, <3>1, <3>2, <3>3, EvictedIsInvalidated
  <2>4. l2'[L2Index(q)] = l2[L2Index(q)]
    BY <1>1, <1>2, <2>3, MissStep
  <2> QED
    BY <2>2, <2>4
<1>5. CASE x = ac /\ L1Index(q) = L1Index(p) /\ l1'[x][L1Index(q)] = Entry(1, p \div L1Lines, ppn)
  <2>1. q \div L1Lines = p \div L1Lines /\ Line(l1'[x], q).ppn = ppn
    BY <1>3, <1>5 DEF Line, Entry
  <2>2. va = vb
    BY <1>5, <2>1, L1Names
  <2>3. l2'[L2Index(p)] = Entry(1, p \div L2Lines, ppn)
    BY <1>1, MissStep
  <2> QED
    BY <2>1, <2>2, <2>3
<1> QED
  BY <1>1, <1>2, <1>3, <1>4, <1>5, MissLines

LEMMA FlushIncluded ==
    ASSUME L2Kept, IncludedInv, NEW tlb \in FlushTlbs, Flush(tlb)
    PROVE  AloneIncluded'
<1>1. l2' = l2
  BY DEF L2Kept, Flush
<1>2. \A ac \in Access, i \in 0 .. L1Lines - 1 :
         l1'[ac][i] = l1[ac][i] \/ l1'[ac][i] = NoEntry
  BY FlushStepType DEF IncludedInv, WalkInv
<1>3. NoEntry.v = 0
  BY DEF NoEntry, Entry
<1>4. ASSUME NEW ac \in Access, NEW va \in Pages, InL1(ac, VirtualPageNumber(va))'
      PROVE  /\ InL1(ac, VirtualPageNumber(va))
             /\ Line(l1'[ac], VirtualPageNumber(va)) = Line(l1[ac], VirtualPageNumber(va))
  <2>1. L1Index(VirtualPageNumber(va)) \in 0 .. L1Lines - 1
    BY UsedVpn, IndexType
  <2> QED
    BY <1>2, <1>3, <1>4, <2>1 DEF InL1, Hits, Line
<1> QED
  BY <1>1, <1>4 DEF IncludedInv, AloneIncluded

(* A page with no alias that is cached in an L1 TLB is cached in the L2    *)
(* TLB, its translation the same: what `invalidation' is there for.  That  *)
(* holds whatever aliases the other pages of the program have.             *)
THEOREM L1InsideL2 ==
    ASSUME StackInvalid, L2Kept
    PROVE  Spec => []AloneIncluded
<1>1. Init => IncludedInv
  <2>1. ASSUME Init PROVE AloneIncluded
    <3>1. \A va \in Pages : L1Index(VirtualPageNumber(va)) \in 0 .. L1Lines - 1
      BY UsedVpn, IndexType
    <3> QED
      BY <2>1, <3>1, InitNoEntry DEF AloneIncluded, InL1, Hits, Line
  <2> QED
    BY <2>1, InitWalk DEF IncludedInv
<1>2. IncludedInv /\ [Next]_vars => IncludedInv'
  <2> SUFFICES ASSUME IncludedInv, [Next]_vars PROVE AloneIncluded'
    BY NextWalk DEF IncludedInv
  <2>1. CASE UNCHANGED <<l1, l2>>
    BY <2>1 DEF IncludedInv, AloneIncluded, InL1, Hits, Line
  <2>2. ASSUME NEW ac \in Access, NEW va \in Pages,
               SearchL1Hit(ac, va) \/ SearchFault(ac, va)
        PROVE  AloneIncluded'
    BY <2>1, <2>2 DEF SearchL1Hit, SearchFault
  <2>3. CASE UNCHANGED vars
    BY <2>1, <2>3 DEF vars
  <2> QED
    BY <2>2, <2>3, L2HitIncluded, MissIncluded, FlushIncluded DEF Next, Search
<1> QED
  BY <1>1, <1>2, PTL DEF Spec, IncludedInv

(* If no two pages are aliases, that is every page cached in an L1 TLB.    *)
THEOREM L2Includes ==
    ASSUME StackInvalid, L2Kept, NoAliases
    PROVE  Spec => []Inclusion
<1>1. ASSUME WalkInv, AloneIncluded, NEW ac \in Access, NEW i \in 0 .. L1Lines - 1,
             l1[ac][i].v = 1
      PROVE  LET e == l1[ac][i]
                 p == e.tag * L1Lines + i
             IN  l2[L2Index(p)] = Entry(1, p \div L2Lines, e.ppn)
  <2> DEFINE e == l1[ac][i]
  <2>1. PICK va \in Pages : /\ L1Index(VirtualPageNumber(va)) = i
                            /\ IsWalkOf(e, va, L1Lines)
    BY <1>1 DEF WalkInv, HoldsWalks
  <2> DEFINE p == VirtualPageNumber(va)
  <2>2. p = e.tag * L1Lines + i
    BY <2>1, UsedVpn, IndexType DEF IsWalkOf
  <2>3. InL1(ac, p) /\ Line(l1[ac], p) = e
    BY <1>1, <2>1 DEF InL1, Hits, Line, IsWalkOf
  <2> QED
    BY <1>1, <2>2, <2>3 DEF AloneIncluded, NoAliases
<1>2. WalkInv /\ AloneIncluded => Inclusion
  BY <1>1 DEF Inclusion
<1>3. Init => WalkInv
  BY InitWalk
<1>4. WalkInv /\ [Next]_vars => WalkInv'
  BY NextWalk
<1> QED
  BY <1>2, <1>3, <1>4, L1InsideL2, PTL DEF Spec
=============================================================================
