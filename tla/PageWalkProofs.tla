--------------------------- MODULE PageWalkProofs ---------------------------
(***************************************************************************)
(* Virtual page numbers: each is a number, and names one virtual page.     *)
(***************************************************************************)
EXTENDS PageWalk, TLAPS

LEMMA QuotientUnique ==
    ASSUME NEW n \in Nat \ {0}, NEW t \in Nat, NEW x \in 0 .. n - 1
    PROVE  (t * n + x) \div n = t /\ (t * n + x) % n = x
OBVIOUS

LEMMA DigitsUnique ==
    ASSUME NEW n \in Nat \ {0}, NEW t \in Nat, NEW u \in Nat,
           NEW x \in 0 .. n - 1, NEW y \in 0 .. n - 1, t * n + x = u * n + y
    PROVE  t = u /\ x = y
<1>1. (t * n + x) \div n = t /\ (t * n + x) % n = x
  BY QuotientUnique
<1>2. (u * n + y) \div n = u /\ (u * n + y) % n = y
  BY QuotientUnique
<1> QED
  BY <1>1, <1>2

LEMMA VpnType == ASSUME NEW va \in VirtAddr PROVE VirtualPageNumber(va) \in Nat
<1>1. PdEntries \in Nat /\ {va.pgd, va.pud, va.pmd, va.pte} \subseteq Nat
  BY PagingAssumption DEF VirtAddr, Level
<1> QED
  BY <1>1 DEF VirtualPageNumber

(* A page number names one page.                                           *)
LEMMA VpnInjective ==
    ASSUME NEW va \in VirtAddr, NEW vb \in VirtAddr,
           VirtualPageNumber(va) = VirtualPageNumber(vb)
    PROVE  va = vb
<1> DEFINE P == PdEntries
           a3 == va.pgd * P + va.pud
           b3 == vb.pgd * P + vb.pud
           a2 == a3 * P + va.pmd
           b2 == b3 * P + vb.pmd
<1>1. /\ P \in Nat \ {0}
      /\ va.pgd \in Nat /\ vb.pgd \in Nat
      /\ va.pud \in 0 .. P - 1 /\ vb.pud \in 0 .. P - 1
      /\ va.pmd \in 0 .. P - 1 /\ vb.pmd \in 0 .. P - 1
      /\ va.pte \in 0 .. P - 1 /\ vb.pte \in 0 .. P - 1
  BY PagingAssumption DEF VirtAddr, Level
<1>2. a3 \in Nat /\ b3 \in Nat
  BY <1>1
<1>3. a2 \in Nat /\ b2 \in Nat
  <2> HIDE DEF a3, b3
  <2> QED
    BY <1>1, <1>2
<1>4. a2 * P + va.pte = b2 * P + vb.pte
  BY DEF VirtualPageNumber
<1> HIDE DEF P, a2, b2
<1>5. a2 = b2 /\ va.pte = vb.pte
  BY <1>1, <1>3, <1>4, DigitsUnique
<1>6. a3 * P + va.pmd = b3 * P + vb.pmd
  BY <1>5 DEF a2, b2
<1> HIDE DEF a3, b3
<1>7. a3 = b3 /\ va.pmd = vb.pmd
  BY <1>1, <1>2, <1>6, DigitsUnique
<1>8. va.pgd * P + va.pud = vb.pgd * P + vb.pud
  BY <1>7 DEF a3, b3
<1>9. va.pgd = vb.pgd /\ va.pud = vb.pud
  BY <1>1, <1>8, DigitsUnique
<1> QED
  BY <1>5, <1>7, <1>9 DEF VirtAddr
=============================================================================
