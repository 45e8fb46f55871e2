------------------------------ MODULE PageWalk ------------------------------
(***************************************************************************)
(* page_walk.c: the translation of a virtual page to a physical page by    *)
(* four levels of tables in the memory of the simulated machine, and the   *)
(* virtual page number of addr_mng.c.  The memory is seen as the code sees *)
(* it here, as an array of page table entries.  The offset within the page *)
(* is copied by every caller and is left out.                              *)
(***************************************************************************)
EXTENDS Integers

CONSTANTS
    PdEntries,      \* PD_ENTRIES: 2^9, the values of a 9-bit index
    PageSize,       \* PAGE_SIZE: 4096
    PteBytes        \* sizeof(pte_t): 4

ASSUME PagingAssumption == {PdEntries, PageSize, PteBytes} \subseteq Nat \ {0}

Level == 0 .. PdEntries - 1
VirtAddr == [pgd : Level, pud : Level, pmd : Level, pte : Level]

(* virt_addr_t_to_virtual_page_number                                      *)
VirtualPageNumber(va) ==
    ((va.pgd * PdEntries + va.pud) * PdEntries + va.pmd) * PdEntries + va.pte

ReadPageEntry(m, start, index) == m[start \div PteBytes + index]
PageAligned(address) == address % PageSize = 0

Pud(m, va) == ReadPageEntry(m, 0, va.pgd)
Pmd(m, va) == ReadPageEntry(m, Pud(m, va), va.pud)
Pte(m, va) == ReadPageEntry(m, Pmd(m, va), va.pmd)
Physical(m, va) == ReadPageEntry(m, Pte(m, va), va.pte)

(* page_walk returns ERR_NONE, and the physical page it then delivers.     *)
Walks(m, va) ==
    /\ PageAligned(Pud(m, va))
    /\ PageAligned(Pmd(m, va))
    /\ PageAligned(Pte(m, va))
    /\ PageAligned(Physical(m, va))

PageOf(m, va) == Physical(m, va) \div PageSize
=============================================================================
