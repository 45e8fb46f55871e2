----------------------------- MODULE Addresses -----------------------------
(***************************************************************************)
(* addr_mng.c: a virtual address as a number of 64 bits and as its fields. *)
(***************************************************************************)
EXTENDS PageWalk

OffsetVirtAddr ==
    [pgd : Level, pud : Level, pmd : Level, pte : Level, offset : 0 .. PageSize - 1]

(* The bits above the pgd index are dropped without an error.              *)
InitVirtAddr64(n) ==
    [offset |-> n % PageSize,
     pte |-> (n \div PageSize) % PdEntries,
     pmd |-> (n \div (PageSize * PdEntries)) % PdEntries,
     pud |-> (n \div (PageSize * PdEntries * PdEntries)) % PdEntries,
     pgd |-> (n \div (PageSize * PdEntries * PdEntries * PdEntries)) % PdEntries]

(* virt_addr_t_to_uint64_t                                                 *)
Uint64(va) == VirtualPageNumber(va) * PageSize + va.offset

(* Mutant: the last index is taken for the offset.                         *)
IndexAsOffset(m, va) == PageOf(m, va) * PageSize + va.pte

(* The address page_walk delivers through init_phy_addr: (phy_page_num <<  *)
(* PAGE_OFFSET) | page_offset.                                             *)
PhysicalAddress(m, va) == PageOf(m, va) * PageSize + va.offset
=============================================================================
