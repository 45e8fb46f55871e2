------------------------------ MODULE MCPaging ------------------------------
(***************************************************************************)
(* A page table for the instances of both TLBs: a bit per level, so that   *)
(* page numbers have 4 bits.                                               *)
(***************************************************************************)
EXTENDS Integers

(* A full tree of tables, table t in page t - 1; entry i of a table names  *)
(* table 2t + i, or for the last level the page 32 + t * 2 + i.  The entry *)
(* of page 9 is not the address of a page.                                 *)
MCTables ==
    {[k \in 0 .. 29 |->
        LET child == 2 * (k \div 2 + 1) + (k % 2)
        IN  IF k \div 2 < 7 THEN 2 * (child - 1)
            ELSE IF child = 16 + 9 THEN 7 ELSE 2 * (child + 32)]}

Page(p) == [pgd |-> p \div 8, pud |-> (p \div 4) % 2, pmd |-> (p \div 2) % 2, pte |-> p % 2]
=============================================================================
