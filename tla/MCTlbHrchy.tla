----------------------------- MODULE MCTlbHrchy -----------------------------
(***************************************************************************)
(* The TLB hierarchy at a geometry TLC can exhaust: L1 TLBs of 2 lines and *)
(* an L2 TLB of 4, page numbers rebuilt in 3 bits.                         *)
(***************************************************************************)
EXTENDS TlbHrchy, MCPaging

(* 0, 4 and 8 share a line of every TLB, 0 and 8 also their low 3 bits; 14 *)
(* is in an L2 line that is never looked up; 9 has no physical page.       *)
DistinctPages == {Page(p) : p \in {0, 3, 4, 8, 9, 14}}
AliasedPages == {Page(p) : p \in {0, 2, 4, 6}}

L1Tlbs == {"INSTRUCTION", "DATA"}
ZeroEntries == {NoEntry}
=============================================================================
