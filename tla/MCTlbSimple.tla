---------------------------- MODULE MCTlbSimple ----------------------------
(***************************************************************************)
(* The fully associative TLB with three lines, and five pages to cache in  *)
(* them; page 9 has no physical page, and page 0 has the tag of an empty   *)
(* entry.                                                                  *)
(***************************************************************************)
EXTENDS TlbSimple, MCPaging

MCPages == {Page(p) : p \in {0, 3, 4, 7, 9, 14}}
=============================================================================
