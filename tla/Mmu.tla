-------------------------------- MODULE Mmu --------------------------------
(***************************************************************************)
(* What tlb_search promises: the answer of a page walk.  Whether there are *)
(* TLBs, and what they hold, cannot be told from the answers.              *)
(***************************************************************************)
EXTENDS PageWalk

CONSTANTS Pages     \* the virtual addresses translated

VARIABLES mem, answer

(* A walk that fails leaves the physical address the caller had.           *)
Translate(va) ==
    /\ answer' = IF Walks(mem, va)
                 THEN [asked |-> va, err |-> "ERR_NONE", ppn |-> PageOf(mem, va)]
                 ELSE [asked |-> va, err |-> "ERR_BAD_PARAMETER", ppn |-> answer.ppn]
    /\ UNCHANGED mem

Init == answer = [asked |-> << >>, err |-> "ERR_NONE", ppn |-> 0]

Next == \E va \in Pages : Translate(va)

Spec == Init /\ [][Next]_<<mem, answer>>
=============================================================================
