-------------------------------- MODULE Lru --------------------------------
(***************************************************************************)
(* What "Eviction policy is least recently used (LRU)" promises: the pages *)
(* cached are the last ones used, as many as there are lines, and a search *)
(* hits when the page is one of them.                                      *)
(***************************************************************************)
EXTENDS Integers, SequencesExt

CONSTANTS Page, Lines

VARIABLES
    recent,     \* the pages cached, the least recently used first
    hit

Cached == {recent[i] : i \in DOMAIN recent}

Hit(p) ==
    /\ \E i \in DOMAIN recent :
          recent[i] = p /\ recent' = Append(RemoveAt(recent, i), p)
    /\ hit' = 1

Miss(p) ==
    /\ p \notin Cached
    /\ recent' = Append(IF Len(recent) = Lines THEN Tail(recent) ELSE recent, p)
    /\ hit' = 0

(* The page has no translation.                                            *)
Fail(p) == p \notin Cached /\ hit' = 0 /\ UNCHANGED recent

Forget == recent' = << >> /\ UNCHANGED hit

Init == recent = << >> /\ hit = 0

Next == Forget \/ \E p \in Page : Hit(p) \/ Miss(p) \/ Fail(p)

Spec == Init /\ [][Next]_<<recent, hit>>
=============================================================================
