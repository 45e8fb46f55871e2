------------------------------ MODULE ListSeq ------------------------------
(***************************************************************************)
(* What list.h promises: a sequence of values that grows and shrinks at    *)
(* both ends and in which any element can be moved to the back.  Capacity  *)
(* is how many elements memory has room for.                               *)
(***************************************************************************)
EXTENDS Integers, Sequences

CONSTANTS Value, Capacity

VARIABLE items

HasRoom(s) == Len(s) < Capacity

(* Mutant: the elements behind i are not shifted.                          *)
ToBackOver(s, i) ==
    [j \in 1 .. Len(s) |-> IF j < Len(s) THEN s[j] ELSE s[i]]

(* The order after element i went to the back.                             *)
ToBack(s, i) ==
    [j \in 1 .. Len(s) |->
        IF j < i THEN s[j] ELSE IF j < Len(s) THEN s[j + 1] ELSE s[i]]

(* The front element is moved as a copy, which needs room for one more:    *)
(* without it the element is lost.                                         *)
Moved(s, i) ==
    IF i = 1 /\ Len(s) > 1 /\ ~HasRoom(s) THEN Tail(s) ELSE ToBack(s, i)

PushBack(v) == items' = IF HasRoom(items) THEN Append(items, v) ELSE items
PushFront(v) == items' = IF HasRoom(items) THEN <<v>> \o items ELSE items
PopFront == items' = IF items = << >> THEN << >> ELSE Tail(items)
PopBack == items' = SubSeq(items, 1, Len(items) - 1)
MoveBack(i) == items' = Moved(items, i)
Clear == items' = << >>

Init == items = << >>

Next ==
    \/ \E v \in Value : PushBack(v) \/ PushFront(v)
    \/ PopFront
    \/ PopBack
    \/ \E i \in 1 .. Len(items) : MoveBack(i)
    \/ Clear

Spec == Init /\ [][Next]_items
=============================================================================
