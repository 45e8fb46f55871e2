----------------------------- MODULE LinkedList -----------------------------
(***************************************************************************)
(* list.c: the doubly linked list.  Nodes are cells of a heap from which   *)
(* malloc takes and to which free returns; a freed cell can be handed out  *)
(* again.  One action is one call of list.h.  What push_back returns is    *)
(* left out: its callers ignore it.                                        *)
(***************************************************************************)
EXTENDS Integers, Sequences, FiniteSets

CONSTANTS
    Node,       \* the cells of the heap: as many nodes as memory has room for
    NULL,
    Value       \* list_content_t

ASSUME HeapAssumption == NULL \notin Node

VARIABLES
    front, back,    \* list_t
    heap            \* the allocated nodes: heap[n] is the node_t at address n

vars == <<front, back, heap>>

Pointer == Node \cup {NULL}
NodeType == [value : Value, previous : Pointer, next : Pointer]
Cell(v, p, n) == [value |-> v, previous |-> p, next |-> n]

(* The list a call works on, as a value.                                   *)
This == [front |-> front, back |-> back, heap |-> heap]
Becomes(l) == front' = l.front /\ back' = l.back /\ heap' = l.heap
List(f, b, h) == [front |-> f, back |-> b, heap |-> h]
-----------------------------------------------------------------------------
(* malloc and free.  malloc only fails when nothing is free.               *)
Malloc(h) == IF Node \subseteq DOMAIN h THEN {NULL} ELSE Node \ DOMAIN h
Allocated(h, n, cell) ==
    [m \in DOMAIN h \cup {n} |-> IF m = n THEN cell ELSE h[m]]
(* Mutant: free is forgotten.                                              *)
NotFreed(h, n) == h

Freed(h, n) == [m \in DOMAIN h \ {n} |-> h[m]]

(* is_empty_list does not answer 0.                                        *)
IsEmpty(l) == l.front = NULL \/ l.back = NULL

LinkedBack(l, n, v) ==
    IF IsEmpty(l)
    THEN List(n, n, Allocated(l.heap, n, Cell(v, NULL, NULL)))
    ELSE List(l.front, n,
              Allocated([l.heap EXCEPT ![l.back].next = n], n, Cell(v, l.back, NULL)))

LinkedFront(l, n, v) ==
    IF IsEmpty(l)
    THEN List(n, n, Allocated(l.heap, n, Cell(v, NULL, NULL)))
    ELSE List(n, l.back,
              Allocated([l.heap EXCEPT ![l.front].previous = n], n, Cell(v, NULL, l.front)))

(* Mutant: what malloc answers is not checked.                             *)
PushedUnchecked(l, v) == {LinkedBack(l, n, v) : n \in Malloc(l.heap)}

(* push_back and push_front: without a node they leave the list alone.     *)
PushedBack(l, v) ==
    {IF n = NULL THEN l ELSE LinkedBack(l, n, v) : n \in Malloc(l.heap)}
PushedFront(l, v) ==
    {IF n = NULL THEN l ELSE LinkedFront(l, n, v) : n \in Malloc(l.heap)}

PoppedFront(l) ==
    IF IsEmpty(l) THEN l
    ELSE IF l.front = l.back THEN List(NULL, NULL, Freed(l.heap, l.front))
    ELSE LET newFront == l.heap[l.front].next
         IN  List(newFront, l.back,
                  Freed([l.heap EXCEPT ![newFront].previous = NULL], l.front))

PoppedBack(l) ==
    IF IsEmpty(l) THEN l
    ELSE IF l.front = l.back THEN List(NULL, NULL, Freed(l.heap, l.front))
    ELSE LET newBack == l.heap[l.back].previous
         IN  List(l.front, newBack,
                  Freed([l.heap EXCEPT ![newBack].next = NULL], l.back))

(* Mutant: the node after the one taken out keeps pointing to it.          *)
RelinkedOneWay(l, n) ==
    List(l.front, n,
         [l.heap EXCEPT ![l.heap[n].previous].next = l.heap[n].next,
                        ![n].next = NULL,
                        ![n].previous = l.back,
                        ![l.back].next = n])

(* A node in the middle is taken out and linked behind the back.           *)
Relinked(l, n) ==
    List(l.front, n,
         [l.heap EXCEPT ![l.heap[n].previous].next = l.heap[n].next,
                        ![l.heap[n].next].previous = l.heap[n].previous,
                        ![n].next = NULL,
                        ![n].previous = l.back,
                        ![l.back].next = n])

(* Mutant: the front is freed before its value is copied.                  *)
FrontFreedFirst(l) == UNION {PushedBack(PoppedFront(l), v) : v \in Value}

(* The front node is not moved but copied to a new node and freed.  When   *)
(* malloc fails, only the second half of that is done.                     *)
FrontMoved(l) ==
    {PoppedFront(pushed) : pushed \in PushedBack(l, l.heap[l.front].value)}

(* move_back                                                               *)
MovedBack(l, n) ==
    IF IsEmpty(l) \/ l.front = l.back THEN {l}
    ELSE IF n = l.front THEN FrontMoved(l)
    ELSE IF l.heap[n].next = NULL THEN {l}
    ELSE {Relinked(l, n)}

(* The nodes met on the way from the front along the next pointers: those  *)
(* in every set of nodes that has the front and whatever follows a member. *)
Closed(l, S) ==
    /\ l.front \in S \cup {NULL}
    /\ \A n \in S : l.heap[n].next \in S \cup {NULL}
Reached(l) ==
    {n \in DOMAIN l.heap : \A S \in SUBSET DOMAIN l.heap : Closed(l, S) => n \in S}

(* clear_list walks and frees.                                             *)
Cleared(l) ==
    List(NULL, NULL, [m \in DOMAIN l.heap \ Reached(l) |-> l.heap[m]])
-----------------------------------------------------------------------------
Init ==     \* init_list
    /\ front = NULL
    /\ back = NULL
    /\ heap \in [{} -> NodeType]

PushBack(v) == \E l \in PushedBack(This, v) : Becomes(l)
PushFront(v) == \E l \in PushedFront(This, v) : Becomes(l)
PopFront == Becomes(PoppedFront(This))
PopBack == Becomes(PoppedBack(This))
MoveBack(n) == \E l \in MovedBack(This, n) : Becomes(l)
Clear == Becomes(Cleared(This))

Next ==
    \/ \E v \in Value : PushBack(v) \/ PushFront(v)
    \/ PopFront
    \/ PopBack
    \/ \E n \in DOMAIN heap : MoveBack(n)
    \/ Clear

Spec == Init /\ [][Next]_vars

TypeOK ==
    /\ front \in Pointer
    /\ back \in Pointer
    /\ DOMAIN heap \subseteq Node
    /\ heap \in [DOMAIN heap -> NodeType]
-----------------------------------------------------------------------------
(* Properties.                                                             *)

(* No pointer dangles, and the two directions mirror each other: what      *)
(* for_all_nodes walks is what for_all_nodes_reverse walks backwards, and  *)
(* every field the code follows without a check is not NULL when it does.  *)
LinkedAt(l) ==
    LET h == l.heap
    IN  /\ {l.front, l.back} \subseteq DOMAIN h \/ (l.front = NULL /\ l.back = NULL)
        /\ \A n \in DOMAIN h :
              /\ h[n].next \in DOMAIN h \cup {NULL}
              /\ h[n].previous \in DOMAIN h \cup {NULL}
              /\ h[n].next = NULL <=> n = l.back
              /\ h[n].previous = NULL <=> n = l.front
              /\ h[n].next # NULL => h[h[n].next].previous = n
              /\ h[n].previous # NULL => h[h[n].previous].next = n
Linked == LinkedAt(This)

(* No call loses an allocated node: the walk from the front meets them all.*)
NoLeak == Reached(This) = DOMAIN heap

(* The linked nodes implement a sequence of values: the nodes met k steps  *)
(* from the front, until NULL.                                             *)
Steps(l) ==
    LET at[k \in 0 .. Cardinality(Node)] ==
            IF k = 0 THEN l.front
            ELSE IF at[k - 1] = NULL THEN NULL ELSE l.heap[at[k - 1]].next
    IN  at
Values(l) ==
    LET at == Steps(l)
    IN  [k \in 1 .. Cardinality({i \in DOMAIN at : at[i] # NULL}) |-> l.heap[at[k - 1]].value]
Sequence == INSTANCE ListSeq WITH items <- Values(This), Capacity <- Cardinality(Node)
ImplementsSequence == Sequence!Spec
=============================================================================
