-------------------------- MODULE LinkedListProofs --------------------------
(***************************************************************************)
(* For a heap of any size, finite or not: no call of list.h leaves a       *)
(* dangling or one-sided link, follows a NULL, or loses a node.            *)
(*                                                                         *)
(* That nothing is lost is an argument about sets of nodes: a set that     *)
(* holds the front and is closed under next in the new list becomes one of *)
(* the old list by adding or removing a node, and so holds all nodes.      *)
(*                                                                         *)
(* That the nodes are a sequence is an argument about walks: a numbering   *)
(* of all nodes from the front to the back.  Each call makes a walk of the *)
(* new list from one of the old, and its values are the values of the old  *)
(* in the order ListSeq says.                                              *)
(***************************************************************************)
EXTENDS LinkedList, FiniteSetTheorems, WellFoundedInduction, SequenceTheorems, TLAPS

(* A set that holds the front and what follows each member is everything.  *)
NoneLost(l) == \A S \in SUBSET DOMAIN l.heap : Closed(l, S) => S = DOMAIN l.heap

HeapType(l) ==
    /\ DOMAIN l.heap \subseteq Node
    /\ l.heap \in [DOMAIN l.heap -> NodeType]

Sound(l) == HeapType(l) /\ LinkedAt(l) /\ NoneLost(l)

(* What soundness says of one node.                                        *)
LEMMA NodeFacts ==
    ASSUME NEW l, Sound(l), NEW n \in DOMAIN l.heap
    PROVE  /\ n \in Node /\ n # NULL
           /\ l.heap[n] \in NodeType
           /\ l.heap[n].next \in DOMAIN l.heap \cup {NULL}
           /\ l.heap[n].previous \in DOMAIN l.heap \cup {NULL}
           /\ l.heap[n].next = NULL <=> n = l.back
           /\ l.heap[n].previous = NULL <=> n = l.front
           /\ l.heap[n].next # NULL => l.heap[l.heap[n].next].previous = n
           /\ l.heap[n].previous # NULL => l.heap[l.heap[n].previous].next = n
BY HeapAssumption DEF Sound, HeapType, LinkedAt

(* The front and the back are both there or both NULL.                     *)
LEMMA EndFacts ==
    ASSUME NEW l, Sound(l)
    PROVE  /\ IsEmpty(l) => l.front = NULL /\ l.back = NULL /\ DOMAIN l.heap = {}
           /\ ~IsEmpty(l) => l.front \in DOMAIN l.heap /\ l.back \in DOMAIN l.heap
<1>1. \/ l.front \in DOMAIN l.heap /\ l.back \in DOMAIN l.heap
      \/ l.front = NULL /\ l.back = NULL
  BY DEF Sound, LinkedAt
<1>2. NULL \notin DOMAIN l.heap
  BY HeapAssumption DEF Sound, HeapType
<1>3. ASSUME l.front = NULL PROVE DOMAIN l.heap = {}
  <2>1. Closed(l, {})
    BY <1>3 DEF Closed
  <2> QED
    BY <2>1 DEF Sound, NoneLost
<1> QED
  BY <1>1, <1>2, <1>3 DEF IsEmpty

(* Writing one pointer of one node of a heap over the nodes D.             *)
LEMMA NextWritten ==
    ASSUME NEW D, NEW h \in [D -> NodeType], NEW m \in D, NEW p \in Pointer
    PROVE  /\ [h EXCEPT ![m].next = p] \in [D -> NodeType]
           /\ [h EXCEPT ![m].next = p][m] = Cell(h[m].value, h[m].previous, p)
           /\ \A x \in D : x # m => [h EXCEPT ![m].next = p][x] = h[x]
<1>1. Cell(h[m].value, h[m].previous, p) \in NodeType
  BY DEF NodeType, Cell
<1>2. [h[m] EXCEPT !.next = p] = Cell(h[m].value, h[m].previous, p)
  BY DEF NodeType, Cell
<1> QED
  BY <1>1, <1>2

LEMMA PreviousWritten ==
    ASSUME NEW D, NEW h \in [D -> NodeType], NEW m \in D, NEW p \in Pointer
    PROVE  /\ [h EXCEPT ![m].previous = p] \in [D -> NodeType]
           /\ [h EXCEPT ![m].previous = p][m] = Cell(h[m].value, p, h[m].next)
           /\ \A x \in D : x # m => [h EXCEPT ![m].previous = p][x] = h[x]
<1>1. Cell(h[m].value, p, h[m].next) \in NodeType
  BY DEF NodeType, Cell
<1>2. [h[m] EXCEPT !.previous = p] = Cell(h[m].value, p, h[m].next)
  BY DEF NodeType, Cell
<1> QED
  BY <1>1, <1>2
-----------------------------------------------------------------------------
(* What a call writes, read off the list k it makes of l: which nodes have *)
(* which cells, when the list is not empty.                                *)

BackLinked(l, n, v, k) ==
    /\ k.front = l.front /\ k.back = n
    /\ k.heap \in [DOMAIN l.heap \cup {n} -> NodeType]
    /\ k.heap[n] = Cell(v, l.back, NULL)
    /\ k.heap[l.back] = Cell(l.heap[l.back].value, l.heap[l.back].previous, n)
    /\ \A m \in DOMAIN l.heap : m # l.back => k.heap[m] = l.heap[m]

FrontLinked(l, n, v, k) ==
    /\ k.front = n /\ k.back = l.back
    /\ k.heap \in [DOMAIN l.heap \cup {n} -> NodeType]
    /\ k.heap[n] = Cell(v, NULL, l.front)
    /\ k.heap[l.front] = Cell(l.heap[l.front].value, n, l.heap[l.front].next)
    /\ \A m \in DOMAIN l.heap : m # l.front => k.heap[m] = l.heap[m]

FrontPopped(l, k) ==
    LET q == l.heap[l.front].next
    IN  /\ k.front = q /\ k.back = l.back
        /\ k.heap \in [DOMAIN l.heap \ {l.front} -> NodeType]
        /\ k.heap[q] = Cell(l.heap[q].value, NULL, l.heap[q].next)
        /\ \A m \in DOMAIN l.heap \ {l.front} : m # q => k.heap[m] = l.heap[m]

BackPopped(l, k) ==
    LET p == l.heap[l.back].previous
    IN  /\ k.front = l.front /\ k.back = p
        /\ k.heap \in [DOMAIN l.heap \ {l.back} -> NodeType]
        /\ k.heap[p] = Cell(l.heap[p].value, l.heap[p].previous, NULL)
        /\ \A m \in DOMAIN l.heap \ {l.back} : m # p => k.heap[m] = l.heap[m]

(* n is between p and q, and q may be the back.                            *)
BackRelinked(l, n, k) ==
    LET h == l.heap
        p == h[n].previous
        q == h[n].next
        b == l.back
        g == k.heap
    IN  /\ k.front = l.front /\ k.back = n
        /\ p \in DOMAIN h /\ h[p].next = n /\ p # n
        /\ q \in DOMAIN h /\ h[q].previous = n /\ q # n
        /\ b # n /\ b # p /\ p # q
        /\ g \in [DOMAIN h -> NodeType]
        /\ g[n] = Cell(h[n].value, b, NULL)
        /\ g[p] = Cell(h[p].value, h[p].previous, q)
        /\ q # b => g[q] = Cell(h[q].value, p, h[q].next)
        /\ q # b => g[b] = Cell(h[b].value, h[b].previous, n)
        /\ q = b => g[b] = Cell(h[b].value, p, n)
        /\ \A m \in DOMAIN h \ {n, p, q, b} : g[m] = h[m]
-----------------------------------------------------------------------------
(* push_back and push_front                                                *)

(* The first node of a list.                                               *)
LEMMA FirstNodeSound ==
    ASSUME NEW l, Sound(l), IsEmpty(l), NEW n \in Node, NEW v \in Value
    PROVE  Sound(List(n, n, Allocated(l.heap, n, Cell(v, NULL, NULL))))
<1> DEFINE g == Allocated(l.heap, n, Cell(v, NULL, NULL))
<1>1. DOMAIN g = {n} /\ g[n] = Cell(v, NULL, NULL) /\ g \in [{n} -> {Cell(v, NULL, NULL)}]
  BY EndFacts DEF Allocated
<1> HIDE DEF g
<1>2. HeapType(List(n, n, g))
  BY <1>1 DEF HeapType, List, NodeType, Pointer, Cell
<1>3. LinkedAt(List(n, n, g))
  BY <1>1, HeapAssumption DEF LinkedAt, List, Cell
<1>4. NoneLost(List(n, n, g))
  BY <1>1, HeapAssumption DEF NoneLost, Closed, List
<1> QED
  BY <1>2, <1>3, <1>4 DEF Sound, g

LEMMA LinkedBackIs ==
    ASSUME NEW l, Sound(l), ~IsEmpty(l),
           NEW n \in Node \ DOMAIN l.heap, NEW v \in Value
    PROVE  BackLinked(l, n, v, LinkedBack(l, n, v))
<1> DEFINE h == l.heap
           D == DOMAIN h
           b == l.back
           g == Allocated([h EXCEPT ![b].next = n], n, Cell(v, b, NULL))
           k == List(l.front, n, g)
<1>1. LinkedBack(l, n, v) = k
  BY DEF LinkedBack
<1>2. /\ b \in D /\ l.front \in D /\ n # NULL /\ n \notin D /\ n \in Node
      /\ D \subseteq Node /\ NULL \notin D /\ h \in [D -> NodeType] /\ n \in Pointer
  BY EndFacts, HeapAssumption DEF Sound, HeapType, Pointer
<1>3. /\ DOMAIN g = D \cup {n}
      /\ g[n] = Cell(v, b, NULL)
      /\ g[b] = Cell(h[b].value, h[b].previous, n)
      /\ \A m \in D : m # b => g[m] = h[m]
  <2> DEFINE e == [h EXCEPT ![b].next = n]
  <2> HIDE DEF h, D, b
  <2>1. /\ DOMAIN e = D
        /\ e[b] = Cell(h[b].value, h[b].previous, n)
        /\ \A m \in D : m # b => e[m] = h[m]
    BY <1>2, NextWritten
  <2> HIDE DEF e
  <2>2. g = Allocated(e, n, Cell(v, b, NULL))
    BY DEF e
  <2> HIDE DEF g
  <2>3. /\ DOMAIN g = DOMAIN e \cup {n}
        /\ g[n] = Cell(v, b, NULL)
        /\ \A m \in DOMAIN e : m # n => g[m] = e[m]
    BY <2>2 DEF Allocated
  <2> QED
    BY <1>2, <2>1, <2>3
<1>4. k.front = l.front /\ k.back = n /\ k.heap = g
  BY DEF List
<1> HIDE DEF g, k
<1>5. g \in [D \cup {n} -> NodeType]
  <2>1. \A m \in D \cup {n} : g[m] \in NodeType
    <3>1. \A m \in D : h[m] \in NodeType
      BY NodeFacts
    <3>2. Cell(v, b, NULL) \in NodeType /\ Cell(h[b].value, h[b].previous, n) \in NodeType
      BY <1>2, <3>1 DEF NodeType, Pointer, Cell
    <3> QED
      BY <1>3, <3>1, <3>2
  <2>2. g = [m \in D \cup {n} |-> g[m]]
    BY <1>3 DEF g, Allocated
  <2> QED
    BY <2>1, <2>2
<1> QED
  BY <1>1, <1>3, <1>4, <1>5 DEF BackLinked

LEMMA LinkedBackSound ==
    ASSUME NEW l, Sound(l), NEW n \in Node \ DOMAIN l.heap, NEW v \in Value
    PROVE  Sound(LinkedBack(l, n, v))
<1>1. CASE IsEmpty(l)
  BY <1>1, FirstNodeSound DEF LinkedBack
<1>2. CASE ~IsEmpty(l)
  <2> DEFINE h == l.heap
             D == DOMAIN h
             b == l.back
             k == LinkedBack(l, n, v)
             g == k.heap
  <2>1. BackLinked(l, n, v, k)
    BY <1>2, LinkedBackIs
  <2>2. /\ b \in D /\ l.front \in D /\ n # NULL /\ n \notin D /\ n \in Node
        /\ D \subseteq Node /\ NULL \notin D /\ h \in [D -> NodeType] /\ n \in Pointer
    BY <1>2, EndFacts, HeapAssumption DEF Sound, HeapType, Pointer
  <2> HIDE DEF k
  <2>3. /\ DOMAIN g = D \cup {n}
        /\ g[n] = Cell(v, b, NULL)
        /\ g[b] = Cell(h[b].value, h[b].previous, n)
        /\ \A m \in D : m # b => g[m] = h[m]
    BY <2>1 DEF BackLinked
  <2>4. k.front = l.front /\ k.back = n /\ k.heap = g
    BY <2>1 DEF BackLinked
  <2> HIDE DEF g
  <2>5. HeapType(k)
    BY <2>1, <2>2 DEF BackLinked, HeapType
  <2>6. LinkedAt(k)
    <3>1. \A m \in D : /\ h[m].next \in D \cup {NULL}
                       /\ h[m].previous \in D \cup {NULL}
                       /\ h[m].next = NULL <=> m = b
                       /\ h[m].previous = NULL <=> m = l.front
                       /\ h[m].next # NULL => h[h[m].next].previous = m
                       /\ h[m].previous # NULL => h[h[m].previous].next = m
      BY NodeFacts
    <3>2. \A m \in D \cup {n} :
              /\ g[m].next \in D \cup {n, NULL}
              /\ g[m].previous \in D \cup {n, NULL}
              /\ g[m].next = NULL <=> m = n
              /\ g[m].previous = NULL <=> m = l.front
              /\ g[m].next # NULL => g[g[m].next].previous = m
              /\ g[m].previous # NULL => g[g[m].previous].next = m
      BY <2>2, <2>3, <3>1 DEF Cell
    <3> QED
      BY <2>2, <2>3, <2>4, <3>2 DEF LinkedAt
  <2>7. NoneLost(k)
    <3>1. SUFFICES ASSUME NEW S \in SUBSET (D \cup {n}), Closed(k, S)
                   PROVE  S = D \cup {n}
      BY <2>3, <2>4 DEF NoneLost
    <3>2. Closed(l, S \ {n})
      <4>1. l.front \in S \ {n}
        BY <2>2, <2>4, <3>1 DEF Closed
      <4>2. \A m \in S \ {n} : h[m].next \in (S \ {n}) \cup {NULL}
        <5>1. SUFFICES ASSUME NEW m \in S \ {n}
                       PROVE  h[m].next \in (S \ {n}) \cup {NULL}
          OBVIOUS
        <5>2. CASE m = b
          BY <2>2, <5>2, NodeFacts
        <5>3. CASE m # b
          <6>1. g[m] = h[m] /\ h[m].next \in D \cup {NULL}
            BY <2>3, <5>3, NodeFacts
          <6> QED
            BY <2>2, <2>4, <3>1, <6>1 DEF Closed
        <5> QED
          BY <5>2, <5>3
      <4> QED
        BY <4>1, <4>2 DEF Closed
    <3>3. S \ {n} = D
      BY <3>2 DEF Sound, NoneLost
    <3>4. g[b].next \in S \cup {NULL}
      BY <2>2, <2>4, <3>1, <3>3 DEF Closed
    <3> QED
      BY <2>2, <2>3, <3>3, <3>4 DEF Cell
  <2> QED
    BY <2>5, <2>6, <2>7 DEF Sound, k
<1> QED
  BY <1>1, <1>2

LEMMA LinkedFrontIs ==
    ASSUME NEW l, Sound(l), ~IsEmpty(l),
           NEW n \in Node \ DOMAIN l.heap, NEW v \in Value
    PROVE  FrontLinked(l, n, v, LinkedFront(l, n, v))
<1> DEFINE h == l.heap
           D == DOMAIN h
           f == l.front
           g == Allocated([h EXCEPT ![f].previous = n], n, Cell(v, NULL, f))
           k == List(n, l.back, g)
<1>1. LinkedFront(l, n, v) = k
  BY DEF LinkedFront
<1>2. /\ f \in D /\ l.back \in D /\ n # NULL /\ n \notin D /\ n \in Node
      /\ D \subseteq Node /\ NULL \notin D /\ h \in [D -> NodeType] /\ n \in Pointer
  BY EndFacts, HeapAssumption DEF Sound, HeapType, Pointer
<1>3. /\ DOMAIN g = D \cup {n}
      /\ g[n] = Cell(v, NULL, f)
      /\ g[f] = Cell(h[f].value, n, h[f].next)
      /\ \A m \in D : m # f => g[m] = h[m]
  <2> DEFINE e == [h EXCEPT ![f].previous = n]
  <2> HIDE DEF h, D, f
  <2>1. /\ DOMAIN e = D
        /\ e[f] = Cell(h[f].value, n, h[f].next)
        /\ \A m \in D : m # f => e[m] = h[m]
    BY <1>2, PreviousWritten
  <2> HIDE DEF e
  <2>2. g = Allocated(e, n, Cell(v, NULL, f))
    BY DEF e
  <2> HIDE DEF g
  <2>3. /\ DOMAIN g = DOMAIN e \cup {n}
        /\ g[n] = Cell(v, NULL, f)
        /\ \A m \in DOMAIN e : m # n => g[m] = e[m]
    BY <2>2 DEF Allocated
  <2> QED
    BY <1>2, <2>1, <2>3
<1>4. k.front = n /\ k.back = l.back /\ k.heap = g
  BY DEF List
<1> HIDE DEF g, k
<1>5. g \in [D \cup {n} -> NodeType]
  <2>1. \A m \in D \cup {n} : g[m] \in NodeType
    <3>1. \A m \in D : h[m] \in NodeType
      BY NodeFacts
    <3>2. Cell(v, NULL, f) \in NodeType /\ Cell(h[f].value, n, h[f].next) \in NodeType
      BY <1>2, <3>1 DEF NodeType, Pointer, Cell
    <3> QED
      BY <1>3, <3>1, <3>2
  <2>2. g = [m \in D \cup {n} |-> g[m]]
    BY <1>3 DEF g, Allocated
  <2> QED
    BY <2>1, <2>2
<1> QED
  BY <1>1, <1>3, <1>4, <1>5 DEF FrontLinked

LEMMA LinkedFrontSound ==
    ASSUME NEW l, Sound(l), NEW n \in Node \ DOMAIN l.heap, NEW v \in Value
    PROVE  Sound(LinkedFront(l, n, v))
<1>1. CASE IsEmpty(l)
  BY <1>1, FirstNodeSound DEF LinkedFront
<1>2. CASE ~IsEmpty(l)
  <2> DEFINE h == l.heap
             D == DOMAIN h
             f == l.front
             k == LinkedFront(l, n, v)
             g == k.heap
  <2>1. FrontLinked(l, n, v, k)
    BY <1>2, LinkedFrontIs
  <2>2. /\ f \in D /\ l.back \in D /\ n # NULL /\ n \notin D /\ n \in Node
        /\ D \subseteq Node /\ NULL \notin D /\ h \in [D -> NodeType] /\ n \in Pointer
    BY <1>2, EndFacts, HeapAssumption DEF Sound, HeapType, Pointer
  <2> HIDE DEF k
  <2>3. /\ DOMAIN g = D \cup {n}
        /\ g[n] = Cell(v, NULL, f)
        /\ g[f] = Cell(h[f].value, n, h[f].next)
        /\ \A m \in D : m # f => g[m] = h[m]
    BY <2>1 DEF FrontLinked
  <2>4. k.front = n /\ k.back = l.back /\ k.heap = g
    BY <2>1 DEF FrontLinked
  <2> HIDE DEF g
  <2>5. HeapType(k)
    BY <2>1, <2>2 DEF FrontLinked, HeapType
  <2>6. LinkedAt(k)
    <3>1. \A m \in D : /\ h[m].next \in D \cup {NULL}
                       /\ h[m].previous \in D \cup {NULL}
                       /\ h[m].next = NULL <=> m = l.back
                       /\ h[m].previous = NULL <=> m = f
                       /\ h[m].next # NULL => h[h[m].next].previous = m
                       /\ h[m].previous # NULL => h[h[m].previous].next = m
      BY NodeFacts
    <3>2. \A m \in D \cup {n} :
              /\ g[m].next \in D \cup {n, NULL}
              /\ g[m].previous \in D \cup {n, NULL}
              /\ g[m].next = NULL <=> m = l.back
              /\ g[m].previous = NULL <=> m = n
              /\ g[m].next # NULL => g[g[m].next].previous = m
              /\ g[m].previous # NULL => g[g[m].previous].next = m
      BY <2>2, <2>3, <3>1 DEF Cell
    <3> QED
      BY <2>2, <2>3, <2>4, <3>2 DEF LinkedAt
  <2>7. NoneLost(k)
    <3>1. SUFFICES ASSUME NEW S \in SUBSET (D \cup {n}), Closed(k, S)
                   PROVE  S = D \cup {n}
      BY <2>3, <2>4 DEF NoneLost
    <3>2. n \in S /\ f \in S
      BY <2>2, <2>3, <2>4, <3>1 DEF Closed, Cell
    <3>3. ASSUME NEW m \in S \ {n} PROVE h[m].next \in (S \ {n}) \cup {NULL}
      <4>1. g[m].next = h[m].next /\ h[m].next \in D \cup {NULL}
        BY <2>3, NodeFacts DEF Cell
      <4> QED
        BY <2>2, <2>4, <3>1, <4>1 DEF Closed
    <3>4. Closed(l, S \ {n})
      BY <2>2, <3>2, <3>3 DEF Closed
    <3>5. S \ {n} = D
      BY <3>4 DEF Sound, NoneLost
    <3> QED
      BY <3>2, <3>5
  <2> QED
    BY <2>5, <2>6, <2>7 DEF Sound, k
<1> QED
  BY <1>1, <1>2

LEMMA PushedSound ==
    ASSUME NEW l, Sound(l), NEW v \in Value
    PROVE  /\ \A k \in PushedBack(l, v) : Sound(k)
           /\ \A k \in PushedFront(l, v) : Sound(k)
<1>1. \A n \in Malloc(l.heap) : n # NULL => n \in Node \ DOMAIN l.heap
  BY DEF Malloc
<1> QED
  BY <1>1, LinkedBackSound, LinkedFrontSound DEF PushedBack, PushedFront
-----------------------------------------------------------------------------
(* pop_front and pop_back                                                  *)

LEMMA EmptySound ==
    ASSUME NEW h, DOMAIN h = {}, h \in [{} -> NodeType]
    PROVE  Sound(List(NULL, NULL, h))
<1> DEFINE k == List(NULL, NULL, h)
<1>1. k.front = NULL /\ k.back = NULL /\ k.heap = h
  BY DEF List
<1> HIDE DEF k
<1>2. HeapType(k) /\ LinkedAt(k) /\ NoneLost(k)
  BY <1>1 DEF HeapType, LinkedAt, NoneLost
<1> QED
  BY <1>2 DEF Sound, k

(* The only node of a list is popped.                                      *)
LEMMA LastNodeSound ==
    ASSUME NEW l, Sound(l), ~IsEmpty(l), l.front = l.back
    PROVE  Sound(List(NULL, NULL, Freed(l.heap, l.front)))
<1>1. l.front \in DOMAIN l.heap /\ l.heap[l.front].next = NULL
  BY EndFacts, NodeFacts
<1>2. Closed(l, {l.front})
  BY <1>1 DEF Closed
<1>3. DOMAIN l.heap = {l.front}
  BY <1>1, <1>2 DEF Sound, NoneLost
<1>4. DOMAIN Freed(l.heap, l.front) = {} /\ Freed(l.heap, l.front) \in [{} -> NodeType]
  BY <1>3 DEF Freed
<1> QED
  BY <1>4, EmptySound

LEMMA PoppedFrontIs ==
    ASSUME NEW l, Sound(l), ~IsEmpty(l), l.front # l.back
    PROVE  FrontPopped(l, PoppedFront(l))
<1> DEFINE h == l.heap
           D == DOMAIN h
           f == l.front
           q == h[f].next
           g == Freed([h EXCEPT ![q].previous = NULL], f)
           k == List(q, l.back, g)
<1>1. PoppedFront(l) = k
  BY DEF PoppedFront
<1>2. /\ f \in D /\ l.back \in D /\ D \subseteq Node /\ NULL \notin D
      /\ h[f].previous = NULL /\ h \in [D -> NodeType] /\ NULL \in Pointer
  BY EndFacts, NodeFacts, HeapAssumption DEF Sound, HeapType, Pointer
<1>3. q \in D /\ h[q].previous = f /\ q # f
  BY <1>2, NodeFacts
<1>4. /\ DOMAIN g = D \ {f}
      /\ g[q] = Cell(h[q].value, NULL, h[q].next)
      /\ \A m \in D \ {f} : m # q => g[m] = h[m]
  <2> DEFINE e == [h EXCEPT ![q].previous = NULL]
  <2> HIDE DEF h, D, f, q
  <2>1. /\ DOMAIN e = D
        /\ e[q] = Cell(h[q].value, NULL, h[q].next)
        /\ \A m \in D : m # q => e[m] = h[m]
    BY <1>2, <1>3, PreviousWritten
  <2>2. g = Freed(e, f)
    OBVIOUS
  <2> HIDE DEF e, g
  <2> QED
    BY <1>2, <1>3, <2>1, <2>2 DEF Freed
<1>5. k.front = q /\ k.back = l.back /\ k.heap = g
  BY DEF List
<1> HIDE DEF g, k
<1>6. g \in [D \ {f} -> NodeType]
  <2>1. \A m \in D \ {f} : g[m] \in NodeType
    <3>1. \A m \in D : h[m] \in NodeType
      BY NodeFacts
    <3>2. Cell(h[q].value, NULL, h[q].next) \in NodeType
      BY <1>3, <3>1 DEF NodeType, Pointer, Cell
    <3> QED
      BY <1>4, <3>1, <3>2
  <2>2. g = [m \in D \ {f} |-> g[m]]
    BY <1>4 DEF g, Freed
  <2> QED
    BY <2>1, <2>2
<1> QED
  BY <1>1, <1>4, <1>5, <1>6 DEF FrontPopped

LEMMA PoppedFrontSound ==
    ASSUME NEW l, Sound(l)
    PROVE  Sound(PoppedFront(l))
<1>1. CASE IsEmpty(l)
  BY <1>1 DEF PoppedFront
<1>2. CASE ~IsEmpty(l) /\ l.front = l.back
  BY <1>2, LastNodeSound DEF PoppedFront
<1>3. CASE ~IsEmpty(l) /\ l.front # l.back
  <2> DEFINE h == l.heap
             D == DOMAIN h
             f == l.front
             q == h[f].next
             k == PoppedFront(l)
             g == k.heap
  <2>1. FrontPopped(l, k)
    BY <1>3, PoppedFrontIs
  <2>2. /\ f \in D /\ l.back \in D /\ D \subseteq Node /\ NULL \notin D
        /\ h[f].previous = NULL /\ h \in [D -> NodeType] /\ NULL \in Pointer
    BY <1>3, EndFacts, NodeFacts, HeapAssumption DEF Sound, HeapType, Pointer
  <2>3. q \in D /\ h[q].previous = f /\ q # f
    BY <1>3, <2>2, NodeFacts
  <2> HIDE DEF k
  <2>4. /\ DOMAIN g = D \ {f}
        /\ g[q] = Cell(h[q].value, NULL, h[q].next)
        /\ \A m \in D \ {f} : m # q => g[m] = h[m]
    BY <2>1 DEF FrontPopped
  <2>5. k.front = q /\ k.back = l.back /\ k.heap = g
    BY <2>1 DEF FrontPopped
  <2> HIDE DEF g
  <2>6. HeapType(k)
    BY <2>1, <2>2 DEF FrontPopped, HeapType
  <2>7. LinkedAt(k)
    <3>1. \A m \in D : /\ h[m].next \in D \cup {NULL}
                       /\ h[m].previous \in D \cup {NULL}
                       /\ h[m].next = NULL <=> m = l.back
                       /\ h[m].previous = NULL <=> m = f
                       /\ h[m].next # NULL => h[h[m].next].previous = m
                       /\ h[m].previous # NULL => h[h[m].previous].next = m
      BY NodeFacts
    <3> HIDE DEF q
    <3>2. q = h[f].next
      BY DEF q
    <3>3. /\ \A m \in D \ {f} : g[m].next = h[m].next
          /\ \A m \in D \ {f} : m # q => g[m].previous = h[m].previous
          /\ g[q].previous = NULL
      BY <2>3, <2>4 DEF Cell
    <3> HIDE DEF h, D, f
    <3>4. \A m \in D \ {f} :
              /\ g[m].next \in (D \ {f}) \cup {NULL}
              /\ g[m].previous \in (D \ {f}) \cup {NULL}
              /\ g[m].next = NULL <=> m = l.back
              /\ g[m].previous = NULL <=> m = q
      BY <2>2, <2>3, <3>1, <3>2, <3>3
    <3>5. \A m \in D \ {f} : g[m].next # NULL => g[g[m].next].previous = m
      BY <2>2, <2>3, <3>1, <3>2, <3>3, <3>4
    <3>6. \A m \in D \ {f} : g[m].previous # NULL => g[g[m].previous].next = m
      BY <2>2, <2>3, <3>1, <3>2, <3>3, <3>4
    <3> QED
      BY <1>3, <2>2, <2>3, <2>4, <2>5, <3>4, <3>5, <3>6 DEF LinkedAt, D, h, f
  <2>8. NoneLost(k)
    <3>1. SUFFICES ASSUME NEW S \in SUBSET (D \ {f}), Closed(k, S)
                   PROVE  S = D \ {f}
      BY <2>4, <2>5 DEF NoneLost
    <3>2. q \in S
      BY <2>2, <2>3, <2>5, <3>1 DEF Closed
    <3>3. ASSUME NEW m \in S PROVE h[m].next \in S \cup {NULL}
      BY <2>3, <2>4, <2>5, <3>1 DEF Closed, Cell
    <3>4. Closed(l, S \cup {f})
      BY <3>2, <3>3 DEF Closed
    <3>5. S \cup {f} = D
      BY <2>2, <3>4 DEF Sound, NoneLost
    <3> QED
      BY <3>5
  <2> QED
    BY <2>6, <2>7, <2>8 DEF Sound, k
<1> QED
  BY <1>1, <1>2, <1>3

LEMMA PoppedBackIs ==
    ASSUME NEW l, Sound(l), ~IsEmpty(l), l.front # l.back
    PROVE  BackPopped(l, PoppedBack(l))
<1> DEFINE h == l.heap
           D == DOMAIN h
           b == l.back
           p == h[b].previous
           g == Freed([h EXCEPT ![p].next = NULL], b)
           k == List(l.front, p, g)
<1>1. PoppedBack(l) = k
  BY DEF PoppedBack
<1>2. /\ b \in D /\ l.front \in D /\ D \subseteq Node /\ NULL \notin D
      /\ h[b].next = NULL /\ h \in [D -> NodeType] /\ NULL \in Pointer
  BY EndFacts, NodeFacts, HeapAssumption DEF Sound, HeapType, Pointer
<1>3. p \in D /\ h[p].next = b /\ p # b
  BY <1>2, NodeFacts
<1>4. /\ DOMAIN g = D \ {b}
      /\ g[p] = Cell(h[p].value, h[p].previous, NULL)
      /\ \A m \in D \ {b} : m # p => g[m] = h[m]
  <2> DEFINE e == [h EXCEPT ![p].next = NULL]
  <2> HIDE DEF h, D, b, p
  <2>1. /\ DOMAIN e = D
        /\ e[p] = Cell(h[p].value, h[p].previous, NULL)
        /\ \A m \in D : m # p => e[m] = h[m]
    BY <1>2, <1>3, NextWritten
  <2>2. g = Freed(e, b)
    OBVIOUS
  <2> HIDE DEF e, g
  <2> QED
    BY <1>2, <1>3, <2>1, <2>2 DEF Freed
<1>5. k.front = l.front /\ k.back = p /\ k.heap = g
  BY DEF List
<1> HIDE DEF g, k
<1>6. g \in [D \ {b} -> NodeType]
  <2>1. \A m \in D \ {b} : g[m] \in NodeType
    <3>1. \A m \in D : h[m] \in NodeType
      BY NodeFacts
    <3>2. Cell(h[p].value, h[p].previous, NULL) \in NodeType
      BY <1>3, <3>1 DEF NodeType, Pointer, Cell
    <3> QED
      BY <1>4, <3>1, <3>2
  <2>2. g = [m \in D \ {b} |-> g[m]]
    BY <1>4 DEF g, Freed
  <2> QED
    BY <2>1, <2>2
<1> QED
  BY <1>1, <1>4, <1>5, <1>6 DEF BackPopped

LEMMA PoppedBackSound ==
    ASSUME NEW l, Sound(l)
    PROVE  Sound(PoppedBack(l))
<1>1. CASE IsEmpty(l)
  BY <1>1 DEF PoppedBack
<1>2. CASE ~IsEmpty(l) /\ l.front = l.back
  BY <1>2, LastNodeSound DEF PoppedBack
<1>3. CASE ~IsEmpty(l) /\ l.front # l.back
  <2> DEFINE h == l.heap
             D == DOMAIN h
             b == l.back
             p == h[b].previous
             k == PoppedBack(l)
             g == k.heap
  <2>1. BackPopped(l, k)
    BY <1>3, PoppedBackIs
  <2>2. /\ b \in D /\ l.front \in D /\ D \subseteq Node /\ NULL \notin D
        /\ h[b].next = NULL /\ h \in [D -> NodeType] /\ NULL \in Pointer
    BY <1>3, EndFacts, NodeFacts, HeapAssumption DEF Sound, HeapType, Pointer
  <2>3. p \in D /\ h[p].next = b /\ p # b
    BY <1>3, <2>2, NodeFacts
  <2> HIDE DEF k
  <2>4. /\ DOMAIN g = D \ {b}
        /\ g[p] = Cell(h[p].value, h[p].previous, NULL)
        /\ \A m \in D \ {b} : m # p => g[m] = h[m]
    BY <2>1 DEF BackPopped
  <2>5. k.front = l.front /\ k.back = p /\ k.heap = g
    BY <2>1 DEF BackPopped
  <2> HIDE DEF g
  <2>6. HeapType(k)
    BY <2>1, <2>2 DEF BackPopped, HeapType
  <2>7. LinkedAt(k)
    <3>1. \A m \in D : /\ h[m].next \in D \cup {NULL}
                       /\ h[m].previous \in D \cup {NULL}
                       /\ h[m].next = NULL <=> m = b
                       /\ h[m].previous = NULL <=> m = l.front
                       /\ h[m].next # NULL => h[h[m].next].previous = m
                       /\ h[m].previous # NULL => h[h[m].previous].next = m
      BY NodeFacts
    <3> HIDE DEF p
    <3>2. p = h[b].previous
      BY DEF p
    <3>3. /\ \A m \in D \ {b} : g[m].previous = h[m].previous
          /\ \A m \in D \ {b} : m # p => g[m].next = h[m].next
          /\ g[p].next = NULL
      BY <2>3, <2>4 DEF Cell
    <3> HIDE DEF h, D, b
    <3>4. \A m \in D \ {b} :
              /\ g[m].next \in (D \ {b}) \cup {NULL}
              /\ g[m].previous \in (D \ {b}) \cup {NULL}
              /\ g[m].next = NULL <=> m = p
              /\ g[m].previous = NULL <=> m = l.front
      BY <2>2, <2>3, <3>1, <3>2, <3>3
    <3>5. \A m \in D \ {b} : g[m].next # NULL => g[g[m].next].previous = m
      BY <2>2, <2>3, <3>1, <3>2, <3>3, <3>4
    <3>6. \A m \in D \ {b} : g[m].previous # NULL => g[g[m].previous].next = m
      BY <2>2, <2>3, <3>1, <3>2, <3>3, <3>4
    <3> QED
      BY <1>3, <2>2, <2>3, <2>4, <2>5, <3>4, <3>5, <3>6 DEF LinkedAt, D, h, b
  <2>8. NoneLost(k)
    <3>1. SUFFICES ASSUME NEW S \in SUBSET (D \ {b}), Closed(k, S)
                   PROVE  S = D \ {b}
      BY <2>4, <2>5 DEF NoneLost
    <3>2. l.front \in S
      BY <2>2, <2>5, <3>1 DEF Closed
    <3>3. ASSUME NEW m \in S \cup {b} PROVE h[m].next \in S \cup {b, NULL}
      <4>1. CASE m \in {p, b}
        BY <2>2, <2>3, <4>1
      <4>2. CASE m \notin {p, b}
        BY <2>4, <2>5, <3>1, <4>2 DEF Closed
      <4> QED
        BY <4>1, <4>2
    <3>4. Closed(l, S \cup {b})
      BY <3>2, <3>3 DEF Closed
    <3>5. S \cup {b} = D
      BY <2>2, <3>4 DEF Sound, NoneLost
    <3> QED
      BY <3>5
  <2> QED
    BY <2>6, <2>7, <2>8 DEF Sound, k
<1> QED
  BY <1>1, <1>2, <1>3
-----------------------------------------------------------------------------
(* move_back                                                               *)

LEMMA RelinkedIs ==
    ASSUME NEW l, Sound(l), ~IsEmpty(l), NEW n \in DOMAIN l.heap,
           n # l.front, l.heap[n].next # NULL
    PROVE  BackRelinked(l, n, Relinked(l, n))
<1> DEFINE h == l.heap
           D == DOMAIN h
           b == l.back
           p == h[n].previous
           q == h[n].next
           e1 == [h EXCEPT ![p].next = q]
           e2 == [e1 EXCEPT ![q].previous = p]
           e3 == [e2 EXCEPT ![n].next = NULL]
           e4 == [e3 EXCEPT ![n].previous = b]
           g == [e4 EXCEPT ![b].next = n]
           k == List(l.front, n, g)
<1>1. /\ b \in D /\ l.front \in D /\ D \subseteq Node /\ NULL \notin D
      /\ h[b].next = NULL /\ h[l.front].previous = NULL
  BY EndFacts, NodeFacts, HeapAssumption DEF Sound, HeapType
<1>2. /\ p \in D /\ h[p].next = n /\ p # n
      /\ q \in D /\ h[q].previous = n /\ q # n
      /\ b # n /\ b # p /\ p # q
  <2>1. p \in D /\ q \in D /\ h[p].next = n /\ h[q].previous = n /\ b # n
    BY <1>1, NodeFacts
  <2>2. p # n
    <3>1. SUFFICES ASSUME h[n].previous = n, h[n].next = n PROVE FALSE
      BY <2>1
    <3>2. Closed(l, D \ {n})
      <4>1. ASSUME NEW m \in D \ {n} PROVE h[m].next \in (D \ {n}) \cup {NULL}
        BY <3>1, <4>1, NodeFacts
      <4> QED
        BY <1>1, <4>1 DEF Closed
    <3> QED
      BY <3>2 DEF Sound, NoneLost
  <2>3. q # n
    BY <2>1, <2>2
  <2>4. p # q
    <3>1. SUFFICES ASSUME p = q PROVE FALSE
      OBVIOUS
    <3>2. Closed(l, D \ {n, p})
      <4>1. p # l.front
        BY <1>1, <2>1, <3>1
      <4>2. ASSUME NEW m \in D \ {n, p} PROVE h[m].next \in (D \ {n, p}) \cup {NULL}
        <5>1. h[m].next # n /\ h[m].next # p
          BY <1>1, <2>1, <3>1, NodeFacts
        <5> QED
          BY <5>1, NodeFacts
      <4> QED
        BY <1>1, <4>1, <4>2 DEF Closed
    <3> QED
      BY <3>2 DEF Sound, NoneLost
  <2> QED
    BY <1>1, <2>1, <2>2, <2>3, <2>4
<1>3. Relinked(l, n) = k
  BY DEF Relinked
<1>4. k.front = l.front /\ k.back = n /\ k.heap = g
  BY DEF List
<1>5. /\ g \in [D -> NodeType]
      /\ g[n] = Cell(h[n].value, b, NULL)
      /\ g[p] = Cell(h[p].value, h[p].previous, q)
      /\ q # b => g[q] = Cell(h[q].value, p, h[q].next)
      /\ q # b => g[b] = Cell(h[b].value, h[b].previous, n)
      /\ q = b => g[b] = Cell(h[b].value, p, n)
      /\ \A m \in D \ {n, p, q, b} : g[m] = h[m]
  <2>1. h \in [D -> NodeType] /\ {n, p, q, b} \subseteq Pointer /\ NULL \in Pointer
    BY <1>1, <1>2 DEF Sound, HeapType, Pointer
  <2>2. {n, p, q, b} \subseteq D
    BY <1>1, <1>2, <2>1
  <2> HIDE DEF h, D, p, q, b
  <2>3. /\ e1 \in [D -> NodeType]
        /\ e1[p] = Cell(h[p].value, h[p].previous, q)
        /\ \A m \in D : m # p => e1[m] = h[m]
    BY <2>1, <2>2, NextWritten
  <2> HIDE DEF e1
  <2>4. /\ e2 \in [D -> NodeType]
        /\ e2[q] = Cell(e1[q].value, p, e1[q].next)
        /\ \A m \in D : m # q => e2[m] = e1[m]
    BY <2>1, <2>2, <2>3, PreviousWritten
  <2> HIDE DEF e2
  <2>5. /\ e3 \in [D -> NodeType]
        /\ e3[n] = Cell(e2[n].value, e2[n].previous, NULL)
        /\ \A m \in D : m # n => e3[m] = e2[m]
    BY <2>1, <2>2, <2>4, NextWritten
  <2> HIDE DEF e3
  <2>6. /\ e4 \in [D -> NodeType]
        /\ e4[n] = Cell(e3[n].value, b, e3[n].next)
        /\ \A m \in D : m # n => e4[m] = e3[m]
    BY <2>1, <2>2, <2>5, PreviousWritten
  <2> HIDE DEF e4
  <2>7. /\ g \in [D -> NodeType]
        /\ g[b] = Cell(e4[b].value, e4[b].previous, n)
        /\ \A m \in D : m # b => g[m] = e4[m]
    BY <2>1, <2>2, <2>6, NextWritten
  <2> HIDE DEF g
  <2>8. g[n] = Cell(h[n].value, b, NULL)
    BY <1>2, <2>2, <2>3, <2>4, <2>5, <2>6, <2>7 DEF Cell
  <2>9. g[p] = Cell(h[p].value, h[p].previous, q)
    BY <1>2, <2>2, <2>3, <2>4, <2>5, <2>6, <2>7 DEF Cell
  <2>10. q # b => g[q] = Cell(h[q].value, p, h[q].next)
    BY <1>2, <2>2, <2>3, <2>4, <2>5, <2>6, <2>7 DEF Cell
  <2>11. q # b => g[b] = Cell(h[b].value, h[b].previous, n)
    BY <1>2, <2>2, <2>3, <2>4, <2>5, <2>6, <2>7 DEF Cell
  <2>12. q = b => g[b] = Cell(h[b].value, p, n)
    BY <1>2, <2>2, <2>3, <2>4, <2>5, <2>6, <2>7 DEF Cell
  <2>13. \A m \in D \ {n, p, q, b} : g[m] = h[m]
    BY <1>2, <2>2, <2>3, <2>4, <2>5, <2>6, <2>7
  <2> QED
    BY <2>7, <2>8, <2>9, <2>10, <2>11, <2>12, <2>13
<1> HIDE DEF g, k
<1> QED
  BY <1>2, <1>3, <1>4, <1>5 DEF BackRelinked

LEMMA RelinkedSound ==
    ASSUME NEW l, Sound(l), ~IsEmpty(l), NEW n \in DOMAIN l.heap,
           n # l.front, l.heap[n].next # NULL
    PROVE  Sound(Relinked(l, n))
<1> DEFINE h == l.heap
           D == DOMAIN h
           b == l.back
           p == h[n].previous
           q == h[n].next
           k == Relinked(l, n)
           g == k.heap
<1>1. /\ b \in D /\ l.front \in D /\ D \subseteq Node /\ NULL \notin D
      /\ h[b].next = NULL /\ h[l.front].previous = NULL
  BY EndFacts, NodeFacts, HeapAssumption DEF Sound, HeapType
<1>2. /\ p \in D /\ h[p].next = n /\ p # n
      /\ q \in D /\ h[q].previous = n /\ q # n
      /\ b # n /\ b # p /\ p # q
  BY RelinkedIs DEF BackRelinked
<1>3. BackRelinked(l, n, k)
  BY RelinkedIs
<1> HIDE DEF k
<1>4. k.front = l.front /\ k.back = n /\ k.heap = g
  BY <1>3 DEF BackRelinked
<1>5. /\ g \in [D -> NodeType]
      /\ g[n] = Cell(h[n].value, b, NULL)
      /\ g[p] = Cell(h[p].value, h[p].previous, q)
      /\ q # b => g[q] = Cell(h[q].value, p, h[q].next)
      /\ q # b => g[b] = Cell(h[b].value, h[b].previous, n)
      /\ q = b => g[b] = Cell(h[b].value, p, n)
      /\ \A m \in D \ {n, p, q, b} : g[m] = h[m]
  BY <1>3 DEF BackRelinked
<1> HIDE DEF g
<1>6. HeapType(k)
  BY <1>1, <1>4, <1>5 DEF HeapType
<1>7. DOMAIN g = D
  BY <1>5
<1>8. LinkedAt(k)
  <2>1. \A m \in D : /\ h[m].next \in D \cup {NULL}
                     /\ h[m].previous \in D \cup {NULL}
                     /\ h[m].next = NULL <=> m = b
                     /\ h[m].previous = NULL <=> m = l.front
                     /\ h[m].next # NULL => h[h[m].next].previous = m
                     /\ h[m].previous # NULL => h[h[m].previous].next = m
    BY NodeFacts
  <2>2. p = h[n].previous /\ q = h[n].next
    OBVIOUS
  <2> HIDE DEF h, D, b, p, q
  <2>3. \A m \in D :
            /\ g[m].next \in D \cup {NULL}
            /\ g[m].previous \in D \cup {NULL}
            /\ g[m].next = NULL <=> m = n
            /\ g[m].previous = NULL <=> m = l.front
    BY <1>1, <1>2, <1>5, <2>1, <2>2 DEF Cell
  <2>4. \A m \in D : g[m].next # NULL => g[g[m].next].previous = m
    BY <1>1, <1>2, <1>5, <2>1, <2>2 DEF Cell
  <2>5. \A m \in D : g[m].previous # NULL => g[g[m].previous].next = m
    BY <1>1, <1>2, <1>5, <2>1, <2>2 DEF Cell
  <2> QED
    BY <1>1, <1>4, <1>7, <2>3, <2>4, <2>5 DEF LinkedAt, D, h
<1>9. NoneLost(k)
  <2>1. SUFFICES ASSUME NEW S \in SUBSET D, Closed(k, S) PROVE S = D
    BY <1>4, <1>7 DEF NoneLost
  <2>2. l.front \in S /\ \A m \in S : g[m].next \in S \cup {NULL}
    BY <1>1, <1>4, <2>1 DEF Closed
  <2>3. \A m \in S : m \notin {n, p, b} => h[m].next \in S \cup {NULL} /\ h[m].next # n
    <3>1. \A m \in D : m \notin {n, p, b} => g[m].next = h[m].next
      BY <1>5 DEF Cell
    <3>2. \A m \in D : h[m].next = n => m = p
      BY <1>1, NodeFacts
    <3> QED
      BY <2>1, <2>2, <3>1, <3>2
  <2>4. q \in S
    <3>1. SUFFICES ASSUME q \notin S PROVE FALSE
      OBVIOUS
    <3>2. p \notin S
      BY <1>1, <1>2, <1>5, <2>2, <3>1 DEF Cell
    <3>3. Closed(l, S \ {n})
      BY <1>1, <2>2, <2>3, <3>2 DEF Closed
    <3>4. S \ {n} = D
      BY <3>3 DEF Sound, NoneLost
    <3> QED
      BY <1>2, <3>2, <3>4
  <2>5. Closed(l, S \cup {n})
    BY <1>1, <1>2, <2>2, <2>3, <2>4 DEF Closed
  <2>6. S \cup {n} = D
    BY <2>5 DEF Sound, NoneLost
  <2>7. g[b].next = n
    BY <1>5 DEF Cell
  <2> QED
    BY <1>1, <1>2, <2>2, <2>6, <2>7
<1> QED
  BY <1>6, <1>8, <1>9 DEF Sound, k

LEMMA MovedBackSound ==
    ASSUME NEW l, Sound(l), NEW n \in DOMAIN l.heap, NEW k \in MovedBack(l, n)
    PROVE  Sound(k)
<1>1. l.heap[n].value \in Value
  BY NodeFacts DEF NodeType
<1> QED
  BY <1>1, PushedSound, PoppedFrontSound, RelinkedSound DEF MovedBack, FrontMoved
-----------------------------------------------------------------------------
(* The walk from the front meets every node, so clear_list frees them all. *)
LEMMA ReachedAll ==
    ASSUME NEW l, Sound(l)
    PROVE  Reached(l) = DOMAIN l.heap
BY DEF Reached, Sound, NoneLost

LEMMA ClearedSound == ASSUME NEW l, Sound(l) PROVE Sound(Cleared(l))
<1> DEFINE h == [m \in DOMAIN l.heap \ Reached(l) |-> l.heap[m]]
<1>1. DOMAIN h = {} /\ h \in [{} -> NodeType]
  BY ReachedAll
<1> QED
  BY <1>1, EmptySound DEF Cleared

LEMMA BecomesThis == ASSUME NEW l, Becomes(l), Sound(l) PROVE Sound(This)'
<1>1. /\ This'.front = l.front /\ This'.back = l.back /\ This'.heap = l.heap
  BY DEF Becomes, This
<1> QED
  BY <1>1 DEF Sound, HeapType, LinkedAt, NoneLost, Closed

LEMMA InitSound == ASSUME Init PROVE Sound(This)
<1>1. This = List(NULL, NULL, heap) /\ DOMAIN heap = {} /\ heap \in [{} -> NodeType]
  BY DEF Init, This, List
<1> QED
  BY <1>1, EmptySound

LEMMA NextSound == ASSUME Sound(This), [Next]_vars PROVE Sound(This)'
<1>1. DOMAIN This.heap = DOMAIN heap
  BY DEF This
<1>2. ASSUME NEW v \in Value, PushBack(v) \/ PushFront(v) PROVE Sound(This)'
  BY <1>2, PushedSound, BecomesThis DEF PushBack, PushFront
<1>3. CASE PopFront
  BY <1>3, PoppedFrontSound, BecomesThis DEF PopFront
<1>4. CASE PopBack
  BY <1>4, PoppedBackSound, BecomesThis DEF PopBack
<1>5. ASSUME NEW n \in DOMAIN heap, MoveBack(n) PROVE Sound(This)'
  BY <1>1, <1>5, MovedBackSound, BecomesThis DEF MoveBack
<1>6. CASE Clear
  BY <1>6, ClearedSound, BecomesThis DEF Clear
<1>7. CASE UNCHANGED vars
  <2>1. This' = This
    BY <1>7 DEF vars, This
  <2> QED
    BY <2>1 DEF Sound, HeapType, LinkedAt, NoneLost, Closed
<1> QED
  BY <1>2, <1>3, <1>4, <1>5, <1>6, <1>7 DEF Next

LEMMA SoundAlways == Spec => []Sound(This)
<1>1. Init => Sound(This)
  BY InitSound
<1>2. Sound(This) /\ [Next]_vars => Sound(This)'
  BY NextSound
<1> QED
  BY <1>1, <1>2, PTL DEF Spec

LEMMA SoundMeans == Sound(This) => TypeOK /\ Linked
<1>1. This.front = front /\ This.back = back /\ This.heap = heap
  BY DEF This
<1> QED
  BY <1>1 DEF Sound, HeapType, LinkedAt, TypeOK, Linked, Pointer

(* No call of list.h leaves a dangling or one-sided link, so none of them  *)
(* follows one later: the code checks no pointer it follows.               *)
THEOREM ListStaysLinked == Spec => []Linked
<1>1. Sound(This) => Linked
  BY SoundMeans
<1> QED
  BY <1>1, SoundAlways, PTL

(* Both ends and all links are NULL or the address of an allocated node.   *)
THEOREM ListTypeOK == Spec => []TypeOK
<1>1. Sound(This) => TypeOK
  BY SoundMeans
<1> QED
  BY <1>1, SoundAlways, PTL

(* No call loses an allocated node, even when moving one fails for lack of *)
(* memory: clear_list frees them all.                                      *)
THEOREM ListLeaksNothing == Spec => []NoLeak
<1>1. Init => Sound(This)
  BY InitSound
<1>2. Sound(This) /\ [Next]_vars => Sound(This)'
  BY NextSound
<1>3. Sound(This) => NoLeak
  <2>1. This.heap = heap
    BY DEF This
  <2> QED
    BY <2>1, ReachedAll DEF NoLeak
<1> QED
  BY <1>1, <1>2, <1>3, PTL DEF Spec
-----------------------------------------------------------------------------
(* The list as a sequence of values.                                       *)

(* w numbers all n nodes of l in the order the next pointers give.         *)
IsWalk(l, w, n) ==
    /\ n \in Nat
    /\ w \in [1 .. n -> DOMAIN l.heap]
    /\ \A i, j \in 1 .. n : w[i] = w[j] => i = j
    /\ \A m \in DOMAIN l.heap : \E i \in 1 .. n : w[i] = m
    /\ l.front = IF n = 0 THEN NULL ELSE w[1]
    /\ \A i \in 1 .. n : l.heap[w[i]].next = IF i < n THEN w[i + 1] ELSE NULL

(* The values along the walk w are the sequence s.                         *)
Shown(l, w, s) ==
    /\ s \in Seq(Value)
    /\ IsWalk(l, w, Len(s))
    /\ \A i \in 1 .. Len(s) : s[i] = l.heap[w[i]].value

Shows(l, s) == \E w : Shown(l, w, s)

(* Where a walk starts and ends.                                           *)
LEMMA WalkFacts ==
    ASSUME NEW l, Sound(l), NEW w, NEW n, IsWalk(l, w, n)
    PROVE  /\ IsEmpty(l) <=> n = 0
           /\ n # 0 => /\ n \in 1 .. n /\ 1 \in 1 .. n
                       /\ l.front = w[1] /\ l.back = w[n]
                       /\ (l.front = l.back <=> n = 1)
           /\ \A i \in 1 .. n : w[i] # NULL /\ w[i] \in DOMAIN l.heap
           /\ NULL \notin DOMAIN l.heap
<1>1. /\ NULL \notin DOMAIN l.heap
      /\ \A i \in 1 .. n : w[i] # NULL /\ w[i] \in DOMAIN l.heap
  BY HeapAssumption DEF Sound, HeapType, IsWalk
<1>2. CASE n = 0
  <2>1. DOMAIN l.heap = {}
    BY <1>2 DEF IsWalk
  <2> QED
    BY <1>1, <1>2, <2>1, EndFacts
<1>3. CASE n # 0
  <2>1. n \in 1 .. n /\ 1 \in 1 .. n
    BY <1>3 DEF IsWalk
  <2>2. l.front = w[1]
    BY <1>3 DEF IsWalk
  <2>3. l.heap[w[n]].next = NULL
    BY <2>1 DEF IsWalk
  <2>4. l.back = w[n]
    BY <1>1, <2>1, <2>3, NodeFacts
  <2>5. w[1] = w[n] <=> n = 1
    BY <2>1 DEF IsWalk
  <2> QED
    BY <1>1, <1>3, <2>1, <2>2, <2>4, <2>5, EndFacts
<1> QED
  BY <1>1, <1>2, <1>3

(* A node linked behind the back is the last of the walk, one linked       *)
(* before the front the first.                                             *)
LEMMA BackLinkedWalk ==
    ASSUME NEW l, Sound(l), NEW w, NEW n, IsWalk(l, w, n), n # 0,
           NEW x \in Node \ DOMAIN l.heap, NEW v, NEW k, BackLinked(l, x, v, k)
    PROVE  IsWalk(k, [i \in 1 .. n + 1 |-> IF i = n + 1 THEN x ELSE w[i]], n + 1)
<1> DEFINE u == [i \in 1 .. n + 1 |-> IF i = n + 1 THEN x ELSE w[i]]
           D == DOMAIN l.heap
<1>1. /\ n \in Nat /\ n \in 1 .. n /\ 1 \in 1 .. n /\ l.back = w[n] /\ l.front = w[1]
      /\ \A i \in 1 .. n : w[i] \in D
      /\ \A i, j \in 1 .. n : w[i] = w[j] => i = j
      /\ \A m \in D : \E i \in 1 .. n : w[i] = m
      /\ \A i \in 1 .. n : l.heap[w[i]].next = IF i < n THEN w[i + 1] ELSE NULL
  <2>1. /\ n \in 1 .. n /\ 1 \in 1 .. n /\ l.back = w[n] /\ l.front = w[1]
        /\ \A i \in 1 .. n : w[i] \in D
    BY WalkFacts
  <2> QED
    BY <2>1 DEF IsWalk
<1>2. /\ k.front = l.front /\ DOMAIN k.heap = D \cup {x}
      /\ k.heap[x].next = NULL /\ k.heap[w[n]].next = x
      /\ \A m \in D : m # w[n] => k.heap[m].next = l.heap[m].next
  BY <1>1 DEF BackLinked, Cell
<1>3. /\ u[n + 1] = x /\ \A i \in 1 .. n : u[i] = w[i]
      /\ DOMAIN u = 1 .. n + 1
  BY <1>1
<1>4. u \in [1 .. n + 1 -> D \cup {x}]
  BY <1>1
<1> HIDE DEF u, D
<1>5. 1 .. n + 1 = (1 .. n) \cup {n + 1} /\ n + 1 \notin 1 .. n /\ n + 1 \in Nat
  BY <1>1
<1>6. x \notin D
  BY DEF D
<1>7. \A i, j \in 1 .. n + 1 : u[i] = u[j] => i = j
  BY <1>1, <1>3, <1>5, <1>6
<1>8. \A m \in D \cup {x} : \E i \in 1 .. n + 1 : u[i] = m
  BY <1>1, <1>3, <1>5
<1>9. k.front = u[1]
  BY <1>1, <1>2, <1>3
<1>10. ASSUME NEW i \in 1 .. n + 1
       PROVE  k.heap[u[i]].next = IF i < n + 1 THEN u[i + 1] ELSE NULL
  <2>1. CASE i = n + 1
    BY <1>1, <1>2, <1>3, <2>1
  <2>2. CASE i = n
    BY <1>1, <1>2, <1>3, <2>2
  <2>3. CASE i \in 1 .. n /\ i # n
    <3>1. i < n /\ i < n + 1 /\ i + 1 \in 1 .. n
      BY <1>1, <2>3
    <3>2. w[i] # w[n] /\ w[i] \in D
      BY <1>1, <2>3
    <3>3. u[i] = w[i] /\ u[i + 1] = w[i + 1]
      BY <1>3, <2>3, <3>1
    <3> QED
      BY <1>1, <1>2, <2>3, <3>1, <3>2, <3>3
  <2> QED
    BY <1>5, <2>1, <2>2, <2>3
<1> QED
  BY <1>1, <1>2, <1>4, <1>5, <1>7, <1>8, <1>9, <1>10 DEF IsWalk, u, D

LEMMA FrontLinkedWalk ==
    ASSUME NEW l, Sound(l), NEW w, NEW n, IsWalk(l, w, n), n # 0,
           NEW x \in Node \ DOMAIN l.heap, NEW v, NEW k, FrontLinked(l, x, v, k)
    PROVE  IsWalk(k, [i \in 1 .. n + 1 |-> IF i = 1 THEN x ELSE w[i - 1]], n + 1)
<1> DEFINE u == [i \in 1 .. n + 1 |-> IF i = 1 THEN x ELSE w[i - 1]]
           D == DOMAIN l.heap
<1>1. /\ n \in Nat /\ 1 \in 1 .. n /\ l.front = w[1]
      /\ \A i \in 1 .. n : w[i] \in D
      /\ \A i, j \in 1 .. n : w[i] = w[j] => i = j
      /\ \A m \in D : \E i \in 1 .. n : w[i] = m
      /\ \A i \in 1 .. n : l.heap[w[i]].next = IF i < n THEN w[i + 1] ELSE NULL
  <2>1. 1 \in 1 .. n /\ l.front = w[1] /\ \A i \in 1 .. n : w[i] \in D
    BY WalkFacts
  <2> QED
    BY <2>1 DEF IsWalk
<1>2. /\ k.front = x /\ DOMAIN k.heap = D \cup {x}
      /\ k.heap[x].next = w[1]
      /\ \A m \in D : k.heap[m].next = l.heap[m].next
  BY <1>1 DEF FrontLinked, Cell
<1>3. ASSUME NEW i \in 1 .. n + 1
      PROVE  \/ i = 1 \/ i - 1 \in 1 .. n
  BY <1>1
<1>4. /\ u[1] = x /\ \A i \in 1 .. n : u[i + 1] = w[i]
      /\ \A i \in 1 .. n + 1 : i # 1 => u[i] = w[i - 1]
      /\ DOMAIN u = 1 .. n + 1
  BY <1>1
<1>5. u \in [1 .. n + 1 -> D \cup {x}]
  BY <1>1, <1>3
<1> HIDE DEF u, D
<1>6. x \notin D /\ n + 1 \in Nat
  BY <1>1 DEF D
<1>7. ASSUME NEW i \in 1 .. n + 1, NEW j \in 1 .. n + 1, u[i] = u[j] PROVE i = j
  <2>1. CASE i = 1 \/ j = 1
    <3>1. ASSUME NEW m \in 1 .. n + 1, m # 1 PROVE u[m] # x
      <4>1. m - 1 \in 1 .. n
        BY <1>1, <3>1
      <4> QED
        BY <1>1, <1>4, <1>6, <3>1, <4>1
    <3> QED
      BY <1>4, <1>7, <2>1, <3>1
  <2>2. CASE i # 1 /\ j # 1
    <3>1. i - 1 = j - 1
      BY <1>1, <1>3, <1>4, <1>7, <2>2
    <3> QED
      BY <3>1
  <2> QED
    BY <2>1, <2>2
<1>8. ASSUME NEW m \in D \cup {x} PROVE \E i \in 1 .. n + 1 : u[i] = m
  <2>1. CASE m = x
    BY <1>1, <1>4, <2>1
  <2>2. CASE m \in D
    <3>1. PICK i \in 1 .. n : w[i] = m
      BY <1>1, <2>2
    <3>2. i + 1 \in 1 .. n + 1 /\ u[i + 1] = m
      BY <1>1, <1>4, <3>1
    <3> QED
      BY <3>2
  <2> QED
    BY <2>1, <2>2
<1>9. ASSUME NEW i \in 1 .. n + 1
      PROVE  k.heap[u[i]].next = IF i < n + 1 THEN u[i + 1] ELSE NULL
  <2>1. CASE i = 1
    <3>1. 1 < n + 1 /\ u[1 + 1] = w[1]
      BY <1>1, <1>4
    <3> QED
      BY <1>2, <1>4, <2>1, <3>1
  <2>2. CASE i # 1
    <3>1. i - 1 \in 1 .. n /\ (i - 1 < n <=> i < n + 1) /\ (i - 1) + 1 = i
      BY <1>1, <1>3, <2>2
    <3>2. u[i] = w[i - 1] /\ w[i - 1] \in D
      BY <1>1, <1>4, <2>2, <3>1
    <3>3. l.heap[w[i - 1]].next = IF i < n + 1 THEN w[i] ELSE NULL
      BY <1>1, <3>1
    <3>4. i < n + 1 => i \in 1 .. n /\ u[i + 1] = w[i]
      BY <1>1, <1>4
    <3> QED
      BY <1>2, <3>2, <3>3, <3>4
  <2> QED
    BY <2>1, <2>2
<1> QED
  BY <1>1, <1>2, <1>4, <1>5, <1>6, <1>7, <1>8, <1>9 DEF IsWalk, u, D

(* The walk without its first node, and without its last.                  *)
LEMMA FrontPoppedWalk ==
    ASSUME NEW l, Sound(l), NEW w, NEW n, IsWalk(l, w, n), n \notin {0, 1},
           NEW k, FrontPopped(l, k)
    PROVE  IsWalk(k, [i \in 1 .. n - 1 |-> w[i + 1]], n - 1)
<1> DEFINE u == [i \in 1 .. n - 1 |-> w[i + 1]]
           D == DOMAIN l.heap
<1>0. /\ n \in Nat /\ 1 \in 1 .. n /\ 1 < n
  BY DEF IsWalk
<1>1. /\ n \in Nat /\ 1 \in 1 .. n /\ 1 < n /\ l.front = w[1]
      /\ \A i \in 1 .. n : w[i] \in D
      /\ \A i, j \in 1 .. n : w[i] = w[j] => i = j
      /\ \A m \in D : \E i \in 1 .. n : w[i] = m
      /\ \A i \in 1 .. n : l.heap[w[i]].next = IF i < n THEN w[i + 1] ELSE NULL
  <2>1. l.front = w[1] /\ \A i \in 1 .. n : w[i] \in D
    BY <1>0, WalkFacts
  <2> QED
    BY <1>0, <2>1 DEF IsWalk
<1>2. l.heap[l.front].next = w[2]
  BY <1>1
<1>3. /\ k.front = w[2] /\ DOMAIN k.heap = D \ {w[1]}
      /\ \A m \in D \ {w[1]} : k.heap[m].next = l.heap[m].next
  BY <1>1, <1>2 DEF FrontPopped, Cell
<1>4. \A i \in 1 .. n - 1 : i \in 1 .. n /\ i + 1 \in 1 .. n /\ u[i] = w[i + 1] /\ i + 1 # 1
  BY <1>1
<1>5. DOMAIN u = 1 .. n - 1 /\ n - 1 \in Nat /\ n - 1 # 0 /\ 1 \in 1 .. n - 1
  BY <1>1
<1> HIDE DEF D
<1>6. u \in [1 .. n - 1 -> D \ {w[1]}]
  <2>1. \A i \in 1 .. n - 1 : w[i + 1] \in D \ {w[1]}
    BY <1>1, <1>4
  <2> QED
    BY <2>1
<1> HIDE DEF u
<1>7. ASSUME NEW i \in 1 .. n - 1, NEW j \in 1 .. n - 1, u[i] = u[j] PROVE i = j
  <2>1. i + 1 = j + 1
    BY <1>1, <1>4, <1>7
  <2> QED
    BY <2>1
<1>8. ASSUME NEW m \in D \ {w[1]} PROVE \E i \in 1 .. n - 1 : u[i] = m
  <2>1. PICK i \in 1 .. n : w[i] = m
    BY <1>1
  <2>2. i # 1
    BY <2>1
  <2>3. i - 1 \in 1 .. n - 1 /\ (i - 1) + 1 = i
    BY <1>1, <2>2
  <2>4. u[i - 1] = m
    BY <1>4, <2>1, <2>3
  <2> QED
    BY <2>3, <2>4
<1>9. ASSUME NEW i \in 1 .. n - 1
      PROVE  k.heap[u[i]].next = IF i < n - 1 THEN u[i + 1] ELSE NULL
  <2>1. k.heap[u[i]].next = l.heap[w[i + 1]].next
    BY <1>3, <1>4, <1>6
  <2>2. l.heap[w[i + 1]].next = IF i + 1 < n THEN w[(i + 1) + 1] ELSE NULL
    BY <1>1, <1>4
  <2>3. i + 1 < n <=> i < n - 1
    BY <1>1
  <2>4. i < n - 1 => u[i + 1] = w[(i + 1) + 1]
    <3>1. i < n - 1 => i + 1 \in 1 .. n - 1
      BY <1>1
    <3> QED
      BY <1>4, <3>1
  <2> QED
    BY <2>1, <2>2, <2>3, <2>4
<1>10. k.front = u[1]
  BY <1>1, <1>3, <1>4, <1>5
<1> QED
  BY <1>3, <1>5, <1>6, <1>7, <1>8, <1>9, <1>10 DEF IsWalk, u, D

LEMMA BackPoppedWalk ==
    ASSUME NEW l, Sound(l), NEW w, NEW n, IsWalk(l, w, n), n \notin {0, 1},
           NEW k, BackPopped(l, k)
    PROVE  IsWalk(k, [i \in 1 .. n - 1 |-> w[i]], n - 1)
<1> DEFINE u == [i \in 1 .. n - 1 |-> w[i]]
           D == DOMAIN l.heap
<1>0. /\ n \in Nat /\ n \in 1 .. n /\ 1 < n
  BY DEF IsWalk
<1>1. /\ n \in Nat /\ n \in 1 .. n /\ 1 < n /\ l.front = w[1] /\ l.back = w[n]
      /\ \A i \in 1 .. n : w[i] \in D /\ w[i] # NULL
      /\ \A i, j \in 1 .. n : w[i] = w[j] => i = j
      /\ \A m \in D : \E i \in 1 .. n : w[i] = m
      /\ \A i \in 1 .. n : l.heap[w[i]].next = IF i < n THEN w[i + 1] ELSE NULL
  <2>1. l.front = w[1] /\ l.back = w[n] /\ \A i \in 1 .. n : w[i] \in D /\ w[i] # NULL
    BY <1>0, WalkFacts
  <2> QED
    BY <1>0, <2>1 DEF IsWalk
<1>2. l.heap[l.back].previous = w[n - 1]
  <2>1. n - 1 \in 1 .. n /\ n - 1 < n /\ (n - 1) + 1 = n
    BY <1>1
  <2>2. l.heap[w[n - 1]].next = w[n]
    BY <1>1, <2>1
  <2> QED
    BY <1>1, <2>1, <2>2, NodeFacts
<1>3. /\ k.front = w[1] /\ DOMAIN k.heap = D \ {w[n]}
      /\ k.heap[w[n - 1]].next = NULL
      /\ \A m \in D \ {w[n]} : m # w[n - 1] => k.heap[m].next = l.heap[m].next
  BY <1>1, <1>2 DEF BackPopped, Cell
<1>4. /\ \A i \in 1 .. n - 1 : i \in 1 .. n /\ u[i] = w[i] /\ i # n
      /\ \A i \in 1 .. n : i # n => i \in 1 .. n - 1
  BY <1>1
<1>5. /\ DOMAIN u = 1 .. n - 1 /\ n - 1 \in Nat /\ n - 1 # 0
      /\ 1 \in 1 .. n - 1 /\ n - 1 \in 1 .. n - 1
  BY <1>1
<1> HIDE DEF D
<1>6. u \in [1 .. n - 1 -> D \ {w[n]}]
  <2>1. \A i \in 1 .. n - 1 : w[i] \in D \ {w[n]}
    BY <1>1, <1>4
  <2> QED
    BY <2>1
<1> HIDE DEF u
<1>7. \A i, j \in 1 .. n - 1 : u[i] = u[j] => i = j
  BY <1>1, <1>4
<1>8. \A m \in D \ {w[n]} : \E i \in 1 .. n - 1 : u[i] = m
  BY <1>1, <1>4
<1>9. ASSUME NEW i \in 1 .. n - 1
      PROVE  k.heap[u[i]].next = IF i < n - 1 THEN u[i + 1] ELSE NULL
  <2>1. CASE i = n - 1
    BY <1>3, <1>4, <2>1
  <2>2. CASE i # n - 1
    <3>1. i < n /\ i < n - 1 /\ i + 1 \in 1 .. n - 1
      BY <1>1, <2>2
    <3>2. w[i] # w[n - 1] /\ w[i] \in D \ {w[n]}
      BY <1>1, <1>4, <1>5, <2>2
    <3>3. k.heap[w[i]].next = w[i + 1]
      BY <1>1, <1>3, <1>4, <3>1, <3>2
    <3> QED
      BY <1>4, <3>1, <3>3
  <2> QED
    BY <2>1, <2>2
<1>10. k.front = u[1]
  BY <1>1, <1>3, <1>4, <1>5
<1> QED
  BY <1>3, <1>5, <1>6, <1>7, <1>8, <1>9, <1>10 DEF IsWalk, u, D

(* The nodes behind the relinked one move up, and it is the last.          *)
LEMMA BackRelinkedWalk ==
    ASSUME NEW l, Sound(l), NEW w, NEW n, IsWalk(l, w, n), NEW i \in 2 .. n - 1,
           NEW k, BackRelinked(l, w[i], k)
    PROVE  IsWalk(k, [j \in 1 .. n |-> IF j < i THEN w[j] ELSE IF j < n THEN w[j + 1] ELSE w[i]], n)
<1> DEFINE u == [j \in 1 .. n |-> IF j < i THEN w[j] ELSE IF j < n THEN w[j + 1] ELSE w[i]]
           D == DOMAIN l.heap
           g == k.heap
<1>0. /\ n \in Nat /\ n \in 1 .. n /\ 1 \in 1 .. n /\ i \in 1 .. n /\ 1 < i /\ i < n
  BY DEF IsWalk
<1>1. /\ n \in Nat /\ n \in 1 .. n /\ 1 \in 1 .. n /\ i \in 1 .. n /\ 1 < i /\ i < n
      /\ l.front = w[1] /\ l.back = w[n]
      /\ \A j \in 1 .. n : w[j] \in D /\ w[j] # NULL
      /\ \A p, j \in 1 .. n : w[p] = w[j] => p = j
      /\ \A m \in D : \E j \in 1 .. n : w[j] = m
      /\ \A j \in 1 .. n : l.heap[w[j]].next = IF j < n THEN w[j + 1] ELSE NULL
  <2>1. l.front = w[1] /\ l.back = w[n] /\ \A j \in 1 .. n : w[j] \in D /\ w[j] # NULL
    BY <1>0, WalkFacts
  <2> QED
    BY <1>0, <2>1 DEF IsWalk
<1>2. /\ i - 1 \in 1 .. n /\ i + 1 \in 1 .. n /\ i - 1 < n /\ (i - 1) + 1 = i
      /\ i - 1 # i /\ i + 1 # i /\ i - 1 # i + 1 /\ n # i /\ n # i - 1
  BY <1>1
<1>3. l.heap[w[i]].next = w[i + 1] /\ l.heap[w[i]].previous = w[i - 1]
  <2>1. l.heap[w[i - 1]].next = w[i]
    BY <1>1, <1>2
  <2> QED
    BY <1>1, <1>2, <2>1, NodeFacts
<1>4. /\ k.front = w[1] /\ g \in [D -> NodeType]
      /\ g[w[i]].next = NULL
      /\ g[w[i - 1]].next = w[i + 1]
      /\ g[w[n]].next = w[i]
      /\ \A m \in D \ {w[i], w[i - 1], w[n]} : g[m].next = l.heap[m].next
  <2> HIDE DEF g
  <2>1. /\ k.front = l.front /\ g \in [D -> NodeType]
        /\ g[w[i]].next = NULL
        /\ g[w[i - 1]].next = w[i + 1]
        /\ w[i + 1] # w[n] => g[w[i + 1]].next = l.heap[w[i + 1]].next
        /\ g[w[n]].next = w[i]
        /\ \A m \in D \ {w[i], w[i - 1], w[i + 1], w[n]} : g[m] = l.heap[m]
    BY <1>1, <1>3 DEF BackRelinked, Cell, g
  <2> QED
    BY <1>1, <2>1
<1>5. DOMAIN u = 1 .. n
  OBVIOUS
<1>6. /\ \A j \in 1 .. n : j < i => u[j] = w[j]
      /\ \A j \in 1 .. n : ~(j < i) /\ j < n => u[j] = w[j + 1] /\ j + 1 \in 1 .. n
      /\ u[n] = w[i]
  BY <1>1
<1>7. u \in [1 .. n -> D]
  BY <1>1, <1>6
<1> HIDE DEF D, g, u
<1>8. ASSUME NEW j \in 1 .. n
      PROVE  \/ j < i /\ u[j] = w[j]
             \/ ~(j < i) /\ j < n /\ u[j] = w[j + 1] /\ j + 1 \in 1 .. n
             \/ j = n /\ u[j] = w[i]
  BY <1>1, <1>6
<1>9. ASSUME NEW j \in 1 .. n, NEW m \in 1 .. n, u[j] = u[m] PROVE j = m
  <2>1. CASE j < i
    BY <1>1, <1>8, <1>9, <2>1
  <2>2. CASE ~(j < i) /\ j < n
    BY <1>1, <1>8, <1>9, <2>2
  <2>3. CASE j = n
    BY <1>1, <1>8, <1>9, <2>3
  <2> QED
    BY <1>1, <2>1, <2>2, <2>3
<1>10. ASSUME NEW m \in D PROVE \E j \in 1 .. n : u[j] = m
  <2>1. PICK j \in 1 .. n : w[j] = m
    BY <1>1
  <2>2. CASE j < i
    BY <1>6, <2>1, <2>2
  <2>3. CASE j = i
    BY <1>1, <1>6, <2>1, <2>3
  <2>4. CASE i < j
    <3>1. j - 1 \in 1 .. n /\ ~(j - 1 < i) /\ j - 1 < n /\ (j - 1) + 1 = j
      BY <1>1, <2>4
    <3>2. u[j - 1] = m
      BY <1>6, <2>1, <3>1
    <3> QED
      BY <3>1, <3>2
  <2> QED
    BY <1>1, <2>2, <2>3, <2>4
<1>11. ASSUME NEW j \in 1 .. n
       PROVE  g[u[j]].next = IF j < n THEN u[j + 1] ELSE NULL
  <2>1. CASE j < i - 1
    <3>1. j < i /\ j + 1 < i /\ j < n /\ j + 1 \in 1 .. n /\ j # i /\ j # i - 1 /\ j # n
      BY <1>1, <2>1
    <3>2. w[j] # w[i] /\ w[j] # w[i - 1] /\ w[j] # w[n] /\ w[j] \in D
      BY <1>1, <1>2, <3>1
    <3> QED
      BY <1>1, <1>4, <1>6, <3>1, <3>2
  <2>2. CASE j = i - 1
    <3>1. j < i /\ j < n /\ ~(i < i) /\ j + 1 = i
      BY <1>1, <2>2
    <3> QED
      BY <1>1, <1>4, <1>6, <2>2, <3>1
  <2>3. CASE ~(j < i) /\ j + 1 < n
    <3>1. /\ j < n /\ j + 1 \in 1 .. n /\ ~(j + 1 < i)
          /\ j + 1 # i /\ j + 1 # i - 1 /\ j + 1 # n
      BY <1>1, <2>3
    <3>2. w[j + 1] # w[i] /\ w[j + 1] # w[i - 1] /\ w[j + 1] # w[n] /\ w[j + 1] \in D
      BY <1>1, <1>2, <3>1
    <3>3. u[j] = w[j + 1] /\ u[j + 1] = w[(j + 1) + 1]
      BY <1>6, <2>3, <3>1
    <3> QED
      BY <1>1, <1>4, <2>3, <3>1, <3>2, <3>3
  <2>4. CASE ~(j < i) /\ j + 1 = n
    <3>1. j < n
      BY <2>4
    <3> QED
      BY <1>4, <1>6, <2>4, <3>1
  <2>5. CASE j = n
    BY <1>1, <1>4, <1>6, <2>5
  <2> QED
    BY <1>1, <2>1, <2>2, <2>3, <2>4, <2>5
<1>12. k.front = IF n = 0 THEN NULL ELSE u[1]
  BY <1>1, <1>4, <1>6
<1> QED
  BY <1>1, <1>4, <1>7, <1>9, <1>10, <1>11, <1>12 DEF IsWalk, u, D, g
-----------------------------------------------------------------------------
(* What each call makes of the values.                                     *)

LEMMA BackLinkedShows ==
    ASSUME NEW l, Sound(l), NEW w, NEW s, Shown(l, w, s), s # << >>,
           NEW x \in Node \ DOMAIN l.heap, NEW v \in Value, NEW k, BackLinked(l, x, v, k)
    PROVE  Shows(k, Append(s, v))
<1> DEFINE n == Len(s)
           u == [i \in 1 .. n + 1 |-> IF i = n + 1 THEN x ELSE w[i]]
           t == Append(s, v)
<1>1. s \in Seq(Value) /\ IsWalk(l, w, n) /\ n \in Nat /\ n # 0
  BY DEF Shown
<1>2. /\ t \in Seq(Value) /\ Len(t) = n + 1
      /\ t[n + 1] = v /\ \A i \in 1 .. n : t[i] = s[i]
  BY <1>1
<1>3. IsWalk(k, u, n + 1)
  BY <1>1, BackLinkedWalk
<1>4. u[n + 1] = x /\ \A i \in 1 .. n : u[i] = w[i]
  BY <1>1
<1>5. /\ k.heap[x].value = v
      /\ \A m \in DOMAIN l.heap : k.heap[m].value = l.heap[m].value
  BY DEF BackLinked, Cell
<1> HIDE DEF u, t
<1>6. \A i \in 1 .. n : w[i] \in DOMAIN l.heap /\ s[i] = l.heap[w[i]].value
  BY DEF Shown, IsWalk
<1>7. \A i \in 1 .. n + 1 : t[i] = k.heap[u[i]].value
  <2>1. 1 .. n + 1 = (1 .. n) \cup {n + 1}
    BY <1>1
  <2> QED
    BY <1>2, <1>4, <1>5, <1>6, <2>1
<1>8. Shown(k, u, t)
  BY <1>2, <1>3, <1>7 DEF Shown
<1> QED
  BY <1>8 DEF Shows, t

LEMMA FrontLinkedShows ==
    ASSUME NEW l, Sound(l), NEW w, NEW s, Shown(l, w, s), s # << >>,
           NEW x \in Node \ DOMAIN l.heap, NEW v \in Value, NEW k, FrontLinked(l, x, v, k)
    PROVE  Shows(k, <<v>> \o s)
<1> DEFINE n == Len(s)
           u == [i \in 1 .. n + 1 |-> IF i = 1 THEN x ELSE w[i - 1]]
           t == <<v>> \o s
<1>1. s \in Seq(Value) /\ IsWalk(l, w, n) /\ n \in Nat /\ n # 0
  BY DEF Shown
<1>2. /\ t \in Seq(Value) /\ Len(t) = n + 1
      /\ t[1] = v /\ \A i \in 1 .. n : t[i + 1] = s[i]
  BY <1>1
<1>3. IsWalk(k, u, n + 1)
  BY <1>1, FrontLinkedWalk
<1>4. u[1] = x /\ \A i \in 1 .. n : u[i + 1] = w[i]
  BY <1>1
<1>5. /\ k.heap[x].value = v
      /\ \A m \in DOMAIN l.heap : k.heap[m].value = l.heap[m].value
  BY DEF FrontLinked, Cell
<1> HIDE DEF u, t
<1>6. \A i \in 1 .. n : w[i] \in DOMAIN l.heap /\ s[i] = l.heap[w[i]].value
  BY DEF Shown, IsWalk
<1>7. ASSUME NEW i \in 1 .. n + 1 PROVE t[i] = k.heap[u[i]].value
  <2>1. CASE i = 1
    BY <1>2, <1>4, <1>5, <2>1
  <2>2. CASE i # 1
    <3>1. i - 1 \in 1 .. n /\ (i - 1) + 1 = i
      BY <1>1, <2>2
    <3>2. t[i] = s[i - 1] /\ u[i] = w[i - 1]
      BY <1>2, <1>4, <3>1
    <3> QED
      BY <1>5, <1>6, <3>1, <3>2
  <2> QED
    BY <2>1, <2>2
<1>8. Shown(k, u, t)
  BY <1>2, <1>3, <1>7 DEF Shown
<1> QED
  BY <1>8 DEF Shows, t

LEMMA FirstNodeShows ==
    ASSUME NEW l, Sound(l), IsEmpty(l), NEW x \in Node, NEW v \in Value
    PROVE  Shows(List(x, x, Allocated(l.heap, x, Cell(v, NULL, NULL))), <<v>>)
<1> DEFINE g == Allocated(l.heap, x, Cell(v, NULL, NULL))
           k == List(x, x, g)
           u == [i \in 1 .. 1 |-> x]
<1>1. DOMAIN g = {x} /\ g[x].value = v /\ g[x].next = NULL
  BY EndFacts DEF Allocated, Cell
<1>2. k.front = x /\ k.heap = g
  BY DEF List
<1> HIDE DEF g, k
<1>3. /\ <<v>> \in Seq(Value) /\ Len(<<v>>) = 1 /\ <<v>>[1] = v
      /\ \A i \in 1 .. 1 : i = 1
  OBVIOUS
<1>4. IsWalk(k, u, 1)
  BY <1>1, <1>2, <1>3 DEF IsWalk
<1>5. Shown(k, u, <<v>>)
  BY <1>1, <1>2, <1>3, <1>4 DEF Shown
<1> QED
  BY <1>5 DEF Shows, k, g

(* The tests of the code are tests of the length.                          *)
LEMMA NoneShown ==
    ASSUME NEW l, Sound(l), NEW s, Shows(l, s)
    PROVE  /\ s \in Seq(Value)
           /\ IsEmpty(l) <=> s = << >>
           /\ l.front = l.back <=> Len(s) \in {0, 1}
<1>1. PICK w : Shown(l, w, s)
  BY DEF Shows
<1>2. s \in Seq(Value) /\ IsWalk(l, w, Len(s))
  BY <1>1 DEF Shown
<1>3. IsEmpty(l) <=> Len(s) = 0
  BY <1>2, WalkFacts
<1>4. l.front = l.back <=> Len(s) \in {0, 1}
  <2>1. CASE Len(s) = 0
    BY <1>3, <2>1, EndFacts
  <2>2. CASE Len(s) # 0
    BY <1>2, <2>2, WalkFacts
  <2> QED
    BY <2>1, <2>2
<1> QED
  BY <1>2, <1>3, <1>4

LEMMA LinkedShows ==
    ASSUME NEW l, Sound(l), NEW s, Shows(l, s),
           NEW x \in Node \ DOMAIN l.heap, NEW v \in Value
    PROVE  /\ Shows(LinkedBack(l, x, v), Append(s, v))
           /\ Shows(LinkedFront(l, x, v), <<v>> \o s)
<1>1. CASE IsEmpty(l)
  <2>1. s = << >>
    BY <1>1, NoneShown
  <2>2. Append(<< >>, v) = <<v>> /\ <<v>> \o << >> = <<v>>
    OBVIOUS
  <2> QED
    BY <1>1, <2>1, <2>2, FirstNodeShows DEF LinkedBack, LinkedFront
<1>2. CASE ~IsEmpty(l)
  <2>1. PICK w : Shown(l, w, s)
    BY DEF Shows
  <2>2. s # << >>
    BY <1>2, NoneShown
  <2>3. BackLinked(l, x, v, LinkedBack(l, x, v))
    BY <1>2, LinkedBackIs
  <2>4. FrontLinked(l, x, v, LinkedFront(l, x, v))
    BY <1>2, LinkedFrontIs
  <2> QED
    BY <2>1, <2>2, <2>3, <2>4, BackLinkedShows, FrontLinkedShows
<1> QED
  BY <1>1, <1>2

LEMMA EmptyShows ==
    ASSUME NEW h, DOMAIN h = {}
    PROVE  Shows(List(NULL, NULL, h), << >>)
<1> DEFINE k == List(NULL, NULL, h)
           u == [i \in 1 .. 0 |-> NULL]
<1>1. k.front = NULL /\ k.heap = h
  BY DEF List
<1> HIDE DEF k
<1>2. << >> \in Seq(Value) /\ Len(<< >>) = 0 /\ 1 .. 0 = {}
  OBVIOUS
<1>3. IsWalk(k, u, 0)
  BY <1>1, <1>2 DEF IsWalk
<1>4. Shown(k, u, << >>)
  BY <1>1, <1>2, <1>3 DEF Shown
<1> QED
  BY <1>4 DEF Shows, k

LEMMA LastNodeShows ==
    ASSUME NEW l, Sound(l), ~IsEmpty(l), l.front = l.back
    PROVE  Shows(List(NULL, NULL, Freed(l.heap, l.front)), << >>)
<1>1. l.front \in DOMAIN l.heap /\ l.heap[l.front].next = NULL
  BY EndFacts, NodeFacts
<1>2. Closed(l, {l.front})
  BY <1>1 DEF Closed
<1>3. DOMAIN l.heap = {l.front}
  BY <1>1, <1>2 DEF Sound, NoneLost
<1>4. DOMAIN Freed(l.heap, l.front) = {}
  BY <1>3 DEF Freed
<1> QED
  BY <1>4, EmptyShows

LEMMA PoppedFrontShows ==
    ASSUME NEW l, Sound(l), NEW s, Shows(l, s)
    PROVE  Shows(PoppedFront(l), IF s = << >> THEN << >> ELSE Tail(s))
<1>1. CASE IsEmpty(l)
  BY <1>1, NoneShown DEF PoppedFront
<1>2. CASE ~IsEmpty(l) /\ l.front = l.back
  <2>1. s \in Seq(Value) /\ Len(s) = 1
    BY <1>2, NoneShown
  <2>2. s # << >> /\ Tail(s) = << >>
    <3>1. s # << >>
      BY <2>1
    <3>2. Tail(s) \in Seq(Value) /\ Len(Tail(s)) = 0
      BY <2>1, <3>1, HeadTailProperties
    <3> QED
      BY <3>1, <3>2, EmptySeq
  <2> QED
    BY <1>2, <2>2, LastNodeShows DEF PoppedFront
<1>3. CASE ~IsEmpty(l) /\ l.front # l.back
  <2> DEFINE k == PoppedFront(l)
             n == Len(s)
             t == Tail(s)
  <2>1. PICK w : Shown(l, w, s)
    BY DEF Shows
  <2> DEFINE u == [i \in 1 .. n - 1 |-> w[i + 1]]
  <2>2. FrontPopped(l, k)
    BY <1>3, PoppedFrontIs
  <2>3. s \in Seq(Value) /\ IsWalk(l, w, n) /\ n \in Nat /\ n \notin {0, 1} /\ s # << >>
    BY <1>3, <2>1, NoneShown DEF Shown
  <2> HIDE DEF k
  <2>4. IsWalk(k, u, n - 1)
    BY <2>2, <2>3, FrontPoppedWalk
  <2>5. /\ t \in Seq(Value) /\ Len(t) = n - 1
        /\ \A i \in 1 .. n - 1 : t[i] = s[i + 1] /\ i + 1 \in 1 .. n /\ i + 1 # 1
    BY <2>3
  <2>6. \A m \in DOMAIN l.heap \ {w[1]} : k.heap[m].value = l.heap[m].value
    BY <2>2, <2>3, WalkFacts DEF FrontPopped, Cell
  <2>7. /\ \A i \in 1 .. n : w[i] \in DOMAIN l.heap /\ s[i] = l.heap[w[i]].value
        /\ \A i, j \in 1 .. n : w[i] = w[j] => i = j
        /\ 1 \in 1 .. n
    BY <2>1, <2>3 DEF Shown, IsWalk
  <2>8. \A i \in 1 .. n - 1 : u[i] = w[i + 1]
    OBVIOUS
  <2> HIDE DEF u, t
  <2>9. \A i \in 1 .. n - 1 : t[i] = k.heap[u[i]].value
    BY <2>5, <2>6, <2>7, <2>8
  <2>10. Shown(k, u, t)
    BY <2>4, <2>5, <2>9 DEF Shown
  <2> QED
    BY <2>3, <2>10 DEF Shows, k, t
<1> QED
  BY <1>1, <1>2, <1>3

LEMMA AllButLast ==
    ASSUME NEW s \in Seq(Value), NEW n \in Nat, Len(s) = n + 1, n # 0
    PROVE  /\ SubSeq(s, 1, n) \in Seq(Value)
           /\ Len(SubSeq(s, 1, n)) = n
           /\ \A i \in 1 .. n : SubSeq(s, 1, n)[i] = s[i]
<1>1. n \in Int /\ 1 \in Int /\ 1 <= n
  OBVIOUS
<1>2. \A i \in 1 .. n : s[i] \in Value
  OBVIOUS
<1>3. Len(SubSeq(s, 1, n)) = n
  OBVIOUS
<1>4. \A i \in 1 .. n : SubSeq(s, 1, n)[i] = s[i]
  OBVIOUS
<1>5. SubSeq(s, 1, n) \in Seq(Value)
  BY <1>1, <1>2, SubSeqProperties
<1> QED
  BY <1>1, <1>3, <1>4, <1>5

LEMMA PoppedBackShows ==
    ASSUME NEW l, Sound(l), NEW s, Shows(l, s)
    PROVE  Shows(PoppedBack(l), SubSeq(s, 1, Len(s) - 1))
<1>1. CASE IsEmpty(l)
  <2>1. s = << >>
    BY <1>1, NoneShown
  <2>2. SubSeq(s, 1, Len(s) - 1) = << >>
    BY <2>1
  <2> QED
    BY <1>1, <2>1, <2>2 DEF PoppedBack
<1>2. CASE ~IsEmpty(l) /\ l.front = l.back
  <2>1. s \in Seq(Value) /\ Len(s) = 1
    BY <1>2, NoneShown
  <2>2. SubSeq(s, 1, Len(s) - 1) = << >>
    BY <2>1
  <2> QED
    BY <1>2, <2>2, LastNodeShows DEF PoppedBack
<1>3. CASE ~IsEmpty(l) /\ l.front # l.back
  <2> DEFINE k == PoppedBack(l)
             n == Len(s)
             t == SubSeq(s, 1, n - 1)
  <2>1. PICK w : Shown(l, w, s)
    BY DEF Shows
  <2> DEFINE u == [i \in 1 .. n - 1 |-> w[i]]
  <2>2. BackPopped(l, k)
    BY <1>3, PoppedBackIs
  <2>3. s \in Seq(Value) /\ IsWalk(l, w, n) /\ n \in Nat /\ n \notin {0, 1}
    BY <1>3, <2>1, NoneShown DEF Shown
  <2> HIDE DEF k
  <2>4. IsWalk(k, u, n - 1)
    BY <2>2, <2>3, BackPoppedWalk
  <2>5. /\ t \in Seq(Value) /\ Len(t) = n - 1
        /\ \A i \in 1 .. n - 1 : t[i] = s[i] /\ i \in 1 .. n /\ i # n
    <3>1. n - 1 \in Nat /\ n - 1 # 0 /\ Len(s) = (n - 1) + 1
      BY <2>3
    <3>2. \A i \in 1 .. n - 1 : i \in 1 .. n /\ i # n
      BY <2>3
    <3> QED
      BY <2>3, <3>1, <3>2, AllButLast
  <2>6. \A m \in DOMAIN l.heap \ {w[n]} : k.heap[m].value = l.heap[m].value
    BY <2>2, <2>3, WalkFacts DEF BackPopped, Cell
  <2>7. /\ \A i \in 1 .. n : w[i] \in DOMAIN l.heap /\ s[i] = l.heap[w[i]].value
        /\ \A i, j \in 1 .. n : w[i] = w[j] => i = j
        /\ n \in 1 .. n
    BY <2>1, <2>3 DEF Shown, IsWalk
  <2>8. \A i \in 1 .. n - 1 : u[i] = w[i]
    OBVIOUS
  <2> HIDE DEF u, t
  <2>9. \A i \in 1 .. n - 1 : t[i] = k.heap[u[i]].value
    BY <2>5, <2>6, <2>7, <2>8
  <2>10. Shown(k, u, t)
    BY <2>4, <2>5, <2>9 DEF Shown
  <2> QED
    BY <2>10 DEF Shows, k, t
<1> QED
  BY <1>1, <1>2, <1>3

(* move_back moves a node, with its value.                                 *)
LEMMA RelinkedValues ==
    ASSUME NEW l, NEW n, NEW k, BackRelinked(l, n, k), NEW m \in DOMAIN l.heap
    PROVE  k.heap[m].value = l.heap[m].value
<1> DEFINE h == l.heap
           p == h[n].previous
           q == h[n].next
           b == l.back
           g == k.heap
<1>1. /\ g[n] = Cell(h[n].value, b, NULL)
      /\ g[p] = Cell(h[p].value, h[p].previous, q)
      /\ q # b => g[q] = Cell(h[q].value, p, h[q].next)
      /\ q # b => g[b] = Cell(h[b].value, h[b].previous, n)
      /\ q = b => g[b] = Cell(h[b].value, p, n)
      /\ \A x \in DOMAIN h \ {n, p, q, b} : g[x] = h[x]
  BY DEF BackRelinked
<1>2. \A v, x, y : Cell(v, x, y).value = v
  BY DEF Cell
<1>3. m \in DOMAIN h
  OBVIOUS
<1> HIDE DEF h, p, q, b, g
<1>4. g[m].value = h[m].value
  BY <1>1, <1>2, <1>3
<1> QED
  BY <1>4 DEF g, h

(* A node in the middle goes to the back.                                  *)
LEMMA RelinkedShows ==
    ASSUME NEW l, Sound(l), NEW w, NEW s, Shown(l, w, s),
           NEW i \in 2 .. Len(s) - 1
    PROVE  Shows(Relinked(l, w[i]), Sequence!ToBack(s, i))
<1> DEFINE k == Relinked(l, w[i])
           n == Len(s)
           t == Sequence!ToBack(s, i)
           u == [j \in 1 .. n |-> IF j < i THEN w[j] ELSE IF j < n THEN w[j + 1] ELSE w[i]]
<1>1. s \in Seq(Value) /\ IsWalk(l, w, n) /\ n \in Nat
  BY DEF Shown
<1>2. i \in 1 .. n /\ i # 1 /\ i # n /\ 1 \in 1 .. n /\ n \in 1 .. n /\ n # 0 /\ i < n
  BY <1>1
<1>3. BackRelinked(l, w[i], k)
  <2>1. /\ l.front = w[1] /\ ~IsEmpty(l) /\ w[i] \in DOMAIN l.heap
        /\ \A m \in 1 .. n : w[m] # NULL
    BY <1>1, <1>2, WalkFacts
  <2>2. w[i] # w[1]
    BY <1>1, <1>2 DEF IsWalk
  <2>3. l.heap[w[i]].next = w[i + 1] /\ i + 1 \in 1 .. n
    BY <1>1, <1>2 DEF IsWalk
  <2> QED
    BY <2>1, <2>2, <2>3, RelinkedIs
<1> HIDE DEF k
<1>4. IsWalk(k, u, n)
  BY <1>1, <1>3, BackRelinkedWalk
<1>5. ASSUME NEW m \in DOMAIN l.heap PROVE k.heap[m].value = l.heap[m].value
  BY <1>3, RelinkedValues
<1>6. \A j \in 1 .. n : w[j] \in DOMAIN l.heap /\ s[j] = l.heap[w[j]].value
  BY <1>1 DEF Shown, IsWalk
<1>7. /\ t \in Seq(Value) /\ Len(t) = n
      /\ \A j \in 1 .. n : t[j] = IF j < i THEN s[j] ELSE IF j < n THEN s[j + 1] ELSE s[i]
  <2>1. t = [j \in 1 .. n |-> IF j < i THEN s[j] ELSE IF j < n THEN s[j + 1] ELSE s[i]]
    BY DEF Sequence!ToBack
  <2>2. t \in [1 .. n -> Value]
    BY <1>1, <1>2, <2>1
  <2> HIDE DEF t
  <2>3. t \in Seq(Value) /\ Len(t) = n
    BY <1>1, <2>2, IsASeq
  <2> QED
    BY <2>1, <2>3
<1>8. ASSUME NEW j \in 1 .. n PROVE t[j] = k.heap[u[j]].value
  <2> HIDE DEF t
  <2>1. u[j] = IF j < i THEN w[j] ELSE IF j < n THEN w[j + 1] ELSE w[i]
    OBVIOUS
  <2>2. j < n => j + 1 \in 1 .. n
    BY <1>1
  <2> HIDE DEF u
  <2> QED
    BY <1>2, <1>5, <1>6, <1>7, <2>1, <2>2
<1>9. Shown(k, u, t)
  BY <1>4, <1>7, <1>8 DEF Shown
<1> QED
  BY <1>9 DEF Shows, k

(* malloc has a node to give exactly when the sequence has room.           *)
LEMMA ShownRoom ==
    ASSUME NEW l, Sound(l), NEW s, Shows(l, s), IsFiniteSet(Node)
    PROVE  /\ Cardinality(Node) \in Nat /\ Len(s) \in Nat /\ Len(s) <= Cardinality(Node)
           /\ Sequence!HasRoom(s) <=> ~(Node \subseteq DOMAIN l.heap)
<1> DEFINE D == DOMAIN l.heap
           n == Len(s)
<1>1. PICK w : Shown(l, w, s)
  BY DEF Shows
<1>2. IsWalk(l, w, n) /\ n \in Nat
  BY <1>1 DEF Shown, IsWalk
<1>3. D \subseteq Node
  BY DEF Sound, HeapType
<1> HIDE DEF D, n
<1>4. w \in Bijection(1 .. n, D)
  BY <1>2 DEF IsWalk, D, Bijection, Injection, Surjection, IsInjective
<1>5. Cardinality(D) = n
  BY <1>2, <1>4, FS_CountingElements DEF ExistsBijection
<1>6. Cardinality(Node) \in Nat
  BY FS_CardinalityType
<1>7. n <= Cardinality(Node) /\ (Cardinality(Node) = n => Node = D)
  BY <1>3, <1>5, FS_Subset
<1>8. Node \subseteq D => Cardinality(Node) = n
  <2>1. Node \subseteq D => Node = D
    BY <1>3
  <2> QED
    BY <1>5, <2>1
<1> QED
  BY <1>2, <1>6, <1>7, <1>8 DEF Sequence!HasRoom, n, D

LEMMA PushedShows ==
    ASSUME NEW l, Sound(l), NEW s, Shows(l, s), IsFiniteSet(Node), NEW v \in Value
    PROVE  /\ \A k \in PushedBack(l, v) :
                 Shows(k, IF Sequence!HasRoom(s) THEN Append(s, v) ELSE s)
           /\ \A k \in PushedFront(l, v) :
                 Shows(k, IF Sequence!HasRoom(s) THEN <<v>> \o s ELSE s)
<1>1. CASE Sequence!HasRoom(s)
  <2>1. \A x \in Malloc(l.heap) : x # NULL /\ x \in Node \ DOMAIN l.heap
    BY <1>1, ShownRoom, HeapAssumption DEF Malloc
  <2> QED
    BY <1>1, <2>1, LinkedShows DEF PushedBack, PushedFront
<1>2. CASE ~Sequence!HasRoom(s)
  <2>1. \A x \in Malloc(l.heap) : x = NULL
    BY <1>2, ShownRoom DEF Malloc
  <2> QED
    BY <1>2, <2>1 DEF PushedBack, PushedFront
<1> QED
  BY <1>1, <1>2

(* The front goes to the back as a copy.                                   *)
LEMMA FrontMovedShows ==
    ASSUME NEW l, Sound(l), NEW s, Shows(l, s), IsFiniteSet(Node),
           Len(s) > 1, NEW k \in FrontMoved(l)
    PROVE  Shows(k, Sequence!Moved(s, 1))
<1> DEFINE v == l.heap[l.front].value
           t == IF Sequence!HasRoom(s) THEN Append(s, v) ELSE s
<1>1. PICK w : Shown(l, w, s)
  BY DEF Shows
<1>2. s \in Seq(Value) /\ Len(s) \in Nat /\ 1 \in 1 .. Len(s) /\ v = s[1]
  <2>1. s \in Seq(Value) /\ IsWalk(l, w, Len(s)) /\ Len(s) \in Nat /\ 1 \in 1 .. Len(s)
    BY <1>1 DEF Shown
  <2>2. l.front = w[1]
    BY <2>1 DEF IsWalk
  <2> QED
    BY <1>1, <2>1, <2>2 DEF Shown
<1>3. v \in Value
  BY <1>2
<1> HIDE DEF v
<1>4. PICK pushed \in PushedBack(l, v) : k = PoppedFront(pushed)
  BY DEF FrontMoved, v
<1>5. Sound(pushed) /\ Shows(pushed, t)
  BY <1>3, <1>4, PushedSound, PushedShows
<1>6. Shows(k, IF t = << >> THEN << >> ELSE Tail(t))
  BY <1>4, <1>5, PoppedFrontShows
<1>7. CASE Sequence!HasRoom(s)
  <2>1. t = Append(s, s[1])
    BY <1>2, <1>7
  <2>2. t # << >> /\ Len(t) = Len(s) + 1 /\ t \in Seq(Value)
    BY <1>2, <2>1
  <2>3. Tail(t) = Sequence!ToBack(s, 1)
    <3> DEFINE u == [j \in 1 .. Len(s) |->
                        IF j < 1 THEN s[j] ELSE IF j < Len(s) THEN s[j + 1] ELSE s[1]]
    <3>1. Tail(t) \in [1 .. Len(s) -> Value]
      <4>1. Tail(t) \in Seq(Value) /\ Len(Tail(t)) = Len(s)
        BY <1>2, <2>2, HeadTailProperties
      <4> QED
        BY <4>1, LenProperties
    <3>2. \A j \in 1 .. Len(s) : Tail(t)[j] = u[j]
      BY <1>2, <2>1
    <3> HIDE DEF t
    <3>3. Tail(t) = u
      BY <3>1, <3>2
    <3> QED
      BY <3>3 DEF Sequence!ToBack
  <2> QED
    BY <1>6, <1>7, <2>2, <2>3 DEF Sequence!Moved
<1>8. CASE ~Sequence!HasRoom(s)
  <2>1. s # << >>
    BY <1>2
  <2> QED
    BY <1>6, <1>8, <2>1 DEF Sequence!Moved
<1> QED
  BY <1>7, <1>8

(* An element at the back stays where it is.                               *)
LEMMA LastToBack ==
    ASSUME NEW s \in Seq(Value), Len(s) # 0
    PROVE  Sequence!ToBack(s, Len(s)) = s
<1> DEFINE t == [j \in 1 .. Len(s) |->
                    IF j < Len(s) THEN s[j] ELSE IF j < Len(s) THEN s[j + 1] ELSE s[Len(s)]]
<1>1. t \in [1 .. Len(s) -> Value]
  OBVIOUS
<1>2. \A j \in 1 .. Len(s) : t[j] = s[j]
  OBVIOUS
<1>3. t = s
  BY <1>1, <1>2
<1> QED
  BY <1>3 DEF Sequence!ToBack

LEMMA MovedShows ==
    ASSUME NEW l, Sound(l), NEW s, Shows(l, s), IsFiniteSet(Node),
           NEW m \in DOMAIN l.heap, NEW k \in MovedBack(l, m)
    PROVE  \E i \in 1 .. Len(s) : Shows(k, Sequence!Moved(s, i))
<1> DEFINE n == Len(s)
<1>1. PICK w : Shown(l, w, s)
  BY DEF Shows
<1>2. s \in Seq(Value) /\ IsWalk(l, w, n) /\ n \in Nat
  BY <1>1 DEF Shown
<1>3. PICK i \in 1 .. n : w[i] = m
  BY <1>2 DEF IsWalk
<1>4. n # 0 /\ 1 \in 1 .. n /\ n \in 1 .. n
  BY <1>2, <1>3
<1> HIDE DEF n
<1>5. /\ ~IsEmpty(l) /\ l.front = w[1] /\ (l.front = l.back <=> n = 1)
      /\ \A j \in 1 .. n : w[j] # NULL
  BY <1>2, <1>4, WalkFacts
<1>6. CASE i = n /\ (n = 1 \/ i # 1)
  <2>1. n = 1 \/ (m # l.front /\ l.heap[m].next = NULL)
    BY <1>2, <1>3, <1>4, <1>5, <1>6 DEF IsWalk
  <2>2. k = l
    BY <1>5, <2>1 DEF MovedBack
  <2>3. Sequence!Moved(s, n) = s
    <3>1. Sequence!ToBack(s, n) = s
      BY <1>2, <1>4, LastToBack DEF n
    <3>2. n = Len(s) /\ ~(1 > 1)
      BY DEF n
    <3> QED
      BY <3>1, <3>2 DEF Sequence!Moved
  <2> QED
    BY <1>4, <2>2, <2>3 DEF n
<1>7. CASE i = 1 /\ n # 1
  <2>1. k \in FrontMoved(l)
    BY <1>3, <1>5, <1>7 DEF MovedBack
  <2>2. n > 1
    BY <1>4, <1>7
  <2> QED
    BY <1>4, <2>1, <2>2, FrontMovedShows DEF n
<1>8. CASE i # 1 /\ i # n
  <2>1. i \in 2 .. n - 1 /\ n # 1
    BY <1>2, <1>8
  <2>2. m # l.front /\ l.heap[m].next # NULL
    <3>1. i < n /\ i + 1 \in 1 .. n
      BY <1>2, <1>8
    <3> QED
      BY <1>2, <1>3, <1>4, <1>5, <1>8, <3>1 DEF IsWalk
  <2>3. k = Relinked(l, m)
    BY <1>5, <2>1, <2>2 DEF MovedBack
  <2>4. Sequence!Moved(s, i) = Sequence!ToBack(s, i)
    BY <1>8 DEF Sequence!Moved
  <2> QED
    BY <1>1, <1>3, <2>1, <2>3, <2>4, RelinkedShows DEF n
<1> QED
  BY <1>6, <1>7, <1>8 DEF n

LEMMA ClearedShows == ASSUME NEW l, Sound(l) PROVE Shows(Cleared(l), << >>)
<1> DEFINE h == [m \in DOMAIN l.heap \ Reached(l) |-> l.heap[m]]
<1>1. DOMAIN h = {}
  BY ReachedAll
<1> QED
  BY <1>1, EmptyShows DEF Cleared
-----------------------------------------------------------------------------
(* The recursive function that walks the list is the walk.                 *)

LEMMA LeastNat ==
    ASSUME NEW T, T \subseteq Nat, T # {}
    PROVE  \E x \in T : \A y \in T : ~(y < x)
<1>1. \E x \in T : \A y \in T : ~(<<y, x>> \in OpToRel(<, Nat))
  BY NatLessThanWellFounded, WFMin
<1>2. PICK x \in T : \A y \in T : ~(<<y, x>> \in OpToRel(<, Nat))
  BY <1>1
<1>3. \A y \in T : y < x => <<y, x>> \in OpToRel(<, Nat)
  BY DEF OpToRel
<1> QED
  BY <1>2, <1>3

(* Only one function satisfies the equation that defines Steps.            *)
LEMMA StepsAre ==
    ASSUME NEW l, NEW g,
           g = [k \in 0 .. Cardinality(Node) |->
                  IF k = 0 THEN l.front
                  ELSE IF g[k - 1] = NULL THEN NULL ELSE l.heap[g[k - 1]].next],
           Cardinality(Node) \in Nat
    PROVE  Steps(l) = g
<1> DEFINE C == Cardinality(Node)
           Is(f) == f = [k \in 0 .. C |-> IF k = 0 THEN l.front
                            ELSE IF f[k - 1] = NULL THEN NULL ELSE l.heap[f[k - 1]].next]
<1>1. Steps(l) = CHOOSE f : Is(f)
  BY DEF Steps
<1>2. Is(g)
  OBVIOUS
<1>3. Is(Steps(l))
  <2> HIDE DEF Is
  <2>1. Is(CHOOSE f : Is(f))
    BY <1>2, Zenon
  <2> QED
    BY <1>1, <2>1, Zenon
<1> DEFINE s == Steps(l)
<1>4. s = [k \in 0 .. C |-> IF k = 0 THEN l.front
                            ELSE IF s[k - 1] = NULL THEN NULL ELSE l.heap[s[k - 1]].next]
  BY <1>3
<1> HIDE DEF s
<1>5. \A k \in 0 .. C : s[k] = g[k]
  <2> DEFINE T == {k \in 0 .. C : s[k] # g[k]}
  <2>1. SUFFICES ASSUME T # {} PROVE FALSE
    OBVIOUS
  <2>2. PICK k \in T : \A j \in T : ~(j < k)
    <3>1. T \subseteq Nat
      OBVIOUS
    <3> HIDE DEF T
    <3> QED
      BY <2>1, <3>1, LeastNat
  <2>3. k \in 0 .. C /\ s[k] # g[k]
    OBVIOUS
  <2>4. CASE k = 0
    BY <1>4, <2>3, <2>4
  <2>5. CASE k # 0
    <3>1. k - 1 \in 0 .. C /\ k - 1 < k
      BY <2>3, <2>5
    <3>2. s[k - 1] = g[k - 1]
      BY <2>2, <3>1
    <3> QED
      BY <1>4, <2>3, <2>5, <3>2
  <2> QED
    BY <2>4, <2>5
<1> QED
  BY <1>4, <1>5 DEF s

(* The values the refinement reads off a list are those it shows.          *)
LEMMA ValuesAre ==
    ASSUME NEW l, Sound(l), NEW s, Shows(l, s), IsFiniteSet(Node)
    PROVE  Values(l) = s
<1> DEFINE n == Len(s)
           C == Cardinality(Node)
<1>1. PICK w : Shown(l, w, s)
  BY DEF Shows
<1>2. s \in Seq(Value) /\ IsWalk(l, w, n)
  BY <1>1 DEF Shown
<1>3. C \in Nat /\ n \in Nat /\ n <= C
  BY ShownRoom
<1>4. /\ \A i \in 1 .. n : w[i] # NULL
      /\ l.front = IF n = 0 THEN NULL ELSE w[1]
      /\ \A i \in 1 .. n : l.heap[w[i]].next = IF i < n THEN w[i + 1] ELSE NULL
      /\ \A i \in 1 .. n : s[i] = l.heap[w[i]].value
  <2>1. \A i \in 1 .. n : w[i] # NULL
    BY <1>2, WalkFacts
  <2> QED
    BY <1>1, <2>1 DEF Shown, IsWalk
<1> DEFINE at == [k \in 0 .. C |-> IF k < n THEN w[k + 1] ELSE NULL]
<1> HIDE DEF n, C
<1>5. at = [k \in 0 .. C |-> IF k = 0 THEN l.front
                             ELSE IF at[k - 1] = NULL THEN NULL ELSE l.heap[at[k - 1]].next]
  <2>1. ASSUME NEW k \in 0 .. C
        PROVE  at[k] = IF k = 0 THEN l.front
                       ELSE IF at[k - 1] = NULL THEN NULL ELSE l.heap[at[k - 1]].next
    <3>1. CASE k = 0
      BY <1>3, <1>4, <3>1
    <3>2. CASE k # 0 /\ k - 1 < n
      <4>1. k - 1 \in 0 .. C /\ k \in 1 .. n /\ (k - 1) + 1 = k
        BY <1>3, <3>2
      <4>2. at[k - 1] = w[k]
        BY <3>2, <4>1
      <4>3. at[k] = IF k < n THEN w[k + 1] ELSE NULL
        OBVIOUS
      <4> HIDE DEF at
      <4> QED
        BY <1>4, <3>2, <4>1, <4>2, <4>3
    <3>3. CASE k # 0 /\ ~(k - 1 < n)
      <4>1. k - 1 \in 0 .. C /\ ~(k < n)
        BY <1>3, <3>3
      <4> QED
        BY <3>3, <4>1
    <3> QED
      BY <3>1, <3>2, <3>3
  <2> DEFINE e == [k \in 0 .. C |-> IF k = 0 THEN l.front
                             ELSE IF at[k - 1] = NULL THEN NULL ELSE l.heap[at[k - 1]].next]
  <2>2. \A k \in 0 .. C : at[k] = e[k]
    BY <2>1
  <2>3. at = [k \in 0 .. C |-> at[k]] /\ e = [k \in 0 .. C |-> e[k]]
    OBVIOUS
  <2> HIDE DEF at, e
  <2>4. at = e
    BY <2>2, <2>3
  <2> QED
    BY <2>4 DEF e
<1>6. DOMAIN at = 0 .. C /\ \A k \in 0 .. C : at[k] = IF k < n THEN w[k + 1] ELSE NULL
  OBVIOUS
<1> HIDE DEF at
<1>7. Steps(l) = at
  BY <1>3, <1>5, StepsAre DEF C
<1>8. Cardinality({i \in DOMAIN at : at[i] # NULL}) = n
  <2>1. {i \in DOMAIN at : at[i] # NULL} = 0 .. n - 1
    <3>1. \A i \in 0 .. C : i < n => i + 1 \in 1 .. n
      BY <1>3
    <3>2. \A i \in 0 .. C : at[i] # NULL <=> i < n
      BY <1>4, <1>6, <3>1
    <3>3. \A i \in 0 .. C : i < n <=> i \in 0 .. n - 1
      BY <1>3
    <3>4. 0 .. n - 1 \subseteq 0 .. C
      BY <1>3
    <3> QED
      BY <1>6, <3>2, <3>3, <3>4
  <2>2. Cardinality(0 .. n - 1) = n
    BY <1>3, FS_Interval
  <2> QED
    BY <2>1, <2>2, Zenon
<1>9. Values(l) = [k \in 1 .. n |-> l.heap[at[k - 1]].value]
  BY <1>7, <1>8 DEF Values
<1>10. \A k \in 1 .. n : l.heap[at[k - 1]].value = s[k]
  <2>1. \A k \in 1 .. n : k - 1 \in 0 .. C /\ k - 1 < n /\ (k - 1) + 1 = k
    BY <1>3
  <2> QED
    BY <1>4, <1>6, <2>1
<1>11. s = [k \in 1 .. n |-> s[k]]
  BY <1>2 DEF n
<1> QED
  BY <1>9, <1>10, <1>11
-----------------------------------------------------------------------------
(* What a call makes of the list is what the next state shows.             *)
LEMMA BecomesShows ==
    ASSUME NEW l, Becomes(l), NEW s, Shows(l, s)
    PROVE  Shows(This', s)
<1>1. This'.front = l.front /\ This'.heap = l.heap
  BY DEF Becomes, This
<1>2. PICK w : Shown(l, w, s)
  BY DEF Shows
<1>3. IsWalk(l, w, Len(s)) /\ s \in Seq(Value)
      /\ \A i \in 1 .. Len(s) : s[i] = l.heap[w[i]].value
  BY <1>2 DEF Shown
<1>4. IsWalk(This', w, Len(s))
  BY <1>1, <1>3 DEF IsWalk
<1>5. Shown(This', w, s)
  BY <1>1, <1>3, <1>4 DEF Shown
<1> QED
  BY <1>5 DEF Shows

(* Every call does to the sequence what ListSeq says.                      *)
LEMMA SequenceStep ==
    ASSUME IsFiniteSet(Node), Sound(This), NEW s, Shows(This, s), Next
    PROVE  \E t : /\ Shows(This', t)
                  /\ \/ \E v \in Value :
                           \/ t = IF Sequence!HasRoom(s) THEN Append(s, v) ELSE s
                           \/ t = IF Sequence!HasRoom(s) THEN <<v>> \o s ELSE s
                     \/ t = IF s = << >> THEN << >> ELSE Tail(s)
                     \/ t = SubSeq(s, 1, Len(s) - 1)
                     \/ \E i \in 1 .. Len(s) : t = Sequence!Moved(s, i)
                     \/ t = << >>
<1> DEFINE Back(v) == IF Sequence!HasRoom(s) THEN Append(s, v) ELSE s
           Front(v) == IF Sequence!HasRoom(s) THEN <<v>> \o s ELSE s
<1>1. ASSUME NEW v \in Value, PushBack(v) PROVE Shows(This', Back(v))
  BY <1>1, PushedShows, BecomesShows DEF PushBack
<1>2. ASSUME NEW v \in Value, PushFront(v) PROVE Shows(This', Front(v))
  BY <1>2, PushedShows, BecomesShows DEF PushFront
<1>3. CASE PopFront
  BY <1>3, PoppedFrontShows, BecomesShows DEF PopFront
<1>4. CASE PopBack
  BY <1>4, PoppedBackShows, BecomesShows DEF PopBack
<1>5. ASSUME NEW n \in DOMAIN heap, MoveBack(n)
      PROVE  \E i \in 1 .. Len(s) : Shows(This', Sequence!Moved(s, i))
  <2>1. n \in DOMAIN This.heap
    BY DEF This
  <2> QED
    BY <1>5, <2>1, MovedShows, BecomesShows DEF MoveBack
<1>6. CASE Clear
  BY <1>6, ClearedShows, BecomesShows DEF Clear
<1> HIDE DEF Back, Front
<1>7. CASE \E v \in Value : PushBack(v) \/ PushFront(v)
  BY <1>1, <1>2, <1>7 DEF Back, Front
<1> QED
  BY <1>3, <1>4, <1>5, <1>6, <1>7 DEF Next

(* These values are read off the list of the next state.                   *)
LEMMA NextValues == Values(This)' = Values(This')
OBVIOUS

LEMMA NextSoundValue == Sound(This)' <=> Sound(This')
OBVIOUS

LEMMA NextShows == Shows(This, Values(This))' <=> Shows(This', Values(This)')
OBVIOUS

(* The linked nodes behave as the sequence of ListSeq, for a heap of any   *)
(* finite size: each push adds its value at its end unless memory is full, *)
(* each pop takes one away, and a move changes nothing but the place of    *)
(* one element, except that moving the front of a list when memory is full *)
(* loses it.                                                               *)
THEOREM ListIsSequence ==
    ASSUME IsFiniteSet(Node)
    PROVE  Spec => ImplementsSequence
<1> DEFINE IInv == Sound(This) /\ Shows(This, Values(This))
<1>1. ASSUME Init PROVE IInv /\ Sequence!Init
  <2>1. This = List(NULL, NULL, heap) /\ DOMAIN heap = {}
    BY <1>1 DEF Init, This, List
  <2>2. Sound(This) /\ Shows(This, << >>)
    BY <1>1, <2>1, InitSound, EmptyShows
  <2>3. Values(This) = << >>
    BY <2>2, ValuesAre
  <2> QED
    BY <2>2, <2>3 DEF Sequence!Init
<1>2. ASSUME IInv, [Next]_vars PROVE IInv' /\ [Sequence!Next]_(Values(This))
  <2>1. Sound(This)'
    BY <1>2, NextSound
  <2>2. CASE UNCHANGED vars
    <3>1. This' = This
      BY <2>2 DEF vars, This
    <3>2. Values(This)' = Values(This)
      BY <3>1, NextValues
    <3>3. Shows(This, Values(This))'
      BY <1>2, <3>1, <3>2, NextShows
    <3> QED
      BY <2>1, <3>2, <3>3
  <2>3. CASE Next
    <3> DEFINE s == Values(This)
    <3>1. Sound(This) /\ Shows(This, s)
      BY <1>2
    <3>2. PICK t :
            /\ Shows(This', t)
            /\ \/ \E v \in Value :
                     \/ t = IF Sequence!HasRoom(s) THEN Append(s, v) ELSE s
                     \/ t = IF Sequence!HasRoom(s) THEN <<v>> \o s ELSE s
               \/ t = IF s = << >> THEN << >> ELSE Tail(s)
               \/ t = SubSeq(s, 1, Len(s) - 1)
               \/ \E i \in 1 .. Len(s) : t = Sequence!Moved(s, i)
               \/ t = << >>
      BY <2>3, <3>1, SequenceStep
    <3>3. Values(This') = t
      BY <2>1, <3>2, ValuesAre, NextSoundValue
    <3>4. Values(This)' = t /\ Shows(This, Values(This))'
      BY <3>2, <3>3, NextValues, NextShows
    <3>5. Sequence!Next
      BY <3>2, <3>4 DEF Sequence!Next, Sequence!PushBack, Sequence!PushFront,
         Sequence!PopFront, Sequence!PopBack, Sequence!MoveBack, Sequence!Clear
    <3> QED
      BY <2>1, <3>4, <3>5
  <2> QED
    BY <1>2, <2>2, <2>3
<1> QED
  BY <1>1, <1>2, PTL DEF Spec, ImplementsSequence, Sequence!Spec
=============================================================================
