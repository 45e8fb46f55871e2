--------------------------- MODULE CacheSetProofs ---------------------------
(***************************************************************************)
(* What the operations on one cache set preserve, for every number of ways *)
(* and every contents.                                                     *)
(***************************************************************************)
EXTENDS CacheSet, WellFoundedInduction, TLAPS

(* A non-empty set of naturals has a least element, and Min is it.         *)
LEMMA MinOfNat ==
    ASSUME NEW S \in SUBSET Nat, S # {}
    PROVE  /\ Min(S) \in S
           /\ \A y \in S : Min(S) <= y
<1> DEFINE R == {ss \in Nat \X Nat : ss[1] < ss[2]}
<1>1. IsWellFoundedOn(R, Nat)
  BY NatLessThanWellFounded, Zenon DEF OpToRel
<1>2. PICK x \in S : \A y \in S : ~ (<<y, x>> \in R)
  BY <1>1, WFMin, Zenon
<1>3. ASSUME NEW y \in S PROVE x <= y
  <2>1. ~ (y < x)
    <3> SUFFICES ASSUME y < x PROVE FALSE
      OBVIOUS
    <3>1. <<y, x>> \in R
      OBVIOUS
    <3> QED
      BY <3>1, <1>2
  <2> QED
    BY <2>1
<1> QED
  BY <1>3, Zenon DEF Min

(* A non-empty set of naturals with an upper bound has a greatest element. *)
LEMMA MaxOfNat ==
    ASSUME NEW n \in Nat, NEW S \in SUBSET (0 .. n), S # {}
    PROVE  /\ Max(S) \in S
           /\ \A y \in S : y <= Max(S)
<1> DEFINE T == {n - y : y \in S}
<1>1. T \subseteq Nat
  OBVIOUS
<1>2. T # {}
  OBVIOUS
<1>3. PICK y \in S : n - y = Min(T)
  BY <1>1, <1>2, MinOfNat
<1>4. \A z \in T : n - y <= z
  BY <1>1, <1>2, <1>3, MinOfNat
<1>5. ASSUME NEW x \in S PROVE y >= x
  <2>1. n - x \in T
    OBVIOUS
  <2>2. n - y <= n - x
    BY <1>4, <2>1, Zenon
  <2> QED
    BY <2>2
<1>6. PICK m \in S : m = Max(S)
  BY <1>5, Zenon DEF Max
<1> QED
  BY <1>5, <1>6, Zenon DEF Max
-----------------------------------------------------------------------------
(* The ways the code chooses exist.                                        *)

LEMMA FirstInvalidWay ==
    ASSUME NEW n \in Nat \ {0}, NEW L, NEW row \in SetOf(n, L), ~Full(row)
    PROVE  /\ FirstInvalid(row) \in 0 .. n - 1
           /\ row[FirstInvalid(row)].v = 0
           /\ \A x \in 0 .. n - 1 : x < FirstInvalid(row) => row[x].v = 1
<1> DEFINE S == InvalidWays(row)
<1>1. DOMAIN row = 0 .. n - 1 /\ \A x \in 0 .. n - 1 : row[x].v \in {0, 1}
  BY DEF SetOf
<1>2. S \in SUBSET Nat /\ S # {}
  BY <1>1 DEF Full, InvalidWays
<1>3. Min(S) \in S /\ \A y \in S : Min(S) <= y
  BY <1>2, MinOfNat, Zenon
<1>4. FirstInvalid(row) = Min(S)
  BY DEF FirstInvalid
<1>5. ASSUME NEW x \in 0 .. n - 1, x < Min(S) PROVE row[x].v = 1
  <2>1. x \notin S
    BY <1>2, <1>3, <1>5
  <2> QED
    BY <1>1, <2>1 DEF InvalidWays
<1> QED
  BY <1>1, <1>3, <1>4, <1>5 DEF InvalidWays

LEMMA LRUWayExists ==
    ASSUME NEW n \in Nat \ {0}, NEW L, NEW row \in SetOf(n, L)
    PROVE  LRUWay(row) \in 0 .. n - 1
<1>1. DOMAIN row = 0 .. n - 1 /\ \A x \in 0 .. n - 1 : row[x].age \in 0 .. n - 1
  BY DEF SetOf
<1> DEFINE Ages == {row[x].age : x \in 0 .. n - 1}
           Oldest == {w \in DOMAIN row : \A x \in DOMAIN row : row[x].age <= row[w].age}
<1>2. Ages \subseteq 0 .. n
  BY <1>1
<1>3. row[0].age \in Ages
  BY <1>1
<1>4. Max(Ages) \in Ages /\ \A y \in Ages : y <= Max(Ages)
  BY <1>2, <1>3, MaxOfNat
<1>5. PICK w \in 0 .. n - 1 : row[w].age = Max(Ages)
  BY <1>4
<1>6. \A x \in 0 .. n - 1 : row[x].age <= row[w].age
  BY <1>4, <1>5
<1>7. w \in Oldest
  BY <1>1, <1>5, <1>6
<1>8. Oldest \subseteq 0 .. n
  BY <1>1
<1>9. Max(Oldest) \in Oldest
  BY <1>7, <1>8, MaxOfNat
<1> QED
  BY <1>1, <1>9 DEF LRUWay

LEMMA VictimWay ==
    ASSUME NEW n \in Nat \ {0}, NEW L, NEW row \in SetOf(n, L)
    PROVE  Victim(row) \in 0 .. n - 1
BY FirstInvalidWay, LRUWayExists DEF Victim
-----------------------------------------------------------------------------
(* Ageing keeps ages in their bit field and touches nothing else.          *)

SameButAges(row, new) ==
    /\ DOMAIN new = DOMAIN row
    /\ \A x \in DOMAIN row :
          /\ new[x].v = row[x].v
          /\ new[x].tag = row[x].tag
          /\ new[x].line = row[x].line

LEMMA AgeUpdateType ==
    ASSUME NEW n \in Nat \ {0}, NEW L, NEW row \in SetOf(n, L), NEW w \in 0 .. n - 1
    PROVE  AgeUpdate(row, w) \in SetOf(n, L) /\ SameButAges(row, AgeUpdate(row, w))
<1> DEFINE new == AgeUpdate(row, w)
<1>1. DOMAIN row = 0 .. n - 1
  BY DEF SetOf
<1>2. DOMAIN new = 0 .. n - 1 /\ new = [x \in 0 .. n - 1 |-> new[x]]
  BY <1>1 DEF AgeUpdate
<1>3. ASSUME NEW x \in 0 .. n - 1
      PROVE  /\ new[x] \in [v : {0, 1}, age : 0 .. n - 1, tag : Nat, line : L]
             /\ new[x].v = row[x].v /\ new[x].tag = row[x].tag
             /\ new[x].line = row[x].line
  <2>1. /\ row[x] \in [v : {0, 1}, age : 0 .. n - 1, tag : Nat, line : L]
        /\ row[w] \in [v : {0, 1}, age : 0 .. n - 1, tag : Nat, line : L]
    BY DEF SetOf
  <2>2. new[x] = [row[x] EXCEPT !.age = IF x = w THEN 0
                               ELSE IF @ < row[w].age THEN @ + 1 ELSE @]
    BY <1>1 DEF AgeUpdate
  <2> HIDE DEF new
  <2> QED
    BY <2>1, <2>2
<1> HIDE DEF new
<1>4. new \in SetOf(n, L)
  BY <1>2, <1>3 DEF SetOf
<1> QED
  BY <1>1, <1>2, <1>3, <1>4 DEF SameButAges, new

LEMMA AgeIncreaseType ==
    ASSUME NEW n \in Nat \ {0}, NEW L, NEW row \in SetOf(n, L), NEW w \in 0 .. n - 1
    PROVE  AgeIncrease(row, w, n) \in SetOf(n, L) /\ SameButAges(row, AgeIncrease(row, w, n))
<1> DEFINE new == AgeIncrease(row, w, n)
<1>1. DOMAIN row = 0 .. n - 1
  BY DEF SetOf
<1>2. DOMAIN new = 0 .. n - 1 /\ new = [x \in 0 .. n - 1 |-> new[x]]
  BY <1>1 DEF AgeIncrease
<1>3. ASSUME NEW x \in 0 .. n - 1
      PROVE  /\ new[x] \in [v : {0, 1}, age : 0 .. n - 1, tag : Nat, line : L]
             /\ new[x].v = row[x].v /\ new[x].tag = row[x].tag
             /\ new[x].line = row[x].line
  <2>1. /\ row[x] \in [v : {0, 1}, age : 0 .. n - 1, tag : Nat, line : L]
        /\ row[w] \in [v : {0, 1}, age : 0 .. n - 1, tag : Nat, line : L]
    BY DEF SetOf
  <2>2. new[x] = [row[x] EXCEPT !.age = IF x = w THEN 0 ELSE (@ + 1) % n]
    BY <1>1 DEF AgeIncrease
  <2> HIDE DEF new
  <2>3. (row[x].age + 1) % n \in 0 .. n - 1
    BY <2>1
  <2> QED
    BY <2>1, <2>2, <2>3
<1> HIDE DEF new
<1>4. new \in SetOf(n, L)
  BY <1>2, <1>3 DEF SetOf
<1> QED
  BY <1>1, <1>2, <1>3, <1>4 DEF SameButAges, new
-----------------------------------------------------------------------------
(* Sets in which a hit is found if the line is there at all, and is the    *)
(* only one.                                                               *)

Sound(row, n, L) == row \in SetOf(n, L) /\ ValidFirst(row) /\ TagsUnique(row)

EntriesOf(n, L) == [v : {0, 1}, age : 0 .. n - 1, tag : Nat, line : L]

(* hit_cache, with its early exit, misses only what is not in the set.     *)
LEMMA MissMeansAbsent ==
    ASSUME NEW n \in Nat \ {0}, NEW L, NEW row, Sound(row, n, L),
           NEW tag, HitWays(row, tag) = {}
    PROVE  \A x \in 0 .. n - 1 : row[x].v = 1 => row[x].tag # tag
<1> SUFFICES ASSUME NEW x \in 0 .. n - 1, row[x].v = 1, row[x].tag = tag
             PROVE  FALSE
  OBVIOUS
<1>1. DOMAIN row = 0 .. n - 1
  BY DEF Sound, SetOf
<1>2. \A y \in 0 .. n - 1 : y <= x => row[y].v = 1
  BY <1>1 DEF Sound, ValidFirst
<1>3. \A y \in 0 .. n - 1 : y < x => row[y].tag # tag
  BY <1>1, <1>2 DEF Sound, TagsUnique
<1> QED
  BY <1>1, <1>2, <1>3 DEF HitWays

LEMMA AgeingKeepsSound ==
    ASSUME NEW n \in Nat \ {0}, NEW L, NEW row, Sound(row, n, L),
           NEW new \in SetOf(n, L), SameButAges(row, new)
    PROVE  Sound(new, n, L)
BY DEF Sound, SameButAges, ValidFirst, TagsUnique

LEMMA InsertType ==
    ASSUME NEW n \in Nat \ {0}, NEW L, NEW row \in SetOf(n, L),
           NEW w \in 0 .. n - 1, NEW e \in EntriesOf(n, L)
    PROVE  /\ Insert(row, w, e) \in SetOf(n, L)
           /\ Insert(row, w, e)[w] = e
           /\ \A x \in 0 .. n - 1 : x # w => Insert(row, w, e)[x] = row[x]
BY DEF Insert, SetOf, EntriesOf

(* A valid entry whose tag is absent goes where invalid_way or LRU_way     *)
(* says, and the set stays sound.                                          *)
LEMMA InsertAbsent ==
    ASSUME NEW n \in Nat \ {0}, NEW L, NEW row, Sound(row, n, L),
           NEW e \in EntriesOf(n, L), e.v = 1,
           \A x \in 0 .. n - 1 : row[x].v = 1 => row[x].tag # e.tag
    PROVE  Sound(Insert(row, Victim(row), e), n, L)
<1> DEFINE w == Victim(row)
           new == Insert(row, w, e)
<1>1. row \in SetOf(n, L)
  BY DEF Sound
<1>2. w \in 0 .. n - 1
  BY <1>1, VictimWay
<1>3. \A x \in 0 .. n - 1 : row[x].v \in {0, 1}
  BY <1>1 DEF SetOf
<1>4. /\ new \in SetOf(n, L)
      /\ new[w] = e
      /\ \A x \in 0 .. n - 1 : x # w => new[x] = row[x]
  BY <1>1, <1>2, InsertType
<1>5. DOMAIN row = 0 .. n - 1 /\ DOMAIN new = 0 .. n - 1
  BY <1>1, <1>4 DEF SetOf
<1>6. \A x \in 0 .. n - 1 : x < w => row[x].v = 1
  BY <1>1, <1>3, <1>5, FirstInvalidWay DEF Victim, Full, InvalidWays
<1>7. \A x \in 0 .. n - 1 : w < x => (row[x].v = 1 => row[w].v = 1)
  BY <1>2, <1>5 DEF Sound, ValidFirst
<1> HIDE DEF w, new
<1>8. ValidFirst(new)
  BY <1>2, <1>4, <1>5, <1>6, <1>7 DEF Sound, ValidFirst
<1>9. TagsUnique(new)
  BY <1>2, <1>4, <1>5 DEF Sound, TagsUnique
<1> QED
  BY <1>4, <1>8, <1>9 DEF Sound, w, new

(* The read path ages with LRU_age_update, the write path with Replace.    *)
LEMMA FillSound ==
    ASSUME NEW n \in Nat \ {0}, NEW L, NEW row, Sound(row, n, L),
           NEW e \in EntriesOf(n, L), e.v = 1, HitWays(row, e.tag) = {}
    PROVE  /\ Sound(AgeUpdate(Insert(row, Victim(row), e), Victim(row)), n, L)
           /\ Sound(Replace(row, e, n), n, L)
<1> DEFINE w == Victim(row)
           new == Insert(row, w, e)
<1>1. w \in 0 .. n - 1
  BY VictimWay DEF Sound
<1>2. Sound(new, n, L)
  BY MissMeansAbsent, InsertAbsent
<1>3. Sound(AgeUpdate(new, w), n, L)
  BY <1>1, <1>2, AgeUpdateType, AgeingKeepsSound DEF Sound
<1>4. Sound(AgeIncrease(new, w, n), n, L)
  BY <1>1, <1>2, AgeIncreaseType, AgeingKeepsSound DEF Sound
<1> QED
  BY <1>3, <1>4 DEF Replace

LEMMA TouchSound ==
    ASSUME NEW n \in Nat \ {0}, NEW L, NEW row, Sound(row, n, L), NEW w \in 0 .. n - 1
    PROVE  Sound(AgeUpdate(row, w), n, L)
BY AgeUpdateType, AgeingKeepsSound DEF Sound

(* Overwriting a hit entry with one of the same tag.                       *)
LEMMA RewriteSound ==
    ASSUME NEW n \in Nat \ {0}, NEW L, NEW row, Sound(row, n, L), NEW tag,
           NEW w \in HitWays(row, tag),
           NEW e \in EntriesOf(n, L), e.v = 1, e.tag = tag
    PROVE  Sound(Insert(AgeUpdate(row, w), w, e), n, L)
<1> DEFINE aged == AgeUpdate(row, w)
           new == Insert(aged, w, e)
<1>1. DOMAIN row = 0 .. n - 1 /\ w \in 0 .. n - 1 /\ row[w].v = 1 /\ row[w].tag = tag
  BY DEF Sound, SetOf, HitWays
<1>2. Sound(aged, n, L) /\ SameButAges(row, aged)
  BY <1>1, TouchSound, AgeUpdateType DEF Sound
<1>3. aged[w].v = 1 /\ aged[w].tag = tag
  BY <1>1, <1>2 DEF SameButAges
<1>4. /\ new \in SetOf(n, L)
      /\ new[w] = e
      /\ \A x \in 0 .. n - 1 : x # w => new[x] = aged[x]
  BY <1>1, <1>2, InsertType DEF Sound
<1>5. DOMAIN aged = 0 .. n - 1 /\ DOMAIN new = 0 .. n - 1
  BY <1>2, <1>4 DEF Sound, SetOf
<1> HIDE DEF aged, new
<1>6. \A x \in 0 .. n - 1 : new[x].v = aged[x].v /\ new[x].tag = aged[x].tag
  BY <1>3, <1>4
<1>7. ValidFirst(new) /\ TagsUnique(new)
  BY <1>2, <1>5, <1>6 DEF Sound, ValidFirst, TagsUnique
<1> QED
  BY <1>4, <1>7 DEF Sound, new, aged

(* A valid line is what a lookup of its tag finds, and all it finds.       *)
LEMMA HitAt ==
    ASSUME NEW n \in Nat \ {0}, NEW L, NEW row, Sound(row, n, L),
           NEW w \in 0 .. n - 1, row[w].v = 1
    PROVE  HitWays(row, row[w].tag) = {w}
<1>1. DOMAIN row = 0 .. n - 1
  BY DEF Sound, SetOf
<1>2. \A x \in 0 .. n - 1 : x <= w => row[x].v = 1
  BY <1>1 DEF Sound, ValidFirst
<1>3. \A x \in 0 .. n - 1 : x < w => row[x].tag # row[w].tag
  BY <1>1, <1>2 DEF Sound, TagsUnique
<1>4. w \in HitWays(row, row[w].tag)
  BY <1>1, <1>2, <1>3 DEF HitWays
<1>5. ASSUME NEW x \in HitWays(row, row[w].tag) PROVE x = w
  <2>1. x \in 0 .. n - 1 /\ row[x].tag = row[w].tag /\ row[x].v = 1
    BY <1>1 DEF HitWays
  <2> QED
    BY <1>1, <2>1 DEF Sound, TagsUnique
<1> QED
  BY <1>4, <1>5
=============================================================================
