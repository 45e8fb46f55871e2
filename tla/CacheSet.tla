------------------------------ MODULE CacheSet ------------------------------
(***************************************************************************)
(* One set ("line index") of a set-associative cache, and the macros and   *)
(* helper functions of cache_mng.c and lru.h that work on it.              *)
(*                                                                         *)
(* A set is a function from ways 0..n-1 to entries; an entry is a record   *)
(* [v, age, tag, line] like l1_icache_entry_t and l2_cache_entry_t.  The   *)
(* `age' field is as many bits wide as the number of ways needs (2 bits    *)
(* for 4 ways, 3 bits for 8), so it counts modulo the number of ways.      *)
(***************************************************************************)
EXTENDS Integers, FiniteSetsExt

InvalidWays(row) == {w \in DOMAIN row : row[w].v = 0}

Full(row) == InvalidWays(row) = {}

(* Mutant: the scan for an invalid way runs from the other end.            *)
LastInvalid(row) == Max(InvalidWays(row))

(* invalid_way when it does not answer HIT_WAY_MISS, that is ~Full(row).   *)
FirstInvalid(row) == Min(InvalidWays(row))

(* LRU_way: `>=' against the running maximum keeps the last oldest way.    *)
LRUWay(row) ==
    Max({w \in DOMAIN row : \A x \in DOMAIN row : row[x].age <= row[w].age})

(* Mutant: invalid ways are not looked for.                                *)
AlwaysOldest(row) == LRUWay(row)

(* The way an insertion takes: an invalid one if there is one.             *)
Victim(row) == IF Full(row) THEN LRUWay(row) ELSE FirstInvalid(row)

(* Mutant: the loop of hit_cache stops one way early.                      *)
HitAllButLast(row, tag) ==
    {w \in DOMAIN row :
        /\ w + 1 \in DOMAIN row
        /\ row[w].tag = tag
        /\ \A x \in DOMAIN row : x <= w => row[x].v = 1}

(* Mutant: hit_cache does not look at the valid bit.                       *)
HitInvalidToo(row, tag) ==
    {w \in DOMAIN row :
        row[w].tag = tag /\ \A x \in DOMAIN row : x < w => row[x].tag # tag}

(***************************************************************************)
(* The ways on which hit_cache reports a hit: none or one.  Its loop ends  *)
(* on the first invalid way, so a copy behind an invalid way is not found. *)
(***************************************************************************)
HitWays(row, tag) ==
    {w \in DOMAIN row :
        /\ row[w].tag = tag
        /\ \A x \in DOMAIN row :
              /\ x <= w => row[x].v = 1
              /\ x <  w => row[x].tag # tag}

(* LRU_age_update: younger ways age by one, the way itself becomes 0.      *)
AgeUpdate(row, way) ==
    [x \in DOMAIN row |->
        [row[x] EXCEPT !.age = IF x = way THEN 0
                               ELSE IF @ < row[way].age THEN @ + 1 ELSE @]]

(* Mutant: an age that does not wrap in its bit field.                     *)
AgeNoWrap(row, way, n) ==
    [x \in DOMAIN row |-> [row[x] EXCEPT !.age = IF x = way THEN 0 ELSE @ + 1]]

(* LRU_age_increase: every age is incremented, in its n-valued bit field.  *)
AgeIncrease(row, way, n) ==
    [x \in DOMAIN row |->
        [row[x] EXCEPT !.age = IF x = way THEN 0 ELSE (@ + 1) % n]]

(* cache_insert into a way, without the ageing its caller adds.            *)
Insert(row, way, entry) == [row EXCEPT ![way] = entry]

(***************************************************************************)
(* The write paths' way of inserting: LRU_age_increase when an invalid way *)
(* takes the entry, LRU_age_update when it replaces the oldest way.        *)
(***************************************************************************)
Replace(row, entry, n) ==
    LET way == Victim(row)
        new == Insert(row, way, entry)
    IN  IF Full(row) THEN AgeUpdate(new, way) ELSE AgeIncrease(new, way, n)
-----------------------------------------------------------------------------
(* The shapes a set can have.                                              *)

(* A set of n ways whose lines come from Lines; ages fit their bit field.  *)
SetOf(n, Lines) ==
    [0 .. n - 1 -> [v : {0, 1}, age : 0 .. n - 1, tag : Nat, line : Lines]]

(* The valid ways come first: what makes the early exit of HitWays right.  *)
ValidFirst(row) ==
    \A w, x \in DOMAIN row : x < w /\ row[w].v = 1 => row[x].v = 1

(* No tag is cached twice.                                                 *)
TagsUnique(row) ==
    \A w, x \in DOMAIN row :
        row[w].v = 1 /\ row[x].v = 1 /\ row[w].tag = row[x].tag => w = x
=============================================================================
