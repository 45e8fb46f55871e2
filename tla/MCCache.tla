------------------------------ MODULE MCCache ------------------------------
(***************************************************************************)
(* The cache hierarchy at geometries TLC can exhaust: words of 2 bytes,    *)
(* lines of 2 words, 2 sets of 1 or 2 ways in each L1, 2 or 4 sets of 2    *)
(* ways in L2.                                                             *)
(***************************************************************************)
EXTENDS Cache

(* 2^(3 - 2): 3 bits below the L1 tag, 2 words in an L2 line.              *)
MCEvictSpan == 2

MCBits == {0}
MCMemBytes == 24
ZeroMem == {[i \in 0 .. MCMemBytes - 1 |-> {}]}

(* A one, or a zero, in the first byte of a word.                          *)
WordWith(b) == [i \in 0 .. 1 |-> IF i = 0 THEN b ELSE {}]
MCWords == {WordWith({}), WordWith({0})}
OneWord == {WordWith({0})}
NoAddrs == {}
MCBytes == {{}, {0}}

(* Three lines of L1 set 0, and a word in the middle of the first of them. *)
UnalignedAddrs == {0, 2, 8, 16}

(* The same in L1 set 1, with an L2 of 4 lines all in its set 1: there the *)
(* mistaken strides of an L2 hit would leave L1.                           *)
OddAddrs == {4, 6, 20, 36}
OddMemBytes == 40
OddZeroMem == {[i \in 0 .. OddMemBytes - 1 |-> {}]}

AlignedAddrs == {0, 8, 16}
TwoSets == {0, 4, 16, 20}

(* Memory that already holds the ones to be written, except at address 0.  *)
OnesMem == {[i \in 0 .. MCMemBytes - 1 |-> IF i \in {4, 16, 20} THEN {0} ELSE {}]}
ByteAndZero == {{}, {0}}
ZeroAndTwoBytes == {{}, {0}, {1}}
NoWords == {}
NoBytes == {}
DataAndL2 == {"DATA", "L2"}
NoCaches == {}
=============================================================================
