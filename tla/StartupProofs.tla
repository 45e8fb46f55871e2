--------------------------- MODULE StartupProofs ---------------------------
(***************************************************************************)
(* Theorems about the loading of a memory and of a program, for pages of   *)
(* any size, memories and files of any length.                             *)
(***************************************************************************)
EXTENDS Startup, PageWalkProofs, SequenceTheorems, WellFoundedInduction

(* Addresses.                                                              *)

LEMMA DivMod ==
    ASSUME NEW n \in Nat, NEW k \in Nat \ {0}
    PROVE  /\ n \div k \in Nat
           /\ n % k \in 0 .. k - 1
           /\ n = (n \div k) * k + (n % k)
OBVIOUS

LEMMA Powers ==
    /\ PageSize \in Nat \ {0} /\ PdEntries \in Nat \ {0}
    /\ PageSize * PdEntries \in Nat \ {0}
    /\ PageSize * PdEntries * PdEntries \in Nat \ {0}
    /\ PageSize * PdEntries * PdEntries * PdEntries \in Nat \ {0}
<1>1. \A a, b \in Nat \ {0} : a * b \in Nat \ {0}
  OBVIOUS
<1>2. PageSize \in Nat \ {0} /\ PdEntries \in Nat \ {0}
  BY PagingAssumption
<1>3. PageSize * PdEntries \in Nat \ {0}
  BY <1>1, <1>2
<1>4. PageSize * PdEntries * PdEntries \in Nat \ {0}
  BY <1>1, <1>2, <1>3
<1>5. PageSize * PdEntries * PdEntries * PdEntries \in Nat \ {0}
  BY <1>1, <1>2, <1>4
<1> QED
  BY <1>2, <1>3, <1>4, <1>5

LEMMA AddressType ==
    ASSUME NEW n \in Nat
    PROVE  InitVirtAddr64(n) \in OffsetVirtAddr
<1> DEFINE k1 == PageSize * PdEntries
           k2 == PageSize * PdEntries * PdEntries
           k3 == PageSize * PdEntries * PdEntries * PdEntries
<1>1. /\ PageSize \in Nat \ {0} /\ PdEntries \in Nat \ {0}
      /\ k1 \in Nat \ {0} /\ k2 \in Nat \ {0} /\ k3 \in Nat \ {0}
  BY Powers
<1>2. n % PageSize \in 0 .. PageSize - 1
  BY <1>1, DivMod
<1> HIDE DEF k1, k2, k3
<1>3. n \div PageSize \in Nat /\ n \div k1 \in Nat /\ n \div k2 \in Nat /\ n \div k3 \in Nat
  BY <1>1, DivMod
<1>4. /\ (n \div PageSize) % PdEntries \in Level
      /\ (n \div k1) % PdEntries \in Level
      /\ (n \div k2) % PdEntries \in Level
      /\ (n \div k3) % PdEntries \in Level
  BY <1>1, <1>3, DivMod DEF Level
<1> QED
  BY <1>2, <1>4 DEF InitVirtAddr64, OffsetVirtAddr, k1, k2, k3

LEMMA DigitAbove ==
    ASSUME NEW a \in Nat \ {0}, NEW b \in Nat \ {0}, NEW t \in Nat, NEW x \in 0 .. a - 1
    PROVE  (t * a + x) \div (a * b) = t \div b
<1>1. t \div b \in Nat /\ t % b \in 0 .. b - 1 /\ t = (t \div b) * b + (t % b)
  BY DivMod
<1> DEFINE q == t \div b
           r == t % b
<1>2. a * b \in Nat \ {0}
  OBVIOUS
<1>3. r * a + x \in 0 .. a * b - 1
  <2> HIDE DEF r
  <2>1. r + 1 <= b /\ r \in Nat
    BY <1>1 DEF r
  <2>2. (r + 1) * a <= b * a
    BY <2>1
  <2> QED
    BY <2>1, <2>2
<1>4. t * a + x = q * (a * b) + (r * a + x)
  <2> HIDE DEF q, r
  <2>1. t = q * b + r /\ q \in Nat /\ r \in Nat
    BY <1>1 DEF q, r
  <2>2. t * a = (q * b) * a + r * a
    BY <2>1
  <2>3. (q * b) * a = q * (a * b)
    BY <2>1
  <2> QED
    BY <2>1, <2>2, <2>3
<1> HIDE DEF q, r
<1>5. q \in Nat
  BY <1>1 DEF q
<1> QED
  BY <1>2, <1>3, <1>4, <1>5, QuotientUnique DEF q

(* The fields of an address survive the way to a number and back: what     *)
(* program_print writes of an address, program_read reads.                 *)
THEOREM AddressRoundTrip ==
    ASSUME NEW va \in OffsetVirtAddr
    PROVE  InitVirtAddr64(Uint64(va)) = va
<1> DEFINE P == PdEntries
           S == PageSize
           a1 == va.pgd
           a2 == a1 * P + va.pud
           a3 == a2 * P + va.pmd
           a4 == a3 * P + va.pte
           n == a4 * S + va.offset
<1>1. P \in Nat \ {0} /\ S \in Nat \ {0}
  BY Powers
<1>2. /\ a1 \in 0 .. P - 1 /\ va.pud \in 0 .. P - 1 /\ va.pmd \in 0 .. P - 1
      /\ va.pte \in 0 .. P - 1 /\ va.offset \in 0 .. S - 1
  BY DEF OffsetVirtAddr, Level
<1>pmd. P \in Nat \ {0} /\ va.pmd \in 0 .. P - 1
  BY <1>1, <1>2
<1>pte. P \in Nat \ {0} /\ va.pte \in 0 .. P - 1
  BY <1>1, <1>2
<1>off. S \in Nat \ {0} /\ va.offset \in 0 .. S - 1
  BY <1>1, <1>2
<1>3. Uint64(va) = n
  BY DEF Uint64, VirtualPageNumber
<1>4. InitVirtAddr64(n) =
        [offset |-> n % S, pte |-> (n \div S) % P, pmd |-> (n \div (S * P)) % P,
         pud |-> (n \div (S * P * P)) % P, pgd |-> (n \div (S * P * P * P)) % P]
  BY DEF InitVirtAddr64
<1>5. va = [offset |-> va.offset, pte |-> va.pte, pmd |-> va.pmd, pud |-> va.pud, pgd |-> a1]
  BY DEF OffsetVirtAddr
<1> HIDE DEF P, S, a1, n
<1>6. a1 \in Nat
  BY <1>1, <1>2
<1>7. a2 \in Nat
  BY <1>1, <1>2, <1>6
<1> HIDE DEF a2
<1>8. a3 \in Nat
  BY <1>1, <1>2, <1>7
<1> HIDE DEF a3
<1>9. a4 \in Nat
  BY <1>1, <1>2, <1>8
<1> HIDE DEF a4
<1>10. a4 \div P = a3 /\ a4 % P = va.pte
  BY <1>1, <1>2, <1>8, QuotientUnique DEF a4
<1>11. a3 \div P = a2 /\ a3 % P = va.pmd
  BY <1>1, <1>2, <1>7, QuotientUnique DEF a3
<1>12. a2 \div P = a1 /\ a2 % P = va.pud
  BY <1>1, <1>2, <1>6, QuotientUnique DEF a2
<1>13. a1 % P = a1
  BY <1>1, <1>2, QuotientUnique, 0 * P + a1 = a1
<1>14. P * P \in Nat \ {0} /\ P * (P * P) \in Nat \ {0}
  <2>1. \A a, b \in Nat \ {0} : a * b \in Nat \ {0}
    OBVIOUS
  <2>2. P * P \in Nat \ {0}
    BY <1>1, <2>1
  <2> QED
    BY <1>1, <2>1, <2>2
<1>15. n \div S = a4 /\ n % S = va.offset
  BY <1>1, <1>2, <1>9, QuotientUnique DEF n
<1>16. n \div (S * P) = a3
  <2>1. (a4 * S + va.offset) \div (S * P) = a4 \div P
    BY <1>pte, <1>off, <1>9, DigitAbove
  <2> QED
    BY <1>10, <2>1 DEF n
<1>17. a4 \div (P * P) = a2
  <2>1. (a3 * P + va.pte) \div (P * P) = a3 \div P
    BY <1>pte, <1>8, DigitAbove
  <2> QED
    BY <1>11, <2>1 DEF a4
<1>18. n \div (S * (P * P)) = a2
  <2> DEFINE c == P * P
  <2>1. c \in Nat \ {0} /\ a4 \div c = a2
    BY <1>14, <1>17
  <2> HIDE DEF c
  <2>2. (a4 * S + va.offset) \div (S * c) = a4 \div c
    BY <1>off, <1>9, <2>1, DigitAbove
  <2> QED
    BY <2>1, <2>2 DEF c, n
<1>19. a3 \div (P * P) = a1
  <2>1. (a2 * P + va.pmd) \div (P * P) = a2 \div P
    BY <1>pmd, <1>7, DigitAbove
  <2> QED
    BY <1>12, <2>1 DEF a3
<1>20. a4 \div (P * (P * P)) = a1
  <2> DEFINE c == P * P
  <2>1. c \in Nat \ {0} /\ a3 \div c = a1
    BY <1>14, <1>19
  <2> HIDE DEF c
  <2>2. (a3 * P + va.pte) \div (P * c) = a3 \div c
    BY <1>pte, <1>8, <2>1, DigitAbove
  <2> QED
    BY <2>1, <2>2 DEF c, a4
<1>21. n \div (S * (P * (P * P))) = a1
  <2> DEFINE c == P * (P * P)
  <2>1. c \in Nat \ {0} /\ a4 \div c = a1
    BY <1>14, <1>20
  <2> HIDE DEF c
  <2>2. (a4 * S + va.offset) \div (S * c) = a4 \div c
    BY <1>off, <1>9, <2>1, DigitAbove
  <2> QED
    BY <2>1, <2>2 DEF c, n
<1>22. S * P * P = S * (P * P) /\ S * P * P * P = S * (P * (P * P))
  BY <1>1, <1>14
<1> QED
  BY <1>3, <1>4, <1>5, <1>10, <1>11, <1>12, <1>13, <1>15, <1>16, <1>18, <1>21, <1>22
-----------------------------------------------------------------------------
(* The listing of a program.                                               *)

Listed == Command \cup {Lost}

ReaderTypes ==
    /\ file \in Files
    /\ pc \in {"start", "edited", "freed"} \cup Awaiting \cup Returned
    /\ stray \in BOOLEAN
    /\ allocated \in Nat /\ room \in Nat
    /\ command \in Command
    /\ stored \in Seq(Listed)
    /\ \A i \in 1 .. Len(stored) : stored[i] = Lost \/ Accepts(stored[i])

(* Nothing is written before the listing is made; from then on until it is *)
(* freed it is believed to hold what is stored, and to have some room.     *)
ListInv ==
    /\ pc = "start" => ~stray /\ stored = << >>
    /\ pc \notin {"start", "freed"} => allocated > 0
    /\ Len(stored) <= allocated
    /\ Capacity
    /\ StraysThroughNull

ReaderInv == ReaderTypes /\ ListInv

LEMMA NumeralType ==
    ASSUME ReaderTypes, NEW s
    PROVE  HexValue(s) \in Nat
<1>1. CASE HexFound(s)
  BY <1>1, FileAssumption DEF HexFound, HexValue
<1>2. CASE ~HexFound(s)
  BY <1>2 DEF HexValue
<1> QED
  BY <1>1, <1>2

(* The contents after a realloc: the commands, or Lost in their place.     *)
LEMMA CarriedList ==
    ASSUME ReaderTypes, NEW n \in Nat
    PROVE  /\ Carried(n) \in Seq(Listed)
           /\ Len(Carried(n)) = Len(stored)
           /\ \A i \in 1 .. Len(stored) : Carried(n)[i] = Lost \/ Carried(n)[i] = stored[i]
           /\ room # 0 /\ Len(stored) <= n => Carried(n) = stored
<1>1. stored \in Seq(Listed) /\ Len(stored) \in Nat
  BY LenProperties DEF ReaderTypes
<1>2. \A i \in 1 .. Len(stored) : stored[i] \in Listed
  BY <1>1, ElementOfSeq
<1>3. Lost \in Listed
  BY DEF Listed
<1>4. Carried(n) \in [1 .. Len(stored) -> Listed]
  BY <1>2, <1>3 DEF Carried
<1>5. Carried(n) \in Seq(Listed) /\ Len(Carried(n)) = Len(stored)
  BY <1>1, <1>4, SeqDef
<1>6. \A i \in 1 .. Len(stored) : Carried(n)[i] = Lost \/ Carried(n)[i] = stored[i]
  BY DEF Carried
<1>7. ASSUME room # 0, Len(stored) <= n PROVE Carried(n) = stored
  <2>1. \A i \in 1 .. Len(stored) : Carried(n)[i] = stored[i]
    BY <1>1, <1>7 DEF Carried
  <2> QED
    BY <1>1, <1>5, <2>1, SeqEqual
<1> QED
  BY <1>5, <1>6, <1>7

LEMMA ForgottenList ==
    ASSUME ReaderTypes
    PROVE  /\ Forgotten \in Seq(Listed)
           /\ Len(Forgotten) = Len(stored)
           /\ \A i \in 1 .. Len(stored) : Forgotten[i] = Lost
<1>1. Len(stored) \in Nat
  BY LenProperties DEF ReaderTypes
<1>2. Forgotten \in [1 .. Len(stored) -> Listed]
  BY DEF Forgotten, Listed
<1> QED
  BY <1>1, <1>2, SeqDef DEF Forgotten

(* A step of program_add_command or program_shrink on a listing: what      *)
(* remains of the commands, the sizes, and what has been kept.             *)
StoredWell ==
    /\ stray' \in BOOLEAN
    /\ allocated' \in Nat /\ room' \in Nat
    /\ stored' \in Seq(Listed)
    /\ \A i \in 1 .. Len(stored') : stored'[i] = Lost \/ Accepts(stored'[i])
    /\ allocated' > 0
    /\ Len(stored') <= allocated'
    /\ Capacity'
    /\ StraysThroughNull'
    /\ room # 0 /\ room' # 0 => IsPrefix(stored, stored')

LEMMA PrefixOfAppend ==
    ASSUME NEW S, NEW s \in Seq(S), NEW e \in S
    PROVE  IsPrefix(s, s) /\ IsPrefix(s, Append(s, e)) /\ IsPrefix(<< >>, s)
<1>1. Len(s) \in Nat
  BY LenProperties
<1>2. SubSeq(s, 1, Len(s)) = s
  BY SubSeqFull
<1>3. Append(s, e) \in Seq(S) /\ Len(Append(s, e)) = Len(s) + 1
      /\ \A i \in 1 .. Len(s) : Append(s, e)[i] = s[i]
  BY AppendProperties
<1>4. SubSeq(Append(s, e), 1, Len(s)) = s
  <2> DEFINE t == SubSeq(Append(s, e), 1, Len(s))
  <2>1. \A i \in 1 .. Len(s) : Append(s, e)[i] \in S
    BY <1>3, ElementOfSeq
  <2>2. t \in Seq(S) /\ Len(t) = Len(s) /\ \A i \in 1 .. Len(s) : t[i] = s[i]
    BY <1>1, <1>3
  <2> HIDE DEF t
  <2>3. t = s
    BY <2>2, SeqEqual
  <2> QED
    BY <2>3 DEF t
<1>5. IsPrefix(<< >>, s)
  BY <1>1 DEF IsPrefix
<1> QED
  BY <1>1, <1>2, <1>3, <1>4, <1>5 DEF IsPrefix

(* A sequence of listed commands with one that is accepted at its end.     *)
LEMMA Appended ==
    ASSUME NEW s \in Seq(Listed), NEW c \in Command, Accepts(c),
           \A i \in 1 .. Len(s) : s[i] = Lost \/ Accepts(s[i])
    PROVE  /\ Append(s, c) \in Seq(Listed)
           /\ Len(Append(s, c)) = Len(s) + 1
           /\ Len(s) \in Nat
           /\ \A i \in 1 .. Len(Append(s, c)) : Append(s, c)[i] = Lost \/ Accepts(Append(s, c)[i])
<1>1. c \in Listed
  BY DEF Listed
<1>2. Len(s) \in Nat
  BY LenProperties
<1>3. /\ Append(s, c) \in Seq(Listed)
      /\ Len(Append(s, c)) = Len(s) + 1
      /\ \A i \in 1 .. Len(s) : Append(s, c)[i] = s[i]
      /\ Append(s, c)[Len(s) + 1] = c
  BY <1>1, AppendProperties
<1>4. \A i \in 1 .. Len(s) + 1 : i \in 1 .. Len(s) \/ i = Len(s) + 1
  BY <1>2
<1> QED
  BY <1>2, <1>3, <1>4

LEMMA FailedWell ==
    ASSUME ReaderTypes, ReallocFails, StraysThroughNull,
           allocated' \in Nat, allocated' > 0, Len(stored) <= allocated'
    PROVE  StoredWell
<1>1. stored' = Forgotten /\ room' = 0 /\ stray' = stray
  BY DEF ReallocFails
<1>2. /\ Forgotten \in Seq(Listed) /\ Len(Forgotten) = Len(stored)
      /\ \A i \in 1 .. Len(stored) : Forgotten[i] = Lost
  BY ForgottenList
<1> QED
  BY <1>1, <1>2 DEF StoredWell, Capacity, StraysThroughNull, ReaderTypes

LEMMA AddWell ==
    ASSUME ReaderInv, allocated > 0, NEW c \in Command, AddCommand(c)
    PROVE  StoredWell
<1>1. /\ stored \in Seq(Listed) /\ Len(stored) \in Nat
      /\ allocated \in Nat /\ room \in Nat /\ stray \in BOOLEAN
      /\ \A i \in 1 .. Len(stored) : stored[i] = Lost \/ Accepts(stored[i])
      /\ ReaderTypes /\ ListInv
  BY LenProperties DEF ReaderInv, ReaderTypes
<1>2. c \in Listed
  BY DEF Listed
<1>3. ~stray /\ (AddRefused(c) \/ AddInRoom(c) \/ AddGrowing(c))
  BY DEF AddCommand
<1>4. CASE AddRefused(c)
  <2>1. IsPrefix(stored, stored)
    BY <1>1, <1>2, PrefixOfAppend
  <2> QED
    BY <1>1, <1>4, <2>1
    DEF AddRefused, programVars, StoredWell, ListInv, Capacity, StraysThroughNull
<1>5. CASE AddInRoom(c)
  <2>1. Accepts(c) /\ Len(stored) # allocated /\ allocated' = allocated /\ room' = room
        /\ Put(stored, room, c)
    BY <1>5 DEF AddInRoom
  <2>2. CASE Len(stored) < room
    <3>1. stored' = Append(stored, c) /\ stray' = stray
      BY <2>1, <2>2 DEF Put
    <3>2. /\ Append(stored, c) \in Seq(Listed) /\ Len(Append(stored, c)) = Len(stored) + 1
          /\ \A i \in 1 .. Len(Append(stored, c)) :
                Append(stored, c)[i] = Lost \/ Accepts(Append(stored, c)[i])
      BY <1>1, <2>1, Appended
    <3>3. IsPrefix(stored, Append(stored, c))
      BY <1>1, <1>2, PrefixOfAppend
    <3> QED
      BY <1>1, <1>3, <2>1, <3>1, <3>2, <3>3
      DEF StoredWell, ListInv, Capacity, StraysThroughNull
  <2>3. CASE ~(Len(stored) < room)
    <3>1. stored' = stored /\ stray'
      BY <2>1, <2>3 DEF Put
    <3>2. room = 0
      BY <1>1, <2>1, <2>3 DEF ListInv, Capacity
    <3> QED
      BY <1>1, <2>1, <3>1, <3>2, stray' \in BOOLEAN
      DEF StoredWell, ListInv, Capacity, StraysThroughNull, Put
  <2> QED
    BY <2>2, <2>3
<1>6. CASE AddGrowing(c)
  <2> DEFINE n == 2 * allocated
             old == Carried(n)
  <2>1. Accepts(c) /\ Len(stored) = allocated /\ allocated' = n
    BY <1>6 DEF AddGrowing
  <2>2. n \in Nat /\ n > Len(stored)
    BY <1>1, <2>1
  <2>3. CASE room' = n /\ Put(old, n, c)
    <3>1. /\ old \in Seq(Listed) /\ Len(old) = Len(stored)
          /\ \A i \in 1 .. Len(stored) : old[i] = Lost \/ old[i] = stored[i]
          /\ room # 0 => old = stored
      BY <1>1, <2>2, CarriedList
    <3> HIDE DEF old, n
    <3>2. stored' = Append(old, c) /\ stray' = stray
      BY <2>2, <2>3, <3>1 DEF Put
    <3>3. \A i \in 1 .. Len(old) : old[i] = Lost \/ Accepts(old[i])
      BY <1>1, <3>1
    <3>4. /\ Append(old, c) \in Seq(Listed) /\ Len(Append(old, c)) = Len(old) + 1
          /\ \A i \in 1 .. Len(Append(old, c)) :
                Append(old, c)[i] = Lost \/ Accepts(Append(old, c)[i])
      BY <2>1, <3>1, <3>3, Appended
    <3>5. IsPrefix(old, Append(old, c))
      BY <1>2, <3>1, PrefixOfAppend
    <3> QED
      BY <1>1, <1>3, <2>1, <2>2, <2>3, <3>1, <3>2, <3>4, <3>5
      DEF StoredWell, Capacity, StraysThroughNull
  <2>4. CASE ReallocFails
    BY <1>1, <2>1, <2>2, <2>4, FailedWell DEF ListInv
  <2> QED
    BY <1>6, <2>3, <2>4 DEF AddGrowing
<1> QED
  BY <1>3, <1>4, <1>5, <1>6

LEMMA ShrinkWell ==
    ASSUME ReaderInv, Shrink
    PROVE  StoredWell
<1>1. /\ stored \in Seq(Listed) /\ Len(stored) \in Nat
      /\ stray \in BOOLEAN
      /\ \A i \in 1 .. Len(stored) : stored[i] = Lost \/ Accepts(stored[i])
      /\ ReaderTypes /\ StraysThroughNull
  BY LenProperties DEF ReaderInv, ReaderTypes, ListInv
<1>2. ShrunkRoom \in Nat /\ ShrunkRoom > 0 /\ Len(stored) <= ShrunkRoom
  <2>1. CASE stored = << >>
    BY <2>1, AllocationAssumption DEF ShrunkRoom
  <2>2. CASE stored # << >>
    BY <1>1, <2>2, EmptySeq DEF ShrunkRoom
  <2> QED
    BY <2>1, <2>2
<1>3. ~stray /\ allocated' = ShrunkRoom
  BY DEF Shrink
<1>4. CASE room' = ShrunkRoom /\ stored' = Carried(ShrunkRoom) /\ UNCHANGED stray
  <2> DEFINE old == Carried(ShrunkRoom)
  <2>1. /\ old \in Seq(Listed) /\ Len(old) = Len(stored)
        /\ \A i \in 1 .. Len(stored) : old[i] = Lost \/ old[i] = stored[i]
        /\ room # 0 => old = stored
    BY <1>1, <1>2, CarriedList
  <2>2. IsPrefix(stored, stored)
    BY <1>1, PrefixOfAppend, Lost \in Listed DEF Listed
  <2> HIDE DEF old
  <2>3. stored' = old /\ room' = ShrunkRoom /\ stray' = stray
    BY <1>4 DEF old
  <2> QED
    BY <1>1, <1>2, <1>3, <2>1, <2>2, <2>3 DEF StoredWell, Capacity, StraysThroughNull
<1>5. CASE ReallocFails
  BY <1>1, <1>2, <1>3, <1>5, FailedWell
<1> QED
  BY <1>4, <1>5 DEF Shrink
-----------------------------------------------------------------------------
(* The steps of program_read and of a client.                              *)

LEMMA Kept ==
    ASSUME ReaderTypes
    PROVE  IsPrefix(stored, stored)
BY PrefixOfAppend, Lost \in Listed DEF ReaderTypes, Listed

LEMMA CommandFields ==
    ASSUME NEW c \in Command, NEW n \in Nat
    PROVE  /\ [c EXCEPT !.order = "WRITE"] \in Command
           /\ [c EXCEPT !.order = "READ"] \in Command
           /\ [c EXCEPT !.type = "INSTRUCTION", !.size = 0, !.data = 0] \in Command
           /\ [c EXCEPT !.type = "DATA", !.data = 0, !.size = 1] \in Command
           /\ [c EXCEPT !.type = "DATA", !.data = 0, !.size = WordSize] \in Command
           /\ [c EXCEPT !.data = n] \in Command
           /\ [c EXCEPT !.vaddr = InitVirtAddr64(n)] \in Command
<1>1. InitVirtAddr64(n) \in OffsetVirtAddr
  BY AddressType
<1> QED
  BY <1>1 DEF Command

(* A step that leaves the listing alone and stays between start and end.   *)
LEMMA ListUntouched ==
    ASSUME ReaderInv, UNCHANGED <<programVars, file>>, command' \in Command,
           pc \in Awaiting, pc' \in Awaiting \cup Returned
    PROVE  ReaderInv' /\ IsPrefix(stored, stored')
<1>1. IsPrefix(stored, stored)
  BY Kept DEF ReaderInv
<1> QED
  BY <1>1 DEF ReaderInv, ReaderTypes, ListInv, Capacity, StraysThroughNull, programVars,
              Accepts, Awaiting, Returned

LEMMA ListWell ==
    ASSUME ReaderInv, StoredWell, UNCHANGED file, command' \in Command,
           pc' \in {"edited"} \cup Awaiting \cup Returned
    PROVE  ReaderInv' /\ (room # 0 /\ room' # 0 => IsPrefix(stored, stored'))
BY DEF ReaderInv, ReaderTypes, ListInv, StoredWell, Awaiting, Returned, Accepts

LEMMA InitKeeps ==
    ASSUME ReaderInv, pc = "start", pc' \in Awaiting \cup Returned,
           UNCHANGED <<file, command>>, NEW b \in BOOLEAN, InitProgram(b)
    PROVE  ReaderInv' /\ IsPrefix(stored, stored')
<1>1. ~stray /\ stored = << >>
  BY DEF ReaderInv, ListInv
<1>2. PointerSize \in Nat \ {0} /\ InitialRoom \in Nat /\ PointerSize <= InitialRoom
  BY AllocationAssumption
<1>3. /\ stored' = << >> /\ allocated' = PointerSize /\ stray' = stray
      /\ room' \in {0, InitialRoom}
  BY DEF InitProgram
<1>4. << >> \in Seq(Listed) /\ Len(<< >>) = 0
  BY EmptySeq
<1>5. IsPrefix(stored, stored')
  BY <1>1, <1>3, Kept DEF ReaderInv
<1>6. ReaderTypes'
  BY <1>1, <1>2, <1>3, <1>4 DEF ReaderInv, ReaderTypes
<1>7. ListInv'
  BY <1>1, <1>2, <1>3, <1>4 DEF ListInv, Capacity, StraysThroughNull, Awaiting, Returned
<1> QED
  BY <1>5, <1>6, <1>7 DEF ReaderInv

LEMMA ReaderKeeps ==
    ASSUME ReaderInv, ReaderStep
    PROVE  ReaderInv' /\ (room # 0 /\ room' # 0 => IsPrefix(stored, stored'))
<1>1. CASE OpenFails
  <2>1. /\ pc = "start" /\ pc' \in Returned /\ UNCHANGED <<file, command>>
        /\ InitProgram(FALSE) \/ InitProgram(TRUE)
    BY <1>1 DEF OpenFails, Returned
  <2> QED
    BY <2>1, InitKeeps
<1>2. CASE OpenProgram
  <2>1. /\ pc = "start" /\ pc' \in Awaiting \cup Returned /\ UNCHANGED <<file, command>>
        /\ InitProgram(TRUE)
    BY <1>2 DEF OpenProgram, NextLine, Awaiting, Returned
  <2> QED
    BY <2>1, InitKeeps
<1>3. command \in Command
  BY DEF ReaderInv, ReaderTypes
<1>4. CASE SkipSpace
  BY <1>3, <1>4, ListUntouched DEF SkipSpace
<1>5. CASE TakeOrder
  <2>1. /\ pc \in Awaiting /\ pc' \in Awaiting /\ UNCHANGED <<programVars, file>>
        /\ \/ command' = [command EXCEPT !.order = "WRITE"]
           \/ command' = [command EXCEPT !.order = "READ"]
    BY <1>5 DEF TakeOrder, At, Awaiting
  <2>2. command' \in Command
    BY <1>3, <2>1, CommandFields
  <2> QED
    BY <2>1, <2>2, ListUntouched
<1>6. CASE TakeInstruction
  <2>1. /\ pc \in Awaiting /\ pc' \in Awaiting /\ UNCHANGED <<programVars, file>>
        /\ command' = [command EXCEPT !.type = "INSTRUCTION", !.size = 0, !.data = 0]
    BY <1>6 DEF TakeInstruction, At, Awaiting, Operand
  <2>2. command' \in Command
    BY <1>3, <2>1, CommandFields
  <2> QED
    BY <2>1, <2>2, ListUntouched
<1>7. CASE TakeData
  <2>1. /\ pc \in Awaiting /\ pc' \in Awaiting /\ UNCHANGED <<programVars, file>>
        /\ \/ command' = [command EXCEPT !.type = "DATA", !.data = 0, !.size = 1]
           \/ command' = [command EXCEPT !.type = "DATA", !.data = 0, !.size = WordSize]
    BY <1>7 DEF TakeData, At, Awaiting, Operand
  <2>2. command' \in Command
    BY <1>3, <2>1, CommandFields
  <2> QED
    BY <2>1, <2>2, ListUntouched
<1>8. CASE TakeWritten
  <2>1. /\ pc \in Awaiting /\ pc' \in Awaiting /\ UNCHANGED <<programVars, file>>
        /\ command' = [command EXCEPT !.data = HexValue(Scan(in))]
    BY <1>8 DEF TakeWritten, At, Awaiting
  <2>2. HexValue(Scan(in)) \in Nat
    BY NumeralType DEF ReaderInv
  <2>3. command' \in Command
    BY <1>3, <2>1, <2>2, CommandFields
  <2> QED
    BY <2>1, <2>3, ListUntouched
<1>9. CASE TakeAddress
  <2> DEFINE n == HexValue(Scan(Scan(in)))
             c == [command EXCEPT !.vaddr = InitVirtAddr64(n)]
  <2>1. /\ pc = "address" /\ pc' \in Awaiting \cup Returned /\ UNCHANGED file
        /\ command' = c /\ AddCommand(c)
    BY <1>9 DEF TakeAddress, At, NextLine, Awaiting, Returned
  <2>2. n \in Nat
    BY NumeralType DEF ReaderInv
  <2>3. c \in Command
    BY <1>3, <2>2, CommandFields
  <2>4. allocated > 0
    BY <2>1 DEF ReaderInv, ListInv
  <2> HIDE DEF c
  <2>5. StoredWell
    BY <2>1, <2>3, <2>4, AddWell
  <2> QED
    BY <2>1, <2>3, <2>5, ListWell
<1>10. CASE Malformed
  BY <1>3, <1>10, ListUntouched DEF Malformed, At, Awaiting, Returned
<1> QED
  BY <1>1, <1>2, <1>4, <1>5, <1>6, <1>7, <1>8, <1>9, <1>10 DEF ReaderStep

LEMMA ClientKeeps ==
    ASSUME ReaderInv, ClientStep
    PROVE  ReaderInv' /\ (room # 0 /\ room' # 0 => IsPrefix(stored, stored'))
<1>1. /\ pc \in {"ERR_NONE", "edited"} /\ allocated > 0 /\ command \in Command
      /\ UNCHANGED <<file, command>>
  BY DEF ClientStep, ReaderInv, ListInv, ReaderTypes
<1>2. CASE \E c \in Extra : AddCommand(c) /\ pc' = "edited"
  <2>1. PICK c \in Extra : AddCommand(c) /\ pc' = "edited"
    BY <1>2
  <2>2. c \in Command
    BY FileAssumption
  <2>3. StoredWell
    BY <1>1, <2>1, <2>2, AddWell
  <2> QED
    BY <1>1, <2>1, <2>3, ListWell
<1>3. CASE Shrink /\ pc' = "edited"
  <2>1. StoredWell
    BY <1>3, ShrinkWell
  <2> QED
    BY <1>1, <1>3, <2>1, ListWell
<1>4. CASE FreeProgram /\ pc' = "freed"
  <2>1. /\ stored' = << >> /\ allocated' = 0 /\ room' = 0 /\ stray' = stray /\ ~stray
        /\ pc' = "freed"
    BY <1>4 DEF FreeProgram
  <2>2. << >> \in Seq(Listed) /\ Len(<< >>) = 0
    BY EmptySeq
  <2>3. ReaderTypes'
    BY <1>1, <2>1, <2>2 DEF ReaderInv, ReaderTypes
  <2>4. ListInv'
    BY <2>1, <2>2 DEF ListInv, Capacity, StraysThroughNull
  <2> QED
    BY <2>1, <2>3, <2>4 DEF ReaderInv
<1> QED
  BY <1>2, <1>3, <1>4 DEF ClientStep

LEMMA ReaderStarts == ASSUME Init PROVE ReaderInv
<1>1. << >> \in Seq(Listed) /\ Len(<< >>) = 0
  BY EmptySeq
<1>2. BlankCommand \in Command
  <2>1. InitVirtAddr64(0) \in OffsetVirtAddr
    BY AddressType
  <2> QED
    BY <2>1 DEF BlankCommand, Command
<1>3. file \in Files
  <2>1. PICK job \in Jobs : file = job[2]
    BY DEF Init
  <2> QED
    BY <2>1, JobAssumption
<1>4. ReaderTypes
  <2>1. /\ stored = << >> /\ allocated = 0 /\ room = 0 /\ stray = FALSE
        /\ pc = "start" /\ command = BlankCommand
    BY DEF Init, ReaderInit
  <2>2. stored \in Seq(Listed) /\ \A i \in 1 .. Len(stored) : FALSE
    BY <1>1, <2>1
  <2> QED
    BY <1>2, <1>3, <2>1, <2>2 DEF ReaderTypes
<1>5. ListInv
  BY <1>1 DEF Init, ReaderInit, ListInv, Capacity, StraysThroughNull
<1> QED
  BY <1>4, <1>5 DEF ReaderInv

LEMMA ReaderNext ==
    ASSUME ReaderInv, [Next]_vars
    PROVE  ReaderInv' /\ (room # 0 /\ room' # 0 => IsPrefix(stored, stored'))
<1>1. CASE ReadProgram
  BY <1>1, ReaderKeeps DEF ReadProgram
<1>2. CASE Client
  BY <1>2, ClientKeeps DEF Client
<1>3. CASE UNCHANGED readerVars
  <2>1. IsPrefix(stored, stored)
    BY Kept DEF ReaderInv
  <2> QED
    BY <1>3, <2>1 DEF readerVars, programVars, readVars, ReaderInv, ReaderTypes, ListInv,
                      Capacity, StraysThroughNull, Accepts
<1> QED
  BY <1>1, <1>2, <1>3 DEF Next, Load, vars

THEOREM ListingSound == Spec => []ReaderInv
<1>1. Init => ReaderInv
  BY ReaderStarts
<1>2. ReaderInv /\ [Next]_vars => ReaderInv'
  BY ReaderNext
<1> QED
  BY <1>1, <1>2, PTL DEF Spec

(* However often a program grows, shrinks and grows again, its listing is  *)
(* at least as large as program_add_command believes.                      *)
THEOREM ListingHasRoom == Spec => []Capacity
<1>1. ReaderInv => Capacity
  BY DEF ReaderInv, ListInv
<1> QED
  BY <1>1, ListingSound, PTL

(* Only a failed allocation makes program_read write outside the listing.  *)
THEOREM StraysAfterFailure == Spec => []StraysThroughNull
<1>1. ReaderInv => StraysThroughNull
  BY DEF ReaderInv, ListInv
<1> QED
  BY <1>1, ListingSound, PTL

(* As long as its allocations succeed, a listing never loses a command.    *)
THEOREM NoCommandLost == Spec => CommandsKept
<1>1. ReaderInv /\ [Next]_vars
        => [room # 0 /\ room' # 0 => IsPrefix(stored, stored')]_programVars
  BY ReaderNext
<1> QED
  BY <1>1, ListingSound, PTL DEF Spec, CommandsKept
-----------------------------------------------------------------------------
(* The lines program_print writes.                                         *)

LEMMA NumeralOf ==
    ASSUME NEW n, \E s \in DOMAIN Value : Value[s] = n
    PROVE  Numeral(n) \in DOMAIN Value /\ Value[Numeral(n)] = n
BY DEF Numeral

(* The symbols of a line, from the front.                                  *)
LEMMA LineFront ==
    ASSUME NEW c \in Command
    PROVE  LET P == PrintedLine(c)
           IN  /\ P[1] = IF c.order = "READ" THEN "R" ELSE "W"
               /\ P[2] = "space"
               /\ P[3] = IF c.type = "INSTRUCTION" THEN "I" ELSE "D"
               /\ c.type = "DATA" => P[4] = (IF c.size = 1 THEN "B" ELSE "W") /\ P[5] = "space"
               /\ c.type = "DATA" /\ c.order = "WRITE" =>
                     P[6] = "0" /\ P[7] = "x" /\ P[8] = Numeral(c.data) /\ P[9] = "space"
<1>1. c.type \in {"INSTRUCTION", "DATA"} /\ c.order \in {"READ", "WRITE"}
  BY DEF Command
<1>2. CASE c.type = "INSTRUCTION"
  BY <1>2 DEF PrintedLine
<1>3. CASE c.type = "DATA" /\ c.order = "READ"
  BY <1>3 DEF PrintedLine
<1>4. CASE c.type = "DATA" /\ c.order = "WRITE"
  BY <1>4 DEF PrintedLine
<1> QED
  BY <1>1, <1>2, <1>3, <1>4

(* And from the back.                                                      *)
LEMMA LineBack ==
    ASSUME NEW c \in Command
    PROVE  LET P == PrintedLine(c)
               n == LineLen(c)
           IN  /\ n = IF c.type = "INSTRUCTION" THEN 9 ELSE IF c.order = "READ" THEN 10 ELSE 14
               /\ n \in {9, 10, 14}
               /\ P[n - 5] = "space" /\ P[n - 4] = "@" /\ P[n - 3] = "0" /\ P[n - 2] = "x"
               /\ P[n - 1] = Numeral(Uint64(c.vaddr)) /\ P[n] = "space"
<1> DEFINE P == PrintedLine(c)
           n == LineLen(c)
<1>1. c.type \in {"INSTRUCTION", "DATA"} /\ c.order \in {"READ", "WRITE"}
  BY DEF Command
<1>2. CASE c.type = "INSTRUCTION"
  <2>1. n = 9
    BY <1>2 DEF PrintedLine, LineLen
  <2>2. /\ P[4] = "space" /\ P[5] = "@" /\ P[6] = "0" /\ P[7] = "x"
        /\ P[8] = Numeral(Uint64(c.vaddr)) /\ P[9] = "space"
    BY <1>2 DEF PrintedLine
  <2>3. n - 5 = 4 /\ n - 4 = 5 /\ n - 3 = 6 /\ n - 2 = 7 /\ n - 1 = 8
    BY <2>1
  <2> HIDE DEF P, n
  <2>4. n \in {9, 10, 14}
    BY <2>1
  <2> QED
    BY <1>2, <2>1, <2>2, <2>3, <2>4, Zenon DEF P, n
<1>3. CASE c.type = "DATA" /\ c.order = "READ"
  <2>1. n = 10
    BY <1>3 DEF PrintedLine, LineLen
  <2>2. /\ P[5] = "space" /\ P[6] = "@" /\ P[7] = "0" /\ P[8] = "x"
        /\ P[9] = Numeral(Uint64(c.vaddr)) /\ P[10] = "space"
    BY <1>3 DEF PrintedLine
  <2>3. n - 5 = 5 /\ n - 4 = 6 /\ n - 3 = 7 /\ n - 2 = 8 /\ n - 1 = 9
    BY <2>1
  <2> HIDE DEF P, n
  <2>4. n \in {9, 10, 14}
    BY <2>1
  <2> QED
    BY <1>3, <2>1, <2>2, <2>3, <2>4, Zenon DEF P, n
<1>4. CASE c.type = "DATA" /\ c.order = "WRITE"
  <2>1. n = 14
    BY <1>4 DEF PrintedLine, LineLen
  <2>2. /\ P[9] = "space" /\ P[10] = "@" /\ P[11] = "0" /\ P[12] = "x"
        /\ P[13] = Numeral(Uint64(c.vaddr)) /\ P[14] = "space"
    BY <1>4 DEF PrintedLine
  <2>3. n - 5 = 9 /\ n - 4 = 10 /\ n - 3 = 11 /\ n - 2 = 12 /\ n - 1 = 13
    BY <2>1
  <2> HIDE DEF P, n
  <2>4. n \in {9, 10, 14}
    BY <2>1
  <2> QED
    BY <1>4, <2>1, <2>2, <2>3, <2>4, Zenon DEF P, n
<1> QED
  BY <1>1, <1>2, <1>3, <1>4

Input == [pos : Nat \ {0}, char : Symbols, eof : BOOLEAN]

(* The file is what program_print writes of the listing, of commands it    *)
(* writes in full, symbol by symbol at these places.                       *)
Printing(listing, place) ==
    /\ listing \in Seq(Command)
    /\ \A k \in 1 .. Len(listing) : SaidInFull(listing[k])
    /\ PrintedAs(file, listing, place)

(* The i-th symbol is no numeral that has lost digits.                     *)
InFull(i) == ~(file.inside /\ i = Len(file.text))

(* Where the numerals of a line of n symbols are.                          *)
NumeralPlace(n, j) == j = n - 1 \/ (n = 14 /\ j = 8)

(* Input s is at the j-th symbol of the k-th line.                         *)
On(s, place, k, j) ==
    /\ s \in Input /\ ~s.eof
    /\ s.pos - 1 \in 1 .. Len(file.text) /\ InFull(s.pos - 1)
    /\ s.char = file.text[s.pos - 1]
    /\ place[s.pos - 1][1] = k /\ place[s.pos - 1][2] = j

(* Input s is there, at what is left of a numeral: the file ends there.    *)
Cut(s, place, k, j) ==
    /\ s \in Input /\ ~s.eof
    /\ s.pos - 1 \in 1 .. Len(file.text) /\ ~InFull(s.pos - 1)
    /\ s.char = file.text[s.pos - 1]
    /\ place[s.pos - 1][1] = k /\ place[s.pos - 1][2] = j

(* Input s has met the end of a file cut short, after this symbol.         *)
Off(s, char) ==
    /\ s \in Input /\ s.eof
    /\ s.pos > Len(file.text)
    /\ s.char = char
    /\ ~file.whole

(* Of command c, what the reader is past.                                  *)
KnowsOrder(c) == command.order = c.order
KnowsType(c) == KnowsOrder(c) /\ command.type = c.type /\ command.size = c.size

(* What the reader awaits is the j-th symbol of the line of command c, or  *)
(* the space before it.                                                    *)
Awaits(c, j) ==
    \/ pc = "order" /\ j \in {1, LineLen(c)}
    \/ pc = "type" /\ j \in {2, 3} /\ KnowsOrder(c)
    \/ pc = "data" /\ j \in {5, 6} /\ KnowsType(c) /\ c.order = "WRITE" /\ c.type = "DATA"
    \/ /\ pc = "address" /\ j \in {LineLen(c) - 5, LineLen(c) - 4}
       /\ KnowsType(c) /\ command.data = c.data

OnTrack(listing, place) ==
    LET i == in.pos - 1
        k == place[i][1]
        j == place[i][2]
    IN  /\ in \in Input
        /\ i \in 1 .. Len(file.text) /\ InFull(i)
        /\ in.char = file.text[i]
        /\ in.eof => in.char = "space" /\ i = Len(file.text)
        /\ Awaits(listing[k], j)
        /\ stored = Accepted(SubSeq(listing, 1, LinesUpTo(listing, place[i])))

(* The file has ended before a line has: currentChar will never be what is *)
(* awaited.                                                                *)
CutShort ==
    /\ in \in Input
    /\ pc \in Awaiting /\ in.pos > Len(file.text) /\ in.eof
    /\ in.char # "space" => ~file.whole
    /\ pc = "order" => in.char = "space"
    /\ pc = "type" => in.char \notin {"I", "D"}
    /\ pc = "data" => in.char # "0"
    /\ pc = "address" => in.char # "@"

ReadBack ==
    LET said == Accepted(file.lines)
    IN  \/ stored = said
        \/ /\ Last(file.text) = "x" \/ file.inside
           /\ Front(stored) = said
           /\ Last(stored).vaddr = InitVirtAddr64(LastNumber)

ReadInv(listing, place) ==
    /\ pc = "start" => in \in Input /\ in.pos = 1 /\ ~in.eof
    /\ pc \in Awaiting /\ room = 0 => Len(stored) < allocated
    /\ room # 0 =>
          /\ pc \in Awaiting => OnTrack(listing, place) \/ CutShort
          /\ pc = "ERR_NONE" => ReadBack
          /\ pc = "ERR_BAD_PARAMETER" => ~file.whole

LEMMA PlaceAt ==
    ASSUME NEW listing, NEW place, Printing(listing, place),
           NEW i \in 1 .. Len(file.text)
    PROVE  LET k == place[i][1]
               c == listing[k]
           IN  /\ k \in 1 .. Len(listing) /\ place[i][2] \in 1 .. LineLen(c)
               /\ c \in Command /\ SaidInFull(c) /\ LineLen(c) \in {9, 10, 14}
<1> DEFINE k == place[i][1]
           c == listing[k]
<1>1. k \in 1 .. Len(listing) /\ place[i][2] \in 1 .. LineLen(c)
  <2>1. place[i] \in (1 .. Len(listing)) \X Nat /\ place[i][2] \in 1 .. LineLen(listing[place[i][1]])
    BY DEF Printing, PrintedAs
  <2> QED
    BY <2>1
<1>2. c \in Command /\ SaidInFull(c)
  <2>1. listing \in Seq(Command) /\ \A l \in 1 .. Len(listing) : SaidInFull(listing[l])
    BY DEF Printing
  <2> QED
    BY <1>1, <2>1, ElementOfSeq
<1>3. LineLen(c) \in {9, 10, 14}
  BY <1>2, LineBack
<1> QED
  BY <1>1, <1>2, <1>3

LEMMA SymbolAt ==
    ASSUME NEW listing, NEW place, Printing(listing, place),
           NEW i \in 1 .. Len(file.text), InFull(i)
    PROVE  LET k == place[i][1]
               j == place[i][2]
               c == listing[k]
               n == LineLen(c)
           IN  /\ k \in 1 .. Len(listing) /\ j \in 1 .. n
               /\ c \in Command /\ SaidInFull(c) /\ n \in {9, 10, 14}
               /\ j # n - 1 => file.text[i] = PrintedLine(c)[j]
               /\ j = n - 1 => /\ file.text[i] \in DOMAIN Value
                               /\ InitVirtAddr64(Value[file.text[i]]) = c.vaddr
<1> DEFINE k == place[i][1]
           j == place[i][2]
           c == listing[k]
           n == LineLen(c)
<1>1. k \in 1 .. Len(listing) /\ j \in 1 .. n
  BY PlaceAt
<1>2. c \in Command /\ SaidInFull(c)
  BY PlaceAt
<1>3. n \in {9, 10, 14} /\ PrintedLine(c)[n - 1] = Numeral(Uint64(c.vaddr))
  BY <1>2, LineBack
<1>4. \/ file.text[i] = PrintedLine(c)[j]
      \/ /\ j = n - 1
         /\ file.text[i] \in DOMAIN Value /\ InitVirtAddr64(Value[file.text[i]]) = c.vaddr
  <2>1. Stands(listing, place[i], file.text[i])
    BY DEF Printing, PrintedAs, InFull
  <2> QED
    BY <2>1 DEF Stands
<1>5. ASSUME j = n - 1, file.text[i] = PrintedLine(c)[j]
      PROVE  file.text[i] \in DOMAIN Value /\ InitVirtAddr64(Value[file.text[i]]) = c.vaddr
  <2>1. file.text[i] = Numeral(Uint64(c.vaddr))
    BY <1>3, <1>5
  <2>2. Numeral(Uint64(c.vaddr)) \in DOMAIN Value
        /\ Value[Numeral(Uint64(c.vaddr))] = Uint64(c.vaddr)
    BY <1>2, NumeralOf DEF SaidInFull
  <2>3. c.vaddr \in OffsetVirtAddr
    BY <1>2 DEF Command
  <2>4. InitVirtAddr64(Uint64(c.vaddr)) = c.vaddr
    BY <2>3, AddressRoundTrip
  <2> QED
    BY <2>1, <2>2, <2>4
<1> QED
  BY <1>1, <1>2, <1>3, <1>4, <1>5

LEMMA NextSymbol ==
    ASSUME NEW listing, NEW place, Printing(listing, place),
           NEW i \in 1 .. Len(file.text), Len(file.text) \in Nat, i < Len(file.text)
    PROVE  \/ place[i + 1] = After(listing, place[i])
           \/ place[i + 1] = place[i] /\ file.text[i] = "space" /\ file.text[i + 1] = "space"
<1>1. i + 1 \in 1 .. Len(file.text) /\ i + 1 # 1 /\ (i + 1) - 1 = i
  OBVIOUS
<1>2. \/ i + 1 = 1 /\ place[i + 1] = <<1, 1>>
      \/ i + 1 > 1 /\ place[i + 1] = After(listing, place[(i + 1) - 1])
      \/ i + 1 > 1 /\ place[i + 1] = place[(i + 1) - 1]
         /\ file.text[(i + 1) - 1] = "space" /\ file.text[i + 1] = "space"
  BY <1>1, Zenon DEF Printing, PrintedAs
<1> QED
  BY <1>1, <1>2, Zenon

LEMMA TextEnds ==
    ASSUME NEW listing, NEW place, Printing(listing, place)
    PROVE  LET n == Len(file.text)
           IN  /\ file.lines = SubSeq(listing, 1, IF n = 0 THEN 0
                                                 ELSE IF file.inside THEN place[n][1] - 1
                                                 ELSE LinesUpTo(listing, place[n]))
               /\ file.inside => ~file.whole
               /\ file.whole /\ n # 0 => After(listing, place[n]) = <<Len(listing) + 1, 1>>
BY DEF Printing, PrintedAs

(* What is left of a numeral is where one was, and not in a whole file.    *)
LEMMA CutWhere ==
    ASSUME NEW listing, NEW place, Printing(listing, place),
           NEW i \in 1 .. Len(file.text), ~InFull(i)
    PROVE  /\ i = Len(file.text) /\ file.inside /\ ~file.whole
           /\ file.text[i] \in DOMAIN Value
           /\ NumeralPlace(LineLen(listing[place[i][1]]), place[i][2])
<1> DEFINE c == listing[place[i][1]]
<1>1. i = Len(file.text) /\ file.inside
  BY DEF InFull
<1>2. Truncated(listing, place[i], file.text[i]) /\ ~file.whole
  BY <1>1 DEF Printing, PrintedAs
<1>3. c \in Command /\ SaidInFull(c)
  BY PlaceAt
<1>4. LineLen(c) = IF c.type = "INSTRUCTION" THEN 9 ELSE IF c.order = "READ" THEN 10 ELSE 14
  BY <1>3, LineBack
<1>5. file.text[i] \in DOMAIN Value /\ NumeralAt(c, place[i][2])
  BY <1>2 DEF Truncated
<1> HIDE DEF c
<1>6. NumeralPlace(LineLen(c), place[i][2])
  BY <1>3, <1>4, <1>5 DEF NumeralAt, NumeralPlace, SaidInFull
<1> QED
  BY <1>1, <1>2, <1>5, <1>6 DEF c

(* After a symbol that is no space the line goes on with the next one.     *)
LEMMA LineGoesOn ==
    ASSUME NEW listing, NEW place, Printing(listing, place),
           NEW i \in 1 .. Len(file.text), Len(file.text) \in Nat, file.text[i] # "space",
           InFull(i)
    PROVE  LET k == place[i][1]
               j == place[i][2]
               n == LineLen(listing[k])
           IN  /\ j < n
               /\ i < Len(file.text) => place[i + 1][1] = k /\ place[i + 1][2] = j + 1
               /\ i = Len(file.text) => ~file.whole
<1> DEFINE k == place[i][1]
           j == place[i][2]
           c == listing[k]
           n == LineLen(c)
<1>1. /\ k \in 1 .. Len(listing) /\ j \in 1 .. n
      /\ c \in Command /\ n \in {9, 10, 14}
      /\ j # n - 1 => file.text[i] = PrintedLine(c)[j]
  BY SymbolAt
<1>2. PrintedLine(c)[n] = "space"
  BY <1>1, LineBack
<1>0. After(listing, place[i]) = IF j < n THEN <<k, j + 1>> ELSE <<k + 1, 1>>
  BY DEF After
<1> HIDE DEF k, j, c, n
<1>3. j < n
  BY <1>1, <1>2
<1>4. After(listing, place[i]) = <<k, j + 1>>
  BY <1>0, <1>3
<1>5. i < Len(file.text) => place[i + 1] = <<k, j + 1>>
  BY <1>4, NextSymbol
<1>6. ASSUME i = Len(file.text), file.whole PROVE FALSE
  <2>1. After(listing, place[i]) = <<Len(listing) + 1, 1>>
    BY <1>6, TextEnds
  <2>2. j + 1 = 1
    BY <1>4, <2>1
  <2> QED
    BY <1>1, <2>2
<1>7. i < Len(file.text) => place[i + 1][1] = k /\ place[i + 1][2] = j + 1
  BY <1>5
<1> QED
  BY <1>3, <1>6, <1>7 DEF k, j, c, n

LEMMA Scanned ==
    ASSUME NEW s \in Input, Len(file.text) \in Nat, file \in Files
    PROVE  /\ Scan(s) \in Input
           /\ s.pos > Len(file.text)
                => Scan(s).pos = s.pos /\ Scan(s).char = s.char /\ Scan(s).eof = TRUE
           /\ ~(s.pos > Len(file.text))
                => Scan(s).pos = s.pos + 1 /\ Scan(s).char = file.text[s.pos] /\ Scan(s).eof = s.eof
<1>1. CASE s.pos > Len(file.text)
  <2>1. Scan(s) = [s EXCEPT !.eof = TRUE]
    BY <1>1 DEF Scan
  <2> QED
    BY <1>1, <2>1 DEF Input
<1>2. CASE ~(s.pos > Len(file.text))
  <2>1. Scan(s) = [pos |-> s.pos + 1, char |-> file.text[s.pos], eof |-> s.eof]
    BY <1>2 DEF Scan
  <2>2. s.pos \in 1 .. Len(file.text) /\ file.text \in Seq(Symbols)
    BY <1>2, FileAssumption DEF Input
  <2>3. file.text[s.pos] \in Symbols
    BY <2>2, ElementOfSeq
  <2> QED
    BY <1>2, <2>1, <2>2, <2>3 DEF Input
<1> QED
  BY <1>1, <1>2

-----------------------------------------------------------------------------
(* The commands of a listing that program_add_command accepts.             *)

(* A set of numbers that is not empty has a least one.                     *)
LEMMA LeastNat ==
    ASSUME NEW T, T \subseteq Nat, T # {}
    PROVE  \E x \in T : \A y \in T : ~(y < x)
<1>1. \E x \in T : \A y \in T : ~(<<y, x>> \in OpToRel(<, Nat))
  BY NatLessThanWellFounded, WFMin
<1>2. PICK x \in T : \A y \in T : ~(<<y, x>> \in OpToRel(<, Nat))
  BY <1>1
<1>3. \A y \in T : y < x => <<y, x>> \in OpToRel(<, Nat)
  BY DEF OpToRel
<1> QED
  BY <1>2, <1>3

(* The commands of a listing that are accepted, as far as the n-th.        *)
IsUpTo(listing, n, f) ==
    f = [m \in 0 .. n |->
            IF m = 0 THEN << >>
            ELSE IF Accepts(listing[m]) THEN Append(f[m - 1], listing[m])
            ELSE f[m - 1]]

LEMMA UpToExists ==
    ASSUME NEW listing, NEW n \in Nat
    PROVE  \E f : IsUpTo(listing, n, f)
<1> DEFINE T == {m \in Nat : ~\E f : IsUpTo(listing, m, f)}
<1>1. SUFFICES ASSUME T # {} PROVE FALSE
  OBVIOUS
<1>2. PICK x \in T : \A y \in T : ~(y < x)
  <2>1. T \subseteq Nat
    OBVIOUS
  <2> HIDE DEF T
  <2> QED
    BY <1>1, <2>1, LeastNat
<1>3. x # 0
  <2> DEFINE f == [m \in 0 .. 0 |-> << >>]
  <2>1. IsUpTo(listing, 0, f)
    BY DEF IsUpTo
  <2> QED
    BY <2>1
<1>4. x \in Nat /\ x - 1 \in Nat /\ x - 1 < x
  BY <1>3
<1>5. PICK f : IsUpTo(listing, x - 1, f)
  BY <1>2, <1>4
<1> DEFINE Next1(g, m) == IF Accepts(listing[m]) THEN Append(g[m - 1], listing[m]) ELSE g[m - 1]
           g == [m \in 0 .. x |-> IF m < x THEN f[m] ELSE Next1(f, m)]
<1>6. \A m \in 0 .. x - 1 : f[m] = IF m = 0 THEN << >> ELSE Next1(f, m)
  <2>1. f = [m \in 0 .. x - 1 |-> IF m = 0 THEN << >> ELSE Next1(f, m)]
    BY <1>5 DEF IsUpTo
  <2> HIDE DEF Next1
  <2> QED
    BY <2>1
<1>7. \A m \in 0 .. x : g[m] = IF m = 0 THEN << >> ELSE Next1(g, m)
  <2> SUFFICES ASSUME NEW m \in 0 .. x
               PROVE  g[m] = IF m = 0 THEN << >> ELSE Next1(g, m)
    OBVIOUS
  <2>1. m # 0 => g[m - 1] = f[m - 1]
    BY <1>4
  <2>2. m # 0 => Next1(g, m) = Next1(f, m)
    BY <2>1
  <2>3. g[m] = IF m < x THEN f[m] ELSE Next1(f, m)
    OBVIOUS
  <2> HIDE DEF g, Next1
  <2> QED
    BY <1>4, <1>6, <2>2, <2>3
<1>8. IsUpTo(listing, x, g)
  <2>1. g = [m \in 0 .. x |-> g[m]]
    OBVIOUS
  <2> HIDE DEF g, Next1
  <2>2. g = [m \in 0 .. x |-> IF m = 0 THEN << >> ELSE Next1(g, m)]
    BY <1>7, <2>1
  <2> QED
    BY <2>2 DEF IsUpTo, Next1
<1> QED
  BY <1>2, <1>8

LEMMA UpToAre ==
    ASSUME NEW listing, NEW n \in Nat, NEW f, IsUpTo(listing, n, f)
    PROVE  /\ f[0] = << >>
           /\ \A m \in 1 .. n : f[m] = IF Accepts(listing[m]) THEN Append(f[m - 1], listing[m])
                                       ELSE f[m - 1]
<1> DEFINE Next1(m) == IF Accepts(listing[m]) THEN Append(f[m - 1], listing[m]) ELSE f[m - 1]
<1>1. f = [m \in 0 .. n |-> IF m = 0 THEN << >> ELSE Next1(m)]
  BY DEF IsUpTo
<1> HIDE DEF Next1
<1>2. f[0] = << >> /\ \A m \in 1 .. n : f[m] = Next1(m)
  BY <1>1
<1> QED
  BY <1>2 DEF Next1

(* Where two listings agree, so do the commands accepted.                  *)
LEMMA UpToAgree ==
    ASSUME NEW l1, NEW n1 \in Nat, NEW f1, IsUpTo(l1, n1, f1),
           NEW l2, NEW n2 \in Nat, NEW f2, IsUpTo(l2, n2, f2),
           n1 <= n2, \A m \in 1 .. n1 : l1[m] = l2[m]
    PROVE  \A m \in 0 .. n1 : f1[m] = f2[m]
<1> DEFINE T == {m \in 0 .. n1 : f1[m] # f2[m]}
<1>1. SUFFICES ASSUME T # {} PROVE FALSE
  OBVIOUS
<1>2. PICK x \in T : \A y \in T : ~(y < x)
  <2>1. T \subseteq Nat
    OBVIOUS
  <2> HIDE DEF T
  <2> QED
    BY <1>1, <2>1, LeastNat
<1>3. /\ f1[0] = << >>
      /\ \A m \in 1 .. n1 : f1[m] = IF Accepts(l1[m]) THEN Append(f1[m - 1], l1[m]) ELSE f1[m - 1]
  BY UpToAre
<1>4. /\ f2[0] = << >>
      /\ \A m \in 1 .. n2 : f2[m] = IF Accepts(l2[m]) THEN Append(f2[m - 1], l2[m]) ELSE f2[m - 1]
  BY UpToAre
<1>5. x \in 1 .. n1 /\ x \in 1 .. n2 /\ x - 1 \in 0 .. n1 /\ x - 1 < x
  BY <1>2, <1>3, <1>4
<1>6. f1[x - 1] = f2[x - 1] /\ l1[x] = l2[x]
  BY <1>2, <1>5
<1> QED
  BY <1>2, <1>3, <1>4, <1>5, <1>6

(* The beginning of a listing.                                             *)
LEMMA Beginning ==
    ASSUME NEW S, NEW listing \in Seq(S), NEW n \in 0 .. Len(listing)
    PROVE  /\ Len(SubSeq(listing, 1, n)) = n
           /\ \A m \in 1 .. n : SubSeq(listing, 1, n)[m] = listing[m]
<1>1. Len(listing) \in Nat
  BY LenProperties
<1> QED
  BY <1>1

LEMMA AcceptedIs ==
    ASSUME NEW S, NEW listing \in Seq(S), NEW n \in 0 .. Len(listing),
           NEW f, IsUpTo(listing, Len(listing), f)
    PROVE  Accepted(SubSeq(listing, 1, n)) = f[n]
<1> DEFINE l == SubSeq(listing, 1, n)
           G == CHOOSE g : IsUpTo(l, n, g)
<1>1. Len(l) = n /\ \A m \in 1 .. n : l[m] = listing[m]
  BY Beginning
<1> HIDE DEF l
<1>0. n \in Nat /\ Len(listing) \in Nat /\ n <= Len(listing)
  BY LenProperties
<1>2. IsUpTo(l, n, G)
  <2>1. \E g : IsUpTo(l, n, g)
    BY <1>0, UpToExists
  <2> QED
    BY <2>1, Zenon
<1>3. Accepted(l) = G[n]
  BY <1>1 DEF Accepted, IsUpTo
<1> HIDE DEF G
<1>4. G[n] = f[n]
  BY <1>0, <1>1, <1>2, UpToAgree
<1> QED
  BY <1>3, <1>4 DEF l

(* The commands accepted of a listing that grows by one.                   *)
LEMMA AcceptedGrows ==
    ASSUME NEW S, NEW listing \in Seq(S)
    PROVE  /\ Accepted(SubSeq(listing, 1, 0)) = << >>
           /\ \A n \in 1 .. Len(listing) :
                 LET before == Accepted(SubSeq(listing, 1, n - 1))
                 IN  Accepted(SubSeq(listing, 1, n)) =
                       IF Accepts(listing[n]) THEN Append(before, listing[n]) ELSE before
<1>1. Len(listing) \in Nat
  BY LenProperties
<1>2. PICK f : IsUpTo(listing, Len(listing), f)
  BY <1>1, UpToExists
<1>3. \A n \in 0 .. Len(listing) : Accepted(SubSeq(listing, 1, n)) = f[n]
  BY <1>2, AcceptedIs
<1>4. /\ f[0] = << >>
      /\ \A m \in 1 .. Len(listing) :
            f[m] = IF Accepts(listing[m]) THEN Append(f[m - 1], listing[m]) ELSE f[m - 1]
  BY <1>1, <1>2, UpToAre
<1>5. \A n \in 1 .. Len(listing) : n \in 0 .. Len(listing) /\ n - 1 \in 0 .. Len(listing)
  BY <1>1
<1>6. 0 \in 0 .. Len(listing)
  BY <1>1
<1> QED
  BY <1>3, <1>4, <1>5, <1>6

-----------------------------------------------------------------------------
(* What program_read does with a line.                                     *)

LEMMA TextType ==
    ASSUME file \in Files
    PROVE  Len(file.text) \in Nat /\ \A i \in 1 .. Len(file.text) : file.text[i] \in Symbols
<1>1. file.text \in Seq(Symbols)
  BY FileAssumption
<1> QED
  BY <1>1, LenProperties, ElementOfSeq

LEMMA MovesAhead ==
    ASSUME NEW listing, NEW place, Printing(listing, place), file \in Files,
           NEW s, NEW k, NEW j, On(s, place, k, j), s.char # "space"
    PROVE  \/ On(Scan(s), place, k, j + 1)
           \/ Cut(Scan(s), place, k, j + 1)
           \/ Off(Scan(s), s.char)
<1> DEFINE i == s.pos - 1
<1>1. /\ s \in Input /\ s.pos \in Nat /\ i \in 1 .. Len(file.text) /\ i + 1 = s.pos
      /\ InFull(i) /\ file.text[i] = s.char /\ place[i][1] = k /\ place[i][2] = j /\ s.eof = FALSE
  BY DEF On, Input
<1>2. Len(file.text) \in Nat
  BY TextType
<1> HIDE DEF i
<1>3. /\ i < Len(file.text) => place[i + 1][1] = k /\ place[i + 1][2] = j + 1
      /\ i = Len(file.text) => ~file.whole
  BY <1>1, <1>2, LineGoesOn
<1>4. /\ Scan(s) \in Input
      /\ s.pos > Len(file.text)
           => Scan(s).pos = s.pos /\ Scan(s).char = s.char /\ Scan(s).eof = TRUE
      /\ ~(s.pos > Len(file.text))
           => Scan(s).pos = s.pos + 1 /\ Scan(s).char = file.text[s.pos] /\ Scan(s).eof = s.eof
  BY <1>1, <1>2, Scanned
<1>5. CASE s.pos > Len(file.text)
  <2>1. i = Len(file.text)
    BY <1>1, <1>2, <1>5
  <2> QED
    BY <1>1, <1>3, <1>4, <1>5, <2>1 DEF Off
<1>6. CASE ~(s.pos > Len(file.text))
  <2>1. i < Len(file.text) /\ s.pos \in 1 .. Len(file.text)
    BY <1>1, <1>2, <1>6
  <2>2. Scan(s).pos - 1 = s.pos
    BY <1>1, <1>4, <1>6
  <2> QED
    BY <1>1, <1>3, <1>4, <1>6, <2>1, <2>2 DEF On, Cut
<1> QED
  BY <1>5, <1>6

(* What is left of a numeral, from what is known of its place.             *)
LEMMA CutOn ==
    ASSUME NEW listing, NEW place, Printing(listing, place), file \in Files,
           NEW s, NEW k, NEW j, Cut(s, place, k, j)
    PROVE  /\ s.pos = Len(file.text) + 1 /\ file.inside /\ ~file.whole
           /\ s.char = Last(file.text) /\ s.char \in DOMAIN Value
           /\ NumeralPlace(LineLen(listing[k]), j)
           /\ file.lines = SubSeq(listing, 1, k - 1)
<1> DEFINE i == s.pos - 1
<1>1. /\ s.pos \in Nat /\ i \in 1 .. Len(file.text) /\ ~InFull(i) /\ i + 1 = s.pos
      /\ s.char = file.text[i] /\ place[i][1] = k /\ place[i][2] = j
  BY DEF Cut, Input
<1> HIDE DEF i
<1>2. /\ i = Len(file.text) /\ file.inside /\ ~file.whole
      /\ file.text[i] \in DOMAIN Value
      /\ NumeralPlace(LineLen(listing[place[i][1]]), place[i][2])
  BY <1>1, CutWhere
<1>3. file.lines = SubSeq(listing, 1, k - 1)
  <2>1. Len(file.text) # 0
    BY <1>1, TextType
  <2> QED
    BY <1>1, <1>2, <2>1, TextEnds
<1> QED
  BY <1>1, <1>2, <1>3 DEF Last

(* Where no numeral comes next.                                            *)
LEMMA Ahead ==
    ASSUME NEW listing, NEW place, Printing(listing, place), file \in Files,
           NEW s, NEW k, NEW j, On(s, place, k, j), s.char # "space",
           ~NumeralPlace(LineLen(listing[k]), j + 1)
    PROVE  On(Scan(s), place, k, j + 1) \/ Off(Scan(s), s.char)
BY MovesAhead, CutOn

LEMMA OffStays ==
    ASSUME file \in Files, NEW s, NEW char, Off(s, char)
    PROVE  Off(Scan(s), char)
<1>1. s \in Input /\ s.pos > Len(file.text) /\ Len(file.text) \in Nat
  BY TextType DEF Off
<1>2. Scan(s) \in Input /\ Scan(s).pos = s.pos /\ Scan(s).char = s.char /\ Scan(s).eof = TRUE
  BY <1>1, Scanned
<1> QED
  BY <1>1, <1>2 DEF Off

(* What is known of a symbol of a line.                                    *)
LEMMA SymbolOn ==
    ASSUME NEW listing, NEW place, Printing(listing, place),
           NEW s, NEW k, NEW j, On(s, place, k, j)
    PROVE  LET c == listing[k]
               n == LineLen(c)
           IN  /\ k \in 1 .. Len(listing) /\ j \in 1 .. n /\ n \in {9, 10, 14}
               /\ c \in Command /\ SaidInFull(c)
               /\ j # n - 1 => s.char = PrintedLine(c)[j]
               /\ j = n - 1 => /\ s.char \in DOMAIN Value
                               /\ InitVirtAddr64(Value[s.char]) = c.vaddr
<1> DEFINE i == s.pos - 1
<1>1. /\ i \in 1 .. Len(file.text) /\ InFull(i)
      /\ file.text[i] = s.char /\ place[i][1] = k /\ place[i][2] = j
  BY DEF On
<1> HIDE DEF i
<1> DEFINE P == PrintedLine(listing[k])
           n == LineLen(listing[k])
<1>2. /\ k \in 1 .. Len(listing) /\ j \in 1 .. n
      /\ listing[k] \in Command /\ SaidInFull(listing[k]) /\ n \in {9, 10, 14}
      /\ j # n - 1 => file.text[i] = P[j]
      /\ j = n - 1 => /\ file.text[i] \in DOMAIN Value
                      /\ InitVirtAddr64(Value[file.text[i]]) = listing[k].vaddr
  <2>1. LET k1 == place[i][1]
            j1 == place[i][2]
            c == listing[k1]
            n1 == LineLen(c)
        IN  /\ k1 \in 1 .. Len(listing) /\ j1 \in 1 .. n1
            /\ c \in Command /\ SaidInFull(c) /\ n1 \in {9, 10, 14}
            /\ j1 # n1 - 1 => file.text[i] = PrintedLine(c)[j1]
            /\ j1 = n1 - 1 => /\ file.text[i] \in DOMAIN Value
                              /\ InitVirtAddr64(Value[file.text[i]]) = c.vaddr
    BY <1>1, SymbolAt
  <2> QED
    BY <1>1, <2>1
<1> HIDE DEF P, n
<1>3. /\ j # n - 1 => s.char = P[j]
      /\ j = n - 1 => /\ s.char \in DOMAIN Value
                      /\ InitVirtAddr64(Value[s.char]) = listing[k].vaddr
  BY <1>1, <1>2, Zenon
<1> QED
  BY <1>2, <1>3, Zenon DEF P, n

(* "%x" where a numeral stands, and at the end of the file.                *)
LEMMA HexThere ==
    ASSUME file \in Files, NEW s \in Input, s.pos <= Len(file.text),
           file.text[s.pos] \in DOMAIN Value
    PROVE  /\ HexValue(s) = Value[file.text[s.pos]]
           /\ AfterHex(s) \in Input
           /\ AfterHex(s).pos = s.pos + 1 /\ AfterHex(s).char = s.char
           /\ AfterHex(s).eof = (s.eof \/ s.pos = Len(file.text))
<1>1. Len(file.text) \in Nat /\ s.pos \in Nat \ {0} /\ file.text[s.pos] # "space"
  BY TextType, FileAssumption DEF Input, Signs
<1>2. HexStart(s) = s.pos
  <2> DEFINE Is(p) == /\ p <= Len(file.text) => file.text[p] # "space"
                      /\ \A q \in s.pos .. p - 1 : file.text[q] = "space"
  <2>1. s.pos \in s.pos .. Len(file.text) + 1 /\ Is(s.pos)
    BY <1>1
  <2>2. \A p \in s.pos .. Len(file.text) + 1 : Is(p) => p = s.pos
    <3> SUFFICES ASSUME NEW p \in s.pos .. Len(file.text) + 1, Is(p), p # s.pos PROVE FALSE
      OBVIOUS
    <3>1. s.pos \in s.pos .. p - 1
      BY <1>1
    <3> QED
      BY <1>1, <3>1
  <2> HIDE DEF Is
  <2>3. HexStart(s) = CHOOSE p \in s.pos .. Len(file.text) + 1 : Is(p)
    BY DEF HexStart, Is
  <2> QED
    BY <2>1, <2>2, <2>3
<1>3. HexFound(s)
  BY <1>2 DEF HexFound
<1>4. AfterHex(s) = [s EXCEPT !.pos = s.pos + 1, !.eof = s.eof \/ s.pos + 1 > Len(file.text)]
  BY <1>2, <1>3 DEF AfterHex
<1>5. s.pos + 1 > Len(file.text) <=> s.pos = Len(file.text)
  BY <1>1
<1>6. HexValue(s) = Value[file.text[s.pos]]
  BY <1>2, <1>3 DEF HexValue
<1>7. /\ AfterHex(s) \in Input
      /\ AfterHex(s).pos = s.pos + 1 /\ AfterHex(s).char = s.char
      /\ AfterHex(s).eof = (s.eof \/ s.pos + 1 > Len(file.text))
  <2> DEFINE e == s.eof \/ s.pos + 1 > Len(file.text)
  <2>1. e \in BOOLEAN
    OBVIOUS
  <2>2. AfterHex(s) = [s EXCEPT !.pos = s.pos + 1, !.eof = e]
    BY <1>4, Zenon
  <2> HIDE DEF e
  <2>3. /\ AfterHex(s) \in Input
        /\ AfterHex(s).pos = s.pos + 1 /\ AfterHex(s).char = s.char
        /\ AfterHex(s).eof = e
    <3> DEFINE p == s.pos + 1
               t == [s EXCEPT !.pos = p, !.eof = e]
    <3>1. p \in Nat \ {0}
      BY <1>1
    <3>2. AfterHex(s) = t
      BY <2>2
    <3> HIDE DEF p
    <3>3. t \in Input /\ t.pos = p /\ t.char = s.char /\ t.eof = e
      BY <2>1, <3>1 DEF Input
    <3> HIDE DEF t
    <3> QED
      BY <3>2, <3>3 DEF p
  <2> QED
    BY <2>3, Zenon DEF e
<1> QED
  BY <1>5, <1>6, <1>7, Zenon

LEMMA HexMissing ==
    ASSUME file \in Files, NEW s \in Input, s.pos = Len(file.text) + 1
    PROVE  /\ HexValue(s) = 0
           /\ AfterHex(s) \in Input
           /\ AfterHex(s).pos = s.pos /\ AfterHex(s).char = s.char /\ AfterHex(s).eof = TRUE
<1>1. Len(file.text) \in Nat /\ s.pos \in Nat \ {0}
  BY TextType DEF Input
<1>2. HexStart(s) = s.pos
  <2> DEFINE Is(p) == /\ p <= Len(file.text) => file.text[p] # "space"
                      /\ \A q \in s.pos .. p - 1 : file.text[q] = "space"
  <2>1. s.pos \in s.pos .. Len(file.text) + 1 /\ Is(s.pos)
    BY <1>1
  <2>2. \A p \in s.pos .. Len(file.text) + 1 : p = s.pos
    BY <1>1
  <2> HIDE DEF Is
  <2>3. HexStart(s) = CHOOSE p \in s.pos .. Len(file.text) + 1 : Is(p)
    BY DEF HexStart, Is
  <2> QED
    BY <2>1, <2>2, <2>3
<1>3. ~HexFound(s)
  BY <1>1, <1>2 DEF HexFound
<1>4. AfterHex(s) = [s EXCEPT !.pos = s.pos, !.eof = s.eof \/ s.pos > Len(file.text)]
  BY <1>2, <1>3 DEF AfterHex
<1>5. HexValue(s) = 0
  BY <1>3 DEF HexValue
<1>6. s.pos > Len(file.text)
  BY <1>1
<1>7. AfterHex(s) = [s EXCEPT !.pos = s.pos, !.eof = TRUE]
  <2>1. (s.eof \/ s.pos > Len(file.text)) = TRUE
    BY <1>6, Zenon
  <2> QED
    BY <1>4, <2>1, Zenon
<1> QED
  BY <1>1, <1>5, <1>7 DEF Input

(* What program_add_command leaves: the command added if it is accepted;   *)
(* a listing lost has no room, and is believed to have some.               *)
LEMMA AddResult ==
    ASSUME ReaderInv, allocated > 0, room = 0 => Len(stored) < allocated,
           NEW c \in Command, AddCommand(c)
    PROVE  /\ room = 0 => room' = 0
           /\ room' = 0 => Len(stored') < allocated'
           /\ room' # 0 => stored' = IF Accepts(c) THEN Append(stored, c) ELSE stored
<1>1. /\ stored \in Seq(Listed) /\ Len(stored) \in Nat
      /\ allocated \in Nat /\ room \in Nat
      /\ ReaderTypes /\ Len(stored) <= allocated
      /\ room # 0 => Len(stored) <= room /\ allocated <= room
  BY LenProperties DEF ReaderInv, ReaderTypes, ListInv, Capacity
<1>2. CASE AddRefused(c)
  BY <1>1, <1>2 DEF AddRefused, programVars
<1>3. CASE AddInRoom(c)
  <2>1. Accepts(c) /\ Len(stored) < allocated /\ allocated' = allocated /\ room' = room
        /\ Put(stored, room, c)
    BY <1>1, <1>3 DEF AddInRoom
  <2>2. CASE room = 0
    BY <1>1, <2>1, <2>2 DEF Put
  <2>3. CASE room # 0
    BY <1>1, <2>1, <2>3 DEF Put
  <2> QED
    BY <2>2, <2>3
<1>4. CASE AddGrowing(c)
  <2> DEFINE n == 2 * allocated
  <2>1. Accepts(c) /\ Len(stored) = allocated /\ allocated' = n /\ room # 0
    BY <1>1, <1>4 DEF AddGrowing
  <2>2. n \in Nat /\ n > Len(stored) /\ n # 0
    BY <1>1, <2>1
  <2>3. Carried(n) = stored
    BY <1>1, <2>1, <2>2, CarriedList
  <2>4. CASE room' = n /\ Put(Carried(n), n, c)
    <3> HIDE DEF n
    <3> QED
      BY <2>1, <2>2, <2>3, <2>4 DEF Put
  <2>5. CASE ReallocFails
    <3>1. Len(Forgotten) = Len(stored)
      BY <1>1, ForgottenList
    <3> QED
      BY <2>1, <2>2, <2>5, <3>1 DEF ReallocFails
  <2> QED
    BY <1>4, <2>4, <2>5 DEF AddGrowing
<1> QED
  BY <1>2, <1>3, <1>4 DEF AddCommand

(* Where the reader is when it takes a symbol.                             *)
Taking(listing, place, k) ==
    LET c == listing[k]
    IN  /\ k \in 1 .. Len(listing)
        /\ c \in Command /\ SaidInFull(c) /\ LineLen(c) \in {9, 10, 14}
        /\ stored = Accepted(SubSeq(listing, 1, k - 1))
        /\ pc = "order" => On(in, place, k, 1)
        /\ pc = "type" => On(in, place, k, 3) /\ KnowsOrder(c)
        /\ pc = "data" =>
              On(in, place, k, 6) /\ KnowsType(c) /\ c.order = "WRITE" /\ c.type = "DATA"
        /\ pc = "address" =>
              On(in, place, k, LineLen(c) - 4) /\ KnowsType(c) /\ command.data = c.data

LEMMA Takes ==
    ASSUME NEW listing, NEW place, Printing(listing, place), file \in Files,
           OnTrack(listing, place), in.char # "space"
    PROVE  \E k \in 1 .. Len(listing) : Taking(listing, place, k)
<1> DEFINE i == in.pos - 1
           k == place[i][1]
           j == place[i][2]
           c == listing[k]
           n == LineLen(c)
<1>1. /\ in \in Input
      /\ i \in 1 .. Len(file.text) /\ InFull(i) /\ in.char = file.text[i] /\ in.eof = FALSE
      /\ Awaits(c, j)
      /\ stored = Accepted(SubSeq(listing, 1, LinesUpTo(listing, place[i])))
  BY DEF OnTrack, Input
<1>2. On(in, place, k, j)
  BY <1>1 DEF On
<1>3. LinesUpTo(listing, place[i]) = IF j >= n - 1 THEN k ELSE k - 1
  BY DEF LinesUpTo
<1> HIDE DEF i, k, j
<1>4. /\ k \in 1 .. Len(listing) /\ j \in 1 .. n /\ n \in {9, 10, 14}
      /\ c \in Command /\ SaidInFull(c)
      /\ j # n - 1 => in.char = PrintedLine(c)[j]
  BY <1>2, SymbolOn
<1>5. LET P == PrintedLine(c)
      IN  /\ P[2] = "space"
          /\ c.type = "DATA" => P[5] = "space"
          /\ P[n - 5] = "space" /\ P[n] = "space"
          /\ n = IF c.type = "INSTRUCTION" THEN 9 ELSE IF c.order = "READ" THEN 10 ELSE 14
  BY <1>4, LineFront, LineBack
<1> HIDE DEF c, n
<1>6. /\ j < n - 1
      /\ pc = "order" => j = 1
      /\ pc = "type" => j = 3 /\ KnowsOrder(c)
      /\ pc = "data" => j = 6 /\ KnowsType(c) /\ c.order = "WRITE" /\ c.type = "DATA"
      /\ pc = "address" => j = n - 4 /\ KnowsType(c) /\ command.data = c.data
  <2>1. CASE pc = "order" /\ j \in {1, n}
    BY <1>4, <1>5, <2>1
  <2>2. CASE pc = "type" /\ j \in {2, 3} /\ KnowsOrder(c)
    BY <1>4, <1>5, <2>2
  <2>3. CASE pc = "data" /\ j \in {5, 6} /\ KnowsType(c) /\ c.order = "WRITE" /\ c.type = "DATA"
    BY <1>4, <1>5, <2>3
  <2>4. CASE pc = "address" /\ j \in {n - 5, n - 4} /\ KnowsType(c) /\ command.data = c.data
    BY <1>4, <1>5, <2>4
  <2> QED
    BY <1>1, <2>1, <2>2, <2>3, <2>4 DEF Awaits, n
<1>7. stored = Accepted(SubSeq(listing, 1, k - 1))
  <2>1. LinesUpTo(listing, place[i]) = k - 1
    BY <1>3, <1>4, <1>6
  <2> QED
    BY <1>1, <2>1
<1>8. Taking(listing, place, k)
  BY <1>2, <1>4, <1>6, <1>7 DEF Taking, c, n
<1> QED
  BY <1>4, <1>8

(* Where it is after that: at a later symbol of the same line, or past the *)
(* end of a file cut short.                                                *)
LEMMA StaysOnTrack ==
    ASSUME NEW listing, NEW place, Printing(listing, place), UNCHANGED <<file, stored>>,
           NEW k, NEW j, On(in', place, k, j), j < LineLen(listing[k]) - 1,
           Awaits(listing[k], j)', stored = Accepted(SubSeq(listing, 1, k - 1))
    PROVE  OnTrack(listing, place)'
<1> DEFINE i == in'.pos - 1
<1>1. /\ in' \in Input /\ i \in 1 .. Len(file.text) /\ InFull(i)
      /\ in'.char = file.text[i] /\ ~in'.eof
      /\ place[i][1] = k /\ place[i][2] = j
  BY DEF On
<1>2. k \in 1 .. Len(listing) /\ j \in 1 .. LineLen(listing[k])
      /\ LineLen(listing[k]) \in {9, 10, 14}
  BY SymbolOn
<1>3. LinesUpTo(listing, place[i]) = k - 1
  BY <1>1, <1>2 DEF LinesUpTo
<1> QED
  BY <1>1, <1>3 DEF OnTrack, InFull

LEMMA IsCutShort ==
    ASSUME UNCHANGED file, NEW char, Off(in', char), pc' \in Awaiting,
           pc' # "order",
           pc' = "type" => char \notin {"I", "D"},
           pc' = "data" => char # "0",
           pc' = "address" => char # "@"
    PROVE  CutShort'
BY DEF Off, CutShort

LEMMA ReadsOn ==
    ASSUME NEW listing, NEW place, ReadInv(listing, place),
           UNCHANGED <<programVars, file>>, pc \in Awaiting, pc' \in Awaiting,
           room # 0 => OnTrack(listing, place)' \/ CutShort'
    PROVE  ReadInv(listing, place)'
BY DEF ReadInv, Awaiting, programVars

(* A step that takes a symbol, which nothing can do in a file cut short.   *)
LEMMA TakesFrom ==
    ASSUME ReaderInv, NEW listing, NEW place, Printing(listing, place),
           ReadInv(listing, place), room # 0, pc \in Awaiting, in.char # "space"
    PROVE  \/ CutShort
           \/ \E k \in 1 .. Len(listing) : Taking(listing, place, k)
<1>1. file \in Files /\ (OnTrack(listing, place) \/ CutShort)
  BY DEF ReaderInv, ReaderTypes, ReadInv
<1> QED
  BY <1>1, Takes

LEMMA SkipReads ==
    ASSUME ReaderInv, NEW listing, NEW place, Printing(listing, place),
           ReadInv(listing, place), SkipSpace
    PROVE  ReadInv(listing, place)'
<1>1. /\ pc \in Awaiting /\ pc' = pc /\ UNCHANGED <<programVars, file, command>>
      /\ in.char = "space" /\ in' = Scan(in)
  BY DEF SkipSpace
<1>2. file \in Files /\ Len(file.text) \in Nat
  BY TextType DEF ReaderInv, ReaderTypes
<1>3. SUFFICES ASSUME room # 0 PROVE OnTrack(listing, place)' \/ CutShort'
  BY <1>1, ReadsOn
<1>4. in \in Input /\ (OnTrack(listing, place) \/ CutShort)
  BY <1>1, <1>3 DEF ReadInv, OnTrack, CutShort
<1>5. /\ in' \in Input
      /\ in.pos > Len(file.text) => in'.pos = in.pos /\ in'.char = in.char /\ in'.eof = TRUE
      /\ ~(in.pos > Len(file.text))
           => in'.pos = in.pos + 1 /\ in'.char = file.text[in.pos] /\ in'.eof = in.eof
  BY <1>1, <1>2, <1>4, Scanned
<1>6. CASE CutShort
  BY <1>1, <1>5, <1>6 DEF CutShort
<1>7. CASE OnTrack(listing, place) /\ in.pos > Len(file.text)
  <2>1. in.pos - 1 = Len(file.text)
    BY <1>2, <1>4, <1>7 DEF OnTrack, Input
  <2>2. Awaits(listing[place[in.pos - 1][1]], place[in.pos - 1][2])'
    BY <1>1, <1>5, <1>7 DEF OnTrack, Awaits, KnowsType, KnowsOrder
  <2>3. UNCHANGED stored
    BY <1>1 DEF programVars
  <2> QED
    BY <1>1, <1>5, <1>7, <2>1, <2>2, <2>3 DEF OnTrack, InFull
<1>8. CASE OnTrack(listing, place) /\ ~(in.pos > Len(file.text))
  <2> DEFINE i == in.pos - 1
             k == place[i][1]
             j == place[i][2]
             c == listing[k]
             n == LineLen(c)
  <2>1. /\ i \in 1 .. Len(file.text) /\ i < Len(file.text) /\ i + 1 = in.pos
        /\ InFull(i) /\ in.char = file.text[i] /\ in.eof = FALSE
        /\ Awaits(c, j)
        /\ stored = Accepted(SubSeq(listing, 1, LinesUpTo(listing, place[i])))
    BY <1>2, <1>4, <1>8 DEF OnTrack, Input
  <2>2. On(in, place, k, j)
    BY <1>4, <2>1 DEF On
  <2>3. LinesUpTo(listing, place[i]) = IF j >= n - 1 THEN k ELSE k - 1
    BY DEF LinesUpTo
  <2>4. After(listing, place[i]) = IF j < n THEN <<k, j + 1>> ELSE <<k + 1, 1>>
    BY DEF After
  <2>5. \/ place[i + 1] = After(listing, place[i])
        \/ place[i + 1] = place[i]
    BY <1>2, <2>1, NextSymbol
  <2> HIDE DEF i
  <2>6. place[i + 1] = place[i] \/ place[i + 1] = IF j < n THEN <<k, j + 1>> ELSE <<k + 1, 1>>
    BY <2>4, <2>5
  <2>7. \/ place[i + 1][1] = k /\ place[i + 1][2] = j
        \/ j < n /\ place[i + 1][1] = k /\ place[i + 1][2] = j + 1
        \/ j >= n /\ place[i + 1][1] = k + 1 /\ place[i + 1][2] = 1
    <3>1. CASE place[i + 1] = place[i]
      BY <3>1
    <3> HIDE DEF k, j
    <3>2. CASE j < n /\ place[i + 1] = <<k, j + 1>>
      BY <3>2
    <3>3. CASE ~(j < n) /\ place[i + 1] = <<k + 1, 1>>
      <4>1. j \in 1 .. n /\ n \in {9, 10, 14}
        BY <2>2, SymbolOn
      <4> QED
        BY <3>3, <4>1
    <3> QED
      BY <2>6, <3>1, <3>2, <3>3
  <2> HIDE DEF k, j
  <2>8. /\ k \in 1 .. Len(listing) /\ j \in 1 .. n /\ n \in {9, 10, 14}
        /\ c \in Command /\ SaidInFull(c)
        /\ j # n - 1 => in.char = PrintedLine(c)[j]
    BY <2>2, SymbolOn
  <2>9. LET P == PrintedLine(c)
        IN  /\ P[1] = (IF c.order = "READ" THEN "R" ELSE "W")
            /\ P[3] = (IF c.type = "INSTRUCTION" THEN "I" ELSE "D")
            /\ c.type = "DATA" /\ c.order = "WRITE" => P[6] = "0"
            /\ P[n - 4] = "@"
            /\ n = IF c.type = "INSTRUCTION" THEN 9 ELSE IF c.order = "READ" THEN 10 ELSE 14
    BY <2>8, LineFront, LineBack
  <2> HIDE DEF c, n
  <2>10. \/ pc = "order" /\ j = n
         \/ pc = "type" /\ j = 2 /\ KnowsOrder(c)
         \/ pc = "data" /\ j = 5 /\ KnowsType(c) /\ c.order = "WRITE" /\ c.type = "DATA"
         \/ pc = "address" /\ j = n - 5 /\ KnowsType(c) /\ command.data = c.data
    <3>1. CASE pc = "order" /\ j \in {1, n}
      BY <1>1, <2>8, <2>9, <3>1
    <3>2. CASE pc = "type" /\ j \in {2, 3} /\ KnowsOrder(c)
      BY <1>1, <2>8, <2>9, <3>2
    <3>3. CASE pc = "data" /\ j \in {5, 6} /\ KnowsType(c) /\ c.order = "WRITE" /\ c.type = "DATA"
      BY <1>1, <2>8, <2>9, <3>3
    <3>4. CASE pc = "address" /\ j \in {n - 5, n - 4} /\ KnowsType(c) /\ command.data = c.data
      BY <1>1, <2>8, <2>9, <3>4
    <3> QED
      BY <2>1, <3>1, <3>2, <3>3, <3>4 DEF Awaits, n
  <2>11. in'.pos - 1 = i + 1 /\ i + 1 \in 1 .. Len(file.text) /\ in'.char = file.text[i + 1]
         /\ in'.eof = FALSE
    BY <1>2, <1>4, <1>5, <1>8, <2>1 DEF Input
  <2>0. PICK k2, j2 : k2 = place[i + 1][1] /\ j2 = place[i + 1][2]
    OBVIOUS
  <2>12. k2 \in 1 .. Len(listing) /\ j2 \in 1 .. LineLen(listing[k2])
         /\ LineLen(listing[k2]) \in {9, 10, 14}
    BY <2>0, <2>11, PlaceAt
  <2>13. k2 \in Nat /\ j2 \in Nat
    BY <2>12
  <2>14. LinesUpTo(listing, place[i + 1]) = IF j2 >= LineLen(listing[k2]) - 1 THEN k2 ELSE k2 - 1
    BY <2>0 DEF LinesUpTo
  <2>15. \/ k2 = k /\ j2 = j
         \/ j < n /\ k2 = k /\ j2 = j + 1
         \/ j >= n /\ k2 = k + 1 /\ j2 = 1
    BY <2>0, <2>7
  <2>19. ~NumeralPlace(LineLen(listing[k2]), j2)
    <3>1. CASE k2 = k /\ j2 = j
      BY <2>8, <2>9, <2>10, <3>1 DEF c, n, NumeralPlace
    <3>2. CASE j < n /\ k2 = k /\ j2 = j + 1
      BY <2>8, <2>9, <2>10, <3>2 DEF c, n, NumeralPlace
    <3>3. CASE j >= n /\ k2 = k + 1 /\ j2 = 1
      BY <2>12, <3>3 DEF NumeralPlace
    <3> QED
      BY <2>15, <3>1, <3>2, <3>3
  <2>20. InFull(i + 1)
    BY <2>0, <2>11, <2>19, CutWhere
  <2>16. LinesUpTo(listing, place[i + 1]) = LinesUpTo(listing, place[i])
    <3>1. CASE k2 = k /\ j2 = j
      BY <2>3, <2>14, <3>1 DEF c, n
    <3>2. CASE j < n /\ k2 = k /\ j2 = j + 1
      <4>1. j2 < n - 1
        BY <2>8, <2>9, <2>10, <3>2
      <4> QED
        BY <2>3, <2>8, <2>14, <3>2, <4>1 DEF c, n
    <3>3. CASE j >= n /\ k2 = k + 1 /\ j2 = 1
      BY <2>3, <2>8, <2>12, <2>14, <3>3
    <3> QED
      BY <2>15, <3>1, <3>2, <3>3
  <2>17. Awaits(listing[k2], j2)'
    <3>1. CASE k2 = k /\ j2 = j
      BY <1>1, <2>10, <3>1 DEF c, n, Awaits, KnowsOrder, KnowsType
    <3>2. CASE j < n /\ k2 = k /\ j2 = j + 1
      BY <1>1, <2>8, <2>10, <3>2 DEF c, n, Awaits, KnowsOrder, KnowsType
    <3>3. CASE j >= n /\ k2 = k + 1 /\ j2 = 1
      BY <1>1, <2>8, <2>9, <2>10, <3>3 DEF Awaits
    <3> QED
      BY <2>15, <3>1, <3>2, <3>3
  <2>18. UNCHANGED <<file, stored>>
    BY <1>1 DEF programVars
  <2> QED
    BY <1>5, <2>1, <2>11, <2>16, <2>17, <2>18, <2>0, <2>20 DEF OnTrack, InFull
<1> QED
  BY <1>4, <1>6, <1>7, <1>8

LEMMA OrderReads ==
    ASSUME ReaderInv, NEW listing, NEW place, Printing(listing, place),
           ReadInv(listing, place), TakeOrder
    PROVE  ReadInv(listing, place)'
<1>1. /\ pc = "order" /\ pc' = "type" /\ UNCHANGED <<programVars, file>>
      /\ in.char # "space" /\ in.char \in {"R", "W"} /\ in' = Scan(in)
      /\ command' = [command EXCEPT !.order = IF in.char = "W" THEN "WRITE" ELSE "READ"]
  BY DEF TakeOrder, At
<1>2. file \in Files /\ command \in Command
  BY DEF ReaderInv, ReaderTypes
<1>3. SUFFICES ASSUME room # 0 PROVE OnTrack(listing, place)' \/ CutShort'
  BY <1>1, ReadsOn DEF Awaiting
<1>4. PICK k \in 1 .. Len(listing) : Taking(listing, place, k)
  BY <1>1, <1>3, TakesFrom DEF Awaiting, CutShort
<1> DEFINE c == listing[k]
<1>5. /\ c \in Command /\ LineLen(c) \in {9, 10, 14}
      /\ stored = Accepted(SubSeq(listing, 1, k - 1))
      /\ On(in, place, k, 1)
  BY <1>1, <1>4 DEF Taking
<1>6. in.char = PrintedLine(c)[1]
  BY <1>5, SymbolOn
<1>7. PrintedLine(c)[1] = IF c.order = "READ" THEN "R" ELSE "W"
  BY <1>5, LineFront
<1>8. c.order \in {"READ", "WRITE"}
  BY <1>5 DEF Command
<1>9. KnowsOrder(c)'
  BY <1>1, <1>2, <1>6, <1>7, <1>8 DEF KnowsOrder, Command
<1>10. CASE On(in', place, k, 2)
  BY <1>1, <1>5, <1>9, <1>10, StaysOnTrack DEF Awaits, programVars
<1>11. CASE Off(in', in.char)
  BY <1>1, <1>11, IsCutShort DEF Awaiting
<1>12. On(in', place, k, 1 + 1) \/ Off(in', in.char)
  <2>1. ~NumeralPlace(LineLen(c), 1 + 1)
    BY <1>5 DEF NumeralPlace
  <2> QED
    BY <1>1, <1>2, <1>5, <2>1, Ahead
<1> QED
  BY <1>10, <1>11, <1>12

LEMMA InstructionReads ==
    ASSUME ReaderInv, NEW listing, NEW place, Printing(listing, place),
           ReadInv(listing, place), TakeInstruction
    PROVE  ReadInv(listing, place)'
<1>1. /\ pc = "type" /\ pc' = Operand /\ UNCHANGED <<programVars, file>>
      /\ in.char = "I" /\ in' = Scan(in)
      /\ command' = [command EXCEPT !.type = "INSTRUCTION", !.size = 0, !.data = 0]
  BY DEF TakeInstruction, At
<1>2. file \in Files /\ command \in Command
  BY DEF ReaderInv, ReaderTypes
<1>3. SUFFICES ASSUME room # 0 PROVE OnTrack(listing, place)' \/ CutShort'
  BY <1>1, ReadsOn DEF Awaiting, Operand
<1>4. PICK k \in 1 .. Len(listing) : Taking(listing, place, k)
  BY <1>1, <1>3, TakesFrom DEF Awaiting, CutShort
<1> DEFINE c == listing[k]
<1>5. /\ c \in Command /\ SaidInFull(c) /\ KnowsOrder(c)
      /\ stored = Accepted(SubSeq(listing, 1, k - 1))
      /\ On(in, place, k, 3)
  BY <1>1, <1>4 DEF Taking
<1>6. LineLen(c) = IF c.type = "INSTRUCTION" THEN 9 ELSE IF c.order = "READ" THEN 10 ELSE 14
  BY <1>5, LineBack
<1>7. in.char = PrintedLine(c)[3]
  BY <1>5, <1>6, SymbolOn
<1>8. PrintedLine(c)[3] = IF c.type = "INSTRUCTION" THEN "I" ELSE "D"
  BY <1>5, LineFront
<1>9. c.type = "INSTRUCTION" /\ c.order = "READ" /\ c.size = 0 /\ c.data = 0
  BY <1>1, <1>5, <1>7, <1>8 DEF SaidInFull
<1>10. KnowsType(c)' /\ command'.data = c.data /\ pc' = "address"
  BY <1>1, <1>2, <1>5, <1>9 DEF KnowsType, KnowsOrder, Command, Operand
<1>11. CASE On(in', place, k, 4)
  BY <1>1, <1>5, <1>6, <1>9, <1>10, <1>11, StaysOnTrack DEF Awaits, programVars
<1>12. CASE Off(in', in.char)
  BY <1>1, <1>10, <1>12, IsCutShort DEF Awaiting
<1>13. On(in', place, k, 3 + 1) \/ Off(in', in.char)
  <2>1. ~NumeralPlace(LineLen(c), 3 + 1)
    BY <1>6, <1>9 DEF NumeralPlace
  <2> QED
    BY <1>1, <1>2, <1>5, <2>1, Ahead
<1> QED
  BY <1>11, <1>12, <1>13

LEMMA DataReads ==
    ASSUME ReaderInv, NEW listing, NEW place, Printing(listing, place),
           ReadInv(listing, place), TakeData
    PROVE  ReadInv(listing, place)'
<1> DEFINE s == Scan(in)
<1>1. /\ pc = "type" /\ pc' = Operand /\ UNCHANGED <<programVars, file>>
      /\ in.char = "D" /\ s.char \in {"W", "B"} /\ in' = Scan(s)
      /\ command' = [command EXCEPT !.type = "DATA", !.data = 0,
                                    !.size = IF s.char = "B" THEN 1 ELSE WordSize]
  BY DEF TakeData, At
<1> HIDE DEF s
<1>2. file \in Files /\ command \in Command
  BY DEF ReaderInv, ReaderTypes
<1>3. SUFFICES ASSUME room # 0 PROVE OnTrack(listing, place)' \/ CutShort'
  BY <1>1, ReadsOn DEF Awaiting, Operand
<1>4. PICK k \in 1 .. Len(listing) : Taking(listing, place, k)
  BY <1>1, <1>3, TakesFrom DEF Awaiting, CutShort
<1> DEFINE c == listing[k]
<1>5. /\ c \in Command /\ SaidInFull(c) /\ KnowsOrder(c)
      /\ stored = Accepted(SubSeq(listing, 1, k - 1))
      /\ On(in, place, k, 3)
  BY <1>1, <1>4 DEF Taking
<1>6. LineLen(c) = IF c.type = "INSTRUCTION" THEN 9 ELSE IF c.order = "READ" THEN 10 ELSE 14
  BY <1>5, LineBack
<1>7. in.char = PrintedLine(c)[3]
  BY <1>5, <1>6, SymbolOn
<1>8. /\ PrintedLine(c)[3] = IF c.type = "INSTRUCTION" THEN "I" ELSE "D"
      /\ c.type = "DATA" => PrintedLine(c)[4] = IF c.size = 1 THEN "B" ELSE "W"
  BY <1>5, LineFront
<1>9. c.type = "DATA" /\ c.size \in {1, WordSize} /\ c.order \in {"READ", "WRITE"}
  BY <1>1, <1>5, <1>7, <1>8 DEF SaidInFull, Command
<1>10. On(s, place, k, 4)
  <2>2. ~NumeralPlace(LineLen(c), 3 + 1)
    BY <1>6 DEF NumeralPlace
  <2>1. On(s, place, k, 3 + 1) \/ Off(s, in.char)
    BY <1>1, <1>2, <1>5, <2>2, Ahead DEF s
  <2> QED
    BY <1>1, <2>1 DEF Off
<1>11. s.char = IF c.size = 1 THEN "B" ELSE "W"
  BY <1>6, <1>8, <1>9, <1>10, SymbolOn
<1>12. KnowsType(c)' /\ command'.data = 0
  BY <1>1, <1>2, <1>5, <1>9, <1>11 DEF KnowsType, KnowsOrder, Command
<1>13. CASE On(in', place, k, 5)
  <2>1. Awaits(c, 5)'
    BY <1>1, <1>5, <1>6, <1>9, <1>12 DEF Awaits, Operand, KnowsOrder, SaidInFull
  <2> QED
    BY <1>1, <1>5, <1>6, <1>9, <1>13, <2>1, StaysOnTrack DEF programVars
<1>14. CASE Off(in', s.char)
  BY <1>1, <1>14, IsCutShort DEF Awaiting, Operand
<1>15. On(in', place, k, 4 + 1) \/ Off(in', s.char)
  <2>1. ~NumeralPlace(LineLen(c), 4 + 1)
    BY <1>6 DEF NumeralPlace
  <2> QED
    BY <1>1, <1>2, <1>10, <2>1, Ahead
<1> QED
  BY <1>13, <1>14, <1>15

(* The lines the file has, from the place it ends at.                      *)
LEMMA LinesThere ==
    ASSUME NEW listing, NEW place, Printing(listing, place), file \in Files,
           NEW s, NEW k, NEW j, On(s, place, k, j), s.pos - 1 = Len(file.text)
    PROVE  file.lines = SubSeq(listing, 1, IF j >= LineLen(listing[k]) - 1 THEN k ELSE k - 1)
<1>1. place[Len(file.text)][1] = k /\ place[Len(file.text)][2] = j /\ Len(file.text) # 0
      /\ Len(file.text) \in Nat /\ ~file.inside
  BY TextType DEF On, InFull
<1>2. file.lines = SubSeq(listing, 1, LinesUpTo(listing, place[Len(file.text)]))
  BY <1>1, TextEnds
<1> QED
  BY <1>1, <1>2 DEF LinesUpTo

(* From input s, at the j-th symbol of the k-th line, "%x" takes the       *)
(* numeral that comes next.                                                *)
TakesNumeral(s, place, k, j) ==
    /\ On(s, place, k, j) /\ s.char # "space"
    /\ On(Scan(s), place, k, j + 1)
    /\ Scan(s).char \in DOMAIN Value
    /\ HexValue(s) = Value[Scan(s).char]
    /\ AfterHex(s) \in Input
    /\ AfterHex(s).pos = Scan(s).pos /\ AfterHex(s).char = s.char
    /\ AfterHex(s).eof = (s.pos = Len(file.text))

(* Or it meets the end of the file, and takes what digits there are.       *)
MeetsEnd(listing, s, k) ==
    /\ HexValue(s) = LastNumber
    /\ Last(file.text) = s.char \/ file.inside
    /\ file.lines = SubSeq(listing, 1, k - 1)
    /\ Off(AfterHex(s), s.char)

(* Where the next symbol of the line is a numeral, it does one or the other*)
LEMMA HexAhead ==
    ASSUME NEW listing, NEW place, Printing(listing, place), file \in Files,
           NEW s, NEW k, NEW j, On(s, place, k, j), s.char = "x",
           \/ j + 1 = LineLen(listing[k]) - 1
           \/ j + 1 = 8 /\ listing[k].type = "DATA" /\ listing[k].order = "WRITE"
    PROVE  TakesNumeral(s, place, k, j) \/ MeetsEnd(listing, s, k)
<1>1. /\ s \in Input /\ s.pos \in Nat /\ s.eof = FALSE
      /\ s.pos - 1 \in 1 .. Len(file.text) /\ Len(file.text) \in Nat
  BY TextType DEF On, Input
<1>2. \/ On(Scan(s), place, k, j + 1)
      \/ Cut(Scan(s), place, k, j + 1)
      \/ Off(Scan(s), s.char)
  BY MovesAhead
<1>6. /\ k \in 1 .. Len(listing) /\ listing[k] \in Command /\ j \in Nat
      /\ LineLen(listing[k]) \in {9, 10, 14}
  <2>1. /\ k \in 1 .. Len(listing) /\ listing[k] \in Command
        /\ j \in 1 .. LineLen(listing[k]) /\ LineLen(listing[k]) \in {9, 10, 14}
    BY SymbolOn
  <2> QED
    BY <2>1
<1>3. /\ s.pos > Len(file.text)
           => Scan(s).pos = s.pos /\ Scan(s).char = s.char /\ Scan(s).eof = TRUE
      /\ ~(s.pos > Len(file.text))
           => Scan(s).pos = s.pos + 1 /\ Scan(s).char = file.text[s.pos] /\ Scan(s).eof = s.eof
  BY <1>1, Scanned
<1>4. CASE s.pos > Len(file.text)
  <2>1. s.pos = Len(file.text) + 1 /\ s.pos - 1 = Len(file.text)
    BY <1>1, <1>4
  <2>2. /\ HexValue(s) = 0 /\ AfterHex(s) \in Input
        /\ AfterHex(s).pos = s.pos /\ AfterHex(s).char = s.char /\ AfterHex(s).eof = TRUE
    BY <1>1, <2>1, HexMissing
  <2>3. Off(Scan(s), s.char)
    BY <1>2, <1>3, <1>4 DEF On, Cut
  <2>4. Last(file.text) = s.char
    BY <2>1 DEF On, Last
  <2>5. LastNumber = 0
    BY <2>4, FileAssumption DEF LastNumber, Signs
  <2>6. file.lines = SubSeq(listing, 1, k - 1)
    <3>1. file.lines = SubSeq(listing, 1, IF j >= LineLen(listing[k]) - 1 THEN k ELSE k - 1)
      BY <2>1, LinesThere
    <3>2. j < LineLen(listing[k]) - 1
      BY <1>6, LineBack
    <3> QED
      BY <1>6, <3>1, <3>2
  <2> QED
    BY <1>4, <2>1, <2>2, <2>3, <2>4, <2>5, <2>6 DEF Off, MeetsEnd
<1>7. CASE Cut(Scan(s), place, k, j + 1)
  <2>1. /\ Scan(s).pos = Len(file.text) + 1 /\ file.inside /\ ~file.whole
        /\ Scan(s).char = Last(file.text) /\ Scan(s).char \in DOMAIN Value
        /\ file.lines = SubSeq(listing, 1, k - 1) /\ ~Scan(s).eof
    BY <1>7, CutOn DEF Cut
  <2>2. ~(s.pos > Len(file.text))
    BY <1>3, <2>1
  <2>3. s.pos = Len(file.text) /\ file.text[s.pos] = Last(file.text)
    BY <1>1, <1>3, <2>1, <2>2
  <2>4. /\ HexValue(s) = Value[file.text[s.pos]]
        /\ AfterHex(s) \in Input
        /\ AfterHex(s).pos = s.pos + 1 /\ AfterHex(s).char = s.char
        /\ AfterHex(s).eof = (s.eof \/ s.pos = Len(file.text))
    BY <1>1, <2>1, <2>3, HexThere
  <2>5. AfterHex(s).eof
    BY <2>3, <2>4
  <2>6. AfterHex(s).pos > Len(file.text)
    BY <1>1, <2>3, <2>4
  <2>7. HexValue(s) = LastNumber
    BY <2>1, <2>3, <2>4 DEF LastNumber
  <2> QED
    BY <2>1, <2>4, <2>5, <2>6, <2>7 DEF Off, MeetsEnd
<1>5. CASE ~(s.pos > Len(file.text)) /\ ~Cut(Scan(s), place, k, j + 1)
  <2>1. On(Scan(s), place, k, j + 1)
    BY <1>1, <1>2, <1>3, <1>5 DEF Off
  <2>2. Scan(s).char \in DOMAIN Value
    <3> DEFINE c == listing[k]
    <3>1. /\ k \in 1 .. Len(listing) /\ c \in Command /\ SaidInFull(c)
          /\ j + 1 # LineLen(c) - 1 => Scan(s).char = PrintedLine(c)[j + 1]
          /\ j + 1 = LineLen(c) - 1 => Scan(s).char \in DOMAIN Value
      BY <2>1, SymbolOn
    <3>2. CASE j + 1 = 8 /\ c.type = "DATA" /\ c.order = "WRITE"
      <4>1. LineLen(c) = 14
        BY <3>1, <3>2, LineBack
      <4>2. PrintedLine(c)[8] = Numeral(c.data)
        BY <3>1, <3>2, LineFront
      <4>3. \E v \in DOMAIN Value : Value[v] = c.data
        BY <3>1 DEF SaidInFull
      <4>4. Numeral(c.data) \in DOMAIN Value
        BY <4>3, NumeralOf
      <4>5. j + 1 # LineLen(c) - 1
        BY <3>2, <4>1
      <4>6. Scan(s).char = PrintedLine(c)[8]
        BY <3>1, <3>2, <4>5
      <4> QED
        BY <4>2, <4>4, <4>6
    <3> QED
      BY <3>1, <3>2
  <2>3. file.text[s.pos] \in DOMAIN Value /\ s.pos <= Len(file.text)
    BY <1>1, <1>3, <1>5, <2>2
  <2>4. /\ HexValue(s) = Value[file.text[s.pos]]
        /\ AfterHex(s) \in Input
        /\ AfterHex(s).pos = s.pos + 1 /\ AfterHex(s).char = s.char
        /\ AfterHex(s).eof = (s.eof \/ s.pos = Len(file.text))
    BY <1>1, <2>3, HexThere
  <2>5. AfterHex(s).eof = (s.pos = Len(file.text))
    <3>1. (s.eof \/ s.pos = Len(file.text)) = (s.pos = Len(file.text))
      BY <1>1
    <3> QED
      BY <2>4, <3>1, Zenon
  <2>6. HexValue(s) = Value[Scan(s).char] /\ AfterHex(s).pos = Scan(s).pos
    BY <1>3, <1>5, <2>4
  <2> QED
    BY <2>1, <2>2, <2>4, <2>5, <2>6, Zenon DEF TakesNumeral
<1> QED
  BY <1>4, <1>5, <1>7

(* After a numeral, the reader is at the symbol that follows it, or past   *)
(* the end of the file with the symbol before it still there.              *)
LEMMA AfterNumeral ==
    ASSUME NEW listing, NEW place, Printing(listing, place), file \in Files,
           NEW s, NEW k, NEW j, TakesNumeral(s, place, k, j),
           ~NumeralPlace(LineLen(listing[k]), j + 2)
    PROVE  \/ On(Scan(AfterHex(s)), place, k, j + 2)
           \/ Off(Scan(AfterHex(s)), s.char) /\ s.pos = Len(file.text)
<1>0. /\ On(s, place, k, j) /\ On(Scan(s), place, k, j + 1)
      /\ Scan(s).char # "space"
  BY FileAssumption DEF TakesNumeral, Signs
<1>1. /\ s \in Input /\ s.pos \in Nat /\ s.eof = FALSE
      /\ Scan(s) \in Input /\ Scan(s).pos \in Nat /\ Scan(s).eof = FALSE
      /\ s.pos - 1 \in 1 .. Len(file.text) /\ Len(file.text) \in Nat
      /\ Scan(s).pos - 1 \in 1 .. Len(file.text)
  BY <1>0, TextType DEF On, Input
<1>2. Scan(s).pos = s.pos + 1
  <2>1. s.pos > Len(file.text) => Scan(s).eof = TRUE
    BY <1>1, Scanned
  <2> QED
    BY <1>1, <2>1, Scanned
<1>3. On(Scan(Scan(s)), place, k, (j + 1) + 1) \/ Off(Scan(Scan(s)), Scan(s).char)
  <2>1. j \in Nat
    <3>1. j \in 1 .. LineLen(listing[k]) /\ LineLen(listing[k]) \in {9, 10, 14}
      BY <1>0, SymbolOn
    <3> QED
      BY <3>1
  <2>2. (j + 1) + 1 = j + 2
    BY <2>1
  <2> QED
    BY <1>0, <2>2, Ahead
<1>4. \A t \in Input : /\ Scan(t) \in Input
                       /\ t.pos > Len(file.text)
                            => Scan(t).pos = t.pos /\ Scan(t).char = t.char /\ Scan(t).eof = TRUE
                       /\ ~(t.pos > Len(file.text))
                            => /\ Scan(t).pos = t.pos + 1 /\ Scan(t).char = file.text[t.pos]
                               /\ Scan(t).eof = t.eof
  BY <1>1, Scanned
<1> DEFINE t == AfterHex(s)
           u == Scan(s)
<1>5. t \in Input /\ u \in Input /\ t.pos = u.pos /\ t.char = s.char
      /\ t.eof = (s.pos = Len(file.text))
  BY <1>1 DEF TakesNumeral
<1> HIDE DEF t, u
<1>6. CASE t.pos > Len(file.text)
  <2>1. /\ Scan(t) \in Input /\ Scan(t).pos = t.pos /\ Scan(t).char = t.char /\ Scan(t).eof = TRUE
        /\ Scan(u).eof = TRUE
    BY <1>4, <1>5, <1>6
  <2>2. ~On(Scan(u), place, k, (j + 1) + 1)
    BY <2>1 DEF On
  <2>3. s.pos = Len(file.text)
    BY <1>1, <1>2, <1>5, <1>6 DEF u
  <2> QED
    BY <1>3, <1>5, <1>6, <2>1, <2>2, <2>3 DEF Off, t, u
<1>7. CASE ~(t.pos > Len(file.text))
  <2>1. /\ Scan(t) \in Input /\ Scan(t).pos = t.pos + 1 /\ Scan(t).char = file.text[t.pos]
        /\ Scan(u) \in Input /\ Scan(u).pos = t.pos + 1 /\ Scan(u).char = file.text[t.pos]
        /\ Scan(u).eof = u.eof /\ Scan(t).eof = t.eof
    BY <1>4, <1>5, <1>7
  <2>2. u.eof = FALSE /\ s.pos # Len(file.text)
    BY <1>1, <1>2, <1>5, <1>7 DEF u
  <2>3. t.eof = FALSE
    BY <1>5, <2>2
  <2>4. On(Scan(u), place, k, (j + 1) + 1)
    BY <1>3, <2>1, <2>2 DEF Off, u
  <2>5. On(Scan(t), place, k, (j + 1) + 1)
    BY <2>1, <2>2, <2>3, <2>4 DEF On
  <2>6. j \in Nat
    <3>1. j \in 1 .. LineLen(listing[k]) /\ LineLen(listing[k]) \in {9, 10, 14}
      BY <1>0, SymbolOn
    <3> QED
      BY <3>1
  <2>7. (j + 1) + 1 = j + 2
    BY <2>6
  <2> QED
    BY <2>5, <2>7 DEF t
<1> QED
  BY <1>6, <1>7

LEMMA WrittenReads ==
    ASSUME ReaderInv, NEW listing, NEW place, Printing(listing, place),
           ReadInv(listing, place), TakeWritten
    PROVE  ReadInv(listing, place)'
<1> DEFINE s == Scan(in)
<1>1. /\ pc = "data" /\ pc' = "address" /\ UNCHANGED <<programVars, file>>
      /\ in.char = "0" /\ s.char = "x" /\ in' = Scan(AfterHex(s))
      /\ command' = [command EXCEPT !.data = HexValue(s)]
  BY DEF TakeWritten, At
<1>2. file \in Files /\ command \in Command
  BY DEF ReaderInv, ReaderTypes
<1>3. SUFFICES ASSUME room # 0 PROVE OnTrack(listing, place)' \/ CutShort'
  BY <1>1, ReadsOn DEF Awaiting
<1>4. PICK k \in 1 .. Len(listing) : Taking(listing, place, k)
  BY <1>1, <1>3, TakesFrom DEF Awaiting, CutShort
<1> DEFINE c == listing[k]
<1>5. /\ c \in Command /\ SaidInFull(c) /\ KnowsType(c) /\ c.order = "WRITE" /\ c.type = "DATA"
      /\ stored = Accepted(SubSeq(listing, 1, k - 1))
      /\ On(in, place, k, 6)
  BY <1>1, <1>4 DEF Taking
<1>6. LineLen(c) = 14
  BY <1>5, LineBack
<1>7. PrintedLine(c)[8] = Numeral(c.data)
  BY <1>5, LineFront
<1>8. Value[Numeral(c.data)] = c.data
  <2>1. \E v \in DOMAIN Value : Value[v] = c.data
    BY <1>5 DEF SaidInFull
  <2> QED
    BY <2>1, NumeralOf
<1>9. On(s, place, k, 7)
  <2>2. ~NumeralPlace(LineLen(c), 6 + 1)
    BY <1>6 DEF NumeralPlace
  <2>1. On(s, place, k, 6 + 1) \/ Off(s, in.char)
    BY <1>1, <1>2, <1>5, <2>2, Ahead
  <2> QED
    BY <1>1, <2>1 DEF Off
<1> HIDE DEF s
<1>10. CASE Off(in', "x")
  BY <1>1, <1>10, IsCutShort DEF Awaiting
<1>11. CASE TakesNumeral(s, place, k, 7)
  <2>1. Scan(s).char = Numeral(c.data) /\ HexValue(s) = Value[Scan(s).char]
    <3>1. On(Scan(s), place, k, 7 + 1) /\ HexValue(s) = Value[Scan(s).char] /\ 7 + 1 = 8
      BY <1>11 DEF TakesNumeral
    <3>2. Scan(s).char = PrintedLine(c)[8]
      BY <1>6, <3>1, SymbolOn
    <3> QED
      BY <1>7, <3>1, <3>2
  <2>2. command'.data = c.data /\ KnowsType(c)'
    BY <1>1, <1>2, <1>5, <1>8, <2>1 DEF KnowsType, KnowsOrder, Command
  <2>3. On(in', place, k, 7 + 2) \/ Off(in', "x")
    <3>1. ~NumeralPlace(LineLen(c), 7 + 2)
      BY <1>6 DEF NumeralPlace
    <3> QED
      BY <1>1, <1>2, <1>11, <3>1, AfterNumeral
  <2>4. CASE On(in', place, k, 9)
    <3>1. Awaits(c, 9)'
      BY <1>1, <1>6, <2>2 DEF Awaits
    <3> QED
      BY <1>1, <1>5, <1>6, <2>4, <3>1, StaysOnTrack DEF programVars
  <2> QED
    BY <1>10, <2>3, <2>4
<1>12. CASE MeetsEnd(listing, s, k)
  BY <1>1, <1>2, <1>10, <1>12, OffStays DEF MeetsEnd
<1>13. s.char = "x" /\ 7 + 1 = 8
  BY <1>1
<1> QED
  BY <1>2, <1>5, <1>9, <1>11, <1>12, <1>13, HexAhead

(* The last of a sequence, and what is before it.                          *)
LEMMA FrontAndLast ==
    ASSUME NEW S, NEW q \in Seq(S), NEW e \in S
    PROVE  Front(Append(q, e)) = q /\ Last(Append(q, e)) = e
<1>1. Len(q) \in Nat
  BY LenProperties
<1>2. /\ Append(q, e) \in Seq(S) /\ Len(Append(q, e)) = Len(q) + 1
      /\ \A i \in 1 .. Len(q) : Append(q, e)[i] = q[i]
      /\ Append(q, e)[Len(q) + 1] = e
  BY AppendProperties
<1> DEFINE t == SubSeq(Append(q, e), 1, Len(q))
<1>3. Front(Append(q, e)) = t
  <2>1. Len(q) + 1 - 1 = Len(q)
    BY <1>1
  <2> QED
    BY <1>2, <2>1 DEF Front
<1>4. t = q
  <2>1. \A i \in 1 .. Len(q) : Append(q, e)[i] \in S
    BY <1>2, ElementOfSeq
  <2>2. t \in Seq(S) /\ Len(t) = Len(q) /\ \A i \in 1 .. Len(q) : t[i] = q[i]
    BY <1>1, <1>2, <2>1
  <2> HIDE DEF t
  <2> QED
    BY <2>2, SeqEqual
<1> QED
  BY <1>2, <1>3, <1>4 DEF Last

LEMMA SameFields ==
    ASSUME NEW c \in Command, NEW d \in Command,
           c.order = d.order, c.type = d.type, c.size = d.size, c.data = d.data,
           c.vaddr = d.vaddr
    PROVE  c = d
BY DEF Command

(* Where the two characters after an address lead: to the next line, past  *)
(* a last separator, or past the end of the file.                          *)
LEMMA LineEnds ==
    ASSUME NEW listing, NEW place, Printing(listing, place), file \in Files,
           NEW u, NEW k \in 1 .. Len(listing), On(u, place, k, LineLen(listing[k]))
    PROVE  LET n == LineLen(listing[k])
           IN  \/ /\ Scan(u) \in Input /\ Scan(u).eof
                  /\ file.lines = SubSeq(listing, 1, k)
               \/ /\ On(Scan(u), place, k, n) /\ n \in {9, 10, 14}
                  /\ LinesUpTo(listing, place[Scan(u).pos - 1]) = k
               \/ /\ On(Scan(u), place, k + 1, 1)
                  /\ LinesUpTo(listing, place[Scan(u).pos - 1]) = k
<1> DEFINE n == LineLen(listing[k])
           i == u.pos - 1
<1>1. /\ u \in Input /\ u.pos \in Nat /\ u.eof = FALSE /\ Len(file.text) \in Nat
      /\ i \in 1 .. Len(file.text) /\ i + 1 = u.pos
      /\ place[i][1] = k /\ place[i][2] = n
  BY TextType DEF On, Input
<1>2. n \in {9, 10, 14} /\ k \in Nat
  <2>1. k \in 1 .. Len(listing) /\ listing \in Seq(Command) /\ LineLen(listing[k]) \in {9, 10, 14}
    BY SymbolOn DEF Printing
  <2> QED
    BY <2>1
<1>3. /\ Scan(u) \in Input
      /\ u.pos > Len(file.text) => Scan(u).eof = TRUE
      /\ ~(u.pos > Len(file.text))
           => Scan(u).pos = u.pos + 1 /\ Scan(u).char = file.text[u.pos] /\ Scan(u).eof = u.eof
  BY <1>1, Scanned
<1>4. CASE u.pos > Len(file.text)
  <2>1. u.pos - 1 = Len(file.text) /\ n >= n - 1
    BY <1>1, <1>2, <1>4
  <2>2. file.lines = SubSeq(listing, 1, IF n >= n - 1 THEN k ELSE k - 1)
    BY <2>1, LinesThere
  <2> QED
    BY <1>3, <1>4, <2>1, <2>2
<1>5. CASE ~(u.pos > Len(file.text))
  <2>1. i < Len(file.text) /\ Scan(u).pos - 1 = i + 1 /\ i + 1 \in 1 .. Len(file.text)
    BY <1>1, <1>3, <1>5
  <2>2. After(listing, place[i]) = <<k + 1, 1>>
    BY <1>1, <1>2 DEF After
  <2> HIDE DEF i
  <2>3. place[i + 1] = <<k + 1, 1>> \/ place[i + 1] = place[i]
    BY <1>1, <2>1, <2>2, NextSymbol
  <2>4. CASE place[i + 1] = place[i]
    <3>3. InFull(i + 1)
      BY <1>1, <1>2, <2>1, <2>4, CutWhere DEF NumeralPlace
    <3>1. On(Scan(u), place, k, n)
      BY <1>1, <1>3, <1>5, <2>1, <2>4, <3>3 DEF On
    <3>2. LinesUpTo(listing, place[i + 1]) = k
      BY <1>1, <1>2, <2>4 DEF LinesUpTo
    <3> QED
      BY <1>2, <2>1, <3>1, <3>2
  <2>5. CASE place[i + 1] = <<k + 1, 1>>
    <3>0. place[i + 1][1] = k + 1 /\ place[i + 1][2] = 1
      BY <2>5
    <3>2. LineLen(listing[k + 1]) \in {9, 10, 14}
      BY <2>1, <3>0, PlaceAt
    <3>4. InFull(i + 1)
      BY <2>1, <3>0, <3>2, CutWhere DEF NumeralPlace
    <3>1. On(Scan(u), place, k + 1, 1)
      BY <1>1, <1>3, <1>5, <2>1, <3>0, <3>4 DEF On
    <3>3. LinesUpTo(listing, place[i + 1]) = k
      BY <1>2, <3>0, <3>2 DEF LinesUpTo
    <3> QED
      BY <2>1, <3>1, <3>3
  <2> QED
    BY <2>3, <2>4, <2>5
<1> QED
  BY <1>4, <1>5

LEMMA AddressReads ==
    ASSUME ReaderInv, NEW listing, NEW place, Printing(listing, place),
           ReadInv(listing, place), TakeAddress
    PROVE  ReadInv(listing, place)'
<1> DEFINE s == Scan(Scan(in))
           d == [command EXCEPT !.vaddr = InitVirtAddr64(HexValue(s))]
<1>1. /\ pc = "address" /\ UNCHANGED file
      /\ in.char = "@" /\ Scan(in).char = "0" /\ s.char = "x"
      /\ command' = d /\ AddCommand(d)
      /\ in' = Scan(Scan(AfterHex(s))) /\ pc' = NextLine(in')
  BY DEF TakeAddress, At
<1>2. file \in Files /\ command \in Command /\ Len(file.text) \in Nat
      /\ allocated > 0 /\ (room = 0 => Len(stored) < allocated)
  BY <1>1, TextType DEF ReaderInv, ReaderTypes, ListInv, ReadInv, Awaiting
<1>3. /\ d \in Command
      /\ d.order = command.order /\ d.type = command.type /\ d.size = command.size
      /\ d.data = command.data /\ d.vaddr = InitVirtAddr64(HexValue(s))
  <2>1. HexValue(s) \in Nat
    BY NumeralType DEF ReaderInv
  <2> DEFINE v == InitVirtAddr64(HexValue(s))
  <2>2. v \in OffsetVirtAddr
    BY <2>1, AddressType
  <2>4. d = [command EXCEPT !.vaddr = v]
    OBVIOUS
  <2> HIDE DEF v, s, d
  <2>3. /\ d \in Command
        /\ d.order = command.order /\ d.type = command.type /\ d.size = command.size
        /\ d.data = command.data /\ d.vaddr = v
    BY <1>2, <2>2, <2>4 DEF Command
  <2> QED
    BY <2>3 DEF v
<1> HIDE DEF d
<1>4. /\ room = 0 => room' = 0
      /\ room' = 0 => Len(stored') < allocated'
      /\ room' # 0 => stored' = IF Accepts(d) THEN Append(stored, d) ELSE stored
  BY <1>1, <1>2, <1>3, AddResult
<1>5. pc' = (IF in'.eof THEN "ERR_NONE" ELSE "order")
  BY <1>1 DEF NextLine
<1>6. SUFFICES ASSUME room # 0, room' # 0
               PROVE  /\ pc' = "order" => OnTrack(listing, place)'
                      /\ pc' = "ERR_NONE" => ReadBack'
  BY <1>4, <1>5 DEF ReadInv, Awaiting
<1>7. PICK k \in 1 .. Len(listing) : Taking(listing, place, k)
  BY <1>1, <1>6, TakesFrom DEF Awaiting, CutShort
<1> DEFINE c == listing[k]
           n == LineLen(c)
<1>8. /\ c \in Command /\ n \in {9, 10, 14} /\ KnowsType(c) /\ command.data = c.data
      /\ stored = Accepted(SubSeq(listing, 1, k - 1))
      /\ On(in, place, k, n - 4)
  BY <1>1, <1>7 DEF Taking
<1> HIDE DEF n
<1>9. On(Scan(in), place, k, n - 3)
  <2>3. ~NumeralPlace(n, (n - 4) + 1)
    BY <1>8 DEF NumeralPlace
  <2>1. On(Scan(in), place, k, (n - 4) + 1) \/ Off(Scan(in), in.char)
    BY <1>1, <1>2, <1>8, <2>3, Ahead DEF n
  <2>2. (n - 4) + 1 = n - 3
    BY <1>8
  <2> QED
    BY <1>1, <2>1, <2>2 DEF Off
<1>10. On(s, place, k, n - 2)
  <2>3. ~NumeralPlace(n, (n - 3) + 1)
    BY <1>8 DEF NumeralPlace
  <2>1. On(s, place, k, (n - 3) + 1) \/ Off(s, Scan(in).char)
    BY <1>1, <1>2, <1>9, <2>3, Ahead DEF n
  <2>2. (n - 3) + 1 = n - 2
    BY <1>8
  <2> QED
    BY <1>1, <2>1, <2>2 DEF Off
<1> HIDE DEF s
<1>11. stored \in Seq(Listed) /\ listing \in Seq(Command)
  BY DEF ReaderInv, ReaderTypes, Printing
<1>12. CASE TakesNumeral(s, place, k, n - 2)
  <2> DEFINE u == Scan(AfterHex(s))
  <2>1. /\ On(Scan(s), place, k, (n - 2) + 1) /\ HexValue(s) = Value[Scan(s).char]
        /\ (n - 2) + 1 = n - 1 /\ (n - 2) + 2 = n
    BY <1>8, <1>12 DEF TakesNumeral
  <2>2. InitVirtAddr64(HexValue(s)) = c.vaddr
    BY <2>1, SymbolOn DEF n
  <2>3. d = c
    BY <1>3, <1>8, <2>2, SameFields DEF KnowsType, KnowsOrder
  <2>4. stored' = Accepted(SubSeq(listing, 1, k))
    BY <1>4, <1>6, <1>8, <1>11, <2>3, AcceptedGrows
  <2>5. On(u, place, k, n) \/ (Off(u, "x") /\ s.pos = Len(file.text))
    <3>1. ~NumeralPlace(n, (n - 2) + 2)
      BY <1>8 DEF NumeralPlace
    <3> QED
      BY <1>1, <1>2, <1>12, <2>1, <3>1, AfterNumeral DEF n
  <2> HIDE DEF u
  <2>6. in' = Scan(u)
    BY <1>1 DEF u
  <2>7. CASE Off(u, "x") /\ s.pos = Len(file.text)
    <3>1. in'.eof
      BY <1>2, <2>6, <2>7, OffStays DEF Off
    <3>2. Scan(s).pos - 1 = Len(file.text)
      <4>1. s \in Input /\ s.pos \in Nat /\ ~(s.pos > Len(file.text))
        BY <1>2, <1>10, <2>7 DEF On, Input
      <4>2. Scan(s).pos = s.pos + 1
        BY <1>2, <4>1, Scanned
      <4> QED
        BY <1>2, <2>7, <4>1, <4>2
    <3>3. file.lines = SubSeq(listing, 1, IF n - 1 >= n - 1 THEN k ELSE k - 1)
      BY <1>2, <2>1, <3>2, LinesThere DEF n
    <3>4. file.lines = SubSeq(listing, 1, k)
      BY <1>8, <3>3
    <3> QED
      BY <1>1, <1>5, <2>4, <3>1, <3>4 DEF ReadBack
  <2>8. CASE On(u, place, k, n)
    <3>1. \/ /\ in' \in Input /\ in'.eof
             /\ file.lines = SubSeq(listing, 1, k)
          \/ /\ On(in', place, k, n) /\ n \in {9, 10, 14}
             /\ LinesUpTo(listing, place[in'.pos - 1]) = k
          \/ /\ On(in', place, k + 1, 1)
             /\ LinesUpTo(listing, place[in'.pos - 1]) = k
      BY <1>2, <2>6, <2>8, LineEnds DEF n
    <3>2. CASE in'.eof /\ file.lines = SubSeq(listing, 1, k)
      BY <1>1, <1>5, <2>4, <3>2 DEF ReadBack
    <3>3. ASSUME NEW k2, NEW j2, On(in', place, k2, j2), j2 \in {1, LineLen(listing[k2])},
                 LinesUpTo(listing, place[in'.pos - 1]) = k
          PROVE  pc' = "order" /\ OnTrack(listing, place)'
      <4> DEFINE i == in'.pos - 1
      <4>1. /\ in' \in Input /\ i \in 1 .. Len(file.text) /\ InFull(i)
            /\ in'.char = file.text[i] /\ ~in'.eof
            /\ place[i][1] = k2 /\ place[i][2] = j2
        BY <3>3 DEF On
      <4>2. pc' = "order"
        BY <1>5, <4>1
      <4>3. Awaits(listing[k2], j2)'
        BY <3>3, <4>2 DEF Awaits
      <4> QED
        BY <1>1, <2>4, <3>3, <4>1, <4>2, <4>3 DEF OnTrack, InFull
    <3> QED
      BY <3>1, <3>2, <3>3 DEF n
  <2> QED
    BY <2>5, <2>7, <2>8
<1>13. CASE MeetsEnd(listing, s, k)
  <2>1. in'.eof
    BY <1>1, <1>2, <1>13, OffStays DEF Off, MeetsEnd
  <2>2. file.lines = SubSeq(listing, 1, k - 1)
    BY <1>13 DEF MeetsEnd
  <2>3. (Last(file.text) = "x" \/ file.inside) /\ LastNumber' = LastNumber
    BY <1>1, <1>13 DEF MeetsEnd, LastNumber
  <2>4. d.vaddr = InitVirtAddr64(LastNumber) /\ d \in Listed
    BY <1>3, <1>13 DEF Listed, MeetsEnd
  <2>5. Front(Append(stored, d)) = stored /\ Last(Append(stored, d)) = d
    BY <1>11, <2>4, FrontAndLast
  <2>6. stored = Accepted(file.lines)
    BY <1>8, <2>2
  <2>7. ReadBack'
    <3>1. CASE Accepts(d)
      BY <1>1, <1>4, <1>6, <2>3, <2>4, <2>5, <2>6, <3>1 DEF ReadBack
    <3>2. CASE ~Accepts(d)
      BY <1>1, <1>4, <1>6, <2>6, <3>2 DEF ReadBack
    <3> QED
      BY <3>1, <3>2
  <2> QED
    BY <1>5, <2>1, <2>7
<1>14. s.char = "x" /\ (n - 2) + 1 = n - 1
  BY <1>1, <1>8
<1> QED
  BY <1>2, <1>10, <1>12, <1>13, <1>14, HexAhead DEF n

(* A file that has all it was written with is never found malformed.       *)
LEMMA MalformedReads ==
    ASSUME ReaderInv, NEW listing, NEW place, Printing(listing, place),
           ReadInv(listing, place), Malformed
    PROVE  ReadInv(listing, place)'
<1> DEFINE next == Scan(in)
<1>1. /\ \/ pc = "order" /\ in.char \notin {"R", "W"}
         \/ pc = "type" /\ in.char \notin {"I", "D"}
         \/ pc = "type" /\ in.char = "D" /\ next.char \notin {"W", "B"}
         \/ pc = "data" /\ (in.char # "0" \/ next.char # "x")
         \/ pc = "address" /\ (in.char # "@" \/ next.char # "0" \/ Scan(next).char # "x")
      /\ pc \in Awaiting /\ in.char # "space"
      /\ pc' = "ERR_BAD_PARAMETER" /\ UNCHANGED <<programVars, file>>
  BY DEF Malformed, At, Awaiting
<1>2. file \in Files
  BY DEF ReaderInv, ReaderTypes
<1>3. SUFFICES ASSUME room # 0, file.whole PROVE FALSE
  BY <1>1 DEF ReadInv, Awaiting, programVars
<1>4. PICK k \in 1 .. Len(listing) : Taking(listing, place, k)
  BY <1>1, <1>3, TakesFrom DEF CutShort
<1> DEFINE c == listing[k]
           n == LineLen(c)
           P == PrintedLine(c)
<1>5. /\ c \in Command /\ SaidInFull(c) /\ n \in {9, 10, 14}
      /\ pc = "order" => On(in, place, k, 1)
      /\ pc = "type" => On(in, place, k, 3)
      /\ pc = "data" => On(in, place, k, 6) /\ c.order = "WRITE" /\ c.type = "DATA"
      /\ pc = "address" => On(in, place, k, n - 4)
  BY <1>4 DEF Taking
<1>6. /\ P[1] = (IF c.order = "READ" THEN "R" ELSE "W")
      /\ P[3] = (IF c.type = "INSTRUCTION" THEN "I" ELSE "D")
      /\ c.type = "DATA" => P[4] = (IF c.size = 1 THEN "B" ELSE "W")
      /\ c.type = "DATA" /\ c.order = "WRITE" => P[6] = "0" /\ P[7] = "x"
  BY <1>5, LineFront
<1>7. /\ n = IF c.type = "INSTRUCTION" THEN 9 ELSE IF c.order = "READ" THEN 10 ELSE 14
      /\ P[n - 4] = "@" /\ P[n - 3] = "0" /\ P[n - 2] = "x"
  BY <1>5, LineBack
<1>8. c.type \in {"INSTRUCTION", "DATA"} /\ c.order \in {"READ", "WRITE"}
  BY <1>5 DEF Command
<1>9. ASSUME NEW s, NEW j, On(s, place, k, j), j # n - 1
      PROVE  s.char = P[j]
  BY <1>9, SymbolOn
<1>10. ASSUME NEW s, NEW j, On(s, place, k, j), s.char # "space"
       PROVE  On(Scan(s), place, k, j + 1)
  BY <1>2, <1>3, <1>10, MovesAhead, CutOn DEF Off
<1> HIDE DEF c, n, P, next
<1>11. CASE pc = "order"
  <2>1. in.char = P[1]
    BY <1>5, <1>9, <1>11
  <2> QED
    BY <1>1, <1>6, <1>11, <2>1
<1>12. CASE pc = "type"
  <2>1. in.char = P[3]
    BY <1>5, <1>9, <1>12
  <2>2. in.char = "D" /\ next.char \notin {"W", "B"} /\ c.type = "DATA"
    BY <1>1, <1>6, <1>8, <1>12, <2>1
  <2>3. On(next, place, k, 3 + 1)
    BY <1>1, <1>5, <1>10, <1>12 DEF next
  <2>4. 3 + 1 # n - 1
    BY <1>5
  <2>5. next.char = P[3 + 1]
    BY <1>9, <2>3, <2>4
  <2> QED
    BY <1>6, <2>2, <2>5
<1>13. CASE pc = "data"
  <2>1. in.char = P[6] /\ n = 14
    BY <1>5, <1>7, <1>9, <1>13
  <2>2. On(next, place, k, 6 + 1)
    BY <1>1, <1>5, <1>10, <1>13 DEF next
  <2>3. 6 + 1 # n - 1
    BY <2>1
  <2>4. next.char = P[6 + 1]
    BY <1>9, <2>2, <2>3
  <2> QED
    BY <1>1, <1>5, <1>6, <1>13, <2>1, <2>4
<1>14. CASE pc = "address"
  <2>1. n - 4 # n - 1 /\ n - 3 # n - 1 /\ n - 2 # n - 1
        /\ (n - 4) + 1 = n - 3 /\ (n - 3) + 1 = n - 2
    BY <1>5
  <2>2. in.char = P[n - 4]
    BY <1>5, <1>9, <1>14, <2>1
  <2>3. On(next, place, k, (n - 4) + 1)
    BY <1>1, <1>5, <1>10, <1>14 DEF next
  <2>4. next.char = P[n - 3]
    BY <1>9, <2>1, <2>3
  <2>5. On(Scan(next), place, k, (n - 3) + 1)
    <3>1. next.char # "space" /\ On(next, place, k, n - 3)
      BY <1>7, <2>1, <2>3, <2>4
    <3> QED
      BY <1>10, <3>1
  <2>6. Scan(next).char = P[n - 2]
    BY <1>9, <2>1, <2>5
  <2> QED
    BY <1>1, <1>7, <1>14, <2>2, <2>4, <2>6
<1> QED
  BY <1>1, <1>11, <1>12, <1>13, <1>14 DEF Awaiting

LEMMA OpenReads ==
    ASSUME ReaderInv, NEW listing, NEW place, Printing(listing, place),
           ReadInv(listing, place), OpenFails \/ OpenProgram
    PROVE  ReadInv(listing, place)'
<1>1. CASE OpenFails
  <2>1. /\ pc' \in {"ERR_BAD_PARAMETER", "ERR_IO"}
        /\ pc' = "ERR_BAD_PARAMETER" => room' = 0
    BY <1>1 DEF OpenFails, InitProgram
  <2> QED
    BY <2>1 DEF ReadInv, Awaiting
<1>2. CASE OpenProgram
  <2>1. /\ pc = "start" /\ in' = Scan(in) /\ UNCHANGED file
        /\ pc' = (IF in'.eof THEN "ERR_NONE" ELSE "order")
        /\ stored' = << >> /\ allocated' = PointerSize
    BY <1>2 DEF OpenProgram, InitProgram, NextLine
  <2>2. in \in Input /\ in.pos = 1 /\ in.eof = FALSE
    BY <2>1 DEF ReadInv, Input
  <2>3. file \in Files /\ Len(file.text) \in Nat /\ PointerSize \in Nat \ {0}
    BY TextType, AllocationAssumption DEF ReaderInv, ReaderTypes
  <2>4. /\ in' \in Input
        /\ in.pos > Len(file.text) => in'.eof = TRUE
        /\ ~(in.pos > Len(file.text))
             => in'.pos = in.pos + 1 /\ in'.char = file.text[in.pos] /\ in'.eof = in.eof
    BY <2>1, <2>2, <2>3, Scanned
  <2>5. Accepted(SubSeq(listing, 1, 0)) = << >>
    BY AcceptedGrows DEF Printing
  <2>6. CASE Len(file.text) = 0
    <3>1. in'.eof /\ pc' = "ERR_NONE"
      BY <2>1, <2>2, <2>4, <2>6
    <3>2. file.lines = SubSeq(listing, 1, 0)
      BY <2>6, TextEnds
    <3>3. ReadBack'
      BY <2>1, <2>5, <3>2 DEF ReadBack
    <3> QED
      BY <3>1, <3>3 DEF ReadInv, Awaiting
  <2>7. CASE Len(file.text) # 0
    <3>1. in'.pos = 2 /\ in'.char = file.text[1] /\ in'.eof = FALSE
      BY <2>2, <2>3, <2>4, <2>7
    <3>2. 1 \in 1 .. Len(file.text) /\ in'.pos - 1 = 1
      BY <2>3, <2>7, <3>1
    <3>3. place[1] = <<1, 1>>
      BY <3>2 DEF Printing, PrintedAs
    <3>4. place[1][1] = 1 /\ place[1][2] = 1
      BY <3>3
    <3>6. LineLen(listing[1]) \in {9, 10, 14}
      BY <3>2, <3>4, PlaceAt
    <3>5. InFull(1)
      BY <3>2, <3>4, <3>6, CutWhere DEF NumeralPlace
    <3>7. LinesUpTo(listing, place[1]) = 0
      BY <3>4, <3>6 DEF LinesUpTo
    <3>8. pc' = "order"
      BY <2>1, <3>1
    <3>9. Awaits(listing[1], 1)'
      BY <3>8 DEF Awaits
    <3>10. OnTrack(listing, place)'
      BY <2>1, <2>4, <2>5, <3>1, <3>2, <3>4, <3>5, <3>7, <3>9 DEF OnTrack, InFull
    <3>11. Len(stored') < allocated'
      BY <2>1, <2>3
    <3> QED
      BY <3>8, <3>10, <3>11 DEF ReadInv, Awaiting
  <2> QED
    BY <2>6, <2>7
<1> QED
  BY <1>1, <1>2

LEMMA ReadNext ==
    ASSUME ReaderInv, NEW listing, NEW place, Printing(listing, place),
           ReadInv(listing, place), [Next]_vars
    PROVE  Printing(listing, place)' /\ ReadInv(listing, place)'
<1>1. UNCHANGED file
  BY DEF Next, Load, ReadProgram, Client, vars, readerVars, readVars, ClientStep, ReaderStep,
         OpenFails, OpenProgram, SkipSpace, TakeOrder, TakeInstruction, TakeData, TakeWritten,
         TakeAddress, Malformed
<1>2. Printing(listing, place)'
  BY <1>1 DEF Printing, PrintedAs
<1> SUFFICES ReadInv(listing, place)'
  BY <1>2
<1>3. CASE ReaderStep
  BY <1>3, OpenReads, SkipReads, OrderReads, InstructionReads, DataReads, WrittenReads,
     AddressReads, MalformedReads DEF ReaderStep
<1>4. CASE ClientStep
  <2>1. pc' \in {"edited", "freed"}
    BY <1>4 DEF ClientStep
  <2> QED
    BY <2>1 DEF ReadInv, Awaiting
<1>5. CASE UNCHANGED readerVars
  BY <1>5 DEF readerVars, programVars, readVars, ReadInv, OnTrack, CutShort, ReadBack, Awaits,
              KnowsType, KnowsOrder, InFull, LastNumber
<1> QED
  BY <1>3, <1>4, <1>5 DEF Next, Load, ReadProgram, Client, vars

(* Each file is what program_print writes of some listing.                 *)
PrintedFiles ==
    \A f \in Files : \E listing \in Seq(Command) : \E place :
        /\ \A k \in 1 .. Len(listing) : SaidInFull(listing[k])
        /\ PrintedAs(f, listing, place)

ReadBackInv == \E listing, place : Printing(listing, place) /\ ReadInv(listing, place)

LEMMA ReadStarts == ASSUME PrintedFiles, Init PROVE ReadBackInv
<1>1. file \in Files
  BY ReaderStarts DEF ReaderInv, ReaderTypes
<1>2. PICK listing, place : Printing(listing, place)
  BY <1>1 DEF PrintedFiles, Printing
<1>3. in = [pos |-> 1, char |-> "x", eof |-> FALSE] /\ pc = "start" /\ room = 0
  BY DEF Init, ReaderInit
<1>4. in \in Input /\ in.pos = 1 /\ ~in.eof
  <2>1. "x" \in Symbols
    BY DEF Symbols, Signs
  <2> QED
    BY <1>3, <2>1 DEF Input
<1>5. ReadInv(listing, place)
  BY <1>3, <1>4 DEF ReadInv, Awaiting
<1> QED
  BY <1>2, <1>5 DEF ReadBackInv

(* What program_print wrote of commands it writes in full, program_read    *)
(* gives back: the commands program_add_command accepts, with one command  *)
(* more at most where a file ends before or among the digits of an address,*)
(* whose address is the digits there are; and it refuses no file that is   *)
(* whole.                                                                  *)
THEOREM ListingsReadBack ==
    ASSUME PrintedFiles PROVE Spec => []ReadsWhatIsPrinted
<1>1. Init => ReadBackInv
  BY ReadStarts
<1>2. ReaderInv /\ ReadBackInv /\ [Next]_vars => ReadBackInv'
  <2> SUFFICES ASSUME ReaderInv, ReadBackInv, [Next]_vars PROVE ReadBackInv'
    OBVIOUS
  <2>1. PICK listing, place : Printing(listing, place) /\ ReadInv(listing, place)
    BY DEF ReadBackInv
  <2>2. Printing(listing, place)' /\ ReadInv(listing, place)'
    BY <2>1, ReadNext
  <2> QED
    BY <2>2 DEF ReadBackInv
<1>3. ReadBackInv => ReadsWhatIsPrinted
  BY DEF ReadBackInv, ReadInv, ReadBack, ReadsWhatIsPrinted
<1> QED
  BY <1>1, <1>2, <1>3, ListingSound, PTL DEF Spec
-----------------------------------------------------------------------------
(* What program_read has read, in any file.                                *)

Within(s) == file \in Files /\ s \in Input /\ s.pos <= Len(file.text) + 1

(* Input t is read from input s: no symbol, and no end, is unread.         *)
Onward(s, t) == Within(t) /\ s.pos <= t.pos /\ (s.eof = TRUE => t.eof = TRUE)

LEMMA OnwardOn ==
    ASSUME NEW s, NEW t, NEW u, Within(s), Onward(s, t), Onward(t, u)
    PROVE  Onward(s, u)
BY DEF Onward, Within, Input

LEMMA ScanOnward ==
    ASSUME NEW s, Within(s)
    PROVE  /\ Onward(s, Scan(s))
           /\ s.pos > Len(file.text) => Scan(s) = [s EXCEPT !.eof = TRUE] /\ Scan(s).char = s.char
           /\ ~(s.pos > Len(file.text)) => s.pos < Scan(s).pos
<1>1. s \in Input /\ s.pos \in Nat /\ Len(file.text) \in Nat /\ file \in Files
  BY TextType DEF Within, Input
<1>2. /\ Scan(s) \in Input
      /\ s.pos > Len(file.text)
           => Scan(s).pos = s.pos /\ Scan(s).char = s.char /\ Scan(s).eof = TRUE
      /\ ~(s.pos > Len(file.text)) => Scan(s).pos = s.pos + 1 /\ Scan(s).eof = s.eof
  BY <1>1, Scanned
<1>3. s.pos > Len(file.text) => Scan(s) = [s EXCEPT !.eof = TRUE]
  BY DEF Scan
<1> QED
  BY <1>1, <1>2, <1>3 DEF Within, Onward

(* Past the spaces there is a symbol that is none, or the end of the file. *)
LEMMA HexStarts ==
    ASSUME NEW s, Within(s)
    PROVE  HexStart(s) \in s.pos .. Len(file.text) + 1
<1> DEFINE n == Len(file.text)
           T == {p \in s.pos .. n + 1 : p <= n => file.text[p] # "space"}
<1>1. s.pos \in Nat /\ n \in Nat
  BY TextType DEF Within, Input
<1>2. n + 1 \in T /\ T \subseteq Nat
  BY <1>1 DEF Within
<1>3. PICK x \in T : \A y \in T : ~(y < x)
  BY <1>2, LeastNat
<1>4. \A q \in s.pos .. x - 1 : file.text[q] = "space"
  <2> SUFFICES ASSUME NEW q \in s.pos .. x - 1 PROVE file.text[q] = "space"
    OBVIOUS
  <2>1. q \in s.pos .. n + 1 /\ q < x /\ q <= n
    BY <1>1, <1>3
  <2>2. q \notin T
    BY <1>3, <2>1
  <2> QED
    BY <2>1, <2>2
<1>5. /\ x \in s.pos .. n + 1
      /\ x <= n => file.text[x] # "space"
  BY <1>3
<1> QED
  BY <1>4, <1>5 DEF HexStart

LEMMA HexOnward ==
    ASSUME NEW s, Within(s)
    PROVE  Onward(s, AfterHex(s))
<1> DEFINE p == IF HexFound(s) THEN HexStart(s) + 1 ELSE HexStart(s)
           e == s.eof \/ p > Len(file.text)
           t == [s EXCEPT !.pos = p, !.eof = e]
<1>1. s \in Input /\ s.pos \in Nat \ {0} /\ Len(file.text) \in Nat /\ file \in Files
  BY TextType DEF Within, Input
<1>2. HexStart(s) \in s.pos .. Len(file.text) + 1
  BY HexStarts
<1>3. p \in Nat \ {0} /\ s.pos <= p /\ p <= Len(file.text) + 1
  BY <1>1, <1>2 DEF HexFound
<1>4. e \in BOOLEAN /\ (s.eof = TRUE => e = TRUE)
  <2>1. e \in BOOLEAN
    OBVIOUS
  <2>2. ASSUME s.eof = TRUE PROVE e = TRUE
    BY <2>2, Zenon
  <2> QED
    BY <2>1, <2>2
<1>5. AfterHex(s) = t
  BY DEF AfterHex
<1> HIDE DEF p, e
<1>6. t \in Input /\ t.pos = p /\ t.eof = e
  BY <1>1, <1>3, <1>4 DEF Input
<1> HIDE DEF t
<1> QED
  BY <1>1, <1>3, <1>4, <1>5, <1>6 DEF Onward, Within

LEMMA Fewer ==
    ASSUME NEW n \in Nat, NEW p \in Nat, NEW q \in Nat, p <= q,
           NEW w \in 1 .. 4, NEW v \in 1 .. 4, p < q \/ v < w,
           NEW e \in 0 .. 1, NEW f \in 0 .. 1, f <= e
    PROVE  5 * (n + 1 - q) + v + f < 5 * (n + 1 - p) + w + e
OBVIOUS

(* Who has read on, or awaits less of the line, is nearer to the end.      *)
LEMMA Nearer ==
    ASSUME Within(in), Onward(in, in'), UNCHANGED file, pc \in Awaiting, pc' \in Awaiting,
           in.pos < in'.pos \/ Waits' < Waits
    PROVE  TurnsLeft' < TurnsLeft
<1> DEFINE e == IF in.eof THEN 0 ELSE 1
           f == IF in'.eof THEN 0 ELSE 1
<1>1. in.pos \in Nat /\ in'.pos \in Nat /\ Len(file.text) \in Nat /\ in.pos <= in'.pos
  BY TextType DEF Within, Onward, Input
<1>2. Waits \in 1 .. 4 /\ Waits' \in 1 .. 4
  BY DEF Waits, Awaiting
<1>3. e \in 0 .. 1 /\ f \in 0 .. 1 /\ f <= e
  BY DEF Within, Onward, Input
<1>4. /\ TurnsLeft = 5 * (Len(file.text) + 1 - in.pos) + Waits + e
      /\ TurnsLeft' = 5 * (Len(file.text) + 1 - in'.pos) + Waits' + f
  BY DEF TurnsLeft
<1> HIDE DEF e, f
<1>5. 5 * (Len(file.text) + 1 - in'.pos) + Waits' + f
        < 5 * (Len(file.text) + 1 - in.pos) + Waits + e
  BY <1>1, <1>2, <1>3, Fewer
<1> QED
  BY <1>4, <1>5

(* Where another symbol than the current one follows, it is read.          *)
LEMMA ReadsAnother ==
    ASSUME NEW s, Within(s), Scan(s).char # s.char
    PROVE  Onward(s, Scan(s)) /\ s.pos < Scan(s).pos
BY ScanOnward

(* Each turn of program_read leaves no symbol unread.                      *)
LEMMA ReadsOnward ==
    ASSUME Within(in), ReaderStep
    PROVE  Within(in)' /\ UNCHANGED file /\ Onward(in, in')
<1> DEFINE s == Scan(in)
           t == Scan(s)
<1>1. Onward(in, in) /\ Onward(in, s) /\ Onward(in, t) /\ Within(s) /\ Within(t)
  <2>1. Onward(in, in)
    BY TextType DEF Within, Onward, Input
  <2>2. Onward(in, s) /\ Within(s)
    BY ScanOnward DEF Onward
  <2>3. Onward(s, t) /\ Within(t)
    BY <2>2, ScanOnward DEF Onward
  <2> QED
    BY <2>1, <2>2, <2>3, OnwardOn
<1>2. \A u : Within(u) /\ Onward(in, u)
        => Onward(in, Scan(AfterHex(u))) /\ Onward(in, Scan(Scan(AfterHex(u))))
  <2> SUFFICES ASSUME NEW u, Within(u), Onward(in, u)
               PROVE  Onward(in, Scan(AfterHex(u))) /\ Onward(in, Scan(Scan(AfterHex(u))))
    OBVIOUS
  <2>1. Onward(u, AfterHex(u)) /\ Within(AfterHex(u))
    BY HexOnward DEF Onward
  <2>2. Onward(AfterHex(u), Scan(AfterHex(u))) /\ Within(Scan(AfterHex(u)))
    BY <2>1, ScanOnward DEF Onward
  <2>3. Onward(Scan(AfterHex(u)), Scan(Scan(AfterHex(u))))
    BY <2>2, ScanOnward
  <2> QED
    BY <2>1, <2>2, <2>3, OnwardOn
<1>3. Onward(in, in') /\ UNCHANGED file
  <2>1. in' \in {in, s, t, Scan(AfterHex(s)), Scan(Scan(AfterHex(t)))} /\ UNCHANGED file
    BY DEF ReaderStep, OpenFails, OpenProgram, SkipSpace, TakeOrder,
       TakeInstruction, TakeData, TakeWritten, TakeAddress, Malformed
  <2> QED
    BY <1>1, <1>2, <2>1
<1> QED
  BY <1>3 DEF Onward, Within

LEMMA StepNearer ==
    ASSUME Within(in), ReaderStep, pc \in Awaiting
    PROVE  pc' \in Returned \/ TurnsLeft' < TurnsLeft \/ UNCHANGED readerVars
<1>1. Onward(in, in') /\ UNCHANGED file
  BY ReadsOnward
<1>2. CASE SkipSpace
  <2>1. CASE in.pos > Len(file.text)
    <3>1. in' = [in EXCEPT !.eof = TRUE] /\ in'.char = in.char
      BY <1>2, <2>1, ScanOnward DEF SkipSpace
    <3>2. CASE in.eof = TRUE
      <4>1. in' = in
        BY <3>1, <3>2 DEF Within, Input
      <4> QED
        BY <1>2, <4>1 DEF SkipSpace, readerVars, readVars
    <3>3. CASE in.eof = FALSE
      <4>1. in'.pos = in.pos /\ in'.eof = TRUE /\ UNCHANGED pc
        BY <1>2, <3>1 DEF SkipSpace, Within, Input
      <4>2. UNCHANGED Waits
        BY <4>1 DEF Waits
      <4> DEFINE m == 5 * (Len(file.text) + 1 - in.pos) + Waits
      <4>3. m \in Int
        <5>1. in.pos \in Nat /\ Len(file.text) \in Nat
          BY TextType DEF Within, Input
        <5>2. Waits \in 1 .. 4
          BY DEF Waits, Awaiting
        <5>3. Waits \in Int /\ Len(file.text) + 1 - in.pos \in Int
          BY <5>1, <5>2
        <5> DEFINE w == Waits
                   r == Len(file.text) + 1 - in.pos
        <5> HIDE DEF w, r
        <5>4. 5 * r + w \in Int
          BY <5>3 DEF w, r
        <5> QED
          BY <5>4 DEF w, r
      <4>4. TurnsLeft = m + 1
        BY <3>3 DEF TurnsLeft
      <4>5. TurnsLeft' = m + 0
        BY <1>1, <4>1, <4>2 DEF TurnsLeft
      <4> HIDE DEF m
      <4>6. TurnsLeft' < TurnsLeft
        BY <4>3, <4>4, <4>5
      <4> QED
        BY <4>6
    <3> QED
      BY <3>2, <3>3 DEF Within, Input
  <2>2. CASE ~(in.pos > Len(file.text))
    BY <1>1, <1>2, <2>2, ScanOnward, Nearer DEF SkipSpace
  <2> QED
    BY <2>1, <2>2
<1>3. CASE TakeOrder \/ TakeInstruction \/ TakeData \/ TakeWritten
  <2>1. pc' \in Awaiting /\ Waits' < Waits
    BY <1>3 DEF TakeOrder, TakeInstruction, TakeData, TakeWritten, At, Operand, Waits, Awaiting
  <2> QED
    BY <1>1, <2>1, Nearer
<1>4. CASE TakeAddress
  <2> DEFINE s == Scan(in)
             t == Scan(s)
  <2>1. in.char # s.char /\ s.char # t.char
        /\ in' = Scan(Scan(AfterHex(t))) /\ pc' \in Returned \cup Awaiting
    BY <1>4 DEF TakeAddress, NextLine, Returned, Awaiting
  <2>2. in.pos < s.pos /\ Onward(in, s) /\ Within(s)
    BY <2>1, ReadsAnother DEF Onward
  <2>3. Onward(s, t) /\ Within(t)
    BY <2>2, ScanOnward DEF Onward
  <2>4. Onward(t, AfterHex(t)) /\ Within(AfterHex(t))
    BY <2>3, HexOnward DEF Onward
  <2>5. Onward(AfterHex(t), Scan(AfterHex(t))) /\ Within(Scan(AfterHex(t)))
    BY <2>4, ScanOnward DEF Onward
  <2>6. Onward(Scan(AfterHex(t)), in')
    BY <2>1, <2>5, ScanOnward
  <2>7. Onward(s, in')
    BY <2>2, <2>3, <2>4, <2>5, <2>6, OnwardOn
  <2>8. in.pos < in'.pos
    BY <2>2, <2>7 DEF Onward, Within, Input
  <2> QED
    BY <1>1, <2>1, <2>8, Nearer
<1>5. CASE Malformed
  BY <1>5 DEF Malformed, Returned
<1>6. ~OpenFails /\ ~OpenProgram
  BY DEF OpenFails, OpenProgram, Awaiting
<1> QED
  BY <1>2, <1>3, <1>4, <1>5, <1>6 DEF ReaderStep

LEMMA WithinStarts == ASSUME Init PROVE Within(in)
<1>1. file \in Files
  BY ReaderStarts DEF ReaderInv, ReaderTypes
<1>2. in = [pos |-> 1, char |-> "x", eof |-> FALSE]
  BY DEF Init, ReaderInit
<1>3. in \in Input /\ in.pos = 1
  BY <1>2 DEF Input, Symbols, Signs
<1> QED
  BY <1>1, <1>3, TextType DEF Within

LEMMA WithinNext ==
    ASSUME Within(in), [Next]_vars
    PROVE  /\ Within(in)'
           /\ [(pc \in Awaiting) => pc' \in Returned \/ TurnsLeft' < TurnsLeft]_readerVars
<1>1. CASE ReadProgram
  BY <1>1, ReadsOnward, StepNearer DEF ReadProgram
<1>2. CASE Client
  <2>1. pc \notin Awaiting /\ UNCHANGED <<file, in>>
    BY <1>2 DEF Client, ClientStep, Awaiting
  <2> QED
    BY <2>1 DEF Within
<1>3. CASE UNCHANGED readerVars
  BY <1>3 DEF readerVars, readVars, Within
<1> QED
  BY <1>1, <1>2, <1>3 DEF Next, Load, vars

(* In any file, each turn of program_read ends it, brings it nearer to the *)
(* end, or is the turn of a loop over spaces that changes nothing, for     *)
(* ever: it takes no more turns than five for a symbol and one for the end.*)
THEOREM ReadingMovesOn == Spec => ReadingAdvances
<1> DEFINE W == Within(in)
<1>1. Init => W
  BY WithinStarts
<1>2. W /\ [Next]_vars => W'
  BY WithinNext
<1>3. W /\ [Next]_vars
        => [(pc \in Awaiting) => pc' \in Returned \/ TurnsLeft' < TurnsLeft]_readerVars
  BY WithinNext
<1> QED
  BY <1>1, <1>2, <1>3, PTL DEF Spec, ReadingAdvances
-----------------------------------------------------------------------------
(* The memory loader.                                                      *)

LoaderTypes ==
    /\ desc \in Descriptions
    /\ image \in [DOMAIN image -> Nat]
    /\ line \in Nat /\ left \in Nat
    /\ stage \in {"start", "pgd", "count", "pages", "next_line"} \cup LoaderReturned
    /\ stage = "pages" => line > 0
    /\ astray \in BOOLEAN

(* Entries that page_walk can follow without leaving memory.               *)
Followable == {x \in Nat : PageAligned(x) => Inside(x)}

ContainedInv ==
    Contained(desc) =>
        /\ ~astray
        /\ stage \in {"pgd", "count", "pages"} => image \in [Entries -> Followable]

LoaderInv == LoaderTypes /\ ContainedInv

LEMMA Sizes ==
    /\ PageSize \in Nat \ {0} /\ PteBytes \in Nat \ {0}
    /\ PageEntries \in Nat /\ PageSize = PageEntries * PteBytes
    /\ PdEntries \in Nat \ {0} /\ PdEntries <= PageEntries
<1>1. PageSize \in Nat \ {0} /\ PteBytes \in Nat \ {0} /\ PdEntries \in Nat \ {0}
  BY PagingAssumption
<1>2. /\ PageSize \div PteBytes \in Nat
      /\ PageSize = (PageSize \div PteBytes) * PteBytes + (PageSize % PteBytes)
  BY <1>1, DivMod
<1>3. PageSize % PteBytes = 0 /\ PdEntries <= PageEntries
  BY LoaderAssumption
<1> QED
  BY <1>1, <1>2, <1>3 DEF PageEntries

LEMMA DescriptionTypes ==
    ASSUME NEW d \in Descriptions
    PROVE  /\ d.size \in Nat /\ d.size % PteBytes = 0
           /\ AsSize(d.count) \in Nat
           /\ Len(d.pages) \in Nat
           /\ \A i \in 1 .. Len(d.pages) : d.pages[i].at \in Nat
<1> DEFINE Listing == [at : Nat, file : STRING, kind : {"table", "data", "blank"}]
<1>1. /\ d.size \in Nat /\ d.size % PteBytes = 0
      /\ d.pages \in Seq(Listing)
      /\ d.count \in Int /\ d.count + SizeValues \in Nat
  BY LoaderAssumption
<1>2. AsSize(d.count) \in Nat
  BY <1>1 DEF AsSize
<1> HIDE DEF Listing
<1>3. Len(d.pages) \in Nat /\ \A i \in 1 .. Len(d.pages) : d.pages[i] \in Listing
  BY <1>1, LenProperties, ElementOfSeq
<1> QED
  BY <1>1, <1>2, <1>3 DEF Listing

(* A page read keeps what memory is made of, if the page is made of it.    *)
LEMMA CopiedInto ==
    ASSUME NEW D, NEW V, NEW m \in [D -> V], NEW f, IsPage(f), NEW address,
           \A i \in 1 .. Len(PageFiles[f]) : PageFiles[f][i] \in V
    PROVE  Copied(m, f, address) \in [D -> V]
<1>1. PageEntries \in Nat /\ Len(PageFiles[f]) = PageEntries
  BY Sizes DEF IsPage
<1>2. \A i \in 0 .. PageEntries - 1 : PageFiles[f][i + 1] \in V
  BY <1>1
<1> QED
  BY <1>2 DEF Copied

LEMMA FileEntries ==
    ASSUME NEW f, IsPage(f)
    PROVE  \A i \in 1 .. Len(PageFiles[f]) : PageFiles[f][i] \in Nat
<1>1. PageFiles[f] \in Seq(Nat)
  BY LoaderAssumption DEF IsPage
<1> QED
  BY <1>1, ElementOfSeq

LEMMA ReadTypes ==
    ASSUME LoaderTypes, NEW f, NEW address, PageFileRead(f, address)
    PROVE  image' \in [DOMAIN image' -> Nat] /\ astray' \in BOOLEAN
<1>1. IsPage(f)
  BY DEF PageFileRead
<1>2. CASE image' = Copied(image, f, address) /\ astray' = astray
  <2>1. Copied(image, f, address) \in [DOMAIN image -> Nat]
    BY <1>1, CopiedInto, FileEntries DEF LoaderTypes
  <2> QED
    BY <1>2, <2>1 DEF LoaderTypes
<1>3. CASE astray' = TRUE /\ image' = image
  BY <1>3 DEF LoaderTypes
<1> QED
  BY <1>2, <1>3 DEF PageFileRead

LEMMA LoaderStepTypes ==
    ASSUME LoaderTypes, LoaderStep
    PROVE  LoaderTypes'
<1>1. ASSUME NEW err, Fail(err), err \in LoaderReturned PROVE LoaderTypes'
  BY <1>1 DEF Fail, LoaderTypes, LoaderReturned
<1>2. CASE LoadDump
  <2>1. PICK dump \in Dumps : image' = dump
    BY <1>2 DEF LoadDump
  <2>2. dump \in [DOMAIN dump -> Nat]
    BY LoaderAssumption
  <2> QED
    BY <1>2, <2>1, <2>2 DEF LoadDump, LoaderTypes, LoaderReturned
<1>3. CASE LoadFails
  BY <1>1, <1>3 DEF LoadFails, LoaderReturned
<1>4. CASE ReadSize
  <2>1. Zeroed \in [DOMAIN Zeroed -> Nat]
    BY DEF Zeroed
  <2> QED
    BY <1>4, <2>1 DEF ReadSize, LoaderTypes
<1>5. CASE ReadPgd
  BY <1>5, ReadTypes DEF ReadPgd, LoaderTypes
<1>6. CASE PgdFails
  BY <1>1, <1>6 DEF PgdFails, LoaderReturned
<1>7. CASE ReadCount
  <2>1. AsSize(desc.count) \in Nat
    BY DescriptionTypes DEF LoaderTypes
  <2> QED
    BY <1>7, <2>1 DEF ReadCount, LoaderTypes
<1>8. CASE ReadTable
  <2>1. /\ left > 0 /\ left' = left - 1 /\ UNCHANGED desc /\ line' = line + 1
        /\ stage' \in {"pages", "next_line"}
        /\ PageFileRead(Current.file, Current.at)
    BY <1>8 DEF ReadTable, Reading, AfterPage
  <2>2. image' \in [DOMAIN image' -> Nat] /\ astray' \in BOOLEAN
    BY <2>1, ReadTypes
  <2> QED
    BY <2>1, <2>2 DEF LoaderTypes
<1>9. CASE TableMalformed
  BY <1>1, <1>9 DEF TableMalformed, LoaderReturned
<1>10. CASE TableFails
  BY <1>1, <1>10 DEF TableFails, LoaderReturned
<1>11. CASE WalkStrays
  BY <1>11 DEF WalkStrays, LoaderTypes
<1>12. CASE ReadDataPage
  <2>1. /\ UNCHANGED <<left, desc>> /\ line' = line + 1
        /\ stage' \in {"pages", "next_line"}
        /\ PageFileRead(Current.file, PhysicalAddress(image, Mapped))
    BY <1>12 DEF ReadDataPage, AfterPage
  <2>2. image' \in [DOMAIN image' -> Nat] /\ astray' \in BOOLEAN
    BY <2>1, ReadTypes
  <2> QED
    BY <2>1, <2>2 DEF LoaderTypes
<1>13. CASE DataPageFails
  BY <1>1, <1>13 DEF DataPageFails, LoaderReturned
<1>14. CASE BlankLine
  BY <1>1, <1>14 DEF BlankLine, LoaderReturned
<1>15. CASE AllRead
  BY <1>1, <1>15 DEF AllRead, LoaderReturned
<1> QED
  BY <1>2, <1>3, <1>4, <1>5, <1>6, <1>7, <1>8, <1>9, <1>10, <1>11, <1>12, <1>13, <1>14, <1>15
  DEF LoaderStep

LEMMA LoaderStarts == ASSUME Init PROVE LoaderInv
<1>1. desc \in Descriptions
  <2>1. PICK job \in Jobs : desc = job[1]
    BY DEF Init
  <2> QED
    BY <2>1, JobAssumption
<1>2. /\ line = 0 /\ left = 0 /\ image = << >> /\ astray = FALSE /\ stage = "start"
  BY DEF Init, LoaderInit
<1>3. image \in [DOMAIN image -> Nat]
  <2>1. << >> \in Seq(Nat) /\ Len(<< >>) = 0
    BY EmptySeq
  <2>2. << >> \in [1 .. Len(<< >>) -> Nat] /\ DOMAIN << >> = 1 .. Len(<< >>)
    BY <2>1, LenProperties
  <2> QED
    BY <1>2, <2>2
<1> QED
  BY <1>1, <1>2, <1>3 DEF LoaderInv, LoaderTypes, ContainedInv

(* Types hold whatever the files say and wherever allocation fails.        *)
THEOREM StartupTypes == Spec => []TypeOK
<1>1. Init => LoaderTypes
  BY LoaderStarts DEF LoaderInv
<1>2. LoaderTypes /\ [Next]_vars => LoaderTypes'
  <2> SUFFICES ASSUME LoaderTypes, [Next]_vars PROVE LoaderTypes'
    OBVIOUS
  <2>1. CASE Load
    BY <2>1, LoaderStepTypes DEF Load
  <2>2. CASE UNCHANGED loaderVars
    BY <2>2 DEF loaderVars, LoaderTypes
  <2> QED
    BY <2>1, <2>2 DEF Next, ReadProgram, Client, vars
<1>3. LoaderTypes /\ ReaderInv => TypeOK
  BY DEF LoaderTypes, ReaderInv, ReaderTypes, TypeOK, Listed
<1> QED
  BY <1>1, <1>2, <1>3, ListingSound, PTL DEF Spec
-----------------------------------------------------------------------------
(* What a contained description does not touch.                            *)

LEMMA Multiple ==
    ASSUME NEW n \in Nat, NEW k \in Nat \ {0}, n % k = 0
    PROVE  n \div k \in Nat /\ n = (n \div k) * k
<1>1. n \div k \in Nat /\ n = (n \div k) * k + (n % k)
  BY DivMod
<1>2. (n \div k) * k \in Nat
  BY <1>1
<1> QED
  BY <1>1, <1>2

(* All the entries of a page inside memory are entries of memory.          *)
LEMMA PageHas ==
    ASSUME desc \in Descriptions, NEW start \in Nat, PageAligned(start), Inside(start),
           NEW index \in Level
    PROVE  Has(start, index)
<1> DEFINE q == start \div PageSize
           s == desc.size \div PteBytes
           E == PageEntries
           B == PteBytes
<1>1. /\ PageSize \in Nat \ {0} /\ B \in Nat \ {0} /\ E \in Nat /\ PageSize = E * B
      /\ index \in Nat /\ index < E
  BY Sizes DEF Level
<1>2. q \in Nat /\ start = q * PageSize
  BY <1>1, Multiple DEF PageAligned
<1>3. s \in Nat /\ desc.size = s * B
  <2>1. desc.size \in Nat /\ desc.size % PteBytes = 0
    BY DescriptionTypes
  <2> QED
    BY <1>1, <2>1, Multiple
<1>4. start + PageSize <= desc.size
  BY DEF Inside
<1> HIDE DEF q, s, E, B
<1>5. start = (q * E) * B
  BY <1>1, <1>2
<1>6. q * E \in Nat
  BY <1>1, <1>2
<1>7. start \div B = q * E
  <2>1. (q * E) * B + 0 = start
    BY <1>1, <1>5, <1>6
  <2>2. 0 \in 0 .. B - 1
    BY <1>1
  <2> QED
    BY <1>1, <1>6, <2>1, <2>2, QuotientUnique
<1>8. q * E + E <= s
  <2> DEFINE m == q * E + E
  <2>1. m * B = (q * E) * B + E * B
    BY <1>1, <1>6
  <2>2. m * B <= s * B
    BY <1>1, <1>3, <1>4, <1>5, <2>1
  <2>3. m \in Nat
    BY <1>1, <1>6
  <2> HIDE DEF m
  <2>4. \A x, y, z \in Nat : z > 0 /\ x * z <= y * z => x <= y
    <3>1. ASSUME NEW x \in Nat, NEW y \in Nat, NEW z \in Nat, z > 0, ~(x <= y)
          PROVE  ~(x * z <= y * z)
      <4>1. (y + 1) * z <= x * z
        BY <3>1
      <4> QED
        BY <3>1, <4>1
    <3> QED
      BY <3>1
  <2>5. m <= s
    BY <1>1, <1>3, <2>2, <2>3, <2>4
  <2> QED
    BY <2>5 DEF m
<1>9. q * E + index \in 0 .. s - 1
  BY <1>1, <1>3, <1>6, <1>8
<1> QED
  BY <1>7, <1>9 DEF Has, Entries, s, B

LEMMA Follows ==
    ASSUME desc \in Descriptions, image \in [Entries -> Followable],
           NEW start \in Nat, Inside(start), PageAligned(start), NEW index \in Level
    PROVE  /\ Has(start, index)
           /\ ReadPageEntry(image, start, index) \in Followable
<1>1. Has(start, index)
  BY PageHas
<1> QED
  BY <1>1 DEF Has, ReadPageEntry

(* page_walk stays inside, and where it leads there is room for a page.    *)
LEMMA WalkContained ==
    ASSUME desc \in Descriptions, image \in [Entries -> Followable], Inside(0),
           NEW va \in OffsetVirtAddr
    PROVE  /\ WalkInside(va)
           /\ Walks(image, va) => Physical(image, va) \in Nat /\ Inside(Physical(image, va))
<1>1. va.pgd \in Level /\ va.pud \in Level /\ va.pmd \in Level /\ va.pte \in Level
  BY DEF OffsetVirtAddr
<1>2. PageAligned(0)
  BY Sizes DEF PageAligned
<1>3. Has(0, va.pgd) /\ Pud(image, va) \in Followable
  BY <1>1, <1>2, Follows DEF Pud
<1>4. PageAligned(Pud(image, va))
        => Has(Pud(image, va), va.pud) /\ Pmd(image, va) \in Followable
  BY <1>1, <1>3, Follows DEF Pmd, Followable
<1>5. PageAligned(Pud(image, va)) /\ PageAligned(Pmd(image, va))
        => Has(Pmd(image, va), va.pmd) /\ Pte(image, va) \in Followable
  BY <1>1, <1>4, Follows DEF Pte, Followable
<1>6. PageAligned(Pud(image, va)) /\ PageAligned(Pmd(image, va)) /\ PageAligned(Pte(image, va))
        => Has(Pte(image, va), va.pte) /\ Physical(image, va) \in Followable
  BY <1>1, <1>5, Follows DEF Physical, Followable
<1> QED
  BY <1>3, <1>4, <1>5, <1>6 DEF WalkInside, Walks, Followable

(* A page mapped without an offset is put at the physical page.            *)
LEMMA MappedPage ==
    ASSUME NEW va \in OffsetVirtAddr, va.offset = 0, Walks(image, va),
           Physical(image, va) \in Nat
    PROVE  PhysicalAddress(image, va) = Physical(image, va)
<1> DEFINE x == Physical(image, va)
<1>1. x \in Nat /\ x % PageSize = 0 /\ PageSize \in Nat \ {0}
  BY Sizes DEF Walks, PageAligned
<1>2. PhysicalAddress(image, va) = (x \div PageSize) * PageSize + 0
  BY DEF PhysicalAddress, PageOf
<1> HIDE DEF x
<1>3. PhysicalAddress(image, va) = x
  BY <1>1, <1>2, DivMod
<1> QED
  BY <1>3 DEF x

LEMMA CurrentContained ==
    ASSUME LoaderTypes, Contained(desc), stage = "pages", line <= Len(desc.pages)
    PROVE  /\ Current.at \in Nat /\ PageAligned(Current.at)
           /\ Current.kind = "table" => Inside(Current.at)
           /\ Current.file \in Named(desc)
<1>1. line \in 1 .. Len(desc.pages)
  BY DescriptionTypes DEF LoaderTypes
<1>2. Current.at \in Nat
  BY <1>1, DescriptionTypes DEF LoaderTypes, Current
<1> QED
  BY <1>1, <1>2 DEF Contained, Named, Current

LEMMA ReadContained ==
    ASSUME LoaderTypes, Contained(desc), ~astray, image \in [Entries -> Followable],
           NEW f \in Named(desc), NEW address, Inside(address), PageFileRead(f, address)
    PROVE  image' \in [Entries -> Followable] /\ ~astray'
<1>1. IsPage(f) /\ image' = Copied(image, f, address) /\ astray' = astray
  BY DEF PageFileRead
<1>2. \A i \in 1 .. Len(PageFiles[f]) : PageFiles[f][i] \in Followable
  BY <1>1, FileEntries DEF Contained, Followable, IsPage
<1>3. Copied(image, f, address) \in [Entries -> Followable]
  BY <1>1, <1>2, CopiedInto
<1> QED
  BY <1>1, <1>3

LEMMA ContainedStep ==
    ASSUME LoaderInv, LoaderStep
    PROVE  ContainedInv'
<1>1. desc' = desc
  BY DEF LoaderStep, LoadDump, LoadFails, ReadSize, ReadPgd, PgdFails, ReadCount, ReadTable,
         TableMalformed, TableFails, WalkStrays, ReadDataPage, DataPageFails, BlankLine,
         AllRead, Fail, AfterPage
<1>2. Contained(desc)' = Contained(desc) /\ Entries' = Entries /\ Followable' = Followable
  BY <1>1 DEF Contained, Named, Inside, Entries, Followable
<1> SUFFICES ASSUME Contained(desc)
             PROVE  /\ ~astray'
                    /\ stage' \in {"pgd", "count", "pages"} => image' \in [Entries -> Followable]
  BY <1>2 DEF ContainedInv
<1>3. LoaderTypes /\ desc \in Descriptions /\ ~astray /\ Inside(0)
  BY DEF LoaderInv, LoaderTypes, ContainedInv, Contained
<1>4. stage \in {"pgd", "count", "pages"} => image \in [Entries -> Followable]
  BY DEF LoaderInv, ContainedInv
<1>5. ASSUME NEW err, Fail(err), err \in LoaderReturned
      PROVE  ~astray' /\ stage' \notin {"pgd", "count", "pages"}
  BY <1>3, <1>5 DEF Fail, LoaderReturned
<1>6. CASE LoadDump
  BY <1>3, <1>6 DEF LoadDump
<1>7. CASE ReadSize
  <2>1. 0 \in Followable
    BY <1>3 DEF Followable
  <2>2. Zeroed \in [Entries -> Followable]
    BY <2>1 DEF Zeroed
  <2> QED
    BY <1>3, <1>7, <2>2 DEF ReadSize
<1>8. CASE ReadPgd
  <2>1. desc.pgd \in Named(desc)
    BY DEF Named
  <2>2. image' \in [Entries -> Followable] /\ ~astray'
    BY <1>3, <1>4, <1>8, <2>1, ReadContained DEF ReadPgd
  <2> QED
    BY <2>2
<1>9. CASE ReadCount
  BY <1>3, <1>4, <1>9 DEF ReadCount
<1>10. CASE ReadTable
  <2>1. /\ stage = "pages" /\ line <= Len(desc.pages) /\ Current.kind = "table"
        /\ PageFileRead(Current.file, Current.at)
    BY <1>10 DEF ReadTable, Reading
  <2>2. Current.file \in Named(desc) /\ Inside(Current.at)
    BY <1>3, <2>1, CurrentContained
  <2>3. image' \in [Entries -> Followable] /\ ~astray'
    BY <1>3, <1>4, <2>1, <2>2, ReadContained
  <2> QED
    BY <2>3
<1>11. ASSUME ReadingData
       PROVE  /\ stage = "pages" /\ Current.file \in Named(desc)
              /\ Mapped \in OffsetVirtAddr /\ Mapped.offset = 0
  <2>1. stage = "pages" /\ line <= Len(desc.pages)
    BY <1>11 DEF ReadingData, Reading
  <2>2. Current.file \in Named(desc) /\ Current.at \in Nat /\ PageAligned(Current.at)
    BY <1>3, <2>1, CurrentContained
  <2>3. Mapped \in OffsetVirtAddr
    BY <2>2, AddressType DEF Mapped
  <2>4. Mapped.offset = 0
    BY <2>2 DEF Mapped, InitVirtAddr64, PageAligned
  <2> QED
    BY <2>1, <2>2, <2>3, <2>4
<1>12. CASE WalkStrays
  <2>1. stage = "pages" /\ Mapped \in OffsetVirtAddr /\ ~WalkInside(Mapped)
    BY <1>11, <1>12 DEF WalkStrays
  <2> QED
    BY <1>3, <1>4, <2>1, WalkContained
<1>13. CASE ReadDataPage
  <2>1. /\ stage = "pages" /\ Current.file \in Named(desc)
        /\ Mapped \in OffsetVirtAddr /\ Mapped.offset = 0 /\ Walks(image, Mapped)
        /\ PageFileRead(Current.file, PhysicalAddress(image, Mapped))
    BY <1>11, <1>13 DEF ReadDataPage
  <2>2. Physical(image, Mapped) \in Nat /\ Inside(Physical(image, Mapped))
    BY <1>3, <1>4, <2>1, WalkContained
  <2>3. Inside(PhysicalAddress(image, Mapped))
    BY <2>1, <2>2, MappedPage
  <2>4. image' \in [Entries -> Followable] /\ ~astray'
    BY <1>3, <1>4, <2>1, <2>3, ReadContained
  <2> QED
    BY <2>4
<1>14. CASE \/ LoadFails \/ PgdFails \/ TableMalformed \/ TableFails
            \/ DataPageFails \/ BlankLine \/ AllRead
  <2>1. \E err \in LoaderReturned : Fail(err)
    BY <1>14 DEF LoadFails, PgdFails, TableMalformed, TableFails, DataPageFails, BlankLine,
                 AllRead, LoaderReturned
  <2> QED
    BY <1>5, <2>1
<1> QED
  BY <1>6, <1>7, <1>8, <1>9, <1>10, <1>12, <1>13, <1>14 DEF LoaderStep

(* A description that names only addresses inside its memory, in its lines *)
(* and in its page files, is loaded without a read or a write outside.     *)
THEOREM LoadingStaysInside == Spec => []ContainedStaysInside
<1>1. Init => LoaderInv
  BY LoaderStarts
<1>2. LoaderInv /\ [Next]_vars => LoaderInv'
  <2> SUFFICES ASSUME LoaderInv, [Next]_vars PROVE LoaderInv'
    OBVIOUS
  <2>1. CASE Load
    BY <2>1, LoaderStepTypes, ContainedStep DEF Load, LoaderInv
  <2>2. CASE UNCHANGED loaderVars
    BY <2>2 DEF loaderVars, LoaderInv, LoaderTypes, ContainedInv, Contained, Named, Inside,
                Entries, Followable
  <2> QED
    BY <2>1, <2>2 DEF Next, ReadProgram, Client, vars
<1>3. LoaderInv => ContainedStaysInside
  BY DEF LoaderInv, ContainedInv, ContainedStaysInside
<1> QED
  BY <1>1, <1>2, <1>3, PTL DEF Spec
-----------------------------------------------------------------------------
(* What was loaded is still there.                                         *)

(* An address an entry can start at, and where its page shows in memory.   *)
IsPlace(a) == a \in Nat /\ a % PteBytes = 0 /\ Inside(a)
FirstEntry(a) == a \div PteBytes
IsApart(a, b) == a + PageSize <= b \/ b + PageSize <= a

LEMMA PlaceIs ==
    ASSUME NEW a \in Nat, a % PteBytes = 0
    PROVE  FirstEntry(a) \in Nat /\ a = FirstEntry(a) * PteBytes
BY Sizes, Multiple DEF FirstEntry

LEMMA TimesLeq ==
    ASSUME NEW x \in Nat, NEW y \in Nat, NEW z \in Nat \ {0}, x * z <= y * z
    PROVE  x <= y
<1>1. ASSUME ~(x <= y) PROVE FALSE
  <2>1. (y + 1) * z <= x * z
    BY <1>1
  <2> QED
    BY <2>1
<1> QED
  BY <1>1

(* In entries as in bytes: a page that ends before an address.             *)
LEMMA EntriesBefore ==
    ASSUME NEW a \in Nat, NEW b \in Nat, a % PteBytes = 0, b % PteBytes = 0,
           a + PageSize <= b
    PROVE  FirstEntry(a) + PageEntries <= FirstEntry(b)
<1> DEFINE x == FirstEntry(a)
           y == FirstEntry(b)
           E == PageEntries
           B == PteBytes
<1>1. E \in Nat /\ B \in Nat \ {0} /\ PageSize = E * B
  BY Sizes
<1>2. x \in Nat /\ y \in Nat /\ a = x * B /\ b = y * B
  BY PlaceIs
<1> HIDE DEF x, y, E, B
<1>3. (x + E) * B = x * B + E * B
  BY <1>1, <1>2
<1>4. (x + E) * B <= y * B
  BY <1>1, <1>2, <1>3
<1>5. x + E \in Nat
  BY <1>1, <1>2
<1>6. x + E <= y
  BY <1>1, <1>2, <1>4, <1>5, TimesLeq
<1> QED
  BY <1>6 DEF x, y, E

LEMMA PlaceEntries ==
    ASSUME desc \in Descriptions, NEW a, IsPlace(a), NEW k \in 0 .. PageEntries - 1
    PROVE  FirstEntry(a) + k \in Entries
<1>1. desc.size \in Nat /\ desc.size % PteBytes = 0
  BY DescriptionTypes
<1>2. FirstEntry(a) + PageEntries <= FirstEntry(desc.size)
  BY <1>1, EntriesBefore DEF IsPlace, Inside
<1>3. FirstEntry(a) \in Nat /\ FirstEntry(desc.size) \in Nat /\ PageEntries \in Nat
  BY <1>1, PlaceIs, Sizes DEF IsPlace
<1> QED
  BY <1>2, <1>3 DEF Entries, FirstEntry

(* A page file copied into memory is found there, and the pages apart from *)
(* it are as they were.                                                    *)
LEMMA CopiedIs ==
    ASSUME desc \in Descriptions, image \in [Entries -> Nat], NEW f, IsPage(f),
           NEW a, IsPlace(a)
    PROVE  /\ Copied(image, f, a) \in [Entries -> Nat]
           /\ \A k \in 0 .. PageEntries - 1 :
                 Copied(image, f, a)[FirstEntry(a) + k] = PageFiles[f][k + 1]
           /\ \A b : IsPlace(b) /\ IsApart(a, b) =>
                 \A k \in 0 .. PageEntries - 1 :
                    Copied(image, f, a)[FirstEntry(b) + k] = image[FirstEntry(b) + k]
<1>1. Copied(image, f, a) \in [Entries -> Nat]
  BY CopiedInto, FileEntries
<1>2. Copied(image, f, a) =
         [e \in Entries |->
             LET i == e - FirstEntry(a)
             IN  IF i \in 0 .. PageEntries - 1 THEN PageFiles[f][i + 1] ELSE image[e]]
  BY DEF Copied, FirstEntry
<1>3. FirstEntry(a) \in Nat /\ PageEntries \in Nat
  BY PlaceIs, Sizes DEF IsPlace
<1>4. \A k \in 0 .. PageEntries - 1 : FirstEntry(a) + k \in Entries
  BY PlaceEntries
<1>5. ASSUME NEW k \in 0 .. PageEntries - 1
      PROVE  Copied(image, f, a)[FirstEntry(a) + k] = PageFiles[f][k + 1]
  <2>1. (FirstEntry(a) + k) - FirstEntry(a) = k
    BY <1>3
  <2> QED
    BY <1>2, <1>4, <2>1
<1>6. ASSUME NEW b, IsPlace(b), IsApart(a, b), NEW k \in 0 .. PageEntries - 1
      PROVE  Copied(image, f, a)[FirstEntry(b) + k] = image[FirstEntry(b) + k]
  <2>1. FirstEntry(b) \in Nat /\ FirstEntry(b) + k \in Entries
    BY <1>6, PlaceIs, PlaceEntries DEF IsPlace
  <2>2. \/ FirstEntry(a) + PageEntries <= FirstEntry(b)
        \/ FirstEntry(b) + PageEntries <= FirstEntry(a)
    BY <1>6, EntriesBefore DEF IsPlace, IsApart
  <2>3. (FirstEntry(b) + k) - FirstEntry(a) \notin 0 .. PageEntries - 1
    BY <1>3, <2>1, <2>2
  <2> QED
    BY <1>2, <2>1, <2>3
<1> QED
  BY <1>1, <1>5, <1>6

(* A walk through tables that are the same in two memories.                *)
LEMMA SameTables ==
    ASSUME NEW m, NEW n, NEW T, NEW va \in OffsetVirtAddr,
           {0, Pud(n, va), Pmd(n, va), Pte(n, va)} \subseteq T,
           \A t \in T : \A index \in Level :
              n[FirstEntry(t) + index] = m[FirstEntry(t) + index]
    PROVE  /\ Pud(n, va) = Pud(m, va) /\ Pmd(n, va) = Pmd(m, va) /\ Pte(n, va) = Pte(m, va)
           /\ PhysicalAddress(n, va) = PhysicalAddress(m, va)
<1>1. va.pgd \in Level /\ va.pud \in Level /\ va.pmd \in Level /\ va.pte \in Level
  BY DEF OffsetVirtAddr
<1>2. \A t \in T : \A index \in Level : ReadPageEntry(n, t, index) = ReadPageEntry(m, t, index)
  BY DEF ReadPageEntry, FirstEntry
<1>3. Pud(n, va) = Pud(m, va)
  BY <1>1, <1>2 DEF Pud
<1>4. Pmd(n, va) = Pmd(m, va)
  BY <1>1, <1>2, <1>3 DEF Pmd
<1>5. Pte(n, va) = Pte(m, va)
  BY <1>1, <1>2, <1>4 DEF Pte
<1>6. Physical(n, va) = Physical(m, va)
  BY <1>1, <1>2, <1>5 DEF Physical
<1> QED
  BY <1>3, <1>4, <1>5, <1>6 DEF PhysicalAddress, PageOf

(* Where a data page goes is the place of an entry.                        *)
LEMMA MappedPlace ==
    ASSUME desc \in Descriptions, image \in [Entries -> Nat], NEW n \in Nat,
           n % PteBytes = 0, WalkInside(InitVirtAddr64(n)), Walks(image, InitVirtAddr64(n))
    PROVE  LET a == PhysicalAddress(image, InitVirtAddr64(n))
           IN  a \in Nat /\ a % PteBytes = 0
<1> DEFINE va == InitVirtAddr64(n)
           B == PteBytes
           S == PageSize
           E == PageEntries
           x == Physical(image, va) \div PageSize
           r == n % PageSize
<1>1. S \in Nat \ {0} /\ B \in Nat \ {0} /\ E \in Nat /\ S = E * B
  BY Sizes
<1>2. Physical(image, va) \in Nat
  BY DEF Walks, WalkInside, Has, Physical, ReadPageEntry
<1>3. x \in Nat
  BY <1>1, <1>2, DivMod
<1>4. PhysicalAddress(image, va) = x * S + r
  BY DEF PhysicalAddress, PageOf, InitVirtAddr64
<1> DEFINE q == n \div PageSize
           c == n \div PteBytes
<1>5. q \in Nat /\ r \in Nat /\ n = q * S + r
  <2>1. q \in Nat /\ r \in 0 .. S - 1 /\ n = q * S + r
    BY <1>1, DivMod
  <2> QED
    BY <1>1, <2>1
<1>6. c \in Nat /\ n = c * B
  BY <1>1, Multiple
<1> HIDE DEF va, B, S, E, x, r, q, c
<1>7. q * E \in Nat /\ x * E \in Nat /\ q * S = (q * E) * B /\ x * S = (x * E) * B
  BY <1>1, <1>3, <1>5
<1> DEFINE d == c - q * E
<1>8. d \in Int /\ r = d * B
  <2>1. (c - q * E) * B = c * B - (q * E) * B
    BY <1>1, <1>6, <1>7
  <2> QED
    BY <1>1, <1>5, <1>6, <1>7, <2>1
<1> HIDE DEF d
<1>9. d \in Nat
  <2>1. ASSUME d < 0 PROVE FALSE
    <3>1. d * B <= (0 - 1) * B
      BY <1>1, <1>8, <2>1
    <3> QED
      BY <1>1, <1>5, <1>8, <3>1
  <2> QED
    BY <1>8, <2>1
<1>10. x * S + r = (x * E + d) * B + 0 /\ x * E + d \in Nat
  BY <1>1, <1>7, <1>8, <1>9
<1>11. x * S + r \in Nat /\ (x * S + r) % B = 0
  <2>1. 0 \in 0 .. B - 1
    BY <1>1
  <2> DEFINE t == x * E + d
  <2>2. t \in Nat /\ x * S + r = t * B + 0
    BY <1>10
  <2> HIDE DEF t
  <2>3. (t * B + 0) % B = 0
    BY <1>1, <2>1, <2>2, QuotientUnique
  <2>4. x * S + r \in Nat
    BY <1>1, <1>3, <1>5, <1>8
  <2> QED
    BY <2>2, <2>3, <2>4
<1> QED
  BY <1>4, <1>11 DEF va, B

(* A page that was placed inside memory, and what memory shows of it.      *)
IsPlaced(p) ==
    /\ IsPlace(p.at) /\ IsPage(p.file)
    /\ p.kind \in {"table", "data"}
    /\ p.kind = "data" => p.va \in OffsetVirtAddr
Shown(m, p) ==
    \A k \in 0 .. PageEntries - 1 : m[FirstEntry(p.at) + k] = PageFiles[p.file][k + 1]
ByTables(m, T, va) == {Pud(m, va), Pmd(m, va), Pte(m, va)} \subseteq T
Found(m, T, p) ==
    p.kind = "data" /\ ByTables(m, T, p.va) => p.at = PhysicalAddress(m, p.va)

OnlyTables == \A i \in 1 .. Len(placed) : placed[i].kind = "table"
PgdFirst == Len(placed) > 0 /\ placed[1].at = 0 /\ placed[1].kind = "table"

(* While nothing has strayed: the pages placed lie inside memory, the pgd  *)
(* page first and the tables before the data; and if no two overlap, each  *)
(* still shows its file, and a data page is where the tables so far map    *)
(* it.  The tables are all there by then, so those to come cannot move it. *)
PlacedInv ==
    /\ \E T : placed \in Seq(T)
    /\ stage \in {"start", "pgd", "ERR_NONE"} => ~astray
    /\ ~astray =>
        /\ \A i \in 1 .. Len(placed) : IsPlaced(placed[i])
        /\ stage \in {"pgd", "count", "pages"} => image \in [Entries -> Nat]
        /\ stage \in {"start", "pgd"} => placed = << >>
        /\ stage \in {"count", "pages"} => PgdFirst
        /\ stage = "count" \/ (stage = "pages" /\ left > 0) => OnlyTables
        /\ Apart => \A i \in 1 .. Len(placed) :
                       Shown(image, placed[i]) /\ Found(image, Tables, placed[i])

(* A page more.                                                            *)
LEMMA PlacedMore ==
    ASSUME NEW T, NEW s \in Seq(T), NEW p
    PROVE  /\ Append(s, p) \in Seq(T \cup {p})
           /\ DOMAIN s = 1 .. Len(s) /\ Len(s) \in Nat
           /\ Len(Append(s, p)) = Len(s) + 1
           /\ DOMAIN Append(s, p) = 1 .. Len(s) + 1
           /\ \A i \in 1 .. Len(s) : Append(s, p)[i] = s[i]
           /\ Append(s, p)[Len(s) + 1] = p
           /\ \A i \in 1 .. Len(s) + 1 : i \in 1 .. Len(s) \/ i = Len(s) + 1
<1>1. s \in Seq(T \cup {p}) /\ Len(s) \in Nat /\ DOMAIN s = 1 .. Len(s)
  <2>1. Len(s) \in Nat /\ DOMAIN s = 1 .. Len(s) /\ s \in [1 .. Len(s) -> T]
    BY LenProperties
  <2>2. s \in [1 .. Len(s) -> T \cup {p}]
    BY <2>1
  <2> QED
    BY <2>1, <2>2, SeqDef
<1>2. /\ Append(s, p) \in Seq(T \cup {p})
      /\ Len(Append(s, p)) = Len(s) + 1
      /\ \A i \in 1 .. Len(s) : Append(s, p)[i] = s[i]
      /\ Append(s, p)[Len(s) + 1] = p
  BY <1>1, AppendProperties
<1>3. DOMAIN Append(s, p) = 1 .. Len(s) + 1
  BY <1>2, LenProperties
<1>4. \A i \in 1 .. Len(s) + 1 : i \in 1 .. Len(s) \/ i = Len(s) + 1
  BY <1>1
<1> QED
  BY <1>1, <1>2, <1>3, <1>4

(* Reading one page keeps the pages before it shown and found, if it does  *)
(* not land on them.                                                       *)
LEMMA PageRead ==
    ASSUME PlacedInv, ~astray, desc \in Descriptions, image \in [Entries -> Nat],
           desc' = desc, NEW p, p.at \in Nat, p.at % PteBytes = 0,
           p.kind \in {"table", "data"}, p.kind = "data" => p.va \in OffsetVirtAddr,
           PageFileRead(p.file, p.at), placed' = Append(placed, p), ~astray',
           p.kind = "table" => OnlyTables,
           p.kind = "data" => PgdFirst /\ p.at = PhysicalAddress(image, p.va)
    PROVE  /\ image' \in [Entries -> Nat]
           /\ \A i \in 1 .. Len(placed') : IsPlaced(placed'[i])
           /\ Apart' => \A i \in 1 .. Len(placed') :
                          Shown(image', placed'[i]) /\ Found(image', Tables', placed'[i])
<1> DEFINE n == Len(placed) + 1
<1>1. /\ n \in Nat /\ DOMAIN placed = 1 .. Len(placed) /\ DOMAIN placed' = 1 .. n
      /\ Len(placed') = n /\ Len(placed) \in Nat
      /\ \A i \in 1 .. Len(placed) : placed'[i] = placed[i]
      /\ placed'[n] = p
      /\ \A i \in 1 .. n : i \in 1 .. Len(placed) \/ i = n
  BY PlacedMore DEF PlacedInv
<1> HIDE DEF n
<1>2. IsPage(p.file) /\ Inside(p.at) /\ image' = Copied(image, p.file, p.at)
  BY DEF PageFileRead
<1>3. IsPlace(p.at) /\ IsPlaced(p)
  BY <1>2 DEF IsPlace, IsPlaced
<1>4. \A i \in 1 .. Len(placed) : IsPlaced(placed[i])
  BY DEF PlacedInv
<1>5. \A i \in 1 .. n : IsPlaced(placed'[i])
  BY <1>1, <1>3, <1>4
<1>6. /\ image' \in [Entries -> Nat]
      /\ \A k \in 0 .. PageEntries - 1 :
            image'[FirstEntry(p.at) + k] = PageFiles[p.file][k + 1]
      /\ \A b : IsPlace(b) /\ IsApart(p.at, b) =>
            \A k \in 0 .. PageEntries - 1 :
               image'[FirstEntry(b) + k] = image[FirstEntry(b) + k]
  BY <1>2, <1>3, CopiedIs
<1>7. ASSUME Apart'
      PROVE  \A i \in 1 .. n : Shown(image', placed'[i]) /\ Found(image', Tables', placed'[i])
  <2>1. Apart
    BY <1>1, <1>7 DEF Apart
  <2>2. \A i \in 1 .. Len(placed) : IsApart(p.at, placed[i].at)
    <3>1. SUFFICES ASSUME NEW i \in 1 .. Len(placed) PROVE IsApart(p.at, placed[i].at)
      OBVIOUS
    <3>2. i \in 1 .. n /\ n \in 1 .. n /\ i < n
      BY <1>1 DEF n
    <3>3. \/ placed'[i].at + PageSize <= placed'[n].at
          \/ placed'[n].at + PageSize <= placed'[i].at
      BY <1>1, <1>7, <3>2 DEF Apart
    <3> QED
      BY <1>1, <3>3 DEF IsApart
  <2>3. \A i \in 1 .. Len(placed) : \A k \in 0 .. PageEntries - 1 :
           image'[FirstEntry(placed[i].at) + k] = image[FirstEntry(placed[i].at) + k]
    BY <1>4, <1>6, <2>2 DEF IsPlaced
  <2>4. \A i \in 1 .. Len(placed) :
           Shown(image, placed[i]) /\ Found(image, Tables, placed[i])
    BY <2>1 DEF PlacedInv
  <2>5. \A i \in 1 .. n : Shown(image', placed'[i])
    <3>1. \A i \in 1 .. Len(placed) : Shown(image', placed[i])
      BY <2>3, <2>4 DEF Shown
    <3> QED
      BY <1>1, <1>6, <3>1 DEF Shown
  <2>6. CASE p.kind = "table"
    <3>1. \A i \in 1 .. n : placed'[i].kind = "table"
      BY <1>1, <2>6 DEF OnlyTables
    <3> QED
      BY <2>5, <3>1 DEF Found
  <2>7. CASE p.kind = "data"
    <3>1. Tables' = Tables
      BY <1>1, <2>7 DEF Tables
    <3>2. 0 \in Tables
      <4>1. 1 \in DOMAIN placed /\ placed[1].at = 0 /\ placed[1].kind = "table"
        BY <1>1, <2>7 DEF PgdFirst
      <4> QED
        BY <4>1 DEF Tables
    <3>3. \A t \in Tables : \A index \in Level :
             image'[FirstEntry(t) + index] = image[FirstEntry(t) + index]
      <4>1. \A t \in Tables : \E i \in 1 .. Len(placed) : t = placed[i].at
        BY <1>1 DEF Tables
      <4>2. Level \subseteq 0 .. PageEntries - 1
        BY Sizes DEF Level
      <4> QED
        BY <2>3, <4>1, <4>2
    <3>4. ASSUME NEW va \in OffsetVirtAddr, ByTables(image', Tables, va)
          PROVE  /\ ByTables(image, Tables, va)
                 /\ PhysicalAddress(image', va) = PhysicalAddress(image, va)
      <4>1. {0, Pud(image', va), Pmd(image', va), Pte(image', va)} \subseteq Tables
        BY <3>2, <3>4 DEF ByTables
      <4> DEFINE m == image'
      <4>2. \A t \in Tables : \A index \in Level :
               m[FirstEntry(t) + index] = image[FirstEntry(t) + index]
        BY <3>3
      <4>3. {0, Pud(m, va), Pmd(m, va), Pte(m, va)} \subseteq Tables
        BY <4>1
      <4> HIDE DEF m
      <4>4. /\ Pud(m, va) = Pud(image, va) /\ Pmd(m, va) = Pmd(image, va)
            /\ Pte(m, va) = Pte(image, va)
            /\ PhysicalAddress(m, va) = PhysicalAddress(image, va)
        BY <4>2, <4>3, SameTables
      <4> QED
        BY <4>3, <4>4 DEF m, ByTables
    <3>5. ASSUME NEW i \in 1 .. n PROVE Found(image', Tables', placed'[i])
      <4> DEFINE q == placed'[i]
      <4>1. SUFFICES ASSUME q.kind = "data", ByTables(image', Tables, q.va)
                     PROVE  q.at = PhysicalAddress(image', q.va)
        BY <3>1 DEF Found
      <4>2. q.va \in OffsetVirtAddr
        BY <1>5, <4>1 DEF IsPlaced
      <4>3. ByTables(image, Tables, q.va)
            /\ PhysicalAddress(image', q.va) = PhysicalAddress(image, q.va)
        BY <3>4, <4>1, <4>2
      <4>4. CASE i \in 1 .. Len(placed)
        BY <1>1, <2>4, <4>1, <4>3, <4>4 DEF Found
      <4>5. CASE i = n
        BY <1>1, <2>7, <4>3, <4>5
      <4> QED
        BY <1>1, <4>4, <4>5
    <3> QED
      BY <2>5, <3>5
  <2> QED
    BY <1>3, <2>6, <2>7 DEF IsPlaced
<1> QED
  BY <1>1, <1>5, <1>6, <1>7

LEMMA PlacedStarts == ASSUME Init PROVE PlacedInv
<1>1. placed = << >> /\ astray = FALSE /\ stage = "start"
  BY DEF Init, LoaderInit
<1>2. << >> \in Seq({}) /\ Len(<< >>) = 0
  BY EmptySeq
<1> QED
  BY <1>1, <1>2 DEF PlacedInv

(* A step that reads no page leaves what was placed as it was.             *)
LEMMA PlacedStays ==
    ASSUME PlacedInv, UNCHANGED <<desc, image, astray, placed>>,
           stage' \in {"start", "pgd", "ERR_NONE"} => ~astray,
           ~astray =>
              /\ stage' \in {"pgd", "count", "pages"} => image \in [Entries -> Nat]
              /\ stage' \in {"start", "pgd"} => placed = << >>
              /\ stage' \in {"count", "pages"} => PgdFirst
              /\ stage' = "count" \/ (stage' = "pages" /\ left' > 0) => OnlyTables
    PROVE  PlacedInv'
<1>1. \A i \in 1 .. Len(placed) : IsPlaced(placed[i])' <=> IsPlaced(placed[i])
  BY DEF IsPlaced, IsPlace, Inside
<1>2. /\ Apart' <=> Apart
      /\ Tables' = Tables /\ Entries' = Entries
      /\ PgdFirst' <=> PgdFirst
      /\ OnlyTables' <=> OnlyTables
  BY DEF Apart, Tables, Entries, PgdFirst, OnlyTables
<1> QED
  BY <1>1, <1>2 DEF PlacedInv

LEMMA PlacedFails ==
    ASSUME PlacedInv, NEW err \in LoaderReturned, Fail(err), err = "ERR_NONE" => ~astray
    PROVE  PlacedInv'
BY PlacedStays DEF Fail, LoaderReturned

LEMMA PlacedStep ==
    ASSUME LoaderTypes, PlacedInv, LoaderStep
    PROVE  PlacedInv'
<1>1. desc \in Descriptions
  BY DEF LoaderTypes
<1>2. CASE LoadDump
  <2>1. ~astray /\ placed = << >> /\ stage = "start"
    BY <1>2 DEF LoadDump, PlacedInv
  <2>2. placed' = placed /\ astray' = astray /\ stage' = "ERR_NONE"
    BY <1>2 DEF LoadDump
  <2>3. Len(placed') = 0 /\ \E T : placed' \in Seq(T)
    BY <2>1, <2>2, EmptySeq
  <2> QED
    BY <2>1, <2>2, <2>3 DEF PlacedInv
<1>3. CASE ReadSize
  <2>1. ~astray /\ placed = << >>
    BY <1>3 DEF ReadSize, PlacedInv
  <2>2. /\ placed' = placed /\ astray' = astray /\ stage' = "pgd" /\ desc' = desc
        /\ image' = Zeroed
    BY <1>3 DEF ReadSize
  <2>3. Len(placed') = 0 /\ \E T : placed' \in Seq(T)
    BY <2>1, <2>2, EmptySeq
  <2>4. image' \in [Entries' -> Nat]
    BY <2>2 DEF Zeroed, Entries
  <2> QED
    BY <2>1, <2>2, <2>3, <2>4 DEF PlacedInv
<1>4. ASSUME NEW p, PageFileRead(p.file, p.at), Place(p), stage \in {"pgd", "pages"},
             ~astray, desc' = desc,
             p.at \in Nat, p.at % PteBytes = 0,
             p.kind \in {"table", "data"}, p.kind = "data" => p.va \in OffsetVirtAddr,
             p.kind = "table" => OnlyTables,
             p.kind = "data" => PgdFirst /\ p.at = PhysicalAddress(image, p.va),
             placed = << >> => p.kind = "table" /\ p.at = 0,
             placed # << >> => PgdFirst,
             stage' \in {"count", "pages", "next_line"},
             p.kind = "data" => stage' # "count" /\ left' = 0
      PROVE  PlacedInv'
  <2>1. image \in [Entries -> Nat]
    BY <1>4 DEF PlacedInv
  <2>2. placed' = Append(placed, p)
    BY <1>4 DEF Place
  <2>3. PICK T : placed \in Seq(T)
    BY DEF PlacedInv
  <2>4. /\ placed' \in Seq(T \cup {p})
        /\ Len(placed) \in Nat
        /\ Len(placed') = Len(placed) + 1
        /\ \A i \in 1 .. Len(placed) : placed'[i] = placed[i]
        /\ placed'[Len(placed) + 1] = p
        /\ \A i \in 1 .. Len(placed) + 1 : i \in 1 .. Len(placed) \/ i = Len(placed) + 1
    BY <2>2, <2>3, PlacedMore
  <2>5. PgdFirst'
    <3>1. CASE placed = << >>
      <4>1. Len(placed) = 0
        BY <3>1, EmptySeq
      <4> QED
        BY <1>4, <2>4, <3>1, <4>1 DEF PgdFirst
    <3>2. CASE placed # << >>
      <4>1. 1 \in 1 .. Len(placed) /\ placed[1].at = 0 /\ placed[1].kind = "table"
        BY <1>4, <2>4, <3>2 DEF PgdFirst
      <4> QED
        BY <2>4, <4>1 DEF PgdFirst
    <3> QED
      BY <3>1, <3>2
  <2>6. p.kind = "table" => OnlyTables'
    <3>1. ASSUME p.kind = "table" PROVE \A i \in 1 .. Len(placed') : placed'[i].kind = "table"
      BY <1>4, <2>4, <3>1 DEF OnlyTables
    <3> QED
      BY <3>1 DEF OnlyTables
  <2>7. CASE astray'
    <3>1. \E U : placed' \in Seq(U)
      BY <2>4
    <3> QED
      BY <1>4, <2>7, <3>1 DEF PlacedInv
  <2>8. CASE ~astray'
    <3>1. /\ image' \in [Entries -> Nat]
          /\ \A i \in 1 .. Len(placed') : IsPlaced(placed'[i])
          /\ Apart' => \A i \in 1 .. Len(placed') :
                          Shown(image', placed'[i]) /\ Found(image', Tables', placed'[i])
      BY <1>1, <1>4, <2>1, <2>2, <2>8, PageRead
    <3>2. Entries' = Entries /\ \A q : IsPlaced(q)' <=> IsPlaced(q)
      BY <1>4 DEF Entries, IsPlaced, IsPlace, Inside
    <3>3. \E U : placed' \in Seq(U)
      BY <2>4
    <3>4. stage' = "count" \/ (stage' = "pages" /\ left' > 0) => OnlyTables'
      BY <1>4, <2>6
    <3>5. \A i \in 1 .. Len(placed') : (IsPlaced(placed[i]))'
      BY <3>1, <3>2
    <3> QED
      BY <1>4, <2>5, <2>8, <3>1, <3>2, <3>3, <3>4, <3>5 DEF PlacedInv
  <2> QED
    BY <2>7, <2>8
<1>5. CASE ReadPgd
  <2> DEFINE p == [at |-> 0, file |-> desc.pgd, kind |-> "table"]
  <2>1. /\ PageFileRead(p.file, p.at) /\ Place(p) /\ stage = "pgd" /\ stage' = "count"
        /\ desc' = desc
    BY <1>5 DEF ReadPgd
  <2>2. ~astray /\ placed = << >>
    BY <1>5, <2>1 DEF PlacedInv
  <2>3. OnlyTables
    BY <2>2, EmptySeq DEF OnlyTables
  <2>4. p.at = 0 /\ p.kind = "table" /\ 0 % PteBytes = 0
    BY Sizes
  <2> HIDE DEF p
  <2> QED
    BY <1>4, <1>5, <2>1, <2>2, <2>3, <2>4
<1>6. CASE ReadCount
  <2>1. ~astray /\ stage = "count" /\ UNCHANGED <<desc, image, astray, placed>>
        /\ stage' \in {"pages", "next_line"}
    BY <1>6 DEF ReadCount
  <2>2. image \in [Entries -> Nat] /\ PgdFirst /\ OnlyTables
    BY <2>1 DEF PlacedInv
  <2> QED
    BY <2>1, <2>2, PlacedStays
<1>7. ASSUME stage = "pages", line <= Len(desc.pages)
      PROVE  Current.at \in Nat /\ Current.at % PteBytes = 0
  <2>1. line \in 1 .. Len(desc.pages)
    BY <1>7, DescriptionTypes DEF LoaderTypes
  <2> QED
    BY <1>1, <2>1, DescriptionTypes, LoaderAssumption DEF Current
<1>8. CASE ReadTable
  <2> DEFINE p == [at |-> Current.at, file |-> Current.file, kind |-> "table"]
  <2>1. /\ PageFileRead(p.file, p.at) /\ Place(p) /\ ~astray /\ stage = "pages"
        /\ line <= Len(desc.pages) /\ left > 0
        /\ stage' \in {"pages", "next_line"} /\ desc' = desc
    BY <1>8 DEF ReadTable, Reading, AfterPage
  <2>2. PgdFirst /\ OnlyTables
    BY <2>1 DEF PlacedInv
  <2>3. placed # << >>
    BY <2>2, EmptySeq DEF PgdFirst
  <2>4. p.kind = "table" /\ p.at \in Nat /\ p.at % PteBytes = 0
    BY <1>7, <2>1
  <2> HIDE DEF p
  <2> QED
    BY <1>4, <2>1, <2>2, <2>3, <2>4
<1>9. CASE ReadDataPage
  <2> DEFINE a == PhysicalAddress(image, Mapped)
             p == [at |-> a, file |-> Current.file, kind |-> "data", va |-> Mapped]
  <2>1. /\ PageFileRead(p.file, p.at) /\ Place(p) /\ ~astray /\ stage = "pages"
        /\ line <= Len(desc.pages) /\ left = 0 /\ left' = left
        /\ stage' \in {"pages", "next_line"} /\ desc' = desc
        /\ WalkInside(Mapped) /\ Walks(image, Mapped)
    BY <1>9 DEF ReadDataPage, ReadingData, Reading, AfterPage
  <2>2. PgdFirst /\ image \in [Entries -> Nat]
    BY <2>1 DEF PlacedInv
  <2>3. placed # << >>
    BY <2>2, EmptySeq DEF PgdFirst
  <2>4. Mapped \in OffsetVirtAddr
    BY <1>7, <2>1, AddressType DEF Mapped
  <2>5. a \in Nat /\ a % PteBytes = 0
    BY <1>1, <1>7, <2>1, <2>2, MappedPlace DEF Mapped
  <2>6. /\ p.kind = "data" /\ p.at \in Nat /\ p.at % PteBytes = 0
        /\ p.va \in OffsetVirtAddr /\ p.at = PhysicalAddress(image, p.va)
    BY <2>4, <2>5
  <2> HIDE DEF p
  <2> QED
    BY <1>4, <2>1, <2>2, <2>3, <2>6
<1>10. CASE WalkStrays
  <2>1. /\ astray' = TRUE /\ stage' = stage /\ stage = "pages" /\ placed' = placed
    BY <1>10 DEF WalkStrays, ReadingData, Reading
  <2> QED
    BY <2>1 DEF PlacedInv
<1>11. CASE \/ LoadFails \/ PgdFails \/ TableMalformed \/ TableFails
            \/ DataPageFails \/ BlankLine \/ AllRead
  <2>1. \E err \in LoaderReturned : Fail(err) /\ (err = "ERR_NONE" => ~astray)
    BY <1>11 DEF LoadFails, PgdFails, TableMalformed, TableFails, DataPageFails, BlankLine,
                 AllRead, LoaderReturned
  <2> QED
    BY <2>1, PlacedFails
<1> QED
  BY <1>2, <1>3, <1>5, <1>6, <1>8, <1>9, <1>10, <1>11 DEF LoaderStep

(* After a load whose pages do not overlap, every data page whose walk     *)
(* uses listed tables only is found where those tables map its address,    *)
(* for pages of any size and descriptions of any length.                   *)
THEOREM LoadedDataFound == Spec => []LoadedPagesFound
<1>1. Init => LoaderTypes /\ PlacedInv
  BY LoaderStarts, PlacedStarts DEF LoaderInv
<1>2. LoaderTypes /\ PlacedInv /\ [Next]_vars => LoaderTypes' /\ PlacedInv'
  <2> SUFFICES ASSUME LoaderTypes, PlacedInv, [Next]_vars PROVE LoaderTypes' /\ PlacedInv'
    OBVIOUS
  <2>1. CASE Load
    BY <2>1, LoaderStepTypes, PlacedStep DEF Load
  <2>2. CASE UNCHANGED loaderVars
    <3>1. LoaderTypes'
      BY <2>2 DEF loaderVars, LoaderTypes
    <3>2. /\ UNCHANGED <<desc, image, astray, placed>> /\ stage' = stage /\ left' = left
      BY <2>2 DEF loaderVars
    <3>3. PlacedInv'
      BY <3>2, PlacedStays DEF PlacedInv
    <3> QED
      BY <3>1, <3>3
  <2> QED
    BY <2>1, <2>2 DEF Next, ReadProgram, Client, vars
<1>3. PlacedInv => LoadedPagesFound
  <2> SUFFICES ASSUME PlacedInv, stage = "ERR_NONE", Apart, NEW i \in DOMAIN placed,
                      placed[i].kind = "data", ByListedTables(placed[i].va),
                      NEW k \in 0 .. PageEntries - 1
               PROVE  image[PhysicalAddress(image, placed[i].va) \div PteBytes + k]
                         = PageFiles[placed[i].file][k + 1]
    BY DEF LoadedPagesFound
  <2>1. i \in 1 .. Len(placed)
    BY LenProperties DEF PlacedInv
  <2>2. Shown(image, placed[i]) /\ Found(image, Tables, placed[i])
    BY <2>1 DEF PlacedInv
  <2> QED
    BY <2>2 DEF Shown, Found, ByTables, ByListedTables, FirstEntry
<1> QED
  BY <1>1, <1>2, <1>3, PTL DEF Spec
=============================================================================
