---------------------------- MODULE MCSimulator ----------------------------
(***************************************************************************)
(* A machine of 56 bytes: words of 2 bytes, lines of 2 words, pages of 8   *)
(* bytes holding 4 entries of 2 bytes each.  The four tables are at 0, 8,  *)
(* 16 and 24.  The last maps page 0 to the data at 32, page 1 to itself,   *)
(* page 2 to the data at 40 and page 3 to the code at 48.  A store in      *)
(* page 1 is one to the entry of page 0.  All pages start in L1 set 0,     *)
(* which has 2 ways.  Of pages 0, 2 and 3 a byte or a word inside their    *)
(* first line is read too.                                                 *)
(***************************************************************************)
EXTENDS Simulator

MCEvictSpan == 2
MCBits == 0 .. 5
MCMemBytes == 56
DataBytes == {24, 32, 34, 40, 42, 43}
CodeBytes == {48, 50}

ByteOf(n) == {i \in MCBits : (n \div 2 ^ i) % 2 = 1}
WordHolding(n) == [i \in 0 .. 1 |-> IF i = 0 THEN ByteOf(n) ELSE {}]

(* entry -> address                                                        *)
EntryAt(k) ==
    CASE k = 0 -> 8 [] k = 4 -> 16 [] k = 8 -> 24
      [] k = 12 -> 32 [] k = 13 -> 24 [] k = 14 -> 40 [] k = 15 -> 48
      [] OTHER -> 0
MCInitMem ==
    {[x \in 0 .. MCMemBytes - 1 |->
        IF x < 32 /\ x % 2 = 0 THEN ByteOf(EntryAt(x \div 2)) ELSE {}]}

Va(page, offset) == [pgd |-> 0, pud |-> 0, pmd |-> 0, pte |-> page, offset |-> offset]
Command(o, t, s, d, va) ==
    [order |-> o, type |-> t, size |-> s, data |-> d, vaddr |-> va]

(* The entry of page 0 is remapped to the other data page, or to an        *)
(* address no page starts at, by a word or by a byte.                      *)
EntryWords == {WordHolding(40), WordHolding(36)}
EntryBytesWritten == {ByteOf(40), ByteOf(44)}

MCCommands ==
    {Command("READ", "INSTRUCTION", 0, {}, Va(3, offset)) : offset \in {0, 2}}
      \cup {Command("READ", "DATA", WordBytes, {}, va) :
               va \in {Va(0, 0), Va(0, 2), Va(2, 0)}}
      \cup {Command("READ", "DATA", 1, {}, Va(2, 3))}
      \cup {Command("WRITE", "DATA", WordBytes, WordHolding(40), Va(p, 0)) : p \in {0, 2}}
      \cup {Command("WRITE", "DATA", WordBytes, w, Va(1, 0)) : w \in EntryWords}
      \cup {Command("WRITE", "DATA", 1, b, Va(1, 0)) : b \in EntryBytesWritten}
=============================================================================
