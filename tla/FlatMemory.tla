----------------------------- MODULE FlatMemory -----------------------------
(***************************************************************************)
(* What cache_read, cache_read_byte, cache_write and cache_write_byte      *)
(* promise a program that knows nothing of caches: one memory of bytes, a  *)
(* read delivers what is there, a write is there when it returns.  A word  *)
(* is read at the address of its first byte, whatever byte of it is named. *)
(***************************************************************************)
EXTENDS Integers, Sequences

CONSTANTS
    WordBytes,      \* bytes in a word
    FetchAddrs,     \* where instructions are read
    DataAddrs,      \* where data is read and written
    WriteWords,     \* the words written
    WriteBytes      \* the bytes written, as sets of 1 bits

VARIABLES mem, out

NoAddr == -1
Answer(a, val) == [err |-> "ERR_NONE", at |-> a, val |-> val]
Done == Answer(NoAddr, << >>)

Read(a) ==
    /\ out' = Answer(a, [i \in 0 .. WordBytes - 1 |-> mem[a - (a % WordBytes) + i]])
    /\ UNCHANGED mem

ReadByte(a) ==
    /\ out' = Answer(a, [i \in {0} |-> mem[a]])
    /\ UNCHANGED mem

Write(a, word) ==
    /\ mem' = [x \in DOMAIN mem |->
                  IF a <= x /\ x < a + WordBytes THEN word[x - a] ELSE mem[x]]
    /\ out' = Done

WriteByte(a, b) ==
    /\ mem' = [mem EXCEPT ![a] = b]
    /\ out' = Done

(* A flush, seen from outside: it returns.                                 *)
Nothing == out' = Done /\ UNCHANGED mem

Init == out = Done

Next ==
    \/ \E a \in FetchAddrs \cup DataAddrs : Read(a) \/ ReadByte(a)
    \/ \E a \in DataAddrs, word \in WriteWords : Write(a, word)
    \/ \E a \in DataAddrs, b \in WriteBytes : WriteByte(a, b)
    \/ Nothing

Spec == Init /\ [][Next]_<<mem, out>>
=============================================================================
