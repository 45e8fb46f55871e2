------------------------------ MODULE Program ------------------------------
(***************************************************************************)
(* commands.c: a program_t, the growing array of commands and what it is   *)
(* believed to hold.  The number of lines is Len(stored).  The block that  *)
(* listing points to has room for `room' commands; a NULL listing has room *)
(* for none.  An allocation fails where MayFail allows it.                 *)
(***************************************************************************)
EXTENDS Integers, Sequences

CONSTANTS
    PointerSize,    \* sizeof(program->listing): 8
    InitialRoom,    \* the 10 commands of program_init and program_shrink
    WordSize,       \* sizeof(word_t): 4
    ByteMax,        \* 0xff
    MayFail         \* an allocation may find no memory

ASSUME AllocationAssumption ==
    /\ PointerSize \in Nat \ {0} /\ InitialRoom \in Nat
    /\ PointerSize <= InitialRoom
    /\ MayFail \in BOOLEAN

VARIABLES
    stored,     \* the nb_lines commands, in the order they were added
    allocated,  \* the number of commands listing is believed to have room for
    room,       \* the number it has room for
    stray       \* a command was written where listing does not reach

programVars == <<stored, allocated, room, stray>>

(* What a block that was not carried over holds.                           *)
Lost == [order |-> "LOST"]

(* The checks of program_add_command: the limit on the data is that of a   *)
(* byte whatever the size.                                                 *)
Accepts(c) ==
    /\ c.size \in {0, 1} \/ c.size % WordSize = 0
    /\ c.order = "READ" => c.data = 0
    /\ c.type = "INSTRUCTION" => c.order = "READ" /\ c.size = 0
    /\ c.type = "DATA" => c.size # 0 /\ (c.order = "WRITE" => c.data <= ByteMax)

(* Mutant: one command too few is carried over.                            *)
CarriedLess(n) ==
    [i \in 1 .. Len(stored) |-> IF i < n /\ room # 0 THEN stored[i] ELSE Lost]

(* The contents after a realloc for n commands.                            *)
Carried(n) ==
    [i \in 1 .. Len(stored) |-> IF i <= n /\ room # 0 THEN stored[i] ELSE Lost]
Forgotten == [i \in 1 .. Len(stored) |-> Lost]

(* listing[nb_lines] = *command in a block for n commands that holds old.  *)
Put(old, n, c) ==
    IF Len(old) < n THEN stored' = Append(old, c) /\ UNCHANGED stray
    ELSE stray' = TRUE /\ UNCHANGED stored

(* realloc has no memory: listing is NULL, and whatever it held is lost.   *)
ReallocFails ==
    /\ MayFail
    /\ room' = 0
    /\ stored' = Forgotten
    /\ UNCHANGED stray

(* program_init: calloc for 10 commands, believed to be as many as a       *)
(* pointer has bytes.                                                      *)
InitProgram(succeeds) ==
    /\ succeeds \/ MayFail
    /\ stored' = << >>
    /\ allocated' = PointerSize
    /\ room' = IF succeeds THEN InitialRoom ELSE 0
    /\ UNCHANGED stray

AddRefused(c) == ~Accepts(c) /\ UNCHANGED programVars

AddInRoom(c) ==
    /\ Accepts(c)
    /\ Len(stored) # allocated
    /\ Put(stored, room, c)
    /\ UNCHANGED <<allocated, room>>

(* Mutant: the listing grows to less than it is then believed to be.       *)
AddGrowingLess(c) ==
    /\ Accepts(c)
    /\ Len(stored) = allocated
    /\ allocated' = 2 * allocated
    /\ \/ room' = allocated + 1 /\ Put(Carried(allocated + 1), allocated + 1, c)
       \/ ReallocFails

AddGrowing(c) ==
    /\ Accepts(c)
    /\ Len(stored) = allocated
    /\ allocated' = 2 * allocated
    /\ \/ room' = 2 * allocated /\ Put(Carried(2 * allocated), 2 * allocated, c)
       \/ ReallocFails

AddCommand(c) == ~stray /\ (AddRefused(c) \/ AddInRoom(c) \/ AddGrowing(c))

ShrunkRoom == IF stored # << >> THEN Len(stored) ELSE InitialRoom

Shrink ==
    /\ ~stray
    /\ allocated' = ShrunkRoom
    /\ \/ room' = ShrunkRoom /\ stored' = Carried(ShrunkRoom) /\ UNCHANGED stray
       \/ ReallocFails

(* program_free: the listing dangles, only program_init may come next.     *)
FreeProgram ==
    /\ ~stray
    /\ stored' = << >>
    /\ allocated' = 0
    /\ room' = 0
    /\ UNCHANGED stray
-----------------------------------------------------------------------------
(* The listing is never believed to be larger than it is, and always has a *)
(* size that doubling makes larger: doubling 8 while 10 were allocated,    *)
(* shrinking to the number of lines, and growing again keep it so.         *)
Capacity ==
    room # 0 => /\ Len(stored) <= allocated
                /\ allocated <= room
                /\ allocated > 0

(* A command is only ever written outside the listing after an allocation  *)
(* failed: program_read goes on adding to the NULL that realloc returned.  *)
StraysThroughNull == stray => room = 0
=============================================================================
