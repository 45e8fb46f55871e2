----------------------------- MODULE Simulator -----------------------------
(***************************************************************************)
(* test-cache: each command of the program is translated by page_walk and  *)
(* performed through the caches.  The page tables the walk reads are in    *)
(* the memory the caches write, so a program can change its own            *)
(* translations: the walk reads mem_space, never a cache.                  *)
(* Machine runs any program; CarefulMachine the careful ones.              *)
(*                                                                         *)
(* The listing is not fixed: any of Commands may come next, so a behaviour *)
(* is the run of some program over them.                                   *)
(***************************************************************************)
EXTENDS Cache, Addresses, FiniteSets
LOCAL INSTANCE FiniteSetsExt

CONSTANTS Commands  \* the commands programs are made of

(* program_add_command: a write is of data, of a byte or of a word.        *)
ASSUME CommandAssumption ==
    \A c \in Commands :
        /\ c.type \in Access
        /\ c.order = "WRITE" =>
             /\ c.type = "DATA" /\ c.size \in {1, WordBytes}
             /\ c.data \in IF c.size = WordBytes THEN WriteWords ELSE WriteBytes

VARIABLES aborted   \* an assertion of execute_command has failed

machineVars == <<vars, aborted>>

(* Bytes as the number they are, little endian.                            *)
ByteNumber == [b \in Byte |-> MapThenSumSet(LAMBDA i : 2 ^ i, b)]
Number(bytes) ==
    MapThenSumSet(LAMBDA i : ByteNumber[bytes[i]] * 2 ^ (i * Cardinality(Bits)), DOMAIN bytes)

(* mem_space as page_walk sees it: entries of PteBytes bytes.              *)
Entry32(m, k) == Number([i \in 0 .. PteBytes - 1 |-> m[k * PteBytes + i]])
Ptes(m) == [k \in 0 .. MemBytes \div PteBytes - 1 |-> Entry32(m, k)]

Address(c) == PhysicalAddress(Ptes(mem), c.vaddr)

(* The switch of execute_command.  What is not a word, an instruction      *)
(* included, is read as a byte.                                            *)
Perform(c, a) ==
    \/ c.order = "READ" /\ c.size = WordBytes /\ Read(c.type, a)
    \/ c.order = "READ" /\ c.size # WordBytes /\ ReadByte(c.type, a)
    \/ c.order = "WRITE" /\ c.size = WordBytes /\ Write(a, c.data)
    \/ c.order = "WRITE" /\ c.size # WordBytes /\ (WriteByte(a, c.data) \/ WriteByteZero(c.data))

Execute(c) ==
    /\ ~aborted
    /\ Walks(Ptes(mem), c.vaddr)
    /\ Perform(c, Address(c))
    /\ UNCHANGED aborted

(* assert(page_walk(...) == ERR_NONE)                                      *)
Abort(c) ==
    /\ ~aborted /\ ~oob
    /\ ~Walks(Ptes(mem), c.vaddr)
    /\ aborted' = TRUE
    /\ UNCHANGED vars

Boot == Init /\ aborted = FALSE
Step == \E c \in Commands : Execute(c) \/ Abort(c)
Machine == Boot /\ [][Step]_machineVars
-----------------------------------------------------------------------------
(* page_walk reads no entry outside memory, as far as it goes.             *)
WalkInside(m, va) ==
    LET p == Ptes(m)
        has(start, index) == start \div PteBytes + index \in DOMAIN p
    IN  /\ has(0, va.pgd)
        /\ PageAligned(Pud(p, va)) =>
             /\ has(Pud(p, va), va.pud)
             /\ PageAligned(Pmd(p, va)) =>
                  /\ has(Pmd(p, va), va.pmd)
                  /\ PageAligned(Pte(p, va)) => has(Pte(p, va), va.pte)

(* The command is translated inside memory, to an address the caches are   *)
(* meant to be used with for it, or is refused.  The code checks neither   *)
(* the entries nor the address: it depends on the tables.                  *)
Translates(m, c) ==
    /\ WalkInside(m, c.vaddr)
    /\ Walks(Ptes(m), c.vaddr) => PhysicalAddress(Ptes(m), c.vaddr) \in AddrsOf(c.type)

(* And it is a call that a careful program makes (see Cache).              *)
Careful(c) ==
    /\ Translates(mem, c)
    /\ c.order = "READ" => MayRead(c.type, Address(c))
    /\ c.order = "WRITE" => IF c.size = WordBytes THEN LineStart(Address(c))
                            ELSE MayWriteByte(Address(c), c.data)

CarefulStep == \E c \in Commands : (Careful(c) /\ Execute(c)) \/ Abort(c)
CarefulMachine == Boot /\ [][CarefulStep]_machineVars

(* The bytes of the four entries that the walk of a virtual address reads. *)
EntryBytes(m, va) ==
    LET p == Ptes(m)
        bytes(start, index) ==
            {(start \div PteBytes + index) * PteBytes + i : i \in 0 .. PteBytes - 1}
    IN  bytes(0, va.pgd) \cup bytes(Pud(p, va), va.pud)
          \cup bytes(Pmd(p, va), va.pmd) \cup bytes(Pte(p, va), va.pte)

(* Where a virtual address lies: nowhere if its walk fails.                *)
Lies(m, va) == IF Walks(Ptes(m), va) THEN {PageOf(Ptes(m), va)} ELSE {}

(* Only a store into one of the entries its walk reads changes where a     *)
(* virtual address lies or whether it is mapped, although every store      *)
(* copies a whole line to memory, the entries around it included.  Of      *)
(* addresses that are translated inside memory, by careful programs: a     *)
(* line that is stale where it overlaps another changes more.              *)
TranslationsStable ==
    [][\A va \in {c.vaddr : c \in Commands} :
          WalkInside(mem, va) /\ mem' # mem /\ Lies(mem, va) # Lies(mem', va) =>
              \E w \in Commands :
                 /\ w.order = "WRITE"
                 /\ (Address(w) .. Address(w) + w.size - 1)
                       \cap EntryBytes(mem, va) # {}
                 /\ Execute(w)]_machineVars
=============================================================================
