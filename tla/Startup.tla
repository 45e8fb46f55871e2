------------------------------ MODULE Startup ------------------------------
(***************************************************************************)
(* What test-cache and the other drivers do before the first command runs: *)
(* main loads the memory, and if that succeeds reads the program; an error *)
(* of either ends it with exit status 3.                                   *)
(***************************************************************************)
EXTENDS ProgramReader, MemoryLoader

CONSTANTS Jobs      \* the pairs of a memory description and a program file

ASSUME JobAssumption == Jobs \subseteq Descriptions \X Files

vars == <<loaderVars, readerVars>>

Init ==
    /\ \E job \in Jobs : desc = job[1] /\ file = job[2]
    /\ LoaderInit
    /\ ReaderInit

Load == LoaderStep /\ UNCHANGED readerVars
ReadProgram == stage = "ERR_NONE" /\ ReaderStep /\ UNCHANGED loaderVars
Client == ClientStep /\ UNCHANGED loaderVars

Next == Load \/ ReadProgram \/ Client

(* One thread runs the loader and then the reader without ever waiting for *)
(* another; a client need not do anything.                                 *)
Spec == Init /\ [][Next]_vars /\ WF_vars(Load) /\ WF_vars(ReadProgram)
-----------------------------------------------------------------------------
(* Types: memory holds entries, and what a listing holds are commands.     *)
TypeOK ==
    /\ image \in [DOMAIN image -> Nat]
    /\ line \in Nat /\ left \in Nat
    /\ stage \in {"start", "pgd", "count", "pages", "next_line"} \cup LoaderReturned
    /\ pc \in {"start", "edited", "freed"} \cup Awaiting \cup Returned
    /\ astray \in BOOLEAN /\ stray \in BOOLEAN
    /\ allocated \in Nat /\ room \in Nat
    /\ command \in Command
    /\ stored \in Seq(Command \cup {Lost})
    /\ \A i \in 1 .. Len(stored) : stored[i] = Lost \/ Accepts(stored[i])
=============================================================================
