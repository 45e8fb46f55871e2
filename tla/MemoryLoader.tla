---------------------------- MODULE MemoryLoader ----------------------------
(***************************************************************************)
(* memory.c: the memory of the machine, from a dump or from a description. *)
(* Memory is seen as page_walk sees it, as an array of page table entries; *)
(* addresses are in bytes.  A description is what its three header lines   *)
(* say and the lines of pages after them; one action is a line, with the   *)
(* file it names.  Reads and writes outside the memory end the model.      *)
(***************************************************************************)
EXTENDS Addresses, Sequences

CONSTANTS
    Descriptions,   \* the description files
    PageFiles,      \* the content of each file there is, as entries
    Dumps,          \* the contents of memory dumps
    SizeValues,     \* 2^64: the values of a size_t
    NoMemory        \* calloc may fail

PageEntries == PageSize \div PteBytes

ASSUME LoaderAssumption ==
    /\ PageSize % PteBytes = 0 /\ PdEntries <= PageEntries
    /\ \A d \in Descriptions :
          /\ d.size \in Nat /\ d.size % PteBytes = 0
          /\ d.pages \in Seq([at : Nat, file : STRING, kind : {"table", "data", "blank"}])
          /\ d.count \in Int /\ d.count + SizeValues \in Nat
          /\ \A i \in 1 .. Len(d.pages) : d.pages[i].at % PteBytes = 0
    /\ \A f \in DOMAIN PageFiles : PageFiles[f] \in Seq(Nat)
    /\ \A dump \in Dumps : dump \in [DOMAIN dump -> Nat]

VARIABLES
    desc,       \* the description
    line,       \* the next of its lines of pages
    left,       \* translation pages still to be read
    image,      \* *memory
    astray,     \* memory outside *memory was read or written
    stage,      \* what is read next, or what the loader returned
    placed      \* ghost: the pages read so far, with their addresses

loaderVars == <<desc, line, left, image, astray, stage, placed>>

Entries == 0 .. desc.size \div PteBytes - 1
Zeroed == [k \in Entries |-> 0]
LoaderReturned == {"ERR_NONE", "ERR_BAD_PARAMETER", "ERR_IO"}
-----------------------------------------------------------------------------
(* page_file_read: a file that is missing or has not the size of a page is *)
(* refused; nothing compares the address with the size of memory.          *)
IsPage(f) == f \in DOMAIN PageFiles /\ Len(PageFiles[f]) = PageEntries
Inside(address) == address + PageSize <= desc.size

(* Mutant: the page ends up one entry late.                                *)
CopiedLate(m, f, address) ==
    [k \in DOMAIN m |->
        LET i == k - address \div PteBytes
        IN  IF i \in 1 .. PageEntries THEN PageFiles[f][i] ELSE m[k]]

Copied(m, f, address) ==
    [k \in DOMAIN m |->
        LET i == k - address \div PteBytes
        IN  IF i \in 0 .. PageEntries - 1 THEN PageFiles[f][i + 1] ELSE m[k]]

PageFileRead(f, address) ==
    /\ IsPage(f)
    /\ IF Inside(address)
       THEN image' = Copied(image, f, address) /\ UNCHANGED astray
       ELSE astray' = TRUE /\ UNCHANGED image

Place(p) == placed' = Append(placed, p)

(* Mutant: the end of the file is not an end of a line.                    *)
LineBefore(n) == n < Len(desc.pages)

(* next_line: a last line without a newline is never left.                 *)
NewlineAfter(n) == n < Len(desc.pages) \/ desc.newline

Fail(err) ==
    /\ stage' = err
    /\ UNCHANGED <<desc, line, left, image, astray, placed>>
-----------------------------------------------------------------------------
(* mem_init_from_dumpfile.                                                 *)
LoadDump ==
    /\ stage = "start"
    /\ \E dump \in Dumps : image' = dump
    /\ stage' = "ERR_NONE"
    /\ UNCHANGED <<desc, line, left, astray, placed>>

(* Both: the file cannot be opened, or calloc finds no memory.             *)
LoadFails ==
    /\ stage = "start"
    /\ Fail("ERR_IO") \/ (NoMemory /\ Fail("ERR_BAD_PARAMETER"))

(* mem_init_from_description.                                              *)
ReadSize ==
    /\ stage = "start"
    /\ image' = Zeroed
    /\ stage' = "pgd"
    /\ UNCHANGED <<desc, line, left, astray, placed>>

ReadPgd ==
    /\ stage = "pgd"
    /\ PageFileRead(desc.pgd, 0)
    /\ Place([at |-> 0, file |-> desc.pgd, kind |-> "table"])
    /\ stage' = "count"
    /\ UNCHANGED <<desc, line, left>>

PgdFails == stage = "pgd" /\ ~IsPage(desc.pgd) /\ Fail("ERR_BAD_PARAMETER")

(* Mutant: the count stays signed.                                         *)
AsSigned(n) == n

(* The count is an int, compared with a size_t: a negative one is huge.    *)
AsSize(n) == IF n < 0 THEN n + SizeValues ELSE n

ReadCount ==
    /\ stage = "count" /\ ~astray
    /\ left' = AsSize(desc.count)
    /\ line' = 1
    /\ stage' = IF NewlineAfter(0) THEN "pages" ELSE "next_line"
    /\ UNCHANGED <<desc, image, astray, placed>>

Reading(tables) ==
    /\ stage = "pages" /\ ~astray
    /\ IF tables THEN left > 0 ELSE left = 0
    /\ line <= Len(desc.pages)
Current == desc.pages[line]

AfterPage ==
    /\ line' = line + 1
    /\ stage' = IF NewlineAfter(line) THEN "pages" ELSE "next_line"
    /\ UNCHANGED desc

(* A translation page goes to the address of 8 digits its line gives.      *)
ReadTable ==
    /\ Reading(TRUE)
    /\ Current.kind = "table"
    /\ PageFileRead(Current.file, Current.at)
    /\ Place([at |-> Current.at, file |-> Current.file, kind |-> "table"])
    /\ left' = left - 1
    /\ AfterPage

(* The 16 digits of a data page are 8 and no space; nor is a blank line,   *)
(* or the end of the file, a 0.                                            *)
TableMalformed ==
    /\ \/ Reading(TRUE) /\ Current.kind # "table"
       \/ stage = "pages" /\ ~astray /\ left > 0 /\ line > Len(desc.pages)
    /\ Fail("ERR_IO")

TableFails ==
    /\ Reading(TRUE)
    /\ Current.kind = "table" /\ ~IsPage(Current.file)
    /\ Fail("ERR_BAD_PARAMETER")

(* page_walk reads no entry outside memory: it goes on from level to level *)
(* as long as it finds the address of a page.                              *)
Has(start, index) == start \div PteBytes + index \in Entries
WalkInside(va) ==
    /\ Has(0, va.pgd)
    /\ PageAligned(Pud(image, va)) =>
         /\ Has(Pud(image, va), va.pud)
         /\ PageAligned(Pmd(image, va)) =>
              /\ Has(Pmd(image, va), va.pmd)
              /\ PageAligned(Pte(image, va)) => Has(Pte(image, va), va.pte)

(* A data page goes where the tables read so far map the address its line  *)
(* gives, the offset within the page included.                             *)
ReadingData == Reading(FALSE) /\ Current.kind # "blank"
Mapped == InitVirtAddr64(Current.at)

WalkStrays ==
    /\ ReadingData
    /\ ~WalkInside(Mapped)
    /\ astray' = TRUE
    /\ UNCHANGED <<desc, line, left, image, stage, placed>>

ReadDataPage ==
    /\ ReadingData
    /\ WalkInside(Mapped)
    /\ Walks(image, Mapped)
    /\ PageFileRead(Current.file, PhysicalAddress(image, Mapped))
    /\ Place([at |-> PhysicalAddress(image, Mapped), file |-> Current.file,
              kind |-> "data", va |-> Mapped])
    /\ AfterPage
    /\ UNCHANGED left

DataPageFails ==
    /\ ReadingData
    /\ WalkInside(Mapped)
    /\ ~Walks(image, Mapped) \/ ~IsPage(Current.file)
    /\ Fail("ERR_BAD_PARAMETER")

BlankLine == Reading(FALSE) /\ Current.kind = "blank" /\ Fail("ERR_IO")

AllRead ==
    /\ stage = "pages" /\ ~astray
    /\ left = 0 /\ line > Len(desc.pages)
    /\ Fail("ERR_NONE")

LoaderStep ==
    \/ LoadDump \/ LoadFails
    \/ ReadSize \/ ReadPgd \/ PgdFails \/ ReadCount
    \/ ReadTable \/ TableMalformed \/ TableFails
    \/ WalkStrays \/ ReadDataPage \/ DataPageFails \/ BlankLine \/ AllRead

LoaderInit ==
    /\ line = 0 /\ left = 0
    /\ image = << >>
    /\ astray = FALSE
    /\ stage = "start"
    /\ placed = << >>
-----------------------------------------------------------------------------
(* A description whose addresses, and the page addresses in whose files,   *)
(* are those of pages inside the memory.                                   *)
Named(d) == {d.pgd} \cup {d.pages[i].file : i \in 1 .. Len(d.pages)}
Contained(d) ==
    /\ Inside(0)
    /\ \A i \in 1 .. Len(d.pages) :
          PageAligned(d.pages[i].at) /\ (d.pages[i].kind = "table" => Inside(d.pages[i].at))
    /\ \A f \in Named(d) \cap DOMAIN PageFiles : \A i \in 1 .. Len(PageFiles[f]) :
          PageAligned(PageFiles[f][i]) => Inside(PageFiles[f][i])

(* With such a description nothing outside memory is read or written, not  *)
(* even if tables are missing, listed late, overwritten by data or listed  *)
(* as data: whatever page_walk takes for an entry came from a file or is 0.*)
ContainedStaysInside == Contained(desc) => ~astray

(* No two pages were put over each other, and the walks of the data pages  *)
(* use tables that the description lists.                                  *)
Apart ==
    \A i, j \in DOMAIN placed :
        i < j => \/ placed[i].at + PageSize <= placed[j].at
                 \/ placed[j].at + PageSize <= placed[i].at
Tables == {placed[i].at : i \in {j \in DOMAIN placed : placed[j].kind = "table"}}
ByListedTables(va) ==
    {Pud(image, va), Pmd(image, va), Pte(image, va)} \subseteq Tables

(* After a load, each data page is found where the finished tables map its *)
(* address, although it was placed by tables that were still being loaded. *)
LoadedPagesFound ==
    stage = "ERR_NONE" /\ Apart =>
        \A i \in DOMAIN placed :
            LET p == placed[i]
            IN  p.kind = "data" /\ ByListedTables(p.va) =>
                   \A k \in 0 .. PageEntries - 1 :
                      image[PhysicalAddress(image, p.va) \div PteBytes + k]
                         = PageFiles[p.file][k + 1]

(* Loading ends if the last line ends with a newline: otherwise next_line  *)
(* looks for one for ever.                                                 *)
LoadEnds ==
    (stage = "start" /\ desc.newline) ~> (stage \in LoaderReturned \/ astray)
=============================================================================
