# Intel-Kaby-Lake-cache: a TLA+ verification project

The repository simulates, in C, the address translation and the caches of an
Intel Kaby Lake processor: a program of memory commands is read from a file, each
virtual address is translated by a page walk or a hierarchy of TLBs, and the
physical address is read or written through two levels of cache over a byte
array that stands for memory. This directory holds TLA+ modules that model the
core of it, TLC configurations that check them exhaustively on small instances,
and proofs, checked by TLAPS, of what holds for every size of the machine.

All paths `src/...` below are paths of the repository.

## 1. Inventory

The simulator is sequential: one thread, no callbacks, no signals, nothing kept
between runs. What makes it hard is therefore not interleaving but the order of
calls, stale copies (four places hold copies of memory or of page tables), bit
fields that wrap, memory that is used before it is initialised, array
arithmetic through `void*` macros that no compiler checks, and readers of text
files that never look at what `fscanf` answers.

| Component | Source | State | Operations |
|---|---|---|---|
| cache hierarchy | `cache_mng.c`, `cache.h`, `lru.h` | `L1_ICACHE`, `L1_DCACHE`, `L2_CACHE`, memory | `cache_read`, `cache_read_byte`, `cache_write`, `cache_write_byte`, `cache_flush`; inside: `hit_cache`, `init_cache`, `LRU_*`, `transfer_to_l1`, `cache_entry_init` |
| TLB hierarchy | `tlb_hrchy_mng.c` | L1 ITLB, L1 DTLB, L2 TLB | `tlb_search`, `tlb_flush`; inside: `tlb_hit`, `tlb_insert`, `tlb_entry_init`, `insert_l1`, `invalidation` |
| page walk | `page_walk.c` | none (reads memory) | `page_walk`, `read_page_entry` |
| addresses | `addr_mng.c` | none | `init_virt_addr64`, `virt_addr_t_to_uint64_t`, `virt_addr_t_to_virtual_page_number`, `init_phy_addr` |
| fully associative TLB | `tlb_mng.c` | 128 entries, a list of lines in order of use | `tlb_flush`, `tlb_hit`, `tlb_insert`, `tlb_search` |
| linked list | `list.c` | doubly linked nodes | `push_*`, `pop_*`, `move_back`, `clear_list` |
| programs of commands | `commands.c` | a growing array of commands | `program_init`, `program_add_command`, `program_shrink`, `program_read`, `program_print`, `program_free` |
| memory loader | `memory.c` | `mem_space` | `mem_init_from_dumpfile`, `mem_init_from_description`; inside: `page_file_read`, `next_line` |
| drivers | `test-*.c` | locals of `main` | read a program and a memory, run each command |
| error codes, printing | `error.c`, `cache_dump`, `*_print` | none | messages, pure output |

How they interact. A driver loads `mem_space` and a program. For each command
`test-cache` calls `page_walk` on the virtual address, and then one of the calls of
`cache_mng.h` with the physical address: `cache_read` or `cache_read_byte` for a
load or a fetch, `cache_write` or `cache_write_byte` for a store. `test-tlb_hrchy`
calls `tlb_search`, which calls `page_walk` when both TLB levels miss. The page
tables that `page_walk` reads and the bytes the caches copy are the same
`mem_space`; the caches write it, the TLBs never do. All errors are return codes,
and the drivers ignore those of the memory calls.

What makes each component correct:

- **caches**: no program can tell that they exist. For that every lookup must find
  a line that is there (`hit_cache` gives up at the first invalid way, so valid
  ways must come first), no line may be cached twice, a valid line must equal
  memory, a word written must be where both levels and memory say it is, and no
  call may leave the arrays. Beyond that the documentation promises an LRU
  replacement policy and an L2 that receives the victims of L1.
- **TLBs**: every search answers what a walk would. For that an entry must be
  the translation of every page number that can hit it; and the L2 TLB must
  include both L1 TLBs, which is what `invalidation` is for.
- **page walk**: the answer is a page address at every level, or an error.
- **fully associative TLB and list**: the replaced line is the least recently used;
  the list always holds each line exactly once.
- **programs**: the listing is never written past its allocation, every legal
  command read is a command stored, and reading ends.
- **loader**: the pages go where the finished tables say; nothing outside memory is
  read or written; loading ends.
- **the machine of `test-cache`**: a translation changes only when the program stores
  into the tables it is made of.

The behaviours that a test would hardly reach are listed, each at its line, under
`hazards` in `PROJECT.json`.

## 2. Modules

| Module | Models |
|---|---|
| `CacheSet` | one set of a cache: `hit_cache`, `invalid_way`, `LRU_way`, the ageing of `lru.h`, insertion |
| `Cache` | `cache_mng.c`: two L1 caches, the L2 cache, memory, every call of its interface |
| `FlatMemory` | what the cache calls promise: a memory of bytes, in which what is written is there, and nothing else |
| `PageWalk` | `page_walk.c` and the virtual page number |
| `Addresses` | `addr_mng.c`: addresses as numbers and as fields |
| `TlbHrchy` | `tlb_hrchy_mng.c`: two L1 TLBs, the L2 TLB, search and flush |
| `TlbSimple` | `tlb_mng.c`: entries, and the list of lines in the order of their use |
| `Mmu` | what both `tlb_search` functions promise: the answer of a page walk |
| `Lru` | what "least recently used" promises: the pages cached are the last ones used |
| `LinkedList` | `list.c`: linked nodes in a heap, every call of its interface |
| `ListSeq` | what `list.h` promises: a sequence; `TlbSimple` is built on it |
| `Program` | the listing of `commands.c`: what it holds, what it is believed to hold, what it has room for |
| `ProgramReader` | `program_read`, symbol by symbol, and `program_print`; extends `Program` and `Addresses` |
| `MemoryLoader` | `memory.c`: a memory from a dump or from a description, line by line |
| `Startup` | what the drivers do before the first command: the loader, then the reader |
| `Simulator` | `execute_command` of `test-cache`: page walk and caches composed over one memory |
| `MCCache`, `MCTlbHrchy`, `MCTlbSimple`, `MCStartup`, `MCSimulator`, `MCPaging` | values of the constants for TLC; `MCPaging` has the page tables |
| `CacheSetProofs`, `CacheProofs`, `CacheFlatProofs` | lemmas on one set; theorems about `Cache`; `Cache` implements `FlatMemory`, and `Simulator` uses `Cache` |
| `PageWalkProofs` | lemmas on page numbers |
| `TlbHrchyProofs`, `TlbSimpleProofs` | theorems about the two TLBs; both implement `Mmu`, and `TlbSimple` implements `Lru` |
| `LinkedListProofs` | theorems about `LinkedList`; it implements `ListSeq` |
| `StartupProofs` | theorems about addresses, the reader and the loader |

A definition commented "Mutant" is a deliberately wrong variant of the definition
that follows it (a loop one step short, a dropped test, a wrong tag). No
specification uses one: substituted for the correct definition it makes TLC
violate the property that guards it, which shows that the property can fail.
`PROJECT.json` lists which mutant breaks which property.

### `CacheSet` and `Cache`

| TLA+ | Code |
|---|---|
| `mem` | `mem_space`, byte by byte; a byte is the set of its 1 bits, so that the OR of `cache_write_byte` is a union |
| `l1[ac][index][way]` | `L1_ICACHE` and `L1_DCACHE`, entry `index * ways + way` |
| `l2[index][way]` | `L2_CACHE` |
| `oob` | an access past the end of an array has happened; what follows is undefined in C, so the model stops there |
| `out` | return code of the last call, the address it was about, and `*word` or `*byte` |
| `ReadL1Hit`, `ReadL2Hit`, `ReadMiss` | the three ways through `cache_read` |
| `WriteL1Hit`, `WriteL2Hit`, `WriteMiss` | the three ways through `cache_write` |
| `ReadByte`, `WriteByte`, `WriteByteZero` | `cache_read_byte`, `cache_write_byte`, and the latter's refusal of a zero byte |
| `Flush` | `cache_flush` |

Each way through a call is an operator from a state (a record of the four
variables) to the set of states it can end in. The set has several members where
the code reads memory it never initialised: the `v` bit of an L2 entry from `malloc`
(constant `HeapV`), the `age` of an L1 entry built by `transfer_to_l1`, a word
`cache_read` left unassigned. This is how `WriteByte` can be a read, an OR and a
write without intermediate steps, as a call is in a sequential program.

Three things of the code the model reproduces although they are surprising:

- a line is copied from and to `mem_space + address`, the address of the access,
  not of the first byte of its line, and is kept under the tag of that line;
- `transfer_to_l1` and the statements around it address entries with the number
  of lines where the macro multiplies by the number of ways, and clear the valid
  bit in the L1 array while the name suggests L2; an L1 entry is then read through
  a pointer to the L2 layout (`AsL2Entry`);
- whatever depends on the L2 cache depends on the `v` bit `malloc` left in it.

Data is abstracted to what matters: words of 2 bytes in lines of 2 words in the
checked instances, parameters everywhere else. `cache_dump` is output only and
is left out.

**Careful programs.** Of any program at all the caches keep little: `FlatMemory` knows neither
lines nor an OR, and the programs of `cache_fill` and `cache_byte` can tell the caches from it. `cache_mng.c:482` has a
check that refuses an access that is not to the first byte of a line, but it is commented out.
`CarefulNext` restricts `Next` to the calls that do not need it:

| Condition | Without it |
|---|---|
| a write is to the first byte of a line (`LineStart`) | the line is copied back from its first byte to the address of the access: the word lands as many words too far, and lines cached elsewhere go stale |
| a read is to the first byte of a line, or of a line L1 has (`MayRead`) | the wrong bytes are cached under the tag of the line (`cache_fill`) |
| a byte written has all the ones of the byte it replaces, and is not 0 (`MayWriteByte`) | old bits stay, or the write is refused (`cache_byte`) |

Of the two programs of the repository `commands02.txt` is careful: it enters each
16-byte line at its first word and goes on from there. `commands01.txt` is not: its read
of `0x40200002` follows one of `0x40200000` and is, but it writes a byte at `0x40000005`. What
is promised to every program is in `cache_use` and `cache_heap`, which run `Next`.

### `PageWalk` and `TlbHrchy`

| TLA+ | Code |
|---|---|
| `mem` | `mem_space` seen as an array of page table entries, only read |
| `l1[ac]`, `l2` | the three TLB arrays, direct mapped |
| `answer`, `hit` | `*paddr` with the return code and the address asked for; `*hit_or_miss` |
| `SearchL1Hit`, `SearchL2Hit`, `SearchMiss`, `SearchFault` | the four ways out of `tlb_search` |
| `Flush` | `tlb_flush` |

The TLBs of `main` are on the stack and the flush at the start is partial, so
`Init` takes what was there from the constant `StackEntries`. The L2 TLB is filled
at 6 bits of the page number and looked up at 4 (`L2Index`, `Line`), and
`invalidation` rebuilds page numbers in 32 bits (`Rebuilt`): both are modelled. The
page offset is copied by every caller and left out.

### `TlbSimple`

| TLA+ | Code |
|---|---|
| `tlb[line]` | the array `tlb` |
| `order` | the values of `replacement_policy->ll` from front to back |
| `SearchHit` | the scan of `tlb_hit` from the back, and the move of the line it finds |
| `SearchMiss`, `SearchFault` | the walk; the line at the front is replaced and goes to the back |
| `Flush` | `tlb_flush`, which leaves the list alone |

The list is the sequence of `ListSeq`, with the room memory has for its nodes as
`HeapNodes`: `move_back` copies the front node before it frees it, so without room
for one more node the line is lost, and `Moved` says so. What justifies the sequence is
that `LinkedList` implements `ListSeq`, and `TlbSimple` only uses `ListSeq`.

`Lru` keeps a list of pages, the one used last at the end. `Recent` reads it off the code's state:
the tags of the lines in the order of `order`, those of free lines left out. The code has no such
list, since its flush leaves the order alone; so `Recent` drops the first lines, as
many as are free, and it is a result that these are the free ones: a free line behind them shows as
`NoPage`, and no step of `Lru` leads to a list with that in it.

### `LinkedList`

`heap` maps the address of each allocated node to the node: `malloc` takes any
address that is not in it, `free` removes one, so that a pointer to a freed node is
a pointer outside the domain of `heap`, or to another node that was given the
same address. `malloc` fails when no address is left. `IsEmpty` is the truth of
what `is_empty_list` answers, which is also not 0 for a list with one end.
`clear_list` is modelled by what its loop meets: the nodes in every set that holds
the front and is closed under `next` (`Reached`). The refinement mapping to `ListSeq` is the
walk of `for_all_nodes`: `Steps` is the node met after k steps, NULL from the end on, and
`Values` the values met.

`list.h` says `push_back` and `push_front` answer NULL when they fail; they answer an
error code cast to a pointer, since the macro that checks `malloc` returns one. No
caller looks at the answer, and it is left out.

### `Program`, `ProgramReader` and `Startup`

| TLA+ | Code |
|---|---|
| `stored` | the `nb_lines` commands of `program->listing` |
| `allocated` | the field of that name: what the listing is believed to hold |
| `room` | what the block `listing` points to holds; 0 for NULL |
| `stray` | a command was written where the listing does not reach; the model stops there |
| `in` | the position in the file, `currentChar`, `feof` |
| `command` | `currentCommand`, which keeps its fields from line to line |
| `pc` | which `isspace` loop is next, or what `program_read` returned |

A file is a sequence of symbols: the characters the code compares with, `"space"` for any
character of `isspace`, and a numeral for digits that stand together, which `%x` takes at once. A file that
ends among the digits of a number ends with the numeral of those it still has (`Truncated`, `f.inside`):
`Digits` is how many `program_print` writes of an address. `PrintedLine` is the line
`program_print` writes of a command. `PrintedAs` says that a text is such lines, by giving each
symbol its place (line and symbol of the line), with more spaces where one stands, bits in an
address that `init_virt_addr64` drops, or an early end, before any symbol or inside a numeral. One action is a turn of
a loop over spaces, or everything from one such loop to the next. `fscanf` at the end of
the file leaves the character as it was (`Scan`), and `%x` leaves the number 0
(`HexValue`): most of what damaged files do follows from these two.
`Accepts` is the chain of tests in `program_add_command`. An allocation may fail
wherever `MayFail` allows; a failed `realloc` leaves NULL in the only pointer and the
doubled `allocated`, and `program_read` goes on (`ReallocFails`). `ClientStep` is what
else `commands.h` offers once a program is read.

### `MemoryLoader`

| TLA+ | Code |
|---|---|
| `image` | `*memory` as an array of page table entries |
| `desc`, `line`, `left` | the description, its next line, the translation pages still due |
| `stage` | which part of `mem_init_from_description` runs, or what was returned |
| `astray` | an access outside `*memory`; the model stops there |
| `placed` | history: which page went where. No action reads it |

One action is one line of the description, with the file it names; `Fail` stands for each
`return` with an error. A line is a translation page (8 digits), a data page (16 digits)
or blank; a line of one kind where the other is due fails the way the tests on
its characters fail. A data page goes where `page_walk` on the memory loaded so far maps
its virtual address, offset included. The count of translation pages is an `int`
compared with a `size_t` (`AsSize`). `next_line` on a last line without newline is
the stage `"next_line"`, from which no action leads on.

### `Simulator`

It extends `Cache` and `Addresses`: `Execute` translates by a walk of the current memory,
then calls the action of `Cache` that `execute_command` chooses; `Abort` is the failed
`assert` on the walk. `Ptes` reads the bytes of the caches' memory as little-endian table
entries (`Number`), so a store through a virtual address may change the tables the next
walk reads. The listing is not fixed: any command may come next. `Machine` takes any command,
`CarefulMachine` those that are `Careful` in the state they find: their walk and their address lie inside
memory, which the code does not check (`Translates`), and the call they make is a careful one. A
careful program may store into its own tables. No driver uses a TLB
together with the caches, so this is all the composition the repository has.

## 3. Runs

Programs are enumerated, not given: in every state any call with any of the
addresses, words and bytes of the instance may come next, so a run covers every
program over them, of any length. Only one counter needs a bound: clients make programs
of at most `MaxLines` commands. Every other variable ranges over a finite set.

| Run | Instance | States | What it shows |
|---|---|---|---|
| `cache_use` | any program; data addresses 4, 6, 20, 36 in 40 bytes; L1 2 sets of 2 ways, L2 4 of 2; one word, one byte and the byte 0; L1 data cache and L2 flushed; zeroed heap | 40,014 | valid ways first, tags unique, no access outside; a write leaves cache and memory the same and is read back; a read repeated is the same; only a full set evicts, and only one line |
| `simulator` | careful programs; 56 bytes in 7 pages of 8: four tables, two data pages, one code page; one page table maps itself; 12 commands; L1 and L2 2 sets of 2 ways; no flush after the start | 2,925 | a valid L1 line is the memory of its line, however the program changed its tables; the hierarchy implements `FlatMemory`; only a store into an entry that a walk reads changes its translation |
| `cache_heap` | `HeapV = {0, 1}`; addresses 0, 4, 16, 20; L1 2 sets of 1 way, L2 4 of 2 | 120,718 | with any `v` bit from `malloc`: types hold, only an L2 hit leaves an array, a word written to the first word of a line is in memory on every path |
| `tlb_hierarchy` | 4-bit page numbers 0, 3, 4, 8, 9, 14; L1 of 2 lines, L2 of 4; L1 flushes | 4,736 | L2 includes both L1 TLBs, a search fills the L1 TLB with its answer, the hierarchy implements `Mmu` |
| `tlb_simple` | 3 lines, room for 4 nodes; pages 0, 3, 4, 7, 9, 14 | 1,622 | the list keeps each line once, no page is in two lines, free lines are used before a page is evicted; it implements `Mmu` and `Lru` |
| `linked_list` | 5 nodes, 2 values | 6,331 | links mirror each other, nothing dangles, nothing is lost; the nodes implement `ListSeq` |
| `startup` | memories of up to 8 pages of 2 entries; programs of up to 3 of 5 commands, with a space too many, high address bits, or cut anywhere, numerals of 2 digits included; 1,704 jobs; a listing of 3 believed to be 2; every allocation may fail | 109,449 | the listing has the room it is believed to have; what is printed is read back; pages stay inside memory and are found through the finished tables; reading comes nearer to its end with every turn; reading and loading end |
| `program_word` | violated, the instance of `startup` with no failures | | finding: a word larger than a byte is dropped from the program |
| `cache_fill` | violated | | finding: a miss at a later word caches the wrong bytes under the tag of the line |
| `cache_byte` | violated | | finding: the byte 0 is refused, and any other is OR-ed into the old one |
| `cache_victim` | violated | | finding: a line evicted by a read is not placed into L2 |
| `tlb_alias` | violated | | finding: pages told apart by the middle bits answer for each other |

Why the instances are large enough:

- `cache_use`: three lines compete for the two ways of one set, so sets fill, hit in
  either way, and evict; the fourth address is in the middle of a line, so that
  unaligned copies, word select and overlap all happen. The addresses lie in set 1 of
  L1 and L2, where the mistaken strides would leave the arrays if L2 were ever
  hit, so `InBounds` depends on L2 being empty and not on the address.
- `simulator`: the two data pages and the last page table compete for the two ways of a set of the data cache, so
  that lines are evicted and fetched again between a store and the read that must see it; reads
  are of the first and of later words and bytes of a line. The last table maps page 1 to itself, so that programs
  store into the entry of page 0, by word and by byte, and map it to the other data page or to an address
  that is no page. A byte is stored where it keeps the ones of the old one.
- `cache_heap`: with one way per set every write evicts, L2 gets valid and invalid lines
  at once, and both L2-hit paths run, some within the arrays and some outside. A
  behaviour that went out of bounds stops there, so deadlock is not checked in
  this run. Nor is it in `simulator`, where an assertion ends the program, and in
  `startup`, where it ends when all is read. The other passing runs check it: a call
  can always be made.
- `tlb_hierarchy`: 0, 4 and 8 collide in every TLB, 0 and 8 also in the part of the page
  number a 3-bit rebuild keeps, 14 is in an L2 line no lookup ever visits, and
  9 is unmapped. The set holds no two pages that only the middle bits tell
  apart: that is `NoAliases`, and `tlb_alias` shows what happens without it.
- `tlb_simple`: five pages compete for three lines, in all orders of use; 9 is unmapped, and
  page 0 has the tag of an erased entry, so that the valid bit matters.
- `linked_list`: with up to five nodes a node moved from the middle has neighbours that are
  the ends, one of them or neither; two values make equal elements; nodes are freed and
  handed out again, and memory runs out in every call that needs it.
- `startup`: each line of a good description is replaced by each of 13 others (missing file, short
  file, unaligned, out of memory, wrong kind, the place of another page), any two lines are
  swapped, the list is cut anywhere, and the count is anything from -1 to 4. `Jobs` pairs
  each description with an empty program and each program with a dump, since the reader starts
  only after the loader ended and reads none of its state. A numeral has two digits and may be cut after the first. Files hold up to 3 lines and a client adds up to 5, so
  that the listing grows past the 2 it is believed to hold at first, past the
  3 it has, and again after it shrank.

### Fairness and liveness

`Startup` assumes `WF_vars(Load)` and `WF_vars(ReadProgram)`: one thread runs the loader, then the
reader, and neither waits for anything, so a step that can be taken is. A client need
not do anything. `ReadingEnds` and `LoadEnds` say that both end, except for
the ends of file in their premises. There the code is in a loop at the end of the
file that changes nothing (`isspace` of a character no `fscanf` overwrites, `next_line`
on `EOF`), which is a stutter of the model. The premise of `ReadingEnds` is exact for these files: a file that
ends at a space ends only when that space directly follows an address, the one
place where two characters are read with no loop. What `ReadingEnds` needs of safety, a bound on the turns
that each turn lowers, is `ReadingAdvances`: it is checked on its own, and proved for any file.

For the other components no fairness is assumed and no liveness stated: every call ends after
loops with constant bounds.

### The findings

Each is an assertion of a comment or an expected test output that the code does not
meet; `PROJECT.json` quotes both sides.

1. `cache-01-out.txt` shows whole lines; the code starts the copy at the accessed word (`cache_fill`).
2. `cache_write_byte` is to write a byte; it refuses the byte 0, for which it uses the macro that refuses null
   pointers, and can only set bits with any other (`cache_byte`, two findings: TLC stops at the refusal).
3. A block evicted from L1 "is then placed into L2"; a read that misses both drops it (`cache_victim`). A write does
   send it there, with the valid bit that `malloc` left: in `cache_heap` L2 fills, with a zeroed heap it never has a
   valid line, and `InBounds` holds in `cache_use` for that reason alone (`StrayNeedsL2`).
4. `tlb_search` is to give the translation; the L2 TLB is looked up with 4 bits of index
   and a tag without 6, so two bits of the page number are never compared (`tlb_alias`).
5. `05.basic.sh` expects a program that writes the word `0xBEEF` to be read; the limit of
   a byte is applied to words, and the refusal is ignored (`program_word`).

Two more disagreements are modelled and in no run. `tlb_flush` "erases all TLB data" (`tlb_hrchy_mng.h:19`); `Flushed`
erases as many lines as the index has bits, as the code does. The lines that stay hold translations still, so that
only what was on the stack at the start can be wrong: that is the assumption `StackInvalid`. And `cache.h` says
"write-through": a word written to a later word of a line is put as many words too far on in memory, over another.

A file that is cut among the digits of an address is read without an error, with a command whose address is
what is left of it. No document says otherwise, so it is part of `ReadsWhatIsPrinted` and no finding.

## 4. Proofs

The theorems hold for every geometry (`GeometryAssumption`: positive sizes, L2 a
multiple of L1), every memory, every set of addresses, words and bytes. What they
assume beyond that is a hypothesis of each theorem, or the specification it is about (`CarefulSpec`,
`CarefulMachine`). Every property of a passing run is the
conclusion of a theorem, except the three named at the end of this section.

| Assumption | Meaning |
|---|---|
| `ZeroHeap` | `malloc` leaves 0 in the `v` bit of a new L2 entry |
| `InsideMemory` | no access is so near the end that its line-sized copy crosses it |
| `CodeApart` | no line is both fetched and accessed as data |
| `StackInvalid` | no entry that the TLB arrays of `main` start with has its valid bit set. They are on the stack and the flush at the start is partial, so nothing guarantees it; an entry left there would be believed |
| `NoAliases` | no two pages of the program differ only in the bits the L2 lookup ignores |
| `L2Kept` | the L2 TLB is flushed at the start only |
| `RoomToMove` | memory has room for one list node more than the TLB has lines |
| `SparesTables(m)` | with the memory `m` at the start, the program's walks and addresses lie inside memory, and none of its stores reaches an entry that a walk of its commands reads |
| `IsFiniteSet(Node)` | the heap is finite |
| `PrintedFiles` | each file is what `program_print` writes of some listing (`PrintedAs`), of commands it writes in full (`SaidInFull`) |

| Theorem | Under | States |
|---|---|---|
| `CleanAlways` | `ZeroHeap`, `InsideMemory` | the inductive invariant `CleanInv` |
| `HitsAreComplete`, `LinesCachedOnce` | the same | `L1ValidFirst`, `L1TagsUnique` |
| `WritesThrough`, `WordsReadBack`, `RepeatedReads` | the same | `WriteThrough`, `ReadBack`, `ReadsRepeat`: what a call leaves is what the next one finds |
| `EvictionsAreSparse` | the same | `EvictsOneFromFull` |
| `CacheTypeOK` | none: any heap, any accesses | `TypeOK` |
| `WritesLand` | none: any heap | `WriteLands`: the first word of a line is in memory at its address. Of later words it is false |
| `StraysComeFromL2` | `InsideMemory`, any heap | `StrayNeedsL2` |
| `LinesHeld` | careful programs, `ZeroHeap`, `InsideMemory`, `CodeApart` | `HoldsItsLine`: a valid L1 line is the memory of its line |
| `CachesAreTransparent` | the same | `CarefulSpec` implements `FlatMemory` |
| `MachineUsesCache` | careful programs | a behaviour of `CarefulMachine` is one of `CarefulSpec` |
| `MachineLinesHeld`, `MachineTransparent`, `TranslationsAreStable` | the same as `LinesHeld` | `HoldsItsLine`, `ImplementsFlatMemory`, `TranslationsStable` of the simulator |
| `TablesLeftAlone` | the same, and `SparesTables(m)` | every translation stays what it was in `m`, and no walk or address leaves memory |
| `TlbTypeOK` | none | `TypeOK`, whatever was on the stack |
| `SearchesFill` | none | `SearchFills`: after a search the L1 TLB has the page |
| `TlbsAreTransparent` | `StackInvalid`, `NoAliases` | `TlbHrchy` implements `Mmu` |
| `SearchTranslates` | `StackInvalid` | `AloneTranslates`: what is answered for a page without an alias is its translation, whatever aliases the others have |
| `L1InsideL2` | `StackInvalid`, `L2Kept` | `AloneIncluded`: what an L1 TLB has of a page without an alias, L2 has |
| `L2Includes` | the same and `NoAliases` | `Inclusion`: both L1 TLBs are included in L2 |
| `SimpleTlbTypeOK`, `SimpleTlbIsTransparent` | none | `TypeOK`; `TlbSimple` implements `Mmu` |
| `ListKeepsLines` | `RoomToMove` | each line is in the list exactly once |
| `FreeLinesFirst`, `PagesCachedOnce` | `RoomToMove` | free lines before valid ones; no page in two lines |
| `EvictionIsLru` | `RoomToMove` | `TlbSimple` implements `Lru` |
| `ListStaysLinked`, `ListTypeOK`, `ListLeaksNothing` | none, the heap may even be infinite | `Linked`; `TypeOK`; `NoLeak` |
| `ListIsSequence` | `IsFiniteSet(Node)` | `LinkedList` implements `ListSeq` |
| `AddressRoundTrip` | none | `InitVirtAddr64(Uint64(va)) = va` |
| `ListingSound` | none | the inductive invariant `ReaderInv` |
| `ListingHasRoom`, `StraysAfterFailure`, `NoCommandLost` | none | `Capacity`, `StraysThroughNull`, `CommandsKept` |
| `ListingsReadBack` | `PrintedFiles` | `ReadsWhatIsPrinted`: what is printed is read back, for listings of any length, cut anywhere, also among the digits of a number |
| `ReadingMovesOn` | none | `ReadingAdvances`: in any file each turn of `program_read` lowers a bound on its turns, ends it, or changes nothing |
| `StartupTypes` | none | `TypeOK` of loader, reader and program |
| `LoadingStaysInside` | none | `ContainedStaysInside` |
| `LoadedDataFound` | none | `LoadedPagesFound` |

**Caches.** None of the invariants is inductive alone: that L2 stays empty with a zeroed heap needs
the only writes to it (the victims of `cache_write`) to carry `v = 0`, that a call
stays in bounds needs L2 to be empty, since every mistaken stride is behind an L2
hit, and that tags are unique needs valid ways first, since otherwise a miss could
be taken on a line that is there. `Clean(State)` is their conjunction with the
types. The argument has three layers: lemmas about one set (`CacheSetProofs`: where
a victim is, what ageing keeps, a miss means absent, filling and touching keep a
set sound), one lemma for each way through a call, from a clean state to a clean
state, and one step for each action. What is proved with it is L1; that L2 is empty and the arrays
are kept are means to it and no theorems, since they say nothing of other heaps.

For transparency `HeldL1` is added: a valid L1 line is the memory of its line, and is a line the program
uses on that side of the split L1. `CarefulSpec` fetches lines at their start only, so that
what is copied under a tag is what the tag names. The rest is arithmetic: an address is its tag, index and
offset, so two lines with the same tag and index are one, and different lines are
disjoint; a store of a whole line at its start changes no other cached line, and by `CodeApart` none on the other side. With it, a hit delivers what
memory holds, at any word of the line; then each step of `CarefulSpec` is shown to be a step of `FlatMemory` on `mem`
and `out`, or a stutter: `OrByte` is the byte written, as `MayWriteByte` has it, and only the first
byte of the line changes. The refinement mapping is the identity on these two
variables: the code is write-through.

Some results need less. Types, and that only a hit in L2 leaves an array, hold with
any `v` bits in the heap: their invariant is `TypeInv` alone, kept by every state that is
`Within` (no call has left an array yet), and each way through a call ends in states
that are `Typed`, which is the types with `Strays`. What one call promises the next
(`ReadBack`, `ReadsRepeat`, `WriteThrough`) is said of the state between them: `Answers(t, ac, a, word)`
means that a read of `a` in `t` hits exactly one way of L1 and finds `word` there. It holds
after each way through a read or a write because a line is put under the tag of its
address; it needs neither aligned accesses nor coherence, so a word can be read back
even where the finding `cache_fill` has the line wrong. `Evicts` compares the tags of two L1
arrays, set by set.

**Simulator.** Each command that is `Careful` in the state it finds makes a careful call, so that
a step of `CarefulMachine` is a step of `CarefulSpec` or leaves it alone (`MachineUsesCache`), and the
theorems on the caches carry over. `TranslationsAreStable` is a frame argument: a call changes
memory only at the bytes it stores (`ExecuteWrites`, which needs that cached lines are those of memory, since a whole line is
copied back), and two memories that agree on the four entries a walk reads give the same walk.
`TablesLeftAlone` closes the circle for programs that spare their tables: then the
entries never change, so translations never do, so walks and addresses stay inside memory as at the
start, and the stores stay away from the entries.

**TLBs.** `HoldsWalks` says a valid entry holds the walk of a page number in use that
belongs at its line with its tag, if that page has no alias. A page number is the only one with its tag and index
in L1; in L2, looked up at fewer bits than it is filled at, another may have them too, but then
the two are aliases. So what is found for a page without an alias was put there for it, and what
aliases do to each other's entries does not matter. Inclusion adds that an L2 entry is replaced only when
`invalidation` looks at the same page in the other L1 TLB: equal page numbers stay
equal in 32 bits, so the wrap can drop an entry too many but never keep one.

The fully associative TLB needs none of this for transparency: tag and page number are
the same, so an invariant that valid entries hold walks (`WalkInv`) is enough, and it
holds even for a list that lost lines, as its values remain lines. That
free lines go first is not inductive without the rest of `OrderInv`: the line
replaced is the first, so it must be in no other place (`EachLineOnce`), and a page
must not be cached anew while another line has it.

That it implements `Lru` adds one fact to `OrderInv`: for some n, exactly the first n lines
of the list are free (`FirstAreFree`). Then `Recent` is the tags of the lines behind them. A hit moves a
line that is not free to the back, which is `Hit` (`RemovedAndAppended`: removing a page and
appending it is `ToBack` of `ListSeq`); a miss takes the first line, which is free, and `Recent` grows, or
is not, and `Recent` loses its first page, the one used longest ago; a flush makes n the number of
all lines. `SearchFills` of the hierarchy needs types only: an L1 hit found the entry of its page, and
the other two ways to an answer write it.

**List.** `Sound` is the inductive invariant: types, `LinkedAt`, and `NoneLost`. That the
walk from the front meets every node is a fact about reachability, which would take
induction; it is put as a closure instead: any set that holds the front and
whatever follows a member is the set of all nodes. A call keeps it because such a
set of the new list becomes one of the old list when the node pushed, popped or
moved is taken out or put in. `NoneLost` is needed for `Linked` as well: two nodes
that only point to each other satisfy `LinkedAt`, and it is `NoneLost` that
excludes the case in `move_back`, where the two neighbours would be one node.

For the sequence this is not enough: nodes need numbers. `IsWalk(l, w, n)` says that `w` numbers
all n nodes, each once, such that the first is the front and the next of each is the one that
follows; `Shows(l, s)` that the values along some walk are `s`. For each call what it writes is
read off once (`BackLinked`, `FrontPopped`, `BackRelinked` and so on, which the proofs of `Sound` use too), a
walk of the new list is given, and its values are what `ListSeq` makes of the old ones. A walk
is a bijection, so its length is the number of allocated nodes: `malloc` fails exactly when
the sequence has no room. Last, the recursive function `Steps` of the refinement mapping is
shown to be the walk (`StepsAre`: by the least step at which they would differ), so `Values(This)` is
the sequence shown.

**Programs.** `Capacity` says nothing of a listing that is NULL, and after a failure a later `realloc` may
succeed: so it is not inductive without `Len(stored) <= allocated` and `allocated > 0` for such
listings too. `ListInv` adds these, and that a program not yet made holds nothing;
`ReaderInv` adds the types. What the code needs beyond that is `PointerSize <= InitialRoom` (8 and
10), the assumption `AllocationAssumption`: the two numbers are unrelated in the source.

That what is printed is read back (`ListingsReadBack`) would be an induction on files, done here by
following the reader through the text. `ReadInv` says where it is: on the track (`OnTrack`), so
that `currentChar` is the symbol the current wait is for or the space before it, `command` has the
fields of the line that have been passed, and `stored` is what is accepted of the lines before;
or past the end of a file cut short (`CutShort`), with a character that no wait is for, so that only a
space can be skipped or the file refused. `TakesFrom` is the pivot: a reader that takes a symbol is on the
track at exactly that symbol. `Ahead` tells what reading one more gives, `HexAhead` what `%x` does, and
each action has a lemma. A cut before an address leaves `%x` with nothing: there, and only there, a
command too many is added; and where the file ends among the digits of an address, with the digits there are. A listing that was lost stays lost while a file is read, since it is
believed to have room (`AddResult`): otherwise a later `realloc` would make one of blanks. The
invariant does not need the file to be whole, and holds of files with lines that are refused.
What is accepted of a listing is a recursive function (`Accepted`); `UpToExists` and
`UpToAgree` show by a least counterexample that there is one and only one. That the files of the runs are
`PrintedFiles` is the assumption `FilesPrinted` of `MCStartup`, which TLC evaluates.

`ReadingMovesOn` needs none of that, and holds of any file. Its invariant `Within` is that the reader is at
most one past the text, and `Onward` that no read goes back or unsets `feof`; `HexStarts` shows that
`%x` finds a symbol that is no space, or the end. A turn that takes the address starts the line over, which
raises what is awaited by 3, but has read the `0` after the `@`, which lowers the bound by 5: at the end of the file
`currentChar` stays `@` (`ReadsAnother`), so the line is refused instead of read for ever. `SkipSpace`
reads, or sets `feof`, or changes nothing.

**Loader.** `ContainedStaysInside` needs that every entry a walk can follow leads to a page
inside memory. `Followable` is the set of such numbers: those that are no page address, which stop
the walk, and those of pages inside. A memory of zeros has only followable entries, since
page 0 is inside, and copying a page of the description keeps them so, whether it is a
table, data, or one written over the other. So order does not matter, and a
walk that meets data as tables stays inside too.

`LoadedPagesFound` does depend on the order. `PlacedInv` says: the first page placed is the one of
the pgd, at 0; while translation pages are due only tables have been placed; and, if no two
pages overlap, each page placed shows its file, and a data page lies where the tables
now map its address, provided its walk uses listed tables. The last part is inductive
because all tables are listed before the first data page: a later page that overlaps none changes no
entry of a walk through listed tables. The property itself says nothing
of the time before loading ends, and so is not inductive.

**Addresses.** The round trip is a division with remainder taken five times; `DigitAbove` is one of
them.

Only model-checked are three properties of passing runs. `ReadingEnds` and `LoadEnds` are liveness
under fairness, which the prover does not treat (the bound `ReadingEnds` rests on is proved). `InBounds` is the
consequence of `StrayNeedsL2` for a heap that leaves L2 empty, and is not stated as a theorem for that reason.
The violations of section 3 are TLC's as well: a proof shows nothing of them. The other way round, the runs have no
instance with both aliased pages and others: of those `AloneTranslates` and `AloneIncluded` are proved only.

## 5. Not modelled

- file names of `MAX_FILE_NAME_SIZE` characters and more, a description without its three header lines,
  page addresses that are no multiple of an entry, errors of `fseek`, `fread` and `fclose`;
- characters within a number that are no digits: a numeral is one symbol, so a file with such a
  number is no file of the model;
- `init_virt_addr`, which the unit test `test-addr` alone calls, that unit test, and wrong
  arguments of the drivers;
- what an early return leaves open or allocated: nothing reads it again;
- a TLB whose list has lost a line (`RoomToMove`), except that its answers stay right;
- accesses within a line of the end of memory: `InsideMemory` is kept by the
  programs of all runs, since the first such access is out of bounds;
- self-modifying code: the instruction cache is never told of a write, and nothing
  promises that it is, so `CodeApart` is an assumption and no run lifts it;
- what careless programs see beyond the findings: which words they lose is not said exactly, only that a word is read
  back at its address and a read repeated is the same (`ReadBack`, `ReadsRepeat`);
- walks and addresses outside memory, which `execute_command` does not check: a command that takes one
  is no step of `CarefulMachine`;
- failures of `malloc` in the caches and of the one entry in a TLB; messages, printing, dumps of
  memory and of caches: `vmem_page_dump_with_options` and its helper only write to a stream.

## 6. Plan

All components with state are modelled, and all properties of passing runs but the three of
section 4 are proved. What is left: careful use is the weakest condition found for transparency, and not
shown to be the weakest there is. `WordsReadBack` shows that a word read back at its own address does not need
it; which words a careless program loses could be said exactly. `SparesTables` speaks of all commands a
program is made of; for programs that store into their tables, that their walks stay inside memory is left to
each program.
