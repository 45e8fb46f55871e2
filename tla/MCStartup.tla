------------------------------ MODULE MCStartup ------------------------------
(***************************************************************************)
(* Memories of 8 pages of 2 entries, and programs of up to 3 lines: the    *)
(* description files around a good one, and what program_print writes with *)
(* a space too many or cut short anywhere.                                 *)
(***************************************************************************)
EXTENDS Startup, FiniteSets

T(a, f) == [at |-> a, file |-> f, kind |-> "table"]
D(a, f) == [at |-> a, file |-> f, kind |-> "data"]
Blank == [at |-> 0, file |-> "one", kind |-> "blank"]

MCPageFiles ==
    [pgd |-> <<2, 0>>, pud |-> <<4, 0>>, pmd |-> <<6, 6>>, pte |-> <<8, 14>>,
     odd |-> <<12, 7>>, far |-> <<16, 10>>, one |-> <<1, 3>>, two |-> <<6, 5>>,
     short |-> <<1>>]

(* pgd, pud, pmd and pte in pages 0 to 3, and two data pages after them.   *)
GoodPages == <<T(2, "pud"), T(4, "pmd"), T(6, "pte"), D(0, "one"), D(2, "two")>>

(* Of these lines one may stand for any line of the good description.      *)
OtherLines ==
    {T(8, "pmd"), T(6, "odd"), T(6, "far"), T(15, "pte"), T(4, "none"), T(2, "short"),
     D(1, "two"), D(6, "one"), D(8, "two"), D(16, "one"), D(34, "one"), D(0, "short"),
     Blank}

Replaced == {[GoodPages EXCEPT ![i] = l] : i \in 1 .. 5, l \in OtherLines}
Swapped ==
    {[GoodPages EXCEPT ![i] = GoodPages[j], ![j] = GoodPages[i]] : i, j \in 1 .. 5}
CutPages == {SubSeq(GoodPages, 1, n) : n \in 0 .. 4} \cup {GoodPages \o <<Blank>>}

MCPages == Replaced \cup Swapped \cup CutPages

Describe(size, pgd, n, ps, nl) ==
    [size |-> size, pgd |-> pgd, count |-> n, pages |-> ps, newline |-> nl]

MCDescriptions ==
    {Describe(16, "pgd", n, ps, nl) : n \in {-1} \cup 0 .. 4, ps \in MCPages, nl \in BOOLEAN}
    \cup {Describe(size, pgd, 3, GoodPages, TRUE) :
             size \in {1, 4, 10, 16}, pgd \in {"pgd", "short", "none"}}

MCDumps == {[k \in 0 .. 3 |-> 2]}
-----------------------------------------------------------------------------
MCValue ==
    [n0 |-> 0, n1 |-> 1, n2 |-> 2, n3 |-> 3, n23 |-> 23, n32 |-> 32, n55 |-> 55]

C(order, type, size, data, n) ==
    [order |-> order, type |-> type, size |-> size, data |-> data,
     vaddr |-> InitVirtAddr64(n)]

(* 3 is more than a byte holds here.                                       *)
MCLines ==
    {C("READ", "INSTRUCTION", 0, 0, 0), C("READ", "DATA", 4, 0, 23),
     C("WRITE", "DATA", 1, 1, 23), C("WRITE", "DATA", 4, 2, 0), C("WRITE", "DATA", 4, 3, 23)}

Listings(n) == [1 .. n -> MCLines]
Whole(ls) == [lines |-> ls, text |-> Printed(ls), whole |-> TRUE, inside |-> FALSE]

(* A space too many after any space, the last one included.                *)
Spaced(f) ==
    {[f EXCEPT !.text = InsertAt(f.text, i, "space")] :
        i \in {j \in 1 .. Len(f.text) : f.text[j] = "space"}}

(* Bits above the pgd index in every address.                              *)
High(f) ==
    [f EXCEPT !.text = [i \in DOMAIN @ |->
        IF i > 3 /\ @[i] # "space" /\ f.text[i - 1] = "x" /\ f.text[i - 3] = "@"
        THEN Numeral(32 + Value[f.text[i]]) ELSE f.text[i]]]

(* The file ends after n symbols: the lines whose address is there remain. *)
Ends(ls) == [i \in DOMAIN ls |-> Len(Printed(SubSeq(ls, 1, i))) - 1]
CutAt(f, n) ==
    [lines |-> SubSeq(f.lines, 1, Cardinality({i \in DOMAIN f.lines : Ends(f.lines)[i] <= n})),
     text |-> SubSeq(f.text, 1, n), whole |-> FALSE, inside |-> FALSE]

(* It ends after the first of the two digits of a numeral.                 *)
CutInside(f) ==
    {[CutAt(f, n - 1) EXCEPT
        !.text = Append(@, Numeral(Value[f.text[n]] \div 16)), !.inside = TRUE] :
        n \in {m \in DOMAIN f.text : f.text[m] \in DOMAIN Value}}

MCListings == UNION {Listings(n) : n \in 0 .. 3}

FilesOf(ls) ==
    {Whole(ls)}
    \cup IF Len(ls) \in {1, 2}
         THEN Spaced(Whole(ls)) \cup {High(Whole(ls))}
              \cup {CutAt(Whole(ls), n) : n \in 1 .. Len(Printed(ls)) - 2}
              \cup CutInside(Whole(ls)) \cup CutInside(High(Whole(ls)))
         ELSE {}

MCFiles == UNION {FilesOf(ls) : ls \in MCListings}

(* The files are what the theorem on program_read assumes of its files.    *)
PlacesOf(ls, t) ==
    LET place[i \in 1 .. Len(t)] ==
            IF i = 1 THEN <<1, 1>>
            ELSE IF t[i] = "space" /\ t[i - 1] = "space" THEN place[i - 1]
            ELSE After(ls, place[i - 1])
    IN  place

ASSUME FilesPrinted ==
    \A ls \in MCListings :
        /\ \A i \in DOMAIN ls : SaidInFull(ls[i])
        /\ \A f \in FilesOf(ls) : PrintedAs(f, ls, PlacesOf(ls, f.text))

MCExtra == {C("READ", "DATA", 4, 0, 23), C("WRITE", "INSTRUCTION", 0, 0, 0)}

(* Any description with an empty program, any program after a dump.        *)
NoPgd == Describe(16, "none", 3, GoodPages, TRUE)
MCJobs == (MCDescriptions \X {Whole(<< >>)}) \cup ({NoPgd} \X MCFiles)
=============================================================================
