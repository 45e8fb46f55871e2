--------------------------- MODULE ProgramReader ---------------------------
(***************************************************************************)
(* program_read of commands.c: a program from a text file, character by    *)
(* character.  A file is a sequence of symbols: the letters and signs the  *)
(* code compares with, "space" for any character of isspace, and numerals, *)
(* a symbol for the digits that stand together.  A file that ends among    *)
(* the digits of a number ends with the numeral of those it still has.     *)
(* One action is one turn of a loop over spaces, or what the code does     *)
(* from there to the next loop.                                            *)
(*                                                                         *)
(* A read error (ferror) ends the file where it happens: the code treats   *)
(* both alike.  So a file cut short stands for either.                     *)
(***************************************************************************)
EXTENDS Program, Addresses, SequencesExt

CONSTANTS
    Value,      \* the number each numeral stands for
    Files,      \* the files: what they say, their symbols, where they end
    Digits,     \* the digits program_print writes of an address: 16
    Extra,      \* commands a client adds to a program it has read
    MaxLines    \* bound: how long clients make a program

Command ==
    [order : {"READ", "WRITE"}, type : {"INSTRUCTION", "DATA"},
     size : {0, 1, WordSize}, data : Nat, vaddr : OffsetVirtAddr]

Signs == {"R", "W", "I", "D", "B", "0", "x", "@", "space"}
Symbols == Signs \cup DOMAIN Value

ASSUME FileAssumption ==
    /\ Value \in [DOMAIN Value -> Nat]
    /\ Signs \cap DOMAIN Value = {}
    /\ Digits \in Nat
    /\ Extra \subseteq Command
    /\ \A f \in Files : f.text \in Seq(Symbols)

VARIABLES
    file,       \* the file being read
    in,         \* position of the next symbol, currentChar, feof
    command,    \* currentCommand
    pc          \* what is awaited, or what program_read returned

readVars == <<file, in, command, pc>>
readerVars == <<programVars, readVars>>

Awaiting == {"order", "type", "data", "address"}
Returned == {"ERR_NONE", "ERR_BAD_PARAMETER", "ERR_IO"}
-----------------------------------------------------------------------------
(* fscanf.                                                                 *)

(* Mutant: a read at the end of the file is not noticed.                   *)
ScanUnnoticed(s) ==
    IF s.pos > Len(file.text) THEN s
    ELSE [pos |-> s.pos + 1, char |-> file.text[s.pos], eof |-> s.eof]

(* "%c": at the end of the file the character is left as it was.           *)
Scan(s) ==
    IF s.pos > Len(file.text) THEN [s EXCEPT !.eof = TRUE]
    ELSE [pos |-> s.pos + 1, char |-> file.text[s.pos], eof |-> s.eof]

(* "%x" skips spaces, takes the digits there are, be they all of a number  *)
(* or the first of it before the file ends, looks one character past them, *)
(* and leaves the variable, a 0, alone if there are none.                  *)
HexStart(s) ==
    CHOOSE p \in s.pos .. Len(file.text) + 1 :
        /\ p <= Len(file.text) => file.text[p] # "space"
        /\ \A q \in s.pos .. p - 1 : file.text[q] = "space"
HexFound(s) == HexStart(s) <= Len(file.text) /\ file.text[HexStart(s)] \in DOMAIN Value
HexValue(s) == IF HexFound(s) THEN Value[file.text[HexStart(s)]] ELSE 0
AfterHex(s) ==
    LET p == IF HexFound(s) THEN HexStart(s) + 1 ELSE HexStart(s)
    IN  [s EXCEPT !.pos = p, !.eof = @ \/ p > Len(file.text)]
-----------------------------------------------------------------------------
(* program_print: the format of the files.                                 *)

Numeral(n) == CHOOSE s \in DOMAIN Value : Value[s] = n

PrintedLine(c) ==
    LET order == IF c.order = "READ" THEN "R" ELSE "W"
        size == IF c.size = 1 THEN "B" ELSE "W"
        vaddr == Numeral(Uint64(c.vaddr))
    IN  IF c.type = "INSTRUCTION"
        THEN <<order, "space", "I", "space", "@", "0", "x", vaddr, "space">>
        ELSE IF c.order = "READ"
        THEN <<order, "space", "D", size, "space", "@", "0", "x", vaddr, "space">>
        ELSE <<order, "space", "D", size, "space", "0", "x", Numeral(c.data), "space",
               "@", "0", "x", vaddr, "space">>

Printed(listing) == FlattenSeq([i \in DOMAIN listing |-> PrintedLine(listing[i])])
-----------------------------------------------------------------------------
(* program_read.                                                           *)

(* The loop over the lines: while(!feof(open) && !ferror(open)).           *)
NextLine(s) == IF s.eof THEN "ERR_NONE" ELSE "order"

OpenFails ==
    /\ pc = "start"
    /\ \/ InitProgram(FALSE) /\ pc' = "ERR_BAD_PARAMETER"
       \/ InitProgram(TRUE) /\ pc' = "ERR_IO"
    /\ UNCHANGED <<file, in, command>>

OpenProgram ==
    /\ pc = "start"
    /\ InitProgram(TRUE)
    /\ in' = Scan(in)
    /\ pc' = NextLine(in')
    /\ UNCHANGED <<file, command>>

(* while(isspace(currentChar)): at the end of the file nothing changes any *)
(* more, and the loop turns for ever.                                      *)
SkipSpace ==
    /\ pc \in Awaiting /\ ~stray
    /\ in.char = "space"
    /\ in' = Scan(in)
    /\ UNCHANGED <<programVars, file, command, pc>>

At(place) == pc = place /\ in.char # "space" /\ ~stray

TakeOrder ==
    /\ At("order")
    /\ in.char \in {"R", "W"}
    /\ command' = [command EXCEPT !.order = IF in.char = "W" THEN "WRITE" ELSE "READ"]
    /\ in' = Scan(in)
    /\ pc' = "type"
    /\ UNCHANGED <<programVars, file>>

(* After the type a write awaits its data, a read its address.             *)
Operand == IF command.order = "WRITE" THEN "data" ELSE "address"

(* Mutant: the size the line before had stays.                             *)
TakeInstructionSize ==
    /\ At("type")
    /\ in.char = "I"
    /\ command' = [command EXCEPT !.type = "INSTRUCTION", !.data = 0]
    /\ in' = Scan(in)
    /\ pc' = Operand
    /\ UNCHANGED <<programVars, file>>

TakeInstruction ==
    /\ At("type")
    /\ in.char = "I"
    /\ command' = [command EXCEPT !.type = "INSTRUCTION", !.size = 0, !.data = 0]
    /\ in' = Scan(in)
    /\ pc' = Operand
    /\ UNCHANGED <<programVars, file>>

TakeData ==
    LET s == Scan(in)
    IN  /\ At("type")
        /\ in.char = "D"
        /\ s.char \in {"W", "B"}
        /\ command' = [command EXCEPT !.type = "DATA", !.data = 0,
                                      !.size = IF s.char = "B" THEN 1 ELSE WordSize]
        /\ in' = Scan(s)
        /\ pc' = Operand
        /\ UNCHANGED <<programVars, file>>

TakeWritten ==
    LET s == Scan(in)
    IN  /\ At("data")
        /\ in.char = "0" /\ s.char = "x"
        /\ command' = [command EXCEPT !.data = HexValue(s)]
        /\ in' = Scan(AfterHex(s))
        /\ pc' = "address"
        /\ UNCHANGED <<programVars, file>>

(* The address ends the line: what program_add_command answers is ignored, *)
(* and the two characters read next are a separator and the first of a line*)
TakeAddress ==
    LET s == Scan(Scan(in))
        c == [command EXCEPT !.vaddr = InitVirtAddr64(HexValue(s))]
    IN  /\ At("address")
        /\ in.char = "@" /\ Scan(in).char = "0" /\ s.char = "x"
        /\ command' = c
        /\ AddCommand(c)
        /\ in' = Scan(Scan(AfterHex(s)))
        /\ pc' = NextLine(in')
        /\ UNCHANGED file

(* Mutant: what is no type starts the line anew instead of being refused.  *)
MalformedAnew ==
    /\ At("type") /\ in.char \notin {"I", "D"}
    /\ pc' = "order"
    /\ UNCHANGED <<programVars, file, in, command>>

Malformed ==
    LET next == Scan(in)
    IN  /\ \/ At("order") /\ in.char \notin {"R", "W"}
           \/ At("type") /\ in.char \notin {"I", "D"}
           \/ At("type") /\ in.char = "D" /\ next.char \notin {"W", "B"}
           \/ At("data") /\ (in.char # "0" \/ next.char # "x")
           \/ At("address") /\ (in.char # "@" \/ next.char # "0" \/ Scan(next).char # "x")
        /\ pc' = "ERR_BAD_PARAMETER"
        /\ UNCHANGED <<programVars, file, in, command>>

ReaderStep ==
    \/ OpenFails \/ OpenProgram \/ SkipSpace
    \/ TakeOrder \/ TakeInstruction \/ TakeData \/ TakeWritten \/ TakeAddress
    \/ Malformed

(* What else commands.h offers for a program that has been read.  The      *)
(* drivers only free it.                                                   *)
ClientStep ==
    /\ pc \in {"ERR_NONE", "edited"}
    /\ \/ \E c \in Extra : Len(stored) < MaxLines /\ AddCommand(c) /\ pc' = "edited"
       \/ Shrink /\ pc' = "edited"
       \/ FreeProgram /\ pc' = "freed"
    /\ UNCHANGED <<file, in, command>>

BlankCommand ==
    [order |-> "READ", type |-> "DATA", size |-> 0, data |-> 0, vaddr |-> InitVirtAddr64(0)]

ReaderInit ==
    /\ in = [pos |-> 1, char |-> "x", eof |-> FALSE]
    /\ command = BlankCommand
    /\ pc = "start"
    /\ stored = << >> /\ allocated = 0 /\ room = 0 /\ stray = FALSE
-----------------------------------------------------------------------------
(* A place <<k, j>> is the j-th symbol of the line of the k-th command.    *)
LineLen(c) == Len(PrintedLine(c))

After(listing, p) ==
    IF p[2] < LineLen(listing[p[1]]) THEN <<p[1], p[2] + 1>> ELSE <<p[1] + 1, 1>>

(* Symbol s stands at place p, where an address may have bits more.        *)
Stands(listing, p, s) ==
    LET c == listing[p[1]]
    IN  \/ s = PrintedLine(c)[p[2]]
        \/ /\ p[2] = LineLen(c) - 1
           /\ s \in DOMAIN Value /\ InitVirtAddr64(Value[s]) = c.vaddr

(* The numerals of a line: its address, and what it writes.                *)
NumeralAt(c, j) ==
    j = LineLen(c) - 1 \/ (c.order = "WRITE" /\ j = LineLen(c) - 6)

(* Symbol s is what is left of the numeral at place p without the last of  *)
(* its digits.                                                             *)
Truncated(listing, p, s) ==
    /\ NumeralAt(listing[p[1]], p[2])
    /\ s \in DOMAIN Value
    /\ \E t \in DOMAIN Value, k \in 1 .. Digits - 1 :
          Stands(listing, p, t) /\ Value[s] = Value[t] \div (16 ^ k)

(* The lines whose addresses are there when the symbol at place p is.      *)
LinesUpTo(listing, p) ==
    IF p[2] >= LineLen(listing[p[1]]) - 1 THEN p[1] ELSE p[1] - 1

(* The text of file f is what program_print writes of a listing, each      *)
(* symbol standing at its place, with more spaces where there is one.  It  *)
(* may end anywhere, also among the digits of a number (f.inside); f.lines *)
(* are the lines whose addresses it has in full.                           *)
PrintedAs(f, listing, place) ==
    LET n == Len(f.text)
        there == IF n = 0 THEN 0 ELSE IF f.inside THEN place[n][1] - 1
                 ELSE LinesUpTo(listing, place[n])
    IN  /\ place \in [1 .. n -> (1 .. Len(listing)) \X Nat]
        /\ \A i \in 1 .. n : place[i][2] \in 1 .. LineLen(listing[place[i][1]])
        /\ \A i \in 1 .. n :
              IF f.inside /\ i = n THEN Truncated(listing, place[i], f.text[i])
              ELSE Stands(listing, place[i], f.text[i])
        /\ \A i \in 1 .. n :
              \/ i = 1 /\ place[i] = <<1, 1>>
              \/ i > 1 /\ place[i] = After(listing, place[i - 1])
              \/ /\ i > 1 /\ place[i] = place[i - 1]
                 /\ f.text[i - 1] = "space" /\ f.text[i] = "space"
        /\ f.lines = SubSeq(listing, 1, there)
        /\ f.inside => ~f.whole
        /\ f.whole => IF n = 0 THEN listing = << >>
                      ELSE After(listing, place[n]) = <<Len(listing) + 1, 1>>

(* A command all of which program_print writes, in numerals there are.     *)
SaidInFull(c) ==
    /\ c.type = "INSTRUCTION" => c.order = "READ" /\ c.size = 0
    /\ c.type = "DATA" => c.size \in {1, WordSize}
    /\ c.order = "READ" => c.data = 0
    /\ \A n \in {c.data, Uint64(c.vaddr)} : \E s \in DOMAIN Value : Value[s] = n

(* The commands of a listing that program_add_command does not refuse.     *)
(* SelectSeq would say it, but the provers know nothing of it.             *)
Accepted(listing) ==
    LET upTo[n \in 0 .. Len(listing)] ==
            IF n = 0 THEN << >>
            ELSE IF Accepts(listing[n]) THEN Append(upTo[n - 1], listing[n])
            ELSE upTo[n - 1]
    IN  upTo[Len(listing)]

(* The number that stands at the end of the file, 0 if none does.          *)
LastNumber == IF Last(file.text) \in DOMAIN Value THEN Value[Last(file.text)] ELSE 0

(* program_read gives back what program_print wrote, less the commands     *)
(* program_add_command refuses, whatever spaces are put between.  A file   *)
(* that ends early is refused, or gives its whole lines; only one that     *)
(* ends right before or among the digits of an address gives one command   *)
(* more, with the digits there are for its address, and no error.          *)
ReadsWhatIsPrinted ==
    LET said == Accepted(file.lines)
    IN  room # 0 =>
          /\ pc = "ERR_NONE" =>
                \/ stored = said
                \/ /\ Last(file.text) = "x" \/ file.inside
                   /\ Front(stored) = said
                   /\ Last(stored).vaddr = InitVirtAddr64(LastNumber)
          /\ pc = "ERR_BAD_PARAMETER" => ~file.whole

(* commands.h says of program_read: "Read a program (list of commands) from*)
(* a file", and tests/05.basic.sh expects the words back.                  *)
EveryCommandStored ==
    pc = "ERR_NONE" /\ room # 0 /\ file.whole => Len(stored) = Len(file.lines)

(* A step of program_read or of a client only adds to the commands stored, *)
(* unless the listing was lost or is freed.                                *)
CommandsKept ==
    [][room # 0 /\ room' # 0 => IsPrefix(stored, stored')]_programVars

(* A bound on the turns that program_read still takes, if it ends.         *)
Waits == CASE pc = "order" -> 4 [] pc = "type" -> 3 [] pc = "data" -> 2 [] OTHER -> 1
TurnsLeft == 5 * (Len(file.text) + 1 - in.pos) + Waits + (IF in.eof THEN 0 ELSE 1)

(* Every turn that changes anything brings program_read nearer to its end, *)
(* also in files that are no programs, and while it meets the end of the   *)
(* file in one read after the other: it never takes more turns than five   *)
(* for a symbol, and hangs nowhere but in a loop over spaces that has read *)
(* the last one.                                                           *)
ReadingAdvances ==
    [][(pc \in Awaiting) => pc' \in Returned \/ TurnsLeft' < TurnsLeft]_readerVars

(* A text after which no loop waits for a character that is not a space:   *)
(* it is not left at a space, or the space ends a line and is the last one.*)
EndsCleanly(t) ==
    \/ t = << >>
    \/ Last(t) # "space"
    \/ Len(t) > 4 /\ t[Len(t) - 1] # "space" /\ t[Len(t) - 4] = "@"

(* program_read returns, with a program or an error, unless the file ends  *)
(* in spaces that no line ends with: there a loop over spaces never ends.  *)
ReadingEnds ==
    (pc \in Awaiting /\ EndsCleanly(file.text)) ~> (pc \in Returned \/ stray)
=============================================================================
