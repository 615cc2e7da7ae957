------------------------------ MODULE Console ------------------------------
(***************************************************************************)
(* kernel/vga.c and the output half of adapters/adapter_serial.c: what the *)
(* kernel prints appears on the text screen, which scrolls, and, while the *)
(* serial plugin is active, on COM1, byte by byte and waiting for the      *)
(* transmitter.                                                            *)
(*                                                                         *)
(* Left out: colours; vga_set_cursor, which nothing calls; the text of the *)
(* banner that serial_plugin_init sends before it installs the hook.       *)
(***************************************************************************)
EXTENDS Integers, SequencesExt

CONSTANTS Width, Height,  \* VGA_WIDTH, VGA_HEIGHT
          TabStop,        \* 8
          WordMod,        \* 2^32: an unsigned int is a number below it
          Nibbles,        \* the hexadecimal digits of an unsigned int, 8
          Char,           \* the characters
          Texts,          \* what callers print: sequences of characters
          Args,           \* the numbers they print
          Greeting,       \* what serial_plugin_init prints
          MaxChars        \* bound: characters printed since the last clear

ASSUME ScreenSize  == Width \in Nat \ {0} /\ Height \in Nat /\ Height > 1
ASSUME TabsDivide  == TabStop \in Nat \ {0}
ASSUME WordWidth   == WordMod \in Nat \ {0} /\ WordMod % 2 = 0 /\ Nibbles \in Nat
ASSUME PrintBound  == MaxChars \in Nat

Int32  == -(WordMod \div 2) .. (WordMod \div 2) - 1
Uint32 == 0 .. WordMod - 1

Rows == 0 .. Height - 1
Cols == 0 .. Width - 1
Control  == {"LF", "CR", "TAB", "BS"}
BlankRow == [c \in Cols |-> " "]

DigitChar == <<"0", "1", "2", "3", "4", "5", "6", "7", "8", "9", "A", "B", "C", "D", "E", "F">>

ASSUME Characters ==
    /\ Control \cup {" ", "-", "x"} \cup {DigitChar[k] : k \in DOMAIN DigitChar} \subseteq Char
    /\ \A s \in Texts \cup {Greeting} : s \in Seq(Char)

VARIABLES screen,            \* VGA_BUFFER, by rows
          vga_row, vga_col,
          cursor,            \* the position in the CRT controller
          hook,              \* g_serial_hook is serial_mirror_char
          ready,             \* the UART's transmitter is empty (LSR bit 5)
          put_pc, todo,      \* where vga_putchar stands, what is still to print
          text,              \* history: everything printed since the last clear
          from,              \* history: how much of it when the hook was set
          wire               \* history: what COM1 has sent of the rest

screenVars  == <<screen, vga_row, vga_col>>
serialVars  == <<hook, ready>>
consoleVars == <<screenVars, cursor, serialVars, put_pc, todo, text, from, wire>>

\* vga_init()
ConsoleInit ==
    /\ screen = [r \in Rows |-> BlankRow]
    /\ vga_row = 0 /\ vga_col = 0 /\ cursor = 0
    /\ hook = FALSE /\ ready = TRUE
    /\ put_pc = "idle" /\ todo = <<>>
    /\ text = <<>> /\ from = 0 /\ wire = <<>>

Idle == put_pc = "idle" /\ todo = <<>>

-----------------------------------------------------------------------------
\* vga_print_dec(): the digits from the last to the first, printed backwards.
Digits[u \in Nat] ==
    IF u < 10 THEN <<DigitChar[u + 1]>>
    ELSE Digits[u \div 10] \o <<DigitChar[(u % 10) + 1]>>

Dec(u) == Digits[u]

\* vga_print_hex(): all nibbles, the highest first, each shifted down.
Hex(u) ==
    LET shifted[k \in 0 .. Nibbles] == IF k = 0 THEN u ELSE shifted[k - 1] \div 16
    IN <<"0", "x">> \o [k \in 1 .. Nibbles |-> DigitChar[(shifted[Nibbles - k] % 16) + 1]]

\* vga_printf() of one conversion.  C leaves -v of the least int open; the
\* build negates in two's complement, where it is itself, which is right when
\* it is taken as unsigned.
Formatted(conv, v) ==
    CASE conv = "d" -> IF v < 0 THEN <<"-">> \o Dec((-v) % WordMod) ELSE Dec(v)
      [] conv = "u" -> Dec(v)
      [] conv = "x" -> Hex(v)

-----------------------------------------------------------------------------
\* vga_putchar() on the screen.

\* (col + 8) & ~7
NextTab(col) == ((col + TabStop) \div TabStop) * TabStop

\* A column past the end is the beginning of the next row.
Wrapped(col) == IF col >= Width THEN [row |-> vga_row + 1, col |-> 0]
                                ELSE [row |-> vga_row, col |-> col]

PositionAfter(c) ==
    CASE c = "LF"  -> [row |-> vga_row + 1, col |-> 0]
      [] c = "CR"  -> [row |-> vga_row, col |-> 0]
      [] c = "TAB" -> Wrapped(NextTab(vga_col))
      [] c = "BS"  -> [row |-> vga_row, col |-> IF vga_col > 0 THEN vga_col - 1 ELSE 0]
      [] OTHER     -> Wrapped(vga_col + 1)

Stored(c) ==
    CASE c \in {"LF", "CR", "TAB"} -> screen
      [] c = "BS" -> IF vga_col > 0 THEN [screen EXCEPT ![vga_row][vga_col - 1] = " "] ELSE screen
      [] OTHER -> [screen EXCEPT ![vga_row][vga_col] = c]

ScrolledUncleared(s) == [r \in Rows |-> IF r < Height - 1 THEN s[r + 1] ELSE s[r]]

\* vga_scroll()
Scrolled(s) == [r \in Rows |-> IF r < Height - 1 THEN s[r + 1] ELSE BlankRow]

\* ... which leaves the position in the last row.
RowAfterScroll(row) == IF row >= Height THEN Height - 1 ELSE row

\* serial_mirror_char(): a carriage return goes before a newline.
Mirrored(c) == IF c = "LF" THEN "cr" ELSE "byte"

\* The character on the screen; then the hook, if there is one.
Put ==
    /\ put_pc = "idle" /\ todo # <<>>
    /\ LET c == Head(todo)
           p == PositionAfter(c)
       IN /\ screen' = IF p.row >= Height THEN Scrolled(Stored(c)) ELSE Stored(c)
          /\ vga_row' = RowAfterScroll(p.row)
          /\ vga_col' = p.col
          /\ put_pc' = IF hook THEN Mirrored(c) ELSE "cursor"
          /\ text' = Append(text, c)
    /\ UNCHANGED <<cursor, serialVars, todo, from, wire>>

SendBlindly == TRUE

SendWhileBusy == ~ready

\* serial_write() spins until the transmitter is empty.
MaySend == ready

\* External: a byte written to a transmitter that is not empty replaces the one
\* waiting there.
Send(b) == /\ MaySend
           /\ ready' = FALSE
           /\ wire' = IF ready THEN Append(wire, b) ELSE Append(Front(wire), b)
           /\ UNCHANGED <<screenVars, cursor, hook, todo, text, from>>

SendCr   == put_pc = "cr" /\ Send("CR") /\ put_pc' = "byte"
SendByte == put_pc = "byte" /\ Send(Head(todo)) /\ put_pc' = "cursor"

\* serial_tx_ready() says no: the loop goes round.
Spin == /\ put_pc \in {"cr", "byte"} /\ ~MaySend
        /\ UNCHANGED consoleVars

\* External: the UART has sent the byte.
Transmitted == /\ ~ready
               /\ ready' = TRUE
               /\ UNCHANGED <<screenVars, cursor, hook, put_pc, todo, text, from, wire>>

\* vga_update_cursor(), and the end of vga_putchar().
CursorUpdate ==
    /\ put_pc = "cursor"
    /\ put_pc' = "idle" /\ todo' = Tail(todo)
    /\ cursor' = vga_row * Width + vga_col
    /\ UNCHANGED <<screenVars, serialVars, text, from, wire>>

-----------------------------------------------------------------------------
\* The callers.

Room(s) == Len(text) + Len(s) <= MaxChars

\* vga_print(), and vga_println(), vga_puts() and vga_printf() of a text.
VgaPrint(s) ==
    /\ Idle /\ Room(s)
    /\ todo' = s
    /\ UNCHANGED <<screenVars, cursor, serialVars, put_pc, text, from, wire>>

VgaPrintf(conv, v) ==
    /\ v \in (IF conv = "d" THEN Int32 ELSE Uint32)
    /\ Idle /\ Room(Formatted(conv, v))
    /\ todo' = Formatted(conv, v)
    /\ UNCHANGED <<screenVars, cursor, serialVars, put_pc, text, from, wire>>

\* vga_clear(): the histories begin anew.
Clear ==
    /\ Idle /\ text # <<>>
    /\ screen' = [r \in Rows |-> BlankRow]
    /\ vga_row' = 0 /\ vga_col' = 0 /\ cursor' = 0
    /\ text' = <<>> /\ from' = 0 /\ wire' = <<>>
    /\ UNCHANGED <<serialVars, put_pc, todo>>

\* serial_plugin_init(): the last byte of the banner may still be under way.
SerialInit ==
    /\ Idle /\ ~hook /\ Room(Greeting)
    /\ hook' = TRUE
    /\ from' = Len(text) /\ wire' = <<>>
    /\ todo' = Greeting
    /\ ready' \in BOOLEAN
    /\ UNCHANGED <<screenVars, cursor, put_pc, text>>

\* serial_plugin_shutdown()
SerialShutdown ==
    /\ Idle /\ hook
    /\ hook' = FALSE
    /\ from' = 0 /\ wire' = <<>>
    /\ UNCHANGED <<screenVars, cursor, ready, put_pc, todo, text>>

PutChar == Put \/ SendCr \/ SendByte \/ CursorUpdate

ConsoleNext ==
    \/ \E s \in Texts : VgaPrint(s)
    \/ \E conv \in {"d", "u", "x"}, v \in Args : VgaPrintf(conv, v)
    \/ Clear \/ SerialInit \/ SerialShutdown
    \/ PutChar \/ Spin \/ Transmitted

ConsoleSpec == ConsoleInit /\ [][ConsoleNext]_consoleVars

\* The CPU goes on, and the UART sends what it is given: without hardware flow
\* control it depends on nobody.
ConsoleFairness == WF_consoleVars(PutChar) /\ WF_consoleVars(Transmitted)

ConsoleFairSpec == ConsoleSpec /\ ConsoleFairness

-----------------------------------------------------------------------------
\* Every variable stays in its range: no character is ever stored outside the
\* screen.
ConsoleTypeOK ==
    /\ DOMAIN screen = Rows /\ \A r \in Rows : DOMAIN screen[r] = Cols
    /\ vga_row \in Rows /\ vga_col \in Cols
    /\ cursor \in 0 .. Width * Height - 1
    /\ hook \in BOOLEAN /\ ready \in BOOLEAN
    /\ put_pc \in {"idle", "cr", "byte", "cursor"}
    /\ Len(text) <= MaxChars /\ from \in 0 .. Len(text)

\* The same text on a page without an end.
NewRow(page) == [rows |-> Append(page.rows, BlankRow), col |-> 0]

Typed(page, c) ==
    LET k == Len(page.rows)
        tab == CHOOSE t \in page.col + 1 .. page.col + TabStop : t % TabStop = 0
        inked(col, g) == [page.rows EXCEPT ![k][col] = g]
    IN CASE c = "LF" -> NewRow(page)
         [] c = "CR" -> [page EXCEPT !.col = 0]
         [] c = "TAB" -> IF tab < Width THEN [page EXCEPT !.col = tab] ELSE NewRow(page)
         [] c = "BS" -> IF page.col = 0 THEN page
                        ELSE [rows |-> inked(page.col - 1, " "), col |-> page.col - 1]
         [] OTHER -> LET inkedPage == [rows |-> inked(page.col, c), col |-> page.col + 1]
                     IN IF inkedPage.col < Width THEN inkedPage ELSE NewRow(inkedPage)

PageOf(t) ==
    LET page[n \in 0 .. Len(t)] ==
            IF n = 0 THEN [rows |-> <<BlankRow>>, col |-> 0] ELSE Typed(page[n - 1], t[n])
    IN page[Len(t)]

\* How many rows of the page are above the screen.
Above(rows) == IF Len(rows) > Height THEN Len(rows) - Height ELSE 0

\* Whatever is printed, the screen shows the last rows of the text as they
\* stand on a page without an end, and blank rows below: scrolling loses,
\* repeats and leaves behind nothing.
ScreenShowsEnd ==
    LET rows == PageOf(text).rows IN
    \A r \in Rows : screen[r] = IF Above(rows) + r < Len(rows) THEN rows[Above(rows) + r + 1]
                                ELSE BlankRow

\* When a call is over, the blinking cursor stands where the next character
\* will go.
CursorFollows == Idle => cursor = vga_row * Width + vga_col

\* The screen and its cursor show what was printed, at every character.
ScreenInv == ConsoleTypeOK /\ ScreenShowsEnd /\ CursorFollows

OnTerminal(c) == IF c = "LF" THEN <<"CR", "LF">> ELSE <<c>>

Carried(t) ==
    LET bytes[n \in 0 .. Len(t)] ==
            IF n = 0 THEN <<>> ELSE bytes[n - 1] \o OnTerminal(t[n])
    IN bytes[Len(t)]

\* While the serial plugin is active, COM1 carries all that is printed, once
\* and in order, newlines as the two characters a terminal needs; no byte is
\* overwritten in the transmitter.
SerialCarriesText == (hook /\ Idle) => wire = Carried(SubSeq(text, from + 1, Len(text)))

\* The number that a sequence of digits denotes.
DigitValue(d) == (CHOOSE k \in 1 .. 16 : DigitChar[k] = d) - 1
Denotes(ds, base) == FoldLeft(LAMBDA acc, d : base * acc + DigitValue(d), 0, ds)

\* Every call returns: the wait for the transmitter ends.
PrintReturns == ~Idle ~> Idle
=============================================================================
