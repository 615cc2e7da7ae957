----------------------------- MODULE MCAdapters -----------------------------
(***************************************************************************)
(* Loader, and with it Plugins, and Console for TLC.  They share no        *)
(* variable, so each of them moves while the other is as it was at boot:   *)
(* together they could do nothing else.                                    *)
(*                                                                         *)
(* The plugins are a module, the serial adapter and one that has a tick    *)
(* and no other hook.  The console has a screen of two rows of three       *)
(* columns and every sequence of characters up to MaxChars.                *)
(***************************************************************************)
EXTENDS Loader, Console

MCDescs == {DescOf("hello"), DescOf("serial-com1"), [name |-> "bare", hooks |-> {"tick"}]}

MCTexts == {<<c>> : c \in {"a", "b"} \cup Control}
MCChar == {"a", "b", " ", "-", "x"} \cup Control \cup {DigitChar[k] : k \in DOMAIN DigitChar}
MCArgs == {0, 10, -128, 255}
MCGreeting == <<"a", "LF">>

\* What the conversions of vga_printf print denotes their argument, for every
\* argument: in decimal, the least int included, and in hexadecimal with all
\* its digits.
ASSUME NumbersAreRight ==
    /\ \A v \in Int32 : LET o == Formatted("d", v) IN
          v = IF Head(o) = "-" THEN -Denotes(Tail(o), 10) ELSE Denotes(o, 10)
    /\ \A v \in Uint32 : LET o == Formatted("x", v) IN
          /\ v = Denotes(Formatted("u", v), 10)
          /\ v = Denotes(SubSeq(o, 3, Len(o)), 16) /\ Len(o) = 2 + Nibbles

-----------------------------------------------------------------------------
AdaptersInit == LoaderInit /\ ConsoleInit

AdaptersNext == \/ ConsoleInit /\ LoaderNext /\ UNCHANGED consoleVars
                \/ LoaderInit /\ ConsoleNext /\ UNCHANGED allVars

\* No step of ConsoleFairness is pending in ConsoleInit, so it leaves Loader be.
AdaptersSpec == /\ AdaptersInit /\ [][AdaptersNext]_<<allVars, consoleVars>>
                /\ ConsoleFairness
=============================================================================
