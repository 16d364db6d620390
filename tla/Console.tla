-------------------------------- MODULE Console --------------------------------
(***************************************************************************)
(* The console (include/schismKernelIO.c): what the kernel and a program   *)
(* print, and the line a user types.                                       *)
(*                                                                         *)
(* The screen is the VGA text buffer with a cursor.  kernel_printf,        *)
(* terminal_writestring and the system call behind putchar print;  getline *)
(* shows each key as it stores it.  Everything is done character by        *)
(* character by three functions, terminal_putchar,                         *)
(* terminal_handle_newline and terminal_handle_backspace.                  *)
(*                                                                         *)
(* One action is one call that prints, and in getline one key.  What       *)
(* kernel_getch makes of the keyboard's bytes is module Keyboard.  Colours *)
(* are left out: one is set, at the start.  Characters are their codes.    *)
(***************************************************************************)
EXTENDS Integers, Sequences, SequencesExt

CONSTANTS
  VGA_WIDTH, VGA_HEIGHT,   \* 80 and 25
  TAB_WIDTH,               \* 5
  Prints,                  \* what is printed with kernel_printf: format, arguments
  Strings,                 \* what is printed with terminal_writestring
  Numbers,                 \* the arguments printed alone, with "%d"
  Keys,                    \* what kernel_getch may return, but for newline
  MaxCalls, MaxKeys        \* the most calls that print, and keys in a line (bounds)

Newline == 10
Tab == 9
SPACE == 32
Percent == 37
Minus == 45
ZERO_CHAR == 48
BACKSPACE_BYTE == 14
INT_MAX == 2147483647

\* A number and its negation fit into an int, and a line of input on the screen.
ASSUME ConsoleAssumption ==
  /\ VGA_WIDTH \in Nat \ {0} /\ VGA_HEIGHT \in Nat \ {0} /\ TAB_WIDTH \in Nat
  /\ Strings \subseteq Seq(Nat) /\ Keys \subseteq Nat \ {Newline}
  /\ Numbers \subseteq -INT_MAX .. INT_MAX
  /\ {MaxCalls, MaxKeys} \subseteq Nat /\ MaxKeys < VGA_WIDTH * VGA_HEIGHT

Cells == 0 .. (VGA_WIDTH * VGA_HEIGHT - 1)

VARIABLES
  term,     \* terminal_buffer, terminal_column and terminal_row
  typing,   \* a call of getline is under way
  line,     \* the characters getline has stored
  calls,    \* how many calls have printed
  paper,    \* history: every row ever shown, had the screen been a roll of paper
  top,      \* history: how many rows of it have gone past the top of the screen
  cornered, \* history: a character was written in the last cell
  start,    \* history: the cell getline was called at
  keys,     \* history: the keys typed since
  astray    \* history: a backspace found no character of the line in front of it

consoleVars == <<term, typing, line, calls, paper, top, cornered, start, keys, astray>>

-------------------------------------------------------------------------------
\* The same operators with a plausible slip: rows copied down over each other, a
\* count that is not taken back, digits left in the order they are computed.
SlipScroll(buf) ==
  LET lastRow == VGA_WIDTH * (VGA_HEIGHT - 1)
  IN [i \in Cells |-> IF i < lastRow THEN buf[lastRow + (i % VGA_WIDTH)] ELSE SPACE]
SlipLineWith(c) == IF c = 0 THEN line ELSE Append(line, c)

-------------------------------------------------------------------------------
\* The terminal, a record of buffer and cursor.
Cursor(t) == t.row * VGA_WIDTH + t.col

Putentryat(t, c, x, y) == [t EXCEPT !.buf[y * VGA_WIDTH + x] = c]

\* terminal_putchar: behind the last cell comes the first.
TerminalPutchar(t, c) ==
  LET put == Putentryat(t, c, t.col, t.row)
  IN IF t.col + 1 # VGA_WIDTH THEN [put EXCEPT !.col = @ + 1]
     ELSE [put EXCEPT !.col = 0, !.row = IF @ + 1 = VGA_HEIGHT THEN 0 ELSE @ + 1]

\* terminal_handle_newline: below the last row everything moves up.
Scroll(buf) ==
  [i \in Cells |-> IF i + VGA_WIDTH \in Cells THEN buf[i + VGA_WIDTH] ELSE SPACE]

HandleNewline(t) ==
  IF t.row + 1 # VGA_HEIGHT THEN [t EXCEPT !.col = 0, !.row = @ + 1]
  ELSE [t EXCEPT !.col = 0, !.buf = Scroll(@)]

\* terminal_handle_backspace: in the first cell it only blanks.
HandleBackspace(t) ==
  LET back == IF t.col # 0 THEN [t EXCEPT !.col = @ - 1]
              ELSE IF t.row # 0 THEN [t EXCEPT !.col = VGA_WIDTH - 1, !.row = @ - 1]
              ELSE t
  IN Putentryat(back, SPACE, back.col, back.row)

\* terminal_write, and the part of kernel_printf that is the same: the terminal
\* after each of the characters, and after all of them.
Char(t, c) == IF c = Newline THEN HandleNewline(t) ELSE TerminalPutchar(t, c)

Progress(t, data) ==
  LET after[n \in 0 .. Len(data)] ==
        IF n = 0 THEN t ELSE Char(after[n - 1], data[n])
  IN after

Write(t, data) == Progress(t, data)[Len(data)]

\* terminal_writeint and terminal_writeuint32: the digits, the last one first,
\* then the other way round.
LeastFirst[n \in Nat] ==
  IF n = 0 THEN <<>> ELSE <<(n % 10) + ZERO_CHAR>> \o LeastFirst[n \div 10]

SlipDigits(n) == IF n = 0 THEN <<ZERO_CHAR>> ELSE LeastFirst[n]
Digits(n) == IF n = 0 THEN <<ZERO_CHAR>> ELSE Reverse(LeastFirst[n])

Writeint(n) == IF n < 0 THEN <<Minus>> \o Digits(-n) ELSE Digits(n)

\* kernel_printf: what of a format reaches the terminal.  A letter behind % that
\* is neither d nor u prints nothing and takes no argument.
Format(s, c) ==
  CASE s.spec /\ c = 100 ->
         [out |-> s.out \o Writeint(Head(s.args)), args |-> Tail(s.args), spec |-> FALSE]
    [] s.spec /\ c = 117 ->
         [out |-> s.out \o Digits(Head(s.args)), args |-> Tail(s.args), spec |-> FALSE]
    [] s.spec /\ c \notin {100, 117} -> [s EXCEPT !.spec = FALSE]
    [] ~s.spec /\ c = Percent -> [s EXCEPT !.spec = TRUE]
    [] ~s.spec /\ c = Tab -> [s EXCEPT !.out = @ \o [i \in 1 .. TAB_WIDTH |-> SPACE]]
    [] OTHER -> [s EXCEPT !.out = Append(@, c)]

Expanded(data, args) ==
  LET after[n \in 0 .. Len(data)] ==
        IF n = 0 THEN [out |-> <<>>, args |-> args, spec |-> FALSE]
        ELSE Format(after[n - 1], data[n])
  IN after[Len(data)].out

\* Every conversion has its argument, and a number fits on the screen.
ASSUME PrintsAssumption ==
  /\ \A p \in Prints : Expanded(p.data, p.args) \in Seq(Nat)
  /\ \A n \in Numbers : Len(Writeint(n)) < VGA_WIDTH * VGA_HEIGHT

-------------------------------------------------------------------------------
\* The history.  A roll of paper under the same characters: its last row is never
\* the end, and nothing on it is overwritten but by a backspace.
BlankRow == [x \in 0 .. VGA_WIDTH - 1 |-> SPACE]

Roll(p, n) == IF n <= Len(p) THEN p ELSE Append(p, BlankRow)

NextRow(s) == [s EXCEPT !.paper = Roll(@, s.at + 1), !.at = @ + 1, !.x = 0]

Roller(s, c) ==
  IF c = Newline THEN NextRow(s)
  ELSE LET put == [s EXCEPT !.paper[s.at][s.x] = c]
       IN IF s.x + 1 < VGA_WIDTH THEN [put EXCEPT !.x = @ + 1] ELSE NextRow(put)

OnPaper(data) ==
  LET after[n \in 0 .. Len(data)] ==
        IF n = 0 THEN [paper |-> paper, at |-> top + term.row + 1, x |-> term.col]
        ELSE Roller(after[n - 1], data[n])
  IN after[Len(data)].paper

\* The last cell is filled while data is written.
FillsCorner(data) ==
  \E n \in 1 .. Len(data) :
    /\ Cursor(Progress(term, data)[n - 1]) = VGA_WIDTH * VGA_HEIGHT - 1
    /\ data[n] # Newline

PastTop(p) == IF Len(p) > VGA_HEIGHT THEN Len(p) - VGA_HEIGHT ELSE 0

Records(data) ==
  /\ cornered' = (cornered \/ FillsCorner(data))
  /\ paper' = IF cornered' THEN <<>> ELSE OnPaper(data)
  /\ top' = PastTop(paper')

-------------------------------------------------------------------------------
\* terminal_initialize.
ConsoleInit ==
  /\ term = [buf |-> [i \in Cells |-> SPACE], col |-> 0, row |-> 0]
  /\ typing = FALSE
  /\ line = <<>>
  /\ calls = 0
  /\ paper = <<BlankRow>>
  /\ top = 0
  /\ cornered = FALSE
  /\ start = 0
  /\ keys = <<>>
  /\ astray = FALSE

Output(data) ==
  /\ ~typing
  /\ calls < MaxCalls
  /\ term' = Write(term, data)
  /\ calls' = calls + 1
  /\ Records(data)
  /\ UNCHANGED <<typing, line, start, keys, astray>>

Printf(p) == Output(Expanded(p.data, p.args))
Writestring(s) == Output(s)
PrintNumber(n) == Output(Expanded(<<Percent, 100>>, <<n>>))

\* getline.
Getline ==
  /\ ~typing
  /\ calls < MaxCalls
  /\ typing' = TRUE
  /\ line' = <<>>
  /\ calls' = calls + 1
  /\ start' = Cursor(term)
  /\ keys' = <<>>
  /\ astray' = FALSE
  /\ UNCHANGED <<term, paper, top, cornered>>

\* What a key does to the screen, and to the line.
Echo(t, c) == CASE c = 0 -> t
                [] c = BACKSPACE_BYTE -> HandleBackspace(t)
                [] OTHER -> TerminalPutchar(t, c)

LineWith(c) == CASE c = 0 -> line
               [] c = BACKSPACE_BYTE /\ line # <<>> -> Front(line)
               [] OTHER -> Append(line, c)

Astray(c) == c = BACKSPACE_BYTE /\ (line = <<>> \/ Cursor(term) = 0)

Key(c) ==
  /\ typing
  /\ Len(keys) < MaxKeys
  /\ term' = Echo(term, c)
  /\ line' = LineWith(c)
  /\ keys' = Append(keys, c)
  /\ astray' = (astray \/ Astray(c))
  /\ IF c = BACKSPACE_BYTE
       THEN /\ paper' = IF cornered THEN <<>>
                        ELSE [paper EXCEPT ![top + term'.row + 1][term'.col] = SPACE]
            /\ UNCHANGED <<top, cornered>>
       ELSE IF c = 0 THEN UNCHANGED <<paper, top, cornered>>
       ELSE Records(<<c>>)
  /\ UNCHANGED <<typing, calls, start>>

\* The line ends and belongs to the caller.
Enter ==
  /\ typing
  /\ typing' = FALSE
  /\ term' = HandleNewline(term)
  /\ Records(<<Newline>>)
  /\ line' = <<>> /\ start' = 0 /\ keys' = <<>> /\ astray' = FALSE
  /\ UNCHANGED calls

ConsoleNext ==
  \/ \E p \in Prints : Printf(p)
  \/ \E s \in Strings : Writestring(s)
  \/ \E n \in Numbers : PrintNumber(n)
  \/ Getline
  \/ \E c \in Keys : Key(c)
  \/ Enter

ConsoleSpec == ConsoleInit /\ [][ConsoleNext]_consoleVars

-------------------------------------------------------------------------------
Row(y) == [x \in 0 .. VGA_WIDTH - 1 |-> term.buf[y * VGA_WIDTH + x]]

\* What is on the screen is the end of what was printed: until the last cell is
\* filled - from where the text goes on at the top - the rows are the last ones
\* of the paper, in order and none twice, and blank below them.
ShowsLatest ==
  ~cornered =>
    \A y \in 0 .. VGA_HEIGHT - 1 :
      Row(y) = IF top + y + 1 <= Len(paper) THEN paper[top + y + 1] ELSE BlankRow

\* The keys as a user means them.
Edit(s, c) ==
  CASE c = 0 -> s
    [] c = BACKSPACE_BYTE -> IF s = <<>> THEN s ELSE Front(s)
    [] OTHER -> Append(s, c)

Edited(ks) ==
  LET after[n \in 0 .. Len(ks)] == IF n = 0 THEN <<>> ELSE Edit(after[n - 1], ks[n])
  IN after[Len(ks)]

\* The n cells from the i-th on, the first cell being behind the last.
Shown(t, i, n) == [k \in 1 .. n |-> t.buf[(i + k - 1) % (VGA_WIDTH * VGA_HEIGHT)]]

\* What getline is about to return is what the user meant and what the screen
\* shows behind the prompt, with the cursor right behind it, also across the end
\* of a row and of the screen - unless a backspace was typed with nothing in front
\* of it: it is stored as a character, and the prompt is rubbed out.
LineIsShown ==
  typing /\ ~astray =>
    /\ line = Edited(keys)
    /\ line = Shown(term, start, Len(line))
    /\ Cursor(term) = (start + Len(line)) % (VGA_WIDTH * VGA_HEIGHT)

\* The number that digits spell, and one with a sign.
Value(digits) ==
  LET upTo[n \in 0 .. Len(digits)] ==
        IF n = 0 THEN 0 ELSE 10 * upTo[n - 1] + (digits[n] - ZERO_CHAR)
  IN upTo[Len(digits)]

Spelled(s) == IF Head(s) = Minus THEN -Value(Tail(s)) ELSE Value(s)

\* A number that is printed reads back from the screen as that number, wherever
\* the cursor was.
NumbersReadBack ==
  [][\A n \in Numbers :
       PrintNumber(n) =>
         LET size == (Cursor(term') - Cursor(term)) % (VGA_WIDTH * VGA_HEIGHT)
         IN Spelled(Shown(term', Cursor(term), size)) = n]_consoleVars
===============================================================================
