------------------------------- MODULE MCConsole -------------------------------
\* Console on a screen of three rows of two cells.
EXTENDS Console

\* "ab\n", "c\td", "%d\n%u%s".
MCPrints == {[data |-> <<97, 98, 10>>, args |-> <<>>],
             [data |-> <<99, 9, 100>>, args |-> <<>>],
             [data |-> <<37, 100, 10, 37, 117, 37, 115>>, args |-> <<-7, 4>>]}
\* "e\n\n" and ">".
MCStrings == {<<101, 10, 10>>, <<62>>}
\* No key, backspace, a letter.
MCKeys == {0, 14, 102}
MCNumbers == {0, -10, 305}
===============================================================================
