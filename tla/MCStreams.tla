------------------------------- MODULE MCStreams -------------------------------
\* Streams with names of one and two bytes, one of them a whole slot.
EXTENDS Streams

MCIn == <<1>>
MCOut == <<2>>
MCErr == <<1, 2>>
MCUser == <<2, 2>>
MCNames == {MCIn, MCOut, MCErr, MCUser}

\* Memory that is clear, that is full, and that alternates.
MCBytes == 0 .. (NAMESIZE * FOPEN_MAX - 1)
MCLeftovers == {[i \in MCBytes |-> 0], [i \in MCBytes |-> 3], [i \in MCBytes |-> 3 * (i % 2)]}
===============================================================================
