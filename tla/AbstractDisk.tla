----------------------------- MODULE AbstractDisk -----------------------------
(***************************************************************************)
(* What a disk driver promises: a call is carried out exactly once before  *)
(* it returns, a write stores what it was given in its sector and nowhere  *)
(* else, and a read answers with what the sector holds.                    *)
(***************************************************************************)
CONSTANTS Sectors,      \* the sector numbers callers use
          Contents      \* what a sector may hold

VARIABLES sectors,      \* Sectors -> Contents
          call,         \* the call in progress
          answer        \* <<sector, content>> of the last read, or <<>>

vars == <<sectors, call, answer>>

NoCall == [cmd |-> "none"]
Write(s, c) == [cmd |-> "WRITE", sector |-> s, content |-> c, done |-> FALSE]
Read(s) == [cmd |-> "READ", sector |-> s, done |-> FALSE]

Init == /\ sectors \in [Sectors -> Contents]
        /\ call = NoCall
        /\ answer = <<>>

Begin(c) == /\ call = NoCall
            /\ call' = c
            /\ UNCHANGED <<sectors, answer>>

Perform == /\ call # NoCall
           /\ ~call.done
           /\ call' = [call EXCEPT !.done = TRUE]
           /\ sectors' = IF call.cmd = "WRITE"
                           THEN [sectors EXCEPT ![call.sector] = call.content]
                           ELSE sectors
           /\ UNCHANGED answer

End == /\ call # NoCall
       /\ call.done
       /\ call' = NoCall
       /\ answer' = IF call.cmd = "READ"
                      THEN <<call.sector, sectors[call.sector]>> ELSE answer
       /\ UNCHANGED sectors

Next == \/ \E s \in Sectors : Begin(Read(s)) \/ \E c \in Contents : Begin(Write(s, c))
        \/ Perform
        \/ End

Spec == Init /\ [][Next]_vars
===============================================================================
