----------------------------- MODULE AbstractHeap -----------------------------
(***************************************************************************)
(* What an allocator promises its callers, without any free list: it       *)
(* grants regions that overlap no region somebody still owns, aligned as   *)
(* the caller asked, and takes regions back.                               *)
(***************************************************************************)
EXTENDS Integers

CONSTANTS Places,       \* addresses a region may start at
          Sizes,        \* sizes, in bytes, that callers ask for
          Alignments    \* alignments that callers ask for (1 for "any")

VARIABLES
  owned,                \* the regions [ptr, len, align] handed out and not returned
  grants                \* parity of the grants: granting a region twice is a step

Region == [ptr : Places, len : Sizes, align : Alignments \cup {1}]

Apart(r, s) == r.ptr + r.len <= s.ptr \/ s.ptr + s.len <= r.ptr

Init == owned = {} /\ grants = 0

Grant(r) == /\ \A s \in owned : Apart(r, s)
            /\ r.ptr % r.align = 0
            /\ owned' = owned \cup {r}
            /\ grants' = 1 - grants

Return(r) == /\ r \in owned
             /\ owned' = owned \ {r}
             /\ UNCHANGED grants

Next == \/ \E r \in Region : Grant(r)
        \/ \E r \in owned : Return(r)

Spec == Init /\ [][Next]_<<owned, grants>>
===============================================================================
