------------------------------ MODULE AbstractFS ------------------------------
(***************************************************************************)
(* What a file system of one-sector files promises: a file has a name and  *)
(* a content, and an operation on one name leaves every other file alone.  *)
(***************************************************************************)
CONSTANTS Names,        \* the names of files
          Contents,     \* what a sector may hold
          Absent        \* no file of that name

VARIABLE files          \* Names -> Contents, or Absent

Init == files = [n \in Names |-> Absent]

\* A new file holds whatever its sector held before.
Create(n) == /\ files[n] = Absent
             /\ \E c \in Contents : files' = [files EXCEPT ![n] = c]

Update(n) == /\ files[n] # Absent
             /\ \E c \in Contents : files' = [files EXCEPT ![n] = c]

Delete(n) == /\ files[n] # Absent
             /\ files' = [files EXCEPT ![n] = Absent]

Format == files' = [n \in Names |-> Absent]

Next == \/ \E n \in Names : Create(n) \/ Update(n) \/ Delete(n)
        \/ Format

Spec == Init /\ [][Next]_files
===============================================================================
