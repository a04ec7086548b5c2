----------------------------- MODULE CaptureBook -----------------------------
(***************************************************************************)
(* What the ingest endpoint promises to its clients: a book in which every *)
(* capture has one entry, under a number that no other capture ever has.   *)
(* Entries are made in one step and are never changed or taken back, and   *)
(* a client is told only of an entry that is in the book.                  *)
(***************************************************************************)

VARIABLES
    book,   \* the entries: a capture's key and the number it has
    told    \* the entries that were answered

bvars == <<book, told>>

Init == book = {} /\ told = {}

New(entry) == \A e \in book : e.key # entry.key /\ e.id # entry.id

Enter ==
    /\ \E entry \in book' : New(entry) /\ book' = book \union {entry}
    /\ UNCHANGED told

Tell ==
    /\ \E entry \in book : told' = told \union {entry}
    /\ UNCHANGED book

Next == Enter \/ Tell

Spec == Init /\ [][Next]_bvars
=============================================================================
