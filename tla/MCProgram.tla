------------------------------ MODULE MCProgram ------------------------------
(* Sets for the instances of Program that TLC checks. *)
EXTENDS Program

Edits == {"edited"}
Resume == {"session"}
AllWork == {"edited", "staged", "untracked", "committed"}

\* A family of three tags: with its header more than the rows of a small window.
HubShelf == [local |-> 1, cloud |-> 0, hub |-> <<3>>]
LocalShelf == [local |-> 2, cloud |-> 0, hub |-> <<>>]
AllShelves == {HubShelf}
NoShelves == {LocalShelf}
=============================================================================
