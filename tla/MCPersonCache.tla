--------------------------- MODULE MCPersonCache ---------------------------
(* PersonCache with model values for TLC. *)
EXTENDS PersonCache, TLC

\* Users are interchangeable, and so are the waiting lookups.
UsersAndSlots == Permutations(User) \cup Permutations(Slot)
=============================================================================
