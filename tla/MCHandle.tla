------------------------------ MODULE MCHandle ------------------------------
(* Handle with a table that starts at one slot and handles of two bits. *)
EXTENDS Handle

\* Contexts that have never been launched are alike, and so are launchers.
Alike == Permutations(Ctx) \cup Permutations(Launcher)
=============================================================================
