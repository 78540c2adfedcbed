----------------------------- MODULE MCSession -----------------------------
(* Session with three coroutines, which are alike.                         *)
EXTENDS Session

Alike == Permutations(Co)
=============================================================================
