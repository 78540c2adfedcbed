----------------------------- MODULE MCThreads -----------------------------
(* Threads with two workers, one of which may be caught in a callback.     *)
EXTENDS Threads
=============================================================================
