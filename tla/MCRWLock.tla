------------------------------ MODULE MCRWLock ------------------------------
(* The instance of RWLock for TLC.                                         *)
EXTENDS RWLock
=============================================================================
