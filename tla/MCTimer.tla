------------------------------ MODULE MCTimer ------------------------------
(* Timer with 2 near lists and 2 lists on each of the four levels: the     *)
(* counter wraps at 32 and delays run from 1 to 15.                        *)
EXTENDS Timer
=============================================================================
