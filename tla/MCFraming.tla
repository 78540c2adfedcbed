----------------------------- MODULE MCFraming -----------------------------
(* Instances of Framing for TLC.                                           *)
EXTENDS Framing
MCBody == <<1, 0, 2>>
=============================================================================
