----------------------------- MODULE MCDispatch -----------------------------
(* Instances of Dispatch for TLC.                                          *)
EXTENDS Dispatch, TLC

CONSTANTS w1, w2, s1, s2

\* start() gives workers 1-4 weight -1, 5-8 weight 0, then 1, 2 and 3.
Weight == (w1 :> -1) @@ (w2 :> 0)

MCShare == [w \in Worker |-> IF Weight[w] < 0 THEN 0 ELSE 2 ^ Weight[w]]
=============================================================================
