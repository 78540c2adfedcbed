----------------------------- MODULE MCGateway -----------------------------
(* Gateway with two clients, of which it admits one at a time.             *)
EXTENDS Gateway
=============================================================================
