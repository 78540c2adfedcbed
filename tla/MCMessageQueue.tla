--------------------------- MODULE MCMessageQueue ---------------------------
(* The instance of MessageQueue for TLC: a buffer of 2 grows to 8.         *)
EXTENDS MessageQueue
=============================================================================
