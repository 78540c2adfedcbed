---------------------------- MODULE MessageFifo ----------------------------
(* What a service's message queue promises: messages come out in the order *)
(* they went in, none lost and none twice, however many there are.         *)
EXTENDS Sequences

CONSTANT Msg

VARIABLES
    fifo,       \* the messages waiting, oldest first
    out         \* the message the last pop returned

vars == <<fifo, out>>

Init == fifo = << >> /\ out \in Msg

Push(m) == fifo' = Append(fifo, m) /\ out' = out

Pop == fifo # << >> /\ out' = Head(fifo) /\ fifo' = Tail(fifo)

Next == Pop \/ \E m \in Msg : Push(m)

Spec == Init /\ [][Next]_vars
=============================================================================
