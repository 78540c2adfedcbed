---------------------------- MODULE MessageQueue ----------------------------
(***************************************************************************)
(* The ring buffer of a service's message_queue: push with growth, pop,    *)
(* length, and the overload mark that a pop leaves for the dispatcher.     *)
(* Every operation runs under the queue's spinlock and is one step.  The   *)
(* flags in_global and release, and who calls what, are module Dispatch.   *)
(***************************************************************************)
EXTENDS Integers, Sequences

CONSTANTS
    Msg,
    DEFAULT_QUEUE_SIZE,
    MQ_OVERLOAD,
    MaxLength           \* bound: pushes stop at this many waiting messages

ASSUME SizeAssumption ==
    /\ DEFAULT_QUEUE_SIZE \in Nat \ {0}
    /\ MQ_OVERLOAD \in Nat \ {0}
    /\ MaxLength \in Nat
    /\ Msg # {}

VARIABLES
    buf,        \* q->queue: index -> message
    cap, head, tail,
    overload, threshold,
    popped,     \* the message the last successful skynet_mq_pop returned
    marks       \* history: the lengths marked since the threshold was last reset

vars == <<buf, cap, head, tail, overload, threshold, popped, marks>>

Index == 0 .. cap - 1

skynet_mq_length(h, t, c) == IF h <= t THEN t - h ELSE t + c - h

Length == skynet_mq_length(head, tail, cap)

(* The messages waiting, oldest first.                                     *)
Contents == [i \in 1 .. Length |-> buf[(head + i - 1) % cap]]

Blank == CHOOSE m \in Msg : TRUE    \* skynet_malloc: what is there is never read

TypeOK ==
    /\ cap \in Nat \ {0}
    /\ buf \in [Index -> Msg]
    /\ head \in Index
    /\ tail \in Index
    /\ overload \in Nat
    /\ threshold \in Nat
    /\ popped \in Msg
    /\ marks \in Seq(Nat)

Init ==
    /\ cap = DEFAULT_QUEUE_SIZE
    /\ buf = [i \in 0 .. DEFAULT_QUEUE_SIZE - 1 |-> Blank]
    /\ head = 0
    /\ tail = 0
    /\ overload = 0
    /\ threshold = MQ_OVERLOAD
    /\ popped = Blank
    /\ marks = <<>>

\* mutant: the old buffer is copied without turning it
ExpandUnturned(b) ==
    /\ buf' = [i \in 0 .. 2 * cap - 1 |-> IF i < cap THEN b[i] ELSE Blank]
    /\ head' = 0
    /\ tail' = cap
    /\ cap' = 2 * cap

(* expand_queue of the full buffer b: twice the room, oldest message first. *)
expand_queue(b) ==
    /\ buf' = [i \in 0 .. 2 * cap - 1 |-> IF i < cap THEN b[(head + i) % cap] ELSE Blank]
    /\ head' = 0
    /\ tail' = cap
    /\ cap' = 2 * cap

Wrap(i) == IF i >= cap THEN 0 ELSE i

skynet_mq_push(m) ==
    LET b == [buf EXCEPT ![tail] = m]
        t == Wrap(tail + 1)
    IN /\ Length < MaxLength
       /\ \/ head = t /\ expand_queue(b)
          \/ head # t /\ buf' = b /\ tail' = t /\ UNCHANGED <<head, cap>>
       /\ UNCHANGED <<overload, threshold, popped, marks>>

\* mutant: the mark doubles once however long the queue is
MarkOnce(n) ==
    IF n > threshold
    THEN overload' = n /\ threshold' = 2 * threshold /\ marks' = Append(marks, n)
    ELSE UNCHANGED <<overload, threshold, marks>>

(* while (length > overload_threshold): the smallest doubling that is not  *)
(* below n.                                                                *)
MarkOverload(n) ==
    IF n > threshold
    THEN /\ overload' = n
         /\ \E k \in 1 .. n : /\ threshold * 2 ^ k >= n
                              /\ threshold * 2 ^ (k - 1) < n
                              /\ threshold' = threshold * 2 ^ k
         /\ marks' = Append(marks, n)
    ELSE UNCHANGED <<overload, threshold, marks>>

skynet_mq_pop ==
    \/ /\ head # tail
       /\ popped' = buf[head]
       /\ head' = Wrap(head + 1)
       /\ MarkOverload(skynet_mq_length(head', tail, cap))
       /\ UNCHANGED <<buf, cap, tail>>
    \/ /\ head = tail
       /\ threshold' = MQ_OVERLOAD
       /\ marks' = <<>>
       /\ UNCHANGED <<buf, cap, head, tail, overload, popped>>

(* The dispatcher reads the mark and clears it.                            *)
skynet_mq_overload ==
    /\ overload # 0
    /\ overload' = 0
    /\ UNCHANGED <<buf, cap, head, tail, threshold, popped, marks>>

Next == (\E m \in Msg : skynet_mq_push(m)) \/ skynet_mq_pop \/ skynet_mq_overload

Spec == Init /\ [][Next]_vars

-----------------------------------------------------------------------------
Fifo == INSTANCE MessageFifo WITH fifo <- Contents, out <- popped

(* The ring buffer is a queue: whatever the wrapping and the growing, a    *)
(* push adds one message at the end and a pop returns the one that has     *)
(* waited longest (skynet_mq_push, skynet_mq_pop, expand_queue).           *)
FifoSpec == Fifo!Spec

(* The overload mark of skynet_mq_pop, over a busy spell: from a pop that  *)
(* finds the queue empty and resets the threshold to the next such pop.    *)
(* However the queue grows and shrinks meanwhile, and whenever the         *)
(* dispatcher takes the mark, the warnings of a spell grow, each is for    *)
(* more than twice the length of the one before the last, and the i-th     *)
(* needs a queue longer than the limit doubled i - 1 times: a flood of     *)
(* messages is reported a logarithmic number of times, not at every pop.   *)
(* A mark that waits is above the limit and is the spell's last one.  (It  *)
(* is not the doubling of the last length: after 2047 comes 2049 when the  *)
(* limit is 1024.)  With it the types of the variables.                    *)
OverloadMark ==
    /\ TypeOK
    /\ overload # 0 => /\ overload > MQ_OVERLOAD
                       /\ marks # <<>> => overload = marks[Len(marks)]
    /\ \A i \in 1 .. Len(marks) : marks[i] > MQ_OVERLOAD * 2 ^ (i - 1)
    /\ \A i \in 1 .. Len(marks) - 1 : marks[i] < marks[i + 1]
    /\ \A i \in 1 .. Len(marks) - 2 : 2 * marks[i] < marks[i + 2]
=============================================================================
