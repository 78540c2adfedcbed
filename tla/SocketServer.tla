---------------------------- MODULE SocketServer ----------------------------
(***************************************************************************)
(* skynet-src/socket_server.c: one slot of the socket table, through the   *)
(* accepted TCP sockets that use it one after another.  Services (that is, *)
(* the workers that run them) write to a socket directly when it has       *)
(* nothing else to send, under dw_lock; otherwise they put a request into  *)
(* the pipe.  The socket thread executes the requests in order, keeps what *)
(* the kernel does not take in two lists, and sends them when the socket   *)
(* is writable.  It looks at the lists without the lock and takes the lock *)
(* for sending and at the end of force_close.                              *)
(*                                                                         *)
(* The lists and the buffer of a direct write are sequences of bytes, a    *)
(* byte being the message it belongs to; a message has Size bytes.  Left   *)
(* out are connect, listen, bind and UDP, incoming data, and warnings.     *)
(***************************************************************************)
EXTENDS Integers, Sequences, FiniteSets

CONSTANTS
    Service,        \* the services that use the sockets
    Size,           \* bytes of a message
    MaxId,          \* bound: sockets accepted, all hashed to this slot
    MaxSend,        \* bound: messages sent
    None

ASSUME SocketAssumption ==
    /\ None \notin Service
    /\ {Size, MaxId, MaxSend} \subseteq Nat \ {0}

VARIABLES
    type, id,       \* of the slot's struct socket
    high, low,      \* bytes in the two lists
    dw,             \* dw_buffer from dw_offset on, <<>> for NULL
    sending,        \* tag of the id and number of sends in the pipe
    wev,            \* the poll waits for the socket to be writable
    lock,           \* holder of dw_lock among the services
    closing,        \* the socket thread is in force_close, before the lock
    pipe,           \* requests
    pc, req,        \* a service in socket_server_send, and its arguments
    used,           \* alloc_id
    started,        \* ids whose start was requested: these are written to
    asked,          \* ids whose close was requested
    sent,           \* messages so far, each with its place among those of its kind
    wire,           \* history: id -> bytes the kernel took
    ended,          \* history: ids whose end was reported
    torn,           \* history: ids written to by a service while closing
    fault           \* an assertion failed

slot == <<type, id, high, low, dw, sending, wev>>
thread == <<lock, closing>>
ops == <<pipe, pc, req>>
env == <<used, started, asked, sent>>
hist == <<wire, ended, torn, fault>>
vars == <<slot, thread, ops, env, hist>>

Bytes(m) == [i \in 1 .. Size |-> m]
Front(s, n) == SubSeq(s, 1, n)
Rest(s, n) == SubSeq(s, n + 1, Len(s))

Init ==
    /\ type = "INVALID" /\ id = 0
    /\ high = <<>> /\ low = <<>> /\ dw = <<>>
    /\ sending = [tag |-> 0, n |-> 0]
    /\ wev = FALSE
    /\ lock = None /\ closing = FALSE
    /\ pipe = <<>>
    /\ pc = [w \in Service |-> "idle"]
    /\ req = [w \in Service |-> None]
    /\ used = 0 /\ started = {} /\ asked = {} /\ sent = {}
    /\ wire = [i \in 1 .. MaxId |-> <<>>]
    /\ ended = {} /\ torn = {} /\ fault = FALSE

\* mutant: the sends in the pipe are not counted
NoMoreInLists == high \o low \o dw = <<>>

nomore_sending_data == high \o low \o dw = <<>> /\ sending.n = 0

can_direct_write(i) == id = i /\ nomore_sending_data /\ type = "CONNECTED"

-----------------------------------------------------------------------------
(* Services.                                                               *)

Goto(w, l) == pc' = [pc EXCEPT ![w] = l]
Done(w) == Goto(w, "idle") /\ req' = [req EXCEPT ![w] = None]

\* socket_server_start and socket_server_close: a request, and no waiting.
Start(i) ==
    /\ started' = started \union {i}
    /\ pipe' = Append(pipe, [cmd |-> "S", id |-> i])
    /\ UNCHANGED <<slot, thread, pc, req, used, asked, sent, hist>>

Close(i, cmd) ==
    /\ asked' = asked \union {i}
    /\ pipe' = Append(pipe, [cmd |-> cmd, id |-> i])
    /\ UNCHANGED <<slot, thread, pc, req, used, started, sent, hist>>

\* socket_server_send, socket_server_send_lowpriority: a socket that is gone
\* refuses the message.
Send(w, i, prio) ==
    LET earlier == {x \in sent : x.from = w /\ x.to = i /\ x.prio = prio}
        m == [from |-> w, to |-> i, prio |-> prio, n |-> Cardinality(earlier)]
    IN
    /\ pc[w] = "idle" /\ Cardinality(sent) < MaxSend
    /\ sent' = sent \union {m}
    /\ IF id # i \/ type = "INVALID"
       THEN UNCHANGED <<pc, req>>
       ELSE /\ req' = [req EXCEPT ![w] = m]
            /\ Goto(w, IF prio = "D" THEN "try" ELSE "count")
    /\ UNCHANGED <<slot, thread, pipe, used, started, asked, hist>>

TryDirect(w) ==
    /\ pc[w] = "try"
    /\ IF can_direct_write(req[w].to) /\ lock = None
       THEN lock' = w /\ Goto(w, "locked")
       ELSE UNCHANGED lock /\ Goto(w, "count")
    /\ UNCHANGED <<slot, closing, pipe, req, env, hist>>

Recheck(w) ==
    /\ pc[w] = "locked"
    /\ IF can_direct_write(req[w].to)
       THEN UNCHANGED lock /\ Goto(w, "write")
       ELSE lock' = None /\ Goto(w, "count")
    /\ UNCHANGED <<slot, closing, pipe, req, env, hist>>

\* The kernel takes n bytes; an error counts as 0.
Write(w) ==
    LET m == req[w] IN
    /\ pc[w] = "write"
    /\ \E n \in 0 .. Size :
         /\ wire' = [wire EXCEPT ![m.to] = @ \o Front(Bytes(m), n)]
         /\ dw' = Rest(Bytes(m), n)
         /\ wev' = (wev \/ n < Size)
         /\ torn' = IF closing /\ n > 0 THEN torn \union {m.to} ELSE torn
    /\ lock' = None
    /\ Done(w)
    /\ UNCHANGED <<type, id, high, low, sending, closing, pipe, env, ended, fault>>

inc_sending_ref(w) ==
    /\ pc[w] = "count"
    /\ sending' = IF sending.tag = req[w].to THEN [sending EXCEPT !.n = @ + 1]
                  ELSE sending
    /\ Goto(w, "put")
    /\ UNCHANGED <<type, id, high, low, dw, wev, thread, pipe, req, env, hist>>

send_request(w) ==
    /\ pc[w] = "put"
    /\ pipe' = Append(pipe, [cmd |-> req[w].prio, id |-> req[w].to, m |-> req[w]])
    /\ Done(w)
    /\ UNCHANGED <<slot, thread, env, hist>>

-----------------------------------------------------------------------------
(* The socket thread.                                                      *)

\* report_accept: reserve_id takes the slot if it is free, new_fd resets it.
report_accept ==
    /\ ~closing /\ type = "INVALID" /\ used < MaxId
    /\ used' = used + 1
    /\ id' = used' /\ type' = "PACCEPT"
    /\ sending' = [tag |-> used', n |-> 0]
    /\ dw' = <<>>
    /\ fault' = (fault \/ high \o low # <<>>)
    /\ UNCHANGED <<high, low, wev, thread, ops, started, asked, sent, wire, ended, torn>>

Request(cmd) == ~closing /\ pipe # <<>> /\ Head(pipe).cmd \in cmd /\ pipe' = Tail(pipe)
Ended(i) == ended' = ended \union {i}
Invalid(i) == id # i \/ type = "INVALID"
Unchanged_services == UNCHANGED <<pc, req, lock, env>>

start_socket ==
    LET i == Head(pipe).id IN
    /\ Request({"S"})
    /\ IF Invalid(i)
       THEN Ended(i) /\ UNCHANGED type
       ELSE /\ type' = IF type = "PACCEPT" THEN "CONNECTED" ELSE type
            /\ UNCHANGED ended
    /\ UNCHANGED <<id, high, low, dw, sending, wev, closing, wire, torn, fault>>
    /\ Unchanged_services

\* mutant: the poll is not told
AcceptedQuietly(m) ==
    IF high \o low = <<>> \/ m.prio = "D"
    THEN high' = high \o Bytes(m) /\ UNCHANGED <<low, wev>>
    ELSE low' = low \o Bytes(m) /\ UNCHANGED <<high, wev>>

\* What send_socket does with a message it accepts: if the lists are empty
\* it goes to the high one, whatever its priority, and the poll is told.
Accepted(m) ==
    /\ IF high \o low = <<>> \/ m.prio = "D"
       THEN high' = high \o Bytes(m) /\ UNCHANGED low
       ELSE low' = low \o Bytes(m) /\ UNCHANGED high
    /\ wev' = (wev \/ high \o low = <<>>)

\* mutant: a send to an earlier id of the slot is counted off as well
DecAlways(i) ==
    /\ sending' = [sending EXCEPT !.n = @ - 1]
    /\ fault' = (fault \/ sending.n = 0)

dec_sending_ref(i) ==
    IF id = i
    THEN /\ sending' = [sending EXCEPT !.n = @ - 1]
         /\ fault' = (fault \/ sending.n = 0)
    ELSE UNCHANGED <<sending, fault>>

send_socket ==
    LET r == Head(pipe) IN
    /\ Request({"D", "P"})
    /\ IF id = r.id /\ type = "CONNECTED" THEN Accepted(r.m)
       ELSE UNCHANGED <<high, low, wev>>
    /\ dec_sending_ref(r.id)
    /\ UNCHANGED <<type, id, dw, closing, wire, ended, torn>>
    /\ Unchanged_services

\* What send_buffer sends first: the rest of a direct write, then the high list.
First == dw \o high

(* What send_buffer may leave.  The low list is sent when the high one is  *)
(* out, and a low message sent in part moves to the high list              *)
(* (raise_uncomplete).                                                     *)
Flushes ==
    { [out |-> Front(First, n), high |-> Rest(First, n), low |-> low] :
          n \in 0 .. Len(First) - 1 }
    \union
    { LET rest == Rest(low, n)  part == Len(rest) % Size IN
      [out |-> First \o Front(low, n), high |-> Front(rest, part), low |-> Rest(rest, part)] :
          n \in 0 .. Len(low) }

Empty(o) == o.high \o o.low = <<>>

\* force_close under the lock: of a half closed socket that is flushed, or
\* after an error of write.
Shut ==
    /\ type' = "INVALID"
    /\ high' = <<>> /\ low' = <<>> /\ dw' = <<>> /\ wev' = FALSE
    /\ Ended(id)
    /\ UNCHANGED closing

\* force_close elsewhere: the lists are freed before the lock is taken.
Closing ==
    /\ closing' = TRUE
    /\ high' = <<>> /\ low' = <<>>
    /\ UNCHANGED <<type, wev, ended>>

FinishClose ==
    /\ closing /\ lock = None
    /\ type' = "INVALID" /\ dw' = <<>> /\ wev' = FALSE /\ closing' = FALSE
    /\ Ended(id)
    /\ UNCHANGED <<id, high, low, sending, pipe, wire, torn, fault>>
    /\ Unchanged_services

\* mutant: the poll is told to forget the socket after each flush
FlushedOnce(o) ==
    /\ high' = o.high /\ low' = o.low /\ dw' = <<>> /\ wev' = FALSE
    /\ UNCHANGED <<closing, ended>>

Flushed(o) ==
    /\ high' = o.high /\ low' = o.low /\ dw' = <<>>
    /\ wev' = (wev /\ ~Empty(o))
    /\ UNCHANGED <<closing, ended>>

Sent(o) == wire' = [wire EXCEPT ![id] = @ \o o.out]

\* A "K" request that shuts down carries the command "k" here.
close_socket ==
    LET r == Head(pipe) IN
    /\ Request({"K", "k"})
    /\ \/ /\ Invalid(r.id)
          /\ Ended(r.id)
          /\ UNCHANGED <<type, high, low, dw, wev, closing, wire>>
       \/ /\ ~Invalid(r.id) /\ nomore_sending_data
          /\ Closing
          /\ UNCHANGED <<dw, wire>>
       \/ /\ ~Invalid(r.id) /\ ~nomore_sending_data
          /\ \/ /\ lock # None                  \* a direct write is under way
                /\ UNCHANGED <<dw, wire>>
                /\ IF r.cmd = "k" THEN Closing
                   ELSE /\ type' = "HALFCLOSE"
                        /\ UNCHANGED <<high, low, wev, closing, ended>>
             \/ /\ lock = None
                /\ Shut /\ UNCHANGED wire       \* write failed
             \/ /\ lock = None
                /\ \E o \in Flushes :
                     /\ Sent(o)
                     /\ IF Empty(o) /\ type = "HALFCLOSE" THEN Shut
                        ELSE IF r.cmd = "k" \/ (Empty(o) /\ sending.n = 0)
                        THEN Closing /\ dw' = <<>>
                        ELSE Flushed(o) /\ type' = "HALFCLOSE"
    /\ UNCHANGED <<id, sending, torn, fault>>
    /\ Unchanged_services

Open == ~closing /\ type \in {"CONNECTED", "HALFCLOSE"}

\* The socket is writable, so that the kernel takes something, or fails.
\* send_buffer gives up if it does not get the lock.
send_buffer ==
    /\ Open /\ wev /\ lock = None
    /\ \/ Shut /\ UNCHANGED wire
       \/ \E o \in Flushes :
            /\ o.out # <<>> \/ Empty(o)
            /\ Sent(o)
            /\ IF Empty(o) /\ type = "HALFCLOSE" THEN Shut
               ELSE Flushed(o) /\ UNCHANGED type
    /\ UNCHANGED <<id, sending, pipe, torn, fault>>
    /\ Unchanged_services

\* The peer closed, or the socket failed.
Gone ==
    /\ Open
    /\ Closing
    /\ UNCHANGED <<id, dw, sending, pipe, wire, torn, fault>>
    /\ Unchanged_services

-----------------------------------------------------------------------------
socket_server_send(w) ==
    TryDirect(w) \/ Recheck(w) \/ Write(w) \/ inc_sending_ref(w) \/ send_request(w)

ctrl_cmd == start_socket \/ send_socket \/ close_socket

Next ==
    \/ \E i \in (1 .. used) \ started : Start(i)
    \/ \E i \in started \ asked, cmd \in {"K", "k"} : Close(i, cmd)
    \/ \E w \in Service, i \in started, prio \in {"D", "P"} : Send(w, i, prio)
    \/ \E w \in Service : socket_server_send(w)
    \/ report_accept
    \/ ctrl_cmd
    \/ FinishClose
    \/ send_buffer
    \/ Gone

Spec == Init /\ [][Next]_vars

(* A call in a worker goes on and the socket thread runs; direct writes    *)
(* are short, so that the socket thread gets the lock when it keeps trying; *)
(* and the peer keeps reading.                                             *)
FairSpec ==
    /\ Spec
    /\ \A w \in Service : WF_vars(socket_server_send(w))
    /\ WF_vars(ctrl_cmd) /\ SF_vars(FinishClose) /\ SF_vars(send_buffer)

-----------------------------------------------------------------------------
(* Properties.                                                             *)

(* Types; the lock is held by the service whose call is inside of it.      *)
TypeOK ==
    /\ type \in {"INVALID", "PACCEPT", "CONNECTED", "HALFCLOSE"}
    /\ id \in 0 .. used /\ used \in 0 .. MaxId
    /\ sending.n \in 0 .. MaxSend
    /\ lock \in Service \union {None}
    /\ \A w \in Service :
         /\ pc[w] \in {"idle", "try", "locked", "write", "count", "put"}
         /\ pc[w] \in {"locked", "write"} <=> lock = w

(* The assertions of new_fd, dec_sending_ref, raise_uncomplete and         *)
(* send_buffer_: the lists are empty when the slot is taken, a send in the *)
(* pipe is counted until it is executed unless the id was given away, and  *)
(* the head of the low list is whole.  With them the types of the          *)
(* variables.                                                              *)
AssertionsHold == TypeOK /\ ~fault /\ Len(low) % Size = 0

(* The message of the k-th Size bytes that the kernel took for id i.        *)
Taken(i, k) == wire[i][(k - 1) * Size + 1]

(* What the kernel takes from a socket is a sequence of whole messages,    *)
(* the last one maybe cut off, all sent to this id and not to another one  *)
(* of the slot; those of one service and one priority come in the order of *)
(* the calls and without a gap.  Three paths lead there: the direct write  *)
(* (line 1606), its rest (773) and the lists (581).  The exception is what *)
(* a service writes while force_close has thrown the lists away (420) and  *)
(* has not taken the lock yet (425).                                       *)
StreamIntact ==
    \A i \in (1 .. MaxId) \ torn :
        /\ \A b \in 1 .. Len(wire[i]) :
             wire[i][b].to = i /\ wire[i][b] = Taken(i, (b - 1) \div Size + 1)
        /\ \A k \in 1 .. (Len(wire[i]) + Size - 1) \div Size :
             Taken(i, k).n = Cardinality({j \in 1 .. k - 1 :
                 Taken(i, j).from = Taken(i, k).from /\ Taken(i, j).prio = Taken(i, k).prio})

(* Data that waits in a list or in dw_buffer is sent, or the socket ends:  *)
(* whoever leaves it there has told the poll (lines 1642, 886), and        *)
(* nobody turns that off while there is some (749).                        *)
Drains == (dw \o high \o low # <<>>) ~> (dw \o high \o low = <<>>)

(* A half closed socket that nobody will close: it has nothing to send     *)
(* and the poll does not wait for it to be writable.                       *)
Orphan(i) ==
    /\ id = i /\ type = "HALFCLOSE" /\ ~wev
    /\ dw \o high \o low = <<>> /\ lock = None

(* Who asks for a close is told of the end, though the socket may be       *)
(* closed already, have unsent data, or its slot may have a new owner.     *)
(* The exception: the close met a send of another service that was counted *)
(* but not in the pipe yet (951-963); that send is dropped (850), and the  *)
(* socket stays half closed until the peer leaves.                         *)
CloseReported ==
    \A i \in 1 .. MaxId : i \in asked ~> (i \in ended \/ Orphan(i))
=============================================================================
