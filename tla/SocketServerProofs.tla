------------------------- MODULE SocketServerProofs -------------------------
(* Proofs about a slot of the socket table, for any services, message size *)
(* and bounds: the assertions of socket_server.c hold, and what the kernel *)
(* takes from a socket are whole messages in the order of the calls.       *)
EXTENDS SocketServer, FiniteSetTheorems, SequenceTheorems, TLAPS

Message == [from : Service, to : 1 .. MaxId, prio : {"D", "P"}, n : Nat]

SendRequest == [cmd : {"D", "P"}, id : 1 .. MaxId, m : Message]
Requests == [cmd : {"S", "K", "k"}, id : 1 .. MaxId] \cup SendRequest
IsSend(r) == r.cmd \in {"D", "P"}

(* The messages of x's service to x's socket with x's priority.            *)
Kin(x) == {y \in sent : y.from = x.from /\ y.to = x.to /\ y.prio = x.prio}

(* m is in the pipe; m is counted and on its way into the pipe.            *)
Queued(m) == \E i \in 1 .. Len(pipe) : IsSend(pipe[i]) /\ pipe[i].m = m
Putting(m) == \E w \in Service : pc[w] = "put" /\ req[w] = m

(* The messages that sending stands for.                                   *)
Owed == {m \in sent : m.to = id /\ (Queued(m) \/ Putting(m))}

-----------------------------------------------------------------------------
(* The inductive invariant.                                                *)

SlotInv ==
    /\ type \in {"INVALID", "PACCEPT", "CONNECTED", "HALFCLOSE"}
    /\ used \in 0 .. MaxId /\ id \in 0 .. used /\ started \subseteq 1 .. used
    /\ sending \in [tag : Nat, n : Nat] /\ sending.tag = id

(* A slot that nobody can have written to yet, or that is being closed,    *)
(* has nothing in its lists, and the low list holds whole messages.        *)
ListInv ==
    /\ {high, low, dw} \subseteq Seq(Message)
    /\ closing \/ type \in {"INVALID", "PACCEPT"} => high = << >> /\ low = << >>
    /\ Len(low) % Size = 0

(* Messages are told apart by their place among their kin.                 *)
SentInv ==
    /\ sent \subseteq Message /\ IsFiniteSet(sent) /\ Cardinality(sent) <= MaxSend
    /\ \A m \in sent : m.to \in 1 .. used /\ m.n < Cardinality(Kin(m))

CallInv ==
    /\ pc \in [Service -> {"idle", "try", "locked", "write", "count", "put"}]
    /\ req \in [Service -> Message \cup {None}]
    /\ lock \in Service \cup {None}
    /\ \A w \in Service :
         /\ pc[w] \in {"locked", "write"} <=> lock = w
         /\ pc[w] # "idle" => req[w] \in sent /\ req[w].from = w /\ ~Queued(req[w])

PipeInv ==
    /\ pipe \in Seq(Requests)
    /\ \A i \in 1 .. Len(pipe) : IsSend(pipe[i]) =>
         pipe[i].m \in sent /\ pipe[i].id = pipe[i].m.to
    /\ \A i, j \in 1 .. Len(pipe) :
         IsSend(pipe[i]) /\ IsSend(pipe[j]) /\ pipe[i].m = pipe[j].m => i = j

CountInv == sending.n = Cardinality(Owed)

Inv == SlotInv /\ ListInv /\ SentInv /\ CallInv /\ PipeInv /\ CountInv /\ ~fault

-----------------------------------------------------------------------------
(* Lists and the pipe as sequences.                                        *)

(* Both parts of a list are lists.                                         *)
LEMMA FrontRest ==
    ASSUME NEW S, NEW s \in Seq(S), NEW n \in 0 .. Len(s)
    PROVE  /\ Front(s, n) \in Seq(S) /\ Len(Front(s, n)) = n
           /\ Rest(s, n) \in Seq(S) /\ Len(Rest(s, n)) = Len(s) - n
BY DEF Front, Rest

(* A message is Size bytes.                                                *)
LEMMA BytesOK ==
    ASSUME NEW m \in Message
    PROVE  Bytes(m) \in Seq(Message) /\ Len(Bytes(m)) = Size
BY SocketAssumption DEF Bytes

(* Division with a rest.                                                   *)
LEMMA Division ==
    ASSUME NEW n \in Nat \ {0}, NEW x \in Int
    PROVE  \E d \in Int, r \in 0 .. n - 1 : x = n * d + r /\ r = x % n
<1>1. PICK d \in Int : d = x \div n
  OBVIOUS
<1>2. PICK r \in Int : r = x % n
  OBVIOUS
<1>3. x = d * n + r /\ r \in 0 .. n - 1
  BY <1>1, <1>2
<1>4. x = n * d + r
  BY <1>3
<1> QED BY <1>2, <1>3, <1>4

(* A multiple of n leaves no rest.                                         *)
LEMMA Multiple ==
    ASSUME NEW n \in Nat \ {0}, NEW q \in Int
    PROVE  (n * q) % n = 0
<1>1. PICK x \in Int : x = n * q
  OBVIOUS
<1>2. PICK d \in Int, r \in 0 .. n - 1 : x = n * d + r /\ r = x % n
  BY Division
<1>3. r = n * (q - d)
  BY <1>1, <1>2
<1>4. CASE q - d >= 1
  <2>1. n * (q - d) >= n
    BY <1>4
  <2> QED BY <1>3, <2>1
<1>5. CASE q - d <= -1
  <2>1. n * (q - d) <= -n
    BY <1>5
  <2> QED BY <1>3, <2>1
<1>6. CASE q - d = 0
  <2>1. r = 0
    BY <1>3, <1>6
  <2> QED BY <1>1, <1>2, <2>1
<1> QED BY <1>4, <1>5, <1>6

(* raise_uncomplete splits off what is left of a cut message.              *)
LEMMA WholeMessages ==
    ASSUME NEW k \in Nat
    PROVE  /\ \E part \in 0 .. k : part = k % Size /\ (k - part) % Size = 0
           /\ k % Size = 0 => (k + Size) % Size = 0
<1>1. Size \in Nat \ {0} /\ k \in Int
  BY SocketAssumption
<1>2. PICK d \in Int, r \in 0 .. Size - 1 : k = Size * d + r /\ r = k % Size
  BY <1>1, Division
<1>3. r <= k
  <2>1. CASE d <= -1
    <3>1. Size * d <= -Size
      BY <1>1, <2>1
    <3> QED BY <1>1, <1>2, <3>1
  <2>2. CASE d >= 0
    <3>1. Size * d >= 0
      BY <1>1, <2>2
    <3> QED BY <1>1, <1>2, <3>1
  <2> QED BY <2>1, <2>2
<1>4. (k - r) % Size = 0
  <2>1. k - r = Size * d
    BY <1>1, <1>2
  <2> QED BY <1>1, <2>1, Multiple
<1>5. ASSUME r = 0 PROVE (k + Size) % Size = 0
  <2>1. k + Size = Size * (d + 1) /\ d + 1 \in Int
    BY <1>1, <1>2, <1>5
  <2> QED BY <1>1, <2>1, Multiple
<1> QED BY <1>1, <1>2, <1>3, <1>4, <1>5

(* Append to the pipe.                                                     *)
LEMMA PipeGrows ==
    ASSUME PipeInv, NEW r \in Requests, pipe' = Append(pipe, r)
    PROVE  /\ pipe' \in Seq(Requests) /\ Len(pipe') = Len(pipe) + 1
           /\ \A i \in 1 .. Len(pipe) : pipe'[i] = pipe[i]
           /\ pipe'[Len(pipe) + 1] = r
BY DEF PipeInv

(* The first request leaves the pipe.                                      *)
LEMMA PipeShrinks ==
    ASSUME PipeInv, pipe # << >>, pipe' = Tail(pipe)
    PROVE  /\ pipe' \in Seq(Requests) /\ Len(pipe') = Len(pipe) - 1 /\ Len(pipe) > 0
           /\ \A i \in 1 .. Len(pipe) - 1 : pipe'[i] = pipe[i + 1]
           /\ Head(pipe) = pipe[1] /\ Head(pipe) \in Requests
BY DEF PipeInv

(* Requests that carry no message.                                         *)
LEMMA OtherRequest ==
    ASSUME PipeInv, NEW c \in {"S", "K", "k"}, NEW i \in 1 .. MaxId,
           pipe' = Append(pipe, [cmd |-> c, id |-> i]), sent' = sent
    PROVE  PipeInv' /\ \A m : Queued(m)' <=> Queued(m)
<1> DEFINE r == [cmd |-> c, id |-> i]
<1>1. r \in Requests /\ ~IsSend(r)
  BY DEF Requests, IsSend
<1> HIDE DEF r
<1>2. /\ pipe' \in Seq(Requests) /\ Len(pipe') = Len(pipe) + 1
      /\ \A k \in 1 .. Len(pipe) : pipe'[k] = pipe[k]
      /\ pipe'[Len(pipe) + 1] = r /\ Len(pipe) \in Nat
  BY <1>1, PipeGrows DEF r, PipeInv
<1>3. \A k \in 1 .. Len(pipe') : IsSend(pipe'[k]) => k \in 1 .. Len(pipe) /\ pipe'[k] = pipe[k]
  BY <1>1, <1>2
<1>4. PipeInv'
  BY <1>2, <1>3 DEF PipeInv, IsSend
<1>5. \A k \in 1 .. Len(pipe) : k \in 1 .. Len(pipe')
  BY <1>2
<1> QED BY <1>2, <1>3, <1>4, <1>5 DEF Queued, IsSend

(* A request without a message leaves the pipe.                            *)
LEMMA OtherTaken ==
    ASSUME PipeInv, pipe # << >>, pipe' = Tail(pipe), sent' = sent, ~IsSend(Head(pipe))
    PROVE  PipeInv' /\ \A m : Queued(m)' <=> Queued(m)
<1>1. /\ pipe' \in Seq(Requests) /\ Len(pipe') = Len(pipe) - 1 /\ Len(pipe) > 0
      /\ \A i \in 1 .. Len(pipe) - 1 : pipe'[i] = pipe[i + 1]
      /\ Head(pipe) = pipe[1] /\ Len(pipe) \in Nat
  BY PipeShrinks DEF PipeInv
<1>2. \A i \in 1 .. Len(pipe') : i + 1 \in 1 .. Len(pipe) /\ pipe'[i] = pipe[i + 1]
  BY <1>1
<1>3. PipeInv'
  BY <1>1, <1>2 DEF PipeInv, IsSend
<1>4. \A i \in 1 .. Len(pipe) : IsSend(pipe[i]) =>
         i - 1 \in 1 .. Len(pipe') /\ pipe'[i - 1] = pipe[i]
  BY <1>1
<1>5. ASSUME NEW m, Queued(m) PROVE Queued(m)'
  <2>1. PICK i \in 1 .. Len(pipe) : IsSend(pipe[i]) /\ pipe[i].m = m
    BY <1>5 DEF Queued
  <2> QED BY <1>4, <2>1 DEF Queued, IsSend
<1>6. ASSUME NEW m, Queued(m)' PROVE Queued(m)
  <2>1. PICK i \in 1 .. Len(pipe') : IsSend(pipe'[i]) /\ pipe'[i].m = m
    BY <1>6 DEF Queued, IsSend
  <2> QED BY <1>2, <2>1 DEF Queued
<1> QED BY <1>3, <1>5, <1>6

(* What a service waits in, and the count, hang on these alone.            *)
LEMMA SameCount ==
    ASSUME Inv, UNCHANGED <<sent, pc, req, lock, id, sending>>,
           \A m : Queued(m)' <=> Queued(m)
    PROVE  CallInv' /\ CountInv'
<1>1. CallInv'
  BY DEF Inv, CallInv
<1>2. \A m : Putting(m)' <=> Putting(m)
  BY DEF Putting
<1>3. Owed' = Owed
  BY <1>2 DEF Owed
<1> QED BY <1>1, <1>3 DEF Inv, CountInv

(* Steps that keep the sent messages.                                      *)
LEMMA SameSent ==
    ASSUME Inv, UNCHANGED <<used, sent>>
    PROVE  SentInv'
<1>1. \A m : Kin(m)' = Kin(m)
  BY DEF Kin
<1> QED BY <1>1 DEF Inv, SentInv

(* Steps that keep the socket and its lists.                               *)
LEMMA SameSlot ==
    ASSUME Inv, UNCHANGED <<used, id, started, sending, sent>>,
           type' \in {"INVALID", "PACCEPT", "CONNECTED", "HALFCLOSE"}
    PROVE  SlotInv' /\ SentInv'
BY SameSent DEF Inv, SlotInv

(* The empty list is a list of messages, of no length.                     *)
LEMMA EmptyLists ==
    /\ << >> \in Seq(Message) /\ Len(<< >>) = 0 /\ 0 % Size = 0
<1>1. 0 % Size = 0
  BY SocketAssumption
<1> QED BY <1>1

(* Whatever send_buffer leaves, raise_uncomplete has left the low list     *)
(* with whole messages.                                                    *)
LEMMA FlushesOK ==
    ASSUME ListInv, NEW o \in Flushes
    PROVE  {o.high, o.low} \subseteq Seq(Message) /\ Len(o.low) % Size = 0
<1>1. /\ First \in Seq(Message) /\ low \in Seq(Message)
      /\ Len(First) \in Nat /\ Len(low) \in Nat /\ Len(low) % Size = 0
  BY DEF ListInv, First
<1>2. ASSUME NEW n \in 0 .. Len(First) - 1,
             o = [out |-> Front(First, n), high |-> Rest(First, n), low |-> low]
      PROVE  {o.high, o.low} \subseteq Seq(Message) /\ Len(o.low) % Size = 0
  <2>1. Rest(First, n) \in Seq(Message)
    BY <1>1, FrontRest
  <2> QED BY <1>1, <1>2, <2>1
<1>3. ASSUME NEW n \in 0 .. Len(low),
             LET rest == Rest(low, n)  part == Len(rest) % Size IN
             o = [out |-> First \o Front(low, n), high |-> Front(rest, part),
                  low |-> Rest(rest, part)]
      PROVE  {o.high, o.low} \subseteq Seq(Message) /\ Len(o.low) % Size = 0
  <2>1. PICK rest \in Seq(Message) : rest = Rest(low, n)
    BY <1>1, FrontRest
  <2>2. PICK k \in Nat : k = Len(rest)
    OBVIOUS
  <2>3. PICK part \in 0 .. k : part = k % Size /\ (k - part) % Size = 0
    BY WholeMessages
  <2>4. o.high = Front(rest, part) /\ o.low = Rest(rest, part)
    BY <1>3, <2>1, <2>2, <2>3
  <2>5. /\ Front(rest, part) \in Seq(Message) /\ Rest(rest, part) \in Seq(Message)
        /\ Len(Rest(rest, part)) = k - part
    BY <2>2, <2>3, FrontRest
  <2> QED BY <2>3, <2>4, <2>5
<1> QED BY <1>2, <1>3 DEF Flushes

(* send_list leaves lists behind it that hold whole messages.              *)
LEMMA FlushedOK ==
    ASSUME ListInv, ~closing, NEW o \in Flushes, Flushed(o),
           type' \in {"CONNECTED", "HALFCLOSE"}
    PROVE  ListInv'
BY FlushesOK, EmptyLists DEF Flushed, ListInv

(* A closed slot holds nothing.                                            *)
LEMMA ClosedOK ==
    ASSUME ListInv, Closing \/ Shut, dw' \in {dw, << >>}
    PROVE  ListInv'
BY EmptyLists DEF Closing, Shut, ListInv

-----------------------------------------------------------------------------
(* The socket thread.                                                      *)

(* The steps of the socket thread.                                         *)
LEMMA AcceptStep == Inv /\ report_accept => Inv'
<1> SUFFICES ASSUME Inv, report_accept PROVE Inv'
  OBVIOUS
<1>1. /\ UNCHANGED <<high, low, wev, closing, thread, ops, started, asked, sent, wire, ended, torn>>
      /\ used' = used + 1 /\ id' = used + 1 /\ type' = "PACCEPT" /\ dw' = << >>
      /\ sending' = [tag |-> used + 1, n |-> 0]
  BY DEF report_accept, thread
<1>2. high = << >> /\ low = << >> /\ high \o low = << >>
  BY DEF report_accept, Inv, ListInv
<1>9. ~fault'
  BY <1>2 DEF report_accept, Inv
<1>3. used \in Nat /\ used' \in 0 .. MaxId
  BY SocketAssumption DEF report_accept, Inv, SlotInv
<1>4. SlotInv'
  BY <1>1, <1>3 DEF Inv, SlotInv
<1>5. ListInv'
  BY <1>1, <1>2, EmptyLists DEF Inv, ListInv
<1>6. SentInv'
  <2>1. \A m : Kin(m)' = Kin(m)
    BY <1>1 DEF Kin
  <2>2. 1 .. used \subseteq 1 .. used'
    BY <1>1, <1>3
  <2> QED BY <1>1, <2>1, <2>2 DEF Inv, SentInv
<1>7. CallInv' /\ PipeInv'
  BY <1>1 DEF Inv, CallInv, PipeInv, thread, ops, Queued
<1>8. CountInv'
  <2>1. \A m \in sent : m.to # id'
    BY <1>1, <1>3 DEF Inv, SentInv
  <2>2. Owed' = {}
    BY <1>1, <2>1 DEF Owed
  <2> QED BY <1>1, <2>2, FS_EmptySet DEF CountInv
<1> QED BY <1>4, <1>5, <1>6, <1>7, <1>8, <1>9 DEF Inv

LEMMA StartedStep == Inv /\ start_socket => Inv'
<1> SUFFICES ASSUME Inv, start_socket PROVE Inv'
  OBVIOUS
<1>1. /\ UNCHANGED <<id, high, low, dw, closing, sending, lock, pc, req, env, fault>>
      /\ type' = type \/ (type = "PACCEPT" /\ type' = "CONNECTED")
      /\ pipe # << >> /\ Head(pipe).cmd = "S" /\ pipe' = Tail(pipe)
  BY DEF start_socket, Unchanged_services, Request
<1>2. PipeInv' /\ \A m : Queued(m)' <=> Queued(m)
  BY <1>1, OtherTaken DEF env, Inv, IsSend
<1>3. SlotInv' /\ SentInv'
  BY <1>1, SameSlot DEF env, Inv, SlotInv
<1>4. ListInv'
  BY <1>1 DEF Inv, ListInv
<1>5. CallInv' /\ CountInv'
  BY <1>1, <1>2, SameCount DEF env
<1> QED BY <1>1, <1>2, <1>3, <1>4, <1>5 DEF Inv

LEMMA CloseStep == Inv /\ close_socket => Inv'
<1> SUFFICES ASSUME Inv, close_socket PROVE Inv'
  OBVIOUS
<1>1. /\ UNCHANGED <<id, sending, lock, pc, req, env, fault>>
      /\ pipe # << >> /\ Head(pipe).cmd \in {"K", "k"} /\ pipe' = Tail(pipe)
      /\ ~closing
  BY DEF close_socket, Unchanged_services, Request
<1>2. PipeInv' /\ \A m : Queued(m)' <=> Queued(m)
  BY <1>1, OtherTaken DEF env, Inv, IsSend
<1>3. \/ UNCHANGED <<type, high, low, dw, closing>>
      \/ (Closing \/ Shut) /\ dw' \in {dw, << >>}
      \/ type' = "HALFCLOSE" /\ UNCHANGED <<high, low, dw, closing>>
      \/ \E o \in Flushes : Flushed(o) /\ type' = "HALFCLOSE"
  BY DEF close_socket, Shut
<1>4. ListInv' /\ type' \in {"INVALID", "PACCEPT", "CONNECTED", "HALFCLOSE"}
  <2>1. CASE UNCHANGED <<type, high, low, dw, closing>>
    BY <2>1 DEF Inv, ListInv, SlotInv
  <2>2. CASE (Closing \/ Shut) /\ dw' \in {dw, << >>}
    BY <2>2, ClosedOK DEF Inv, SlotInv, Closing, Shut
  <2>3. CASE type' = "HALFCLOSE" /\ UNCHANGED <<high, low, dw, closing>>
    BY <1>1, <2>3 DEF Inv, ListInv
  <2>4. CASE \E o \in Flushes : Flushed(o) /\ type' = "HALFCLOSE"
    BY <1>1, <2>4, FlushedOK DEF Inv
  <2> QED BY <1>3, <2>1, <2>2, <2>3, <2>4
<1>5. SlotInv' /\ SentInv'
  BY <1>1, <1>4, SameSlot DEF env
<1>6. CallInv' /\ CountInv'
  BY <1>1, <1>2, SameCount DEF env
<1> QED BY <1>1, <1>2, <1>4, <1>5, <1>6 DEF Inv

LEMMA FlushStep == Inv /\ (send_buffer \/ Gone \/ FinishClose) => Inv'
<1> SUFFICES ASSUME Inv, send_buffer \/ Gone \/ FinishClose PROVE Inv'
  OBVIOUS
<1>1. UNCHANGED <<id, sending, pipe, lock, pc, req, env, fault>>
  BY DEF send_buffer, Gone, FinishClose, Unchanged_services
<1>2. ListInv' /\ type' \in {"INVALID", "PACCEPT", "CONNECTED", "HALFCLOSE"}
  <2>1. CASE send_buffer
    <3>1. ~closing /\ type \in {"CONNECTED", "HALFCLOSE"}
          /\ (Shut \/ \E o \in Flushes : Flushed(o) /\ UNCHANGED type)
      BY <2>1 DEF send_buffer, Open
    <3>2. CASE Shut
      BY <3>2, ClosedOK DEF Inv, Shut
    <3>3. CASE \E o \in Flushes : Flushed(o) /\ UNCHANGED type
      BY <3>1, <3>3, FlushedOK DEF Inv
    <3> QED BY <3>1, <3>2, <3>3
  <2>2. CASE Gone
    BY <2>2, ClosedOK DEF Gone, Inv, SlotInv, Closing
  <2>3. CASE FinishClose
    <3>1. closing /\ type' = "INVALID" /\ dw' = << >> /\ UNCHANGED <<high, low>>
      BY <2>3 DEF FinishClose
    <3> QED BY <3>1, EmptyLists DEF Inv, ListInv
  <2> QED BY <2>1, <2>2, <2>3
<1>3. SlotInv' /\ SentInv'
  BY <1>1, <1>2, SameSlot DEF env
<1>4. PipeInv' /\ \A m : Queued(m)' <=> Queued(m)
  BY <1>1 DEF Inv, PipeInv, Queued, env
<1>5. CallInv' /\ CountInv'
  BY <1>1, <1>4, SameCount DEF env
<1> QED BY <1>1, <1>2, <1>3, <1>4, <1>5 DEF Inv

(* send_socket takes a message out of the pipe, and out of the count if it *)
(* is for the socket that has the slot now.                                *)
LEMMA SendStep == Inv /\ send_socket => Inv'
<1> SUFFICES ASSUME Inv, send_socket PROVE Inv'
  OBVIOUS
<1> DEFINE r == Head(pipe)
           m == Head(pipe).m
<1>1. /\ UNCHANGED <<type, id, dw, closing, lock, pc, req, env>>
      /\ pipe # << >> /\ IsSend(r) /\ pipe' = Tail(pipe) /\ ~closing
      /\ dec_sending_ref(r.id)
      /\ (id = r.id /\ type = "CONNECTED" /\ Accepted(m)) \/ UNCHANGED <<high, low>>
  BY DEF send_socket, Unchanged_services, Request, IsSend
<1>2. /\ pipe' \in Seq(Requests) /\ Len(pipe') = Len(pipe) - 1 /\ Len(pipe) \in Nat \ {0}
      /\ \A i \in 1 .. Len(pipe) - 1 : pipe'[i] = pipe[i + 1]
      /\ r = pipe[1]
  BY <1>1, PipeShrinks DEF Inv, PipeInv
<1>3. 1 \in 1 .. Len(pipe) /\ IsSend(pipe[1]) /\ pipe[1].m = m
  BY <1>1, <1>2
<1>4. m \in sent /\ r.id = m.to /\ m \in Message /\ Queued(m)
  BY <1>2, <1>3 DEF Inv, PipeInv, SentInv, Queued
<1> HIDE DEF r, m
<1>5. \A i \in 1 .. Len(pipe') : i + 1 \in 1 .. Len(pipe) /\ i + 1 # 1 /\ pipe'[i] = pipe[i + 1]
  BY <1>2
<1>6. PipeInv'
  BY <1>1, <1>2, <1>5 DEF Inv, PipeInv, IsSend, env
<1>7. \A x : Queued(x)' <=> Queued(x) /\ x # m
  <2>1. ASSUME NEW x, Queued(x)' PROVE Queued(x) /\ x # m
    <3>1. PICK i \in 1 .. Len(pipe') : IsSend(pipe'[i]) /\ pipe'[i].m = x
      BY <2>1 DEF Queued, IsSend
    <3>2. i + 1 \in 1 .. Len(pipe) /\ i + 1 # 1 /\ IsSend(pipe[i + 1]) /\ pipe[i + 1].m = x
      BY <1>5, <3>1
    <3>3. x # m
      BY <1>3, <3>2 DEF Inv, PipeInv
    <3> QED BY <3>2, <3>3 DEF Queued
  <2>2. ASSUME NEW x, Queued(x), x # m PROVE Queued(x)'
    <3>1. PICK i \in 1 .. Len(pipe) : IsSend(pipe[i]) /\ pipe[i].m = x
      BY <2>2 DEF Queued
    <3>2. i # 1 /\ i - 1 \in 1 .. Len(pipe') /\ pipe'[i - 1] = pipe[i]
      BY <1>2, <1>3, <2>2, <3>1
    <3> QED BY <3>1, <3>2 DEF Queued, IsSend
  <2> QED BY <2>1, <2>2
<1>8. ListInv'
  <2>1. CASE UNCHANGED <<high, low>>
    BY <1>1, <2>1 DEF Inv, ListInv
  <2>2. CASE type = "CONNECTED" /\ Accepted(m)
    <3>1. PICK b \in Seq(Message) : b = Bytes(m) /\ Len(b) = Size
      BY <1>4, BytesOK
    <3>2. (high' = high \o b /\ low' = low) \/ (low' = low \o b /\ high' = high)
      BY <2>2, <3>1 DEF Accepted
    <3>3. PICK k \in Nat : k = Len(low)
      BY DEF Inv, ListInv
    <3>4. k % Size = 0 /\ (k + Size) % Size = 0
      BY <3>3, WholeMessages DEF Inv, ListInv
    <3>5. high \in Seq(Message) /\ low \in Seq(Message) /\ dw \in Seq(Message)
      BY DEF Inv, ListInv
    <3>6. high' \in Seq(Message) /\ low' \in Seq(Message) /\ Len(low') \in {k, k + Size}
      <4>1. CASE high' = high \o b /\ low' = low
        BY <3>1, <3>3, <3>5, <4>1
      <4>2. CASE low' = low \o b /\ high' = high
        <5>1. Len(low \o b) = Len(low) + Len(b) /\ low \o b \in Seq(Message)
          BY <3>1, <3>5
        <5> QED BY <3>1, <3>3, <3>5, <4>2, <5>1
      <4> QED BY <3>2, <4>1, <4>2
    <3>7. Len(low') % Size = 0
      BY <3>4, <3>6
    <3> QED BY <1>1, <2>2, <3>5, <3>6, <3>7 DEF ListInv
  <2> QED BY <1>1, <2>1, <2>2
<1>9. CallInv'
  BY <1>1, <1>7 DEF Inv, CallInv, env
<1>10. ~Putting(m)
  BY <1>4 DEF Inv, CallInv, Putting
<1>11. \A x : Putting(x)' <=> Putting(x)
  BY <1>1 DEF Putting
<1>12. IsFiniteSet(Owed)
  BY FS_Subset DEF Inv, SentInv, Owed
<1>13. CASE m.to = id
  <2>1. m \in Owed /\ Owed' = Owed \ {m}
    BY <1>1, <1>4, <1>7, <1>10, <1>11, <1>13 DEF Owed, env
  <2>2. Cardinality(Owed') = Cardinality(Owed) - 1 /\ Cardinality(Owed) # 0
        /\ Cardinality(Owed) \in Nat
    BY <1>12, <2>1, FS_RemoveElement, FS_EmptySet, FS_CardinalityType
  <2>3. sending' = [sending EXCEPT !.n = @ - 1] /\ fault' = (fault \/ sending.n = 0)
    BY <1>1, <1>4, <1>13 DEF dec_sending_ref
  <2>4. sending.n # 0 /\ sending.n \in Nat
    BY <2>2 DEF Inv, CountInv
  <2>5. ~fault'
    BY <2>3, <2>4 DEF Inv
  <2>6. sending'.n = sending.n - 1 /\ sending' \in [tag : Nat, n : Nat] /\ sending'.tag = id
    BY <2>3, <2>4 DEF Inv, SlotInv
  <2>7. CountInv'
    BY <2>2, <2>6 DEF Inv, CountInv
  <2>8. SlotInv' /\ SentInv'
    BY <1>1, <2>6 DEF Inv, SlotInv, SentInv, Kin, env
  <2> QED BY <1>6, <1>8, <1>9, <2>5, <2>7, <2>8 DEF Inv
<1>14. CASE m.to # id
  <2>1. Owed' = Owed
    BY <1>1, <1>7, <1>11, <1>14 DEF Owed, env
  <2>2. UNCHANGED <<sending, fault>>
    BY <1>1, <1>4, <1>14 DEF dec_sending_ref
  <2>3. CountInv' /\ SlotInv' /\ SentInv'
    BY <1>1, <2>1, <2>2 DEF Inv, CountInv, SlotInv, SentInv, Kin, env
  <2> QED BY <1>6, <1>8, <1>9, <2>2, <2>3 DEF Inv
<1> QED BY <1>13, <1>14

-----------------------------------------------------------------------------
(* The services.                                                           *)

(* The steps of the services.                                              *)
LEMMA RequestStep ==
    ASSUME Inv, NEW i \in 1 .. used, Start(i) \/ \E cmd \in {"K", "k"} : Close(i, cmd)
    PROVE  Inv'
<1>1. /\ UNCHANGED <<slot, thread, pc, req, used, sent, hist>>
      /\ started' \subseteq 1 .. used
      /\ \E cmd \in {"S", "K", "k"} : pipe' = Append(pipe, [cmd |-> cmd, id |-> i])
  BY DEF Start, Close, Inv, SlotInv
<1>2. i \in 1 .. MaxId
  BY SocketAssumption DEF Inv, SlotInv
<1>3. PipeInv' /\ \A m : Queued(m)' <=> Queued(m)
  BY <1>1, <1>2, OtherRequest DEF Inv
<1>4. CallInv' /\ CountInv'
  BY <1>1, <1>3, SameCount DEF slot, thread
<1>5. SentInv'
  BY <1>1, SameSent
<1>6. SlotInv' /\ ListInv' /\ ~fault'
  BY <1>1 DEF Inv, SlotInv, ListInv, slot, thread, hist
<1> QED BY <1>3, <1>4, <1>5, <1>6 DEF Inv

(* A message that is sent is new: its place is behind all its kin.         *)
LEMMA SendCallStep ==
    ASSUME Inv, NEW w \in Service, NEW i \in started, NEW prio \in {"D", "P"},
           Send(w, i, prio)
    PROVE  Inv'
<1> DEFINE earlier == {x \in sent : x.from = w /\ x.to = i /\ x.prio = prio}
<1>1. PICK m : m = [from |-> w, to |-> i, prio |-> prio, n |-> Cardinality(earlier)]
  OBVIOUS
<1>2. /\ pc[w] = "idle" /\ Cardinality(sent) < MaxSend /\ sent' = sent \cup {m}
      /\ UNCHANGED <<slot, thread, pipe, used, started, asked, hist>>
      /\ \/ UNCHANGED <<pc, req>>
         \/ /\ req' = [req EXCEPT ![w] = m]
            /\ \E l \in {"try", "count"} : pc' = [pc EXCEPT ![w] = l]
  BY <1>1 DEF Send, Goto
<1>3. IsFiniteSet(sent) /\ IsFiniteSet(earlier) /\ Cardinality(earlier) \in Nat
      /\ Cardinality(sent) \in Nat
  BY FS_Subset, FS_CardinalityType DEF Inv, SentInv
<1> HIDE DEF earlier
<1>4. i \in 1 .. used /\ i \in 1 .. MaxId /\ used \in Nat
  BY SocketAssumption DEF Inv, SlotInv
<1>5. m \in Message /\ m.from = w /\ m.to = i /\ m.prio = prio /\ m.n = Cardinality(earlier)
  BY <1>1, <1>3, <1>4 DEF Message
<1>6. m \notin sent
  <2>1. SUFFICES ASSUME m \in sent PROVE FALSE
    OBVIOUS
  <2>2. Kin(m) = earlier
    BY <1>5 DEF Kin, earlier
  <2> QED BY <1>3, <1>5, <2>1, <2>2 DEF Inv, SentInv
<1>7. IsFiniteSet(sent') /\ Cardinality(sent') = Cardinality(sent) + 1
  BY <1>2, <1>3, <1>6, FS_AddElement
<1>8. ASSUME NEW x \in sent PROVE x.n < Cardinality(Kin(x)')
  <2>1. IsFiniteSet(Kin(x)') /\ Kin(x) \subseteq Kin(x)'
    BY <1>2, <1>7, FS_Subset DEF Kin
  <2>2. Cardinality(Kin(x)) <= Cardinality(Kin(x)') /\ Cardinality(Kin(x)) \in Nat
        /\ Cardinality(Kin(x)') \in Nat
    BY <2>1, FS_Subset, FS_CardinalityType
  <2> QED BY <2>2 DEF Inv, SentInv, Message
<1>9. m.n < Cardinality(Kin(m)')
  <2>1. Kin(m)' = earlier \cup {m} /\ m \notin earlier
    BY <1>2, <1>5, <1>6 DEF Kin, earlier
  <2>2. Cardinality(earlier \cup {m}) = Cardinality(earlier) + 1
    BY <1>3, <2>1, FS_AddElement
  <2> QED BY <1>3, <1>5, <2>1, <2>2
<1>10. SentInv'
  <2>1. sent' \subseteq Message /\ Cardinality(sent') <= MaxSend
    BY <1>2, <1>3, <1>5, <1>7, SocketAssumption DEF Inv, SentInv
  <2>2. ASSUME NEW x \in sent' PROVE x.to \in 1 .. used' /\ x.n < Cardinality(Kin(x)')
    BY <1>2, <1>4, <1>5, <1>8, <1>9 DEF Inv, SentInv
  <2> QED BY <1>7, <2>1, <2>2 DEF SentInv
<1>11. PipeInv' /\ \A x : Queued(x)' <=> Queued(x)
  BY <1>2 DEF Inv, PipeInv, Queued
<1>12. ~Queued(m)
  BY <1>6 DEF Queued, Inv, PipeInv
<1>13. CallInv'
  <2>1. CASE UNCHANGED <<pc, req>>
    BY <1>2, <1>11, <2>1 DEF Inv, CallInv, thread
  <2>2. CASE /\ req' = [req EXCEPT ![w] = m]
             /\ \E l \in {"try", "count"} : pc' = [pc EXCEPT ![w] = l]
    BY <1>2, <1>5, <1>11, <1>12, <2>2 DEF Inv, CallInv, thread
  <2> QED BY <1>2, <2>1, <2>2
<1>14. \A x : Putting(x)' <=> Putting(x)
  <2>1. \A v \in Service : (pc'[v] = "put" <=> pc[v] = "put")
                            /\ (pc[v] = "put" => req'[v] = req[v])
    BY <1>2 DEF Inv, CallInv
  <2> QED BY <2>1 DEF Putting
<1>15. ~Putting(m)
  BY <1>6 DEF Putting, Inv, CallInv
<1>16. CountInv'
  <2>1. Owed' = Owed
    BY <1>2, <1>11, <1>12, <1>14, <1>15 DEF Owed, slot
  <2> QED BY <1>2, <2>1 DEF Inv, CountInv, slot
<1> QED BY <1>2, <1>10, <1>11, <1>13, <1>16 DEF Inv, SlotInv, ListInv, slot, thread, hist

(* The direct write and the ways to it leave pipe and count alone.         *)
LEMMA DirectStep ==
    ASSUME Inv, NEW w \in Service, TryDirect(w) \/ Recheck(w) \/ Write(w)
    PROVE  Inv'
<1>1. /\ UNCHANGED <<type, id, high, low, sending, closing, pipe, env, fault>>
      /\ \A v \in Service \ {w} : pc'[v] = pc[v] /\ req'[v] = req[v]
      /\ pc[w] \in {"try", "locked", "write"}
      /\ pc'[w] \in {"locked", "count", "write", "idle"}
      /\ pc'[w] # "idle" => req'[w] = req[w]
      /\ pc' \in [Service -> {"idle", "try", "locked", "write", "count", "put"}]
      /\ req' \in [Service -> Message \cup {None}]
      /\ lock' \in Service \cup {None}
      /\ (lock' = w <=> pc'[w] \in {"locked", "write"})
      /\ \A v \in Service \ {w} : lock' = v <=> lock = v
  <2>1. CASE TryDirect(w)
    <3>1. /\ UNCHANGED <<type, id, high, low, sending, closing, pipe, env, fault, req>>
          /\ pc[w] = "try"
          /\ \/ lock = None /\ lock' = w /\ pc' = [pc EXCEPT ![w] = "locked"]
             \/ lock' = lock /\ pc' = [pc EXCEPT ![w] = "count"]
      BY <2>1 DEF TryDirect, Goto, slot, hist
    <3> QED BY <3>1, SocketAssumption DEF Inv, CallInv
  <2>2. CASE Recheck(w)
    <3>1. /\ UNCHANGED <<type, id, high, low, sending, closing, pipe, env, fault, req>>
          /\ pc[w] = "locked"
          /\ \/ lock' = lock /\ pc' = [pc EXCEPT ![w] = "write"]
             \/ lock' = None /\ pc' = [pc EXCEPT ![w] = "count"]
      BY <2>2 DEF Recheck, Goto, slot, hist
    <3> QED BY <3>1, SocketAssumption DEF Inv, CallInv
  <2>3. CASE Write(w)
    <3>1. /\ UNCHANGED <<type, id, high, low, sending, closing, pipe, env, fault>>
          /\ pc[w] = "write" /\ lock' = None
          /\ pc' = [pc EXCEPT ![w] = "idle"] /\ req' = [req EXCEPT ![w] = None]
      BY <2>3 DEF Write, Done, Goto
    <3> QED BY <3>1, SocketAssumption DEF Inv, CallInv
  <2> QED BY <2>1, <2>2, <2>3
<1>2. dw' \in Seq(Message)
  <2>1. CASE UNCHANGED dw
    BY <2>1 DEF Inv, ListInv
  <2>2. CASE Write(w)
    <3>1. req[w] \in Message
      BY <2>2 DEF Write, Inv, CallInv, SentInv
    <3>2. PICK n \in 0 .. Size : dw' = Rest(Bytes(req[w]), n)
      BY <2>2 DEF Write
    <3> QED BY <3>1, <3>2, BytesOK, FrontRest
  <2> QED BY <2>1, <2>2 DEF TryDirect, Recheck, slot
<1>3. PipeInv' /\ \A x : Queued(x)' <=> Queued(x)
  BY <1>1 DEF Inv, PipeInv, Queued, env
<1>4. CallInv'
  BY <1>1, <1>3 DEF Inv, CallInv, env
<1>5. \A x : Putting(x)' <=> Putting(x)
  BY <1>1 DEF Putting
<1>6. CountInv'
  <2>1. Owed' = Owed
    BY <1>1, <1>3, <1>5 DEF Owed, env
  <2> QED BY <1>1, <2>1 DEF Inv, CountInv
<1>7. SlotInv' /\ SentInv'
  BY <1>1, SameSlot DEF env, Inv, SlotInv
<1>8. ListInv' /\ ~fault'
  BY <1>1, <1>2 DEF Inv, ListInv
<1> QED BY <1>3, <1>4, <1>6, <1>7, <1>8 DEF Inv

(* inc_sending_ref counts a message that is not counted yet.               *)
LEMMA CountStep ==
    ASSUME Inv, NEW w \in Service, inc_sending_ref(w)
    PROVE  Inv'
<1> DEFINE m == req[w]
<1>1. /\ UNCHANGED <<type, id, high, low, dw, thread, pipe, req, env, fault>>
      /\ pc[w] = "count" /\ pc' = [pc EXCEPT ![w] = "put"]
      /\ sending' = IF sending.tag = m.to THEN [sending EXCEPT !.n = @ + 1] ELSE sending
  BY DEF inc_sending_ref, Goto, hist
<1>2. m \in sent /\ m.from = w /\ ~Queued(m)
  BY <1>1 DEF Inv, CallInv
<1>3. \A v \in Service : pc'[v] = IF v = w THEN "put" ELSE pc[v]
  BY <1>1 DEF Inv, CallInv
<1>4. ~Putting(m)
  BY <1>1, <1>2 DEF Putting, Inv, CallInv
<1>5. \A x : Putting(x)' <=> (Putting(x) \/ x = m)
  BY <1>1, <1>3 DEF Putting
<1> HIDE DEF m
<1>6. PipeInv' /\ \A x : Queued(x)' <=> Queued(x)
  BY <1>1 DEF Inv, PipeInv, Queued, env
<1>7. CallInv'
  BY <1>1, <1>3, <1>6 DEF Inv, CallInv, env, thread
<1>8. sending \in [tag : Nat, n : Nat] /\ sending.tag = id
  BY DEF Inv, SlotInv
<1>9. IsFiniteSet(Owed)
  BY FS_Subset DEF Inv, SentInv, Owed
<1>10. CountInv' /\ sending' \in [tag : Nat, n : Nat] /\ sending'.tag = id
  <2>1. CASE m.to = id
    <3>1. Owed' = Owed \cup {m} /\ m \notin Owed
      BY <1>1, <1>2, <1>4, <1>5, <1>6, <2>1 DEF Owed, env
    <3>2. Cardinality(Owed') = Cardinality(Owed) + 1
      BY <1>9, <3>1, FS_AddElement
    <3>3. sending' = [sending EXCEPT !.n = @ + 1]
      BY <1>1, <1>8, <2>1
    <3> QED BY <1>8, <3>2, <3>3 DEF Inv, CountInv
  <2>2. CASE m.to # id
    <3>1. Owed' = Owed
      BY <1>1, <1>5, <1>6, <2>2 DEF Owed, env
    <3> QED BY <1>1, <1>8, <2>2, <3>1 DEF Inv, CountInv
  <2> QED BY <2>1, <2>2
<1>11. SentInv'
  BY <1>1, SameSent DEF env
<1>12. SlotInv' /\ ListInv' /\ ~fault'
  BY <1>1, <1>10 DEF Inv, SlotInv, ListInv, env, thread
<1> QED BY <1>6, <1>7, <1>10, <1>11, <1>12 DEF Inv

(* send_request moves it into the pipe.                                    *)
LEMMA PutStep ==
    ASSUME Inv, NEW w \in Service, send_request(w)
    PROVE  Inv'
<1>1. PICK m : m = req[w]
  OBVIOUS
<1>2. PICK r : r = [cmd |-> m.prio, id |-> m.to, m |-> m]
  OBVIOUS
<1>3. /\ UNCHANGED <<slot, thread, env, hist>>
      /\ pc[w] = "put" /\ pc' = [pc EXCEPT ![w] = "idle"] /\ req' = [req EXCEPT ![w] = None]
      /\ pipe' = Append(pipe, r)
  BY <1>1, <1>2 DEF send_request, Done, Goto
<1>4. m \in sent /\ m.from = w /\ ~Queued(m) /\ m \in Message
  BY <1>1, <1>3 DEF Inv, CallInv, SentInv
<1>5. r \in Requests /\ IsSend(r) /\ r.m = m /\ r.id = m.to
  BY <1>2, <1>4 DEF Requests, SendRequest, IsSend, Message
<1>6. /\ pipe' \in Seq(Requests) /\ Len(pipe') = Len(pipe) + 1 /\ Len(pipe) \in Nat
      /\ \A i \in 1 .. Len(pipe) : pipe'[i] = pipe[i]
      /\ pipe'[Len(pipe) + 1] = r
  BY <1>3, <1>5, PipeGrows DEF Inv, PipeInv
<1>7. \A i \in 1 .. Len(pipe') : (i \in 1 .. Len(pipe) /\ pipe'[i] = pipe[i])
                                 \/ (i = Len(pipe) + 1 /\ pipe'[i] = r)
  BY <1>6
<1>8. \A i \in 1 .. Len(pipe) : IsSend(pipe[i]) => pipe[i].m # m
  BY <1>4 DEF Queued
<1>9. PipeInv'
  <2>1. \A i \in 1 .. Len(pipe') : IsSend(pipe'[i]) =>
           pipe'[i].m \in sent' /\ pipe'[i].id = pipe'[i].m.to
    BY <1>3, <1>4, <1>5, <1>7 DEF Inv, PipeInv, env
  <2>2. \A i, j \in 1 .. Len(pipe') :
           IsSend(pipe'[i]) /\ IsSend(pipe'[j]) /\ pipe'[i].m = pipe'[j].m => i = j
    BY <1>5, <1>7, <1>8 DEF Inv, PipeInv
  <2> QED BY <1>6, <2>1, <2>2 DEF PipeInv, IsSend
<1>10. \A x : Queued(x)' <=> (Queued(x) \/ x = m)
  <2>1. \A i \in 1 .. Len(pipe) : i \in 1 .. Len(pipe') /\ pipe'[i] = pipe[i]
    BY <1>6
  <2>2. Len(pipe) + 1 \in 1 .. Len(pipe')
    BY <1>6
  <2> QED BY <1>5, <1>6, <1>7, <2>1, <2>2 DEF Queued, IsSend
<1>11. \A v \in Service : /\ pc'[v] = IF v = w THEN "idle" ELSE pc[v]
                          /\ v # w => req'[v] = req[v]
  BY <1>3 DEF Inv, CallInv
<1>12. CallInv'
  <2>1. \A v \in Service : v # w /\ pc[v] # "idle" => req[v] # m
    BY <1>4 DEF Inv, CallInv
  <2>2. /\ pc' \in [Service -> {"idle", "try", "locked", "write", "count", "put"}]
        /\ req' \in [Service -> Message \cup {None}] /\ lock' = lock /\ sent' = sent
    BY <1>3 DEF Inv, CallInv, thread, env
  <2>3. lock # w
    BY <1>3 DEF Inv, CallInv
  <2> QED BY <1>10, <1>11, <2>1, <2>2, <2>3 DEF Inv, CallInv
<1>13. Putting(m) /\ \A x : Putting(x)' \/ x = m <=> Putting(x) \/ x = m
  BY <1>1, <1>3, <1>11 DEF Putting
<1>14. CountInv'
  <2>1. Owed' = Owed
    BY <1>3, <1>10, <1>13 DEF Owed, env, slot
  <2> QED BY <1>3, <2>1 DEF Inv, CountInv, slot
<1>15. SentInv'
  BY <1>3, SameSent DEF env
<1>16. SlotInv' /\ ListInv' /\ ~fault'
  BY <1>3 DEF Inv, SlotInv, ListInv, slot, thread, env, hist
<1> QED BY <1>9, <1>12, <1>14, <1>15, <1>16 DEF Inv

-----------------------------------------------------------------------------
(* The invariant is inductive.                                             *)
LEMMA InvInit == Init => Inv
<1> SUFFICES ASSUME Init PROVE Inv
  OBVIOUS
<1>1. SlotInv /\ ListInv /\ ~fault
  BY EmptyLists, SocketAssumption DEF Init, SlotInv, ListInv
<1>2. SentInv
  BY FS_EmptySet, SocketAssumption DEF Init, SentInv
<1>3. CallInv
  BY SocketAssumption DEF Init, CallInv
<1>4. PipeInv
  BY DEF Init, PipeInv
<1>5. CountInv
  BY FS_EmptySet DEF Init, CountInv, Owed
<1> QED BY <1>1, <1>2, <1>3, <1>4, <1>5 DEF Inv

LEMMA InvStep == Inv /\ [Next]_vars => Inv'
<1> SUFFICES ASSUME Inv, [Next]_vars PROVE Inv'
  OBVIOUS
<1>1. ASSUME NEW i \in 1 .. used, Start(i) \/ \E cmd \in {"K", "k"} : Close(i, cmd)
      PROVE  Inv'
  BY <1>1, RequestStep
<1>2. ASSUME NEW w \in Service, NEW i \in started, NEW prio \in {"D", "P"}, Send(w, i, prio)
      PROVE  Inv'
  BY <1>2, SendCallStep
<1>3. ASSUME NEW w \in Service, socket_server_send(w)
      PROVE  Inv'
  BY <1>3, DirectStep, CountStep, PutStep DEF socket_server_send
<1>4. CASE report_accept \/ ctrl_cmd \/ FinishClose \/ send_buffer \/ Gone
  BY <1>4, AcceptStep, StartedStep, SendStep, CloseStep, FlushStep DEF ctrl_cmd
<1>5. CASE UNCHANGED vars
  <2>1. UNCHANGED <<type, id, high, low, dw, sending, lock, closing, pipe, pc, req,
                    used, started, sent, fault>>
    BY <1>5 DEF vars, slot, thread, ops, env, hist
  <2>2. PipeInv' /\ \A x : Queued(x)' <=> Queued(x)
    BY <2>1 DEF Inv, PipeInv, Queued
  <2>3. CallInv' /\ CountInv'
    BY <2>1, <2>2, SameCount
  <2> QED BY <2>1, <2>2, <2>3 DEF Inv, SlotInv, ListInv, SentInv, Kin
<1>6. started \subseteq 1 .. used
  BY DEF Inv, SlotInv
<1> QED BY <1>1, <1>2, <1>3, <1>4, <1>5, <1>6 DEF Next

(* The assertions of new_fd, dec_sending_ref and raise_uncomplete hold for *)
(* any number of services, of sockets in the slot and of messages of any   *)
(* length: a send is counted from inc_sending_ref until the socket thread  *)
(* takes it from the pipe, and the count is never for an earlier id.       *)
THEOREM CountedSends == Spec => []AssertionsHold
<1>1. ASSUME Inv PROVE AssertionsHold
  <2>1. IsFiniteSet(sent) /\ Owed \subseteq sent /\ Cardinality(sent) <= MaxSend
    BY <1>1 DEF Inv, SentInv, Owed
  <2>2. Cardinality(Owed) <= Cardinality(sent) /\ Cardinality(Owed) \in Nat
        /\ Cardinality(sent) \in Nat
    BY <2>1, FS_Subset, FS_CardinalityType
  <2>3. sending.n \in 0 .. MaxSend
    BY <1>1, <2>1, <2>2, SocketAssumption DEF Inv, CountInv
  <2>4. TypeOK
    BY <1>1, <2>3 DEF TypeOK, Inv, SlotInv, CallInv
  <2> QED BY <1>1, <2>4 DEF AssertionsHold, Inv, ListInv
<1> QED BY <1>1, InvInit, InvStep, PTL DEF Spec

-----------------------------------------------------------------------------
(* The stream of a socket.                                                 *)

(* The message that byte b of a stream of whole messages belongs to, from 0. *)
Block(b) == (b - 1) \div Size
On(m, s) == \E b \in 1 .. Len(s) : s[b] = m
Akin(x, y) == x.from = y.from /\ x.to = y.to /\ x.prio = y.prio

(* s is a sequence of whole messages to i, maybe cut off, out of S; each   *)
(* comes once, and not before those that its service sent before it with   *)
(* the same priority.                                                      *)
Good(S, i, s) ==
    /\ s \in Seq(Message)
    /\ \A b \in 1 .. Len(s) : s[b] \in S /\ s[b].to = i
    /\ \A b, c \in 1 .. Len(s) : s[b] = s[c] <=> Block(b) = Block(c)
    /\ \A c \in 1 .. Len(s), y \in S :
         Akin(y, s[c]) /\ y.n < s[c].n => \E b \in 1 .. c - 1 : s[b] = y

(* A byte between two multiples of the size is of the message between.     *)
LEMMA BlockIs ==
    ASSUME NEW b \in Nat \ {0}
    PROVE  /\ Block(b) \in Nat
           /\ \A q \in Nat : b <= q * Size <=> Block(b) < q
           /\ Block(b + Size) = Block(b) + 1
<1>1. PICK k \in Nat \ {0} : k = Size
  BY SocketAssumption
<1>2. PICK d \in Int : d = (b - 1) \div k
  BY <1>1
<1>3. b - 1 >= k * d /\ b - 1 < k * d + k
  BY <1>1, <1>2
<1>4. d >= 0
  <2>1. CASE d <= -1
    <3>1. k * d <= -k
      BY <1>1, <2>1
    <3> QED BY <1>1, <1>3, <3>1
  <2> QED BY <2>1
<1>5. ASSUME NEW q \in Nat PROVE b <= q * k <=> d < q
  <2>1. CASE q <= d
    <3>1. q * k <= k * d
      BY <1>1, <2>1
    <3> QED BY <1>3, <2>1, <3>1
  <2>2. CASE q >= d + 1
    <3>1. q * k >= (d + 1) * k /\ (d + 1) * k = k * d + k
      BY <1>1, <2>2
    <3> QED BY <1>3, <2>2, <3>1
  <2> QED BY <2>1, <2>2
<1>6. (b + k - 1) \div k = d + 1
  <2>1. PICK e \in Int : e = (b + k - 1) \div k
    BY <1>1
  <2>2. b + k - 1 >= k * e /\ b + k - 1 < k * e + k
    BY <1>1, <2>1
  <2>3. k * (e - 1) = k * e - k
    BY <1>1
  <2>4. CASE e <= d
    <3>1. k * e <= k * d
      BY <1>1, <2>4
    <3> QED BY <1>1, <1>3, <2>2, <3>1
  <2>5. CASE e >= d + 2
    <3>1. k * (e - 1) >= k * (d + 1) /\ k * (d + 1) = k * d + k
      BY <1>1, <2>5
    <3> QED BY <1>1, <1>3, <2>2, <2>3, <3>1
  <2> QED BY <2>1, <2>4, <2>5
<1>7. Block(b) = d /\ Block(b + Size) = d + 1
  BY <1>1, <1>2, <1>6 DEF Block
<1> QED BY <1>1, <1>4, <1>5, <1>7

(* What a stream is cut down to is as good.                                *)
LEMMA Cat ==
    ASSUME NEW s \in Seq(Message), NEW t \in Seq(Message)
    PROVE  /\ s \o t \in Seq(Message) /\ Len(s \o t) = Len(s) + Len(t)
           /\ Len(s) \in Nat /\ Len(t) \in Nat
           /\ \A b \in 1 .. Len(s) : (s \o t)[b] = s[b]
           /\ \A b \in 1 .. Len(t) : (s \o t)[Len(s) + b] = t[b]
           /\ \A b \in 1 .. Len(s \o t) : b > Len(s) => b - Len(s) \in 1 .. Len(t)
                                                       /\ (s \o t)[b] = t[b - Len(s)]
  OBVIOUS

(* The bytes of a stream with v put into it.                               *)
LEMMA Inserted ==
    ASSUME NEW s \in Seq(Message), NEW v \in Seq(Message), NEW t \in Seq(Message)
    PROVE  /\ (s \o v) \o t \in Seq(Message)
           /\ Len(s) \in Nat /\ Len(v) \in Nat /\ Len(t) \in Nat
           /\ Len((s \o v) \o t) = Len(s) + Len(v) + Len(t) /\ Len(s \o t) = Len(s) + Len(t)
           /\ \A b \in 1 .. Len((s \o v) \o t) :
                /\ b <= Len(s) => ((s \o v) \o t)[b] = (s \o t)[b] /\ ((s \o v) \o t)[b] = s[b]
                /\ b > Len(s) /\ b <= Len(s) + Len(v) => ((s \o v) \o t)[b] = v[b - Len(s)]
                /\ b > Len(s) + Len(v) => ((s \o v) \o t)[b] = (s \o t)[b - Len(v)]
<1>1. PICK sv \in Seq(Message) : sv = s \o v
  BY Cat
<1>2. /\ Len(sv) = Len(s) + Len(v)
      /\ \A b \in 1 .. Len(s) : sv[b] = s[b]
      /\ \A b \in 1 .. Len(sv) : b > Len(s) => sv[b] = v[b - Len(s)]
  BY <1>1
<1>3. PICK r \in Seq(Message) : r = sv \o t
  BY Cat
<1>4. /\ Len(r) = Len(sv) + Len(t)
      /\ \A b \in 1 .. Len(sv) : r[b] = sv[b]
      /\ \A b \in 1 .. Len(r) : b > Len(sv) => r[b] = t[b - Len(sv)] /\ b - Len(sv) \in 1 .. Len(t)
  BY <1>3
<1>5. PICK u \in Seq(Message) : u = s \o t
  BY Cat
<1>6. /\ Len(u) = Len(s) + Len(t)
      /\ \A b \in 1 .. Len(s) : u[b] = s[b]
      /\ \A b \in 1 .. Len(t) : u[Len(s) + b] = t[b]
  BY <1>5
<1>7. Len(s) \in Nat /\ Len(v) \in Nat /\ Len(t) \in Nat
  OBVIOUS
<1>8. ASSUME NEW b \in 1 .. Len(r)
      PROVE  /\ b <= Len(s) => r[b] = u[b] /\ r[b] = s[b]
             /\ b > Len(s) /\ b <= Len(s) + Len(v) => r[b] = v[b - Len(s)]
             /\ b > Len(s) + Len(v) => r[b] = u[b - Len(v)]
  <2>1. b > Len(sv) => Len(s) + (b - Len(sv)) = b - Len(v)
    BY <1>2, <1>7
  <2>2. b > Len(sv) => r[b] = u[b - Len(v)]
    BY <1>4, <1>6, <2>1
  <2>3. b <= Len(sv) => r[b] = sv[b] /\ b \in 1 .. Len(sv)
    BY <1>2, <1>4, <1>7
  <2> QED BY <1>2, <1>6, <1>7, <2>2, <2>3
<1> QED BY <1>1, <1>2, <1>3, <1>4, <1>5, <1>6, <1>7, <1>8

(* A good stream can be cut off anywhere.                                  *)
LEMMA GoodPrefix ==
    ASSUME NEW S, NEW i, NEW s \in Seq(Message), NEW u \in Seq(Message),
           Good(S, i, u), Len(s) <= Len(u), \A b \in 1 .. Len(s) : s[b] = u[b]
    PROVE  Good(S, i, s)
<1>1. 1 .. Len(s) \subseteq 1 .. Len(u) /\ \A c \in 1 .. Len(s) : 1 .. c - 1 \subseteq 1 .. Len(s)
  OBVIOUS
<1>2. \A b, c \in 1 .. Len(s) : s[b] = s[c] <=> Block(b) = Block(c)
  BY <1>1 DEF Good
<1>3. ASSUME NEW c \in 1 .. Len(s), NEW y \in S, Akin(y, s[c]), y.n < s[c].n
      PROVE  \E b \in 1 .. c - 1 : s[b] = y
  <2>1. c \in 1 .. Len(u) /\ u[c] = s[c]
    BY <1>1
  <2>2. PICK b \in 1 .. c - 1 : u[b] = y
    BY <1>3, <2>1 DEF Good
  <2> QED BY <1>1, <2>2
<1> QED BY <1>1, <1>2, <1>3 DEF Good

(* A message that is not before any of its kin changes nothing.            *)
LEMMA GoodGrows ==
    ASSUME NEW S, NEW i, NEW s, Good(S, i, s), NEW m \in Message, S \subseteq Message,
           \A y \in S : Akin(m, y) => y.n <= m.n
    PROVE  Good(S \cup {m}, i, s)
<1>1. \A c \in 1 .. Len(s) : Akin(m, s[c]) => ~(m.n < s[c].n)
  BY DEF Good, Message
<1> QED BY <1>1 DEF Good

(* Which messages are on a stream with a block put into it.                *)
LEMMA OnInsert ==
    ASSUME NEW s \in Seq(Message), NEW t \in Seq(Message), NEW m \in Message, NEW y
    PROVE  On(y, (s \o Bytes(m)) \o t) <=> On(y, s \o t) \/ y = m
<1>1. PICK v \in Seq(Message) : v = Bytes(m) /\ Len(v) = Size /\ \A j \in 1 .. Size : v[j] = m
  BY BytesOK DEF Bytes
<1>2. PICK r \in Seq(Message), u \in Seq(Message) : r = (s \o v) \o t /\ u = s \o t
  BY Cat
<1>3. /\ Len(s) \in Nat /\ Len(t) \in Nat /\ Size \in Nat \ {0}
      /\ Len(r) = Len(s) + Size + Len(t) /\ Len(u) = Len(s) + Len(t)
  <2>1. Len((s \o v) \o t) = Len(s) + Len(v) + Len(t) /\ Len(s \o t) = Len(s) + Len(t)
    BY Inserted
  <2> QED BY <1>1, <1>2, <2>1, SocketAssumption
<1>4. ASSUME NEW b \in 1 .. Len(r)
      PROVE  /\ b <= Len(s) => r[b] = u[b]
             /\ b > Len(s) /\ b <= Len(s) + Size => r[b] = m
             /\ b > Len(s) + Size => r[b] = u[b - Size]
  <2>1. /\ b <= Len(s) => r[b] = u[b]
        /\ b > Len(s) /\ b <= Len(s) + Len(v) => r[b] = v[b - Len(s)]
        /\ b > Len(s) + Len(v) => r[b] = u[b - Len(v)]
    BY <1>2, Inserted
  <2> QED BY <1>1, <1>3, <2>1
<1>5. ASSUME NEW b \in 1 .. Len(r), r[b] = y, y # m PROVE \E c \in 1 .. Len(u) : u[c] = y
  <2>1. CASE b <= Len(s)
    <3>1. b \in 1 .. Len(u)
      BY <1>3, <2>1
    <3> QED BY <1>4, <1>5, <2>1, <3>1
  <2>2. CASE b > Len(s) + Size
    <3>1. b - Size \in 1 .. Len(u)
      BY <1>3, <2>2
    <3> QED BY <1>4, <1>5, <2>2, <3>1
  <2>4. ~(b > Len(s) /\ b <= Len(s) + Size)
    BY <1>4, <1>5
  <2>3. b <= Len(s) \/ b > Len(s) + Size
    BY <1>3, <2>4
  <2> QED BY <2>1, <2>2, <2>3
<1>6. ASSUME NEW b \in 1 .. Len(u), u[b] = y PROVE \E c \in 1 .. Len(r) : r[c] = y
  <2>1. CASE b <= Len(s)
    <3>1. b \in 1 .. Len(r)
      BY <1>3
    <3> QED BY <1>4, <1>6, <2>1, <3>1
  <2>2. CASE b > Len(s)
    <3>1. b + Size \in 1 .. Len(r) /\ b + Size > Len(s) + Size /\ (b + Size) - Size = b
      BY <1>3, <2>2
    <3>2. r[b + Size] = u[b]
      BY <1>4, <3>1
    <3> QED BY <1>6, <3>1, <3>2
  <2> QED BY <1>3, <2>1, <2>2
<1>7. Len(s) + 1 \in 1 .. Len(r) /\ r[Len(s) + 1] = m
  <2>1. /\ Len(s) + 1 \in 1 .. Len(r) /\ Len(s) + 1 > Len(s) /\ Len(s) + 1 <= Len(s) + Size
    BY <1>3
  <2> QED BY <1>4, <2>1
<1>8. On(y, r) <=> On(y, u) \/ y = m
  BY <1>5, <1>6, <1>7 DEF On
<1> QED BY <1>1, <1>2, <1>8, Zenon

(* A whole message m goes in behind whole messages: it is new, and all     *)
(* that its service sent before it are in front of that place.             *)
LEMMA GoodInsert ==
    ASSUME NEW S, NEW i, NEW s \in Seq(Message), NEW t \in Seq(Message), NEW m \in S,
           S \subseteq Message, m.to = i, Good(S, i, s \o t), Len(s) % Size = 0, ~On(m, s \o t),
           \A y \in S : Akin(y, m) /\ y.n < m.n => On(y, s)
    PROVE  Good(S, i, (s \o Bytes(m)) \o t)
<1>1. PICK k \in Nat \ {0} : k = Size
  BY SocketAssumption
<1>2. PICK q \in Int : Len(s) = q * k
  <2>1. PICK x \in Int : x = Len(s)
    OBVIOUS
  <2>2. x % k = 0
    BY <1>1, <2>1
  <2>3. PICK d \in Int, r \in 0 .. k - 1 : x = k * d + r /\ r = x % k
    BY Division
  <2>4. r = 0
    BY <2>2, <2>3, Zenon
  <2>6. x = k * d + r
    BY <2>3
  <2>5. x = d * k
    BY <2>4, <2>6
  <2> QED BY <2>1, <2>5
<1>3. q \in Nat
  <2>1. CASE q <= -1
    <3>1. q * k <= -k
      BY <1>1, <2>1
    <3> QED BY <1>1, <1>2, <3>1
  <2> QED BY <2>1
<1>4. PICK u \in Seq(Message) : u = s \o t
  BY Cat
<1>5. /\ m \in Message
      /\ \E v \in Seq(Message) : v = Bytes(m) /\ Len(v) = k /\ \A j \in 1 .. k : v[j] = m
  BY <1>1, BytesOK DEF Bytes
<1>18. PICK v \in Seq(Message) : v = Bytes(m) /\ Len(v) = k /\ \A j \in 1 .. k : v[j] = m
  BY <1>5
<1>19. PICK r \in Seq(Message) : r = (s \o v) \o t
  BY Cat
<1>6. PICK l \in Nat : l = Len(s)
  OBVIOUS
<1>7. Len(u) = l + Len(t) /\ Len(r) = l + k + Len(t) /\ Len(t) \in Nat
  <2>1. Len((s \o v) \o t) = Len(s) + Len(v) + Len(t) /\ Len(s \o t) = Len(s) + Len(t)
        /\ Len(t) \in Nat
    BY Inserted
  <2> QED BY <1>4, <1>6, <1>18, <1>19, <2>1, Zenon
<1>8. \A b \in 1 .. Len(r) :
         /\ b <= l => b \in 1 .. Len(u) /\ r[b] = u[b] /\ r[b] = s[b]
         /\ b > l /\ b <= l + k => r[b] = m
         /\ b > l + k => b - k \in 1 .. Len(u) /\ r[b] = u[b - k]
  <2> TAKE b \in 1 .. Len(r)
  <2>1. /\ b <= l => r[b] = u[b] /\ r[b] = s[b]
        /\ b > l /\ b <= l + k => r[b] = v[b - l]
        /\ b > l + k => r[b] = u[b - k]
    BY <1>4, <1>6, <1>18, <1>19, Inserted
  <2> QED BY <1>6, <1>7, <1>18, <2>1
<1>9. \A b \in 1 .. Len(u) :
         /\ b <= l => b \in 1 .. Len(r) /\ r[b] = u[b]
         /\ b > l => b + k \in 1 .. Len(r) /\ r[b + k] = u[b]
  <2> TAKE b \in 1 .. Len(u)
  <2>1. b > l => b + k \in 1 .. Len(r) /\ (b + k) - k = b /\ b + k > l + k
    BY <1>1, <1>6, <1>7
  <2>2. b <= l => b \in 1 .. Len(r)
    BY <1>1, <1>6, <1>7
  <2> QED BY <1>8, <2>1, <2>2
<1>10. \A b \in 1 .. Len(r) :
         /\ Block(b) \in Nat
         /\ b <= l => Block(b) < q
         /\ b > l /\ b <= l + k => Block(b) = q
         /\ b > l + k => Block(b) = Block(b - k) + 1 /\ Block(b - k) \in Nat /\ Block(b - k) >= q
  <2> SUFFICES ASSUME NEW b \in 1 .. Len(r)
               PROVE  /\ Block(b) \in Nat
                      /\ b <= l => Block(b) < q
                      /\ b > l /\ b <= l + k => Block(b) = q
                      /\ b > l + k => Block(b) = Block(b - k) + 1 /\ Block(b - k) \in Nat
                                      /\ Block(b - k) >= q
    OBVIOUS
  <2>1. q * k = l /\ (q + 1) * k = l + k /\ q + 1 \in Nat
    BY <1>1, <1>2, <1>3, <1>6
  <2>5. b \in Nat \ {0} /\ Block(b) \in Nat /\ \A n \in Nat : b <= n * Size <=> Block(b) < n
    BY <1>7, BlockIs
  <2>2. Block(b) \in Nat /\ (b <= l <=> Block(b) < q) /\ (b <= l + k <=> Block(b) < q + 1)
    BY <1>1, <1>3, <2>1, <2>5
  <2>3. ASSUME b > l + k PROVE b - k \in Nat \ {0} /\ b - k > l /\ (b - k) + k = b
    BY <1>1, <2>3
  <2>4. ASSUME b > l + k
        PROVE  Block(b) = Block(b - k) + 1 /\ Block(b - k) \in Nat /\ Block(b - k) >= q
    <3>1. PICK c \in Nat \ {0} : c = b - k
      BY <2>3, <2>4
    <3>2. Block(c) \in Nat /\ (c <= l <=> Block(c) < q) /\ Block(c + k) = Block(c) + 1
      BY <1>1, <1>3, <2>1, BlockIs
    <3> QED BY <1>3, <2>3, <2>4, <3>1, <3>2
  <2> QED BY <1>3, <2>2, <2>4
<1>11. \A b \in 1 .. Len(u) : u[b] # m
  BY <1>4 DEF On
<1>12. Good(S, i, u)
  BY <1>4
<1>14. \A b \in 1 .. Len(r) : r[b] \in S /\ r[b].to = i
  <2> TAKE b \in 1 .. Len(r)
  <2>1. b <= l \/ (b > l /\ b <= l + k) \/ b > l + k
    BY <1>1, <1>6
  <2>2. \A x \in 1 .. Len(u) : u[x] \in S /\ u[x].to = i
    BY <1>12 DEF Good
  <2> QED BY <1>8, <2>1, <2>2
<1>15. \A b, c \in 1 .. Len(r) : r[b] = r[c] <=> Block(b) = Block(c)
  <2> TAKE b, c \in 1 .. Len(r)
  <2>1. \A x, y \in 1 .. Len(u) : u[x] = u[y] <=> Block(x) = Block(y)
    BY <1>12 DEF Good
  <2>2. (b <= l \/ (b > l /\ b <= l + k) \/ b > l + k) /\ (c <= l \/ (c > l /\ c <= l + k) \/ c > l + k)
    BY <1>1, <1>6
  <2>3. \A x \in 1 .. Len(u) : x <= l => Block(x) \in Nat /\ Block(x) < q
    BY <1>6, <1>7, <1>9, <1>10
  <2>4. \A x \in 1 .. Len(r) :
           /\ x <= l => x \in 1 .. Len(u) /\ r[x] = u[x] /\ r[x] # m /\ Block(x) \in Nat /\ Block(x) < q
           /\ x > l /\ x <= l + k => r[x] = m /\ Block(x) = q
           /\ x > l + k => \E z \in 1 .. Len(u) :
                r[x] = u[z] /\ r[x] # m /\ Block(z) \in Nat /\ Block(x) = Block(z) + 1 /\ Block(z) >= q
    <3> TAKE x \in 1 .. Len(r)
    <3>1. ASSUME x > l + k
          PROVE  \E z \in 1 .. Len(u) :
                   r[x] = u[z] /\ r[x] # m /\ Block(z) \in Nat /\ Block(x) = Block(z) + 1 /\ Block(z) >= q
      <4>1. PICK z \in 1 .. Len(u) : z = x - k /\ r[x] = u[z]
        BY <1>8, <3>1
      <4> QED BY <1>10, <1>11, <3>1, <4>1
    <3> QED BY <1>8, <1>10, <1>11, <3>1
  <2>5. CASE b <= l
    <3>1. CASE c <= l
      BY <2>1, <2>4, <2>5, <3>1
    <3>2. CASE c > l /\ c <= l + k
      BY <1>3, <2>4, <2>5, <3>2
    <3>3. CASE c > l + k
      BY <1>3, <2>1, <2>4, <2>5, <3>3
    <3> QED BY <2>2, <3>1, <3>2, <3>3
  <2>6. CASE b > l /\ b <= l + k
    <3>1. CASE c <= l
      BY <1>3, <2>4, <2>6, <3>1
    <3>2. CASE c > l /\ c <= l + k
      BY <2>4, <2>6, <3>2
    <3>3. CASE c > l + k
      BY <1>3, <2>4, <2>6, <3>3
    <3> QED BY <2>2, <3>1, <3>2, <3>3
  <2>7. CASE b > l + k
    <3>1. CASE c <= l
      BY <1>3, <2>1, <2>4, <2>7, <3>1
    <3>2. CASE c > l /\ c <= l + k
      BY <1>3, <2>4, <2>7, <3>2
    <3>3. CASE c > l + k
      BY <2>1, <2>4, <2>7, <3>3
    <3> QED BY <2>2, <3>1, <3>2, <3>3
  <2> QED BY <2>2, <2>5, <2>6, <2>7
<1>16. \A c \in 1 .. Len(r), y \in S :
         Akin(y, r[c]) /\ y.n < r[c].n => \E b \in 1 .. c - 1 : r[b] = y
  <2> SUFFICES ASSUME NEW c \in 1 .. Len(r), NEW y \in S, Akin(y, r[c]), y.n < r[c].n
               PROVE  \E b \in 1 .. c - 1 : r[b] = y
    OBVIOUS
  <2>1. \A x \in 1 .. Len(u) : Akin(y, u[x]) /\ y.n < u[x].n => \E b \in 1 .. x - 1 : u[b] = y
    BY <1>12 DEF Good
  <2>2. CASE c <= l
    <3>1. PICK b \in 1 .. c - 1 : u[b] = y
      BY <1>8, <2>1, <2>2
    <3>2. b \in 1 .. Len(u) /\ b <= l
      BY <1>6, <1>7, <2>2
    <3> QED BY <1>9, <3>1, <3>2
  <2>3. CASE c > l /\ c <= l + k
    <3>1. On(y, s)
      BY <1>8, <2>3
    <3>2. PICK b \in 1 .. l : s[b] = y
      BY <1>6, <3>1 DEF On
    <3>3. b \in 1 .. Len(r) /\ b \in 1 .. c - 1 /\ b <= l
      BY <1>1, <1>6, <1>7, <2>3
    <3> QED BY <1>8, <3>2, <3>3
  <2>4. CASE c > l + k
    <3>1. c - k \in 1 .. Len(u) /\ r[c] = u[c - k]
      BY <1>8, <2>4
    <3>2. PICK b \in 1 .. (c - k) - 1 : u[b] = y
      BY <2>1, <3>1
    <3>3. b \in 1 .. Len(u)
      BY <3>1, <1>7
    <3>4. CASE b <= l
      BY <1>1, <1>9, <2>4, <3>2, <3>3, <3>4, <1>6
    <3>5. CASE b > l
      <4>1. b + k \in 1 .. c - 1 /\ r[b + k] = y
        BY <1>1, <1>9, <3>2, <3>3, <3>5
      <4> QED BY <4>1
    <3> QED BY <1>6, <3>4, <3>5
  <2> QED BY <1>1, <1>6, <2>2, <2>3, <2>4
<1>17. Good(S, i, r)
  BY <1>14, <1>15, <1>16 DEF Good
<1> QED BY <1>17, <1>18, <1>19

(* A message on its way to the socket thread or to the kernel.             *)
Calling(m) == \E w \in Service : pc[w] # "idle" /\ req[w] = m
Pending(m) == Queued(m) \/ Calling(m)

(* What the peer gets in the end, if nothing fails: what the kernel took,  *)
(* the rest of a direct write, and the two lists.                          *)
Stream == (wire[id] \o First) \o low

WireInv ==
    /\ wire \in [1 .. MaxId -> Seq(Message)] /\ torn \subseteq 1 .. used
    /\ \A i \in 1 .. MaxId : i > used => wire[i] = << >>
    /\ \A i \in (1 .. MaxId) \ torn : Good(sent, i, wire[i])
    /\ type # "INVALID" => id # 0 /\ (id \in torn => closing)

(* An open socket: its stream is good, the lists start with whole messages *)
(* behind the high one, and every message is on the stream or on its way,  *)
(* and not on both, unless a half closed socket dropped it.                *)
Live == type # "INVALID" /\ ~closing
StreamInv == Live =>
    /\ Good(sent, id, Stream)
    /\ Len(wire[id] \o First) % Size = 0
    /\ \A b \in 1 .. Len(low) : low[b].prio = "P"
    /\ \A y \in sent : On(y, Stream) => ~Pending(y)
    /\ type # "HALFCLOSE" => \A y \in sent : y.to = id => On(y, Stream) \/ Pending(y)

(* Who has the lock writes to this socket; who found it without data has   *)
(* all its earlier messages with the kernel.                               *)
LockInv == \A w \in Service :
    /\ pc[w] \in {"locked", "write"} => req[w].to = id /\ type \in {"CONNECTED", "HALFCLOSE"}
    /\ pc[w] = "write" /\ ~closing =>
         /\ dw = << >> /\ Len(wire[id]) % Size = 0
         /\ \A y \in sent : Akin(y, req[w]) /\ y # req[w] => On(y, wire[id])

(* Requests are in the order of the calls.                                 *)
OrderInv ==
    /\ \A i, j \in 1 .. Len(pipe) : i < j /\ IsSend(pipe[i]) /\ IsSend(pipe[j])
          /\ Akin(pipe[i].m, pipe[j].m) => pipe[i].m.n < pipe[j].m.n
    /\ \A w \in Service : pc[w] # "idle" =>
          \A z \in sent : Akin(z, req[w]) => z.n <= req[w].n

(* A socket is started before it is written to.                            *)
Starts(k) == pipe[k].cmd = "S" /\ pipe[k].id = id
StartInv ==
    /\ \A w \in Service : pc[w] # "idle" => req[w].to \in started
    /\ type = "PACCEPT" =>
         /\ id \in started => \E k \in 1 .. Len(pipe) : Starts(k)
         /\ \A j \in 1 .. Len(pipe) : IsSend(pipe[j]) /\ pipe[j].id = id =>
              \E k \in 1 .. j - 1 : Starts(k)

Flow == WireInv /\ StreamInv /\ LockInv /\ OrderInv /\ StartInv

(* Sums and differences of whole messages are whole messages.              *)
LEMMA Multiples ==
    ASSUME NEW a \in Int, NEW b \in Int, a % Size = 0, b % Size = 0
    PROVE  (a + b) % Size = 0 /\ (a - b) % Size = 0
<1>1. PICK k \in Nat \ {0} : k = Size
  BY SocketAssumption
<1>2. a % k = 0 /\ b % k = 0
  BY <1>1
<1>3. PICK d \in Int, r \in 0 .. k - 1 : a = k * d + r /\ r = a % k
  BY Division
<1>4. PICK e \in Int, t \in 0 .. k - 1 : b = k * e + t /\ t = b % k
  BY Division
<1>5. r = 0 /\ t = 0
  BY <1>2, <1>3, <1>4, Zenon
<1>6. a = k * d + r /\ b = k * e + t
  BY <1>3, <1>4
<1>7. a = k * d /\ b = k * e
  BY <1>5, <1>6
<1>8. PICK x \in Int, y \in Int : x = d + e /\ y = d - e
  OBVIOUS
<1>9. a + b = k * x /\ a - b = k * y
  BY <1>7, <1>8
<1>10. (k * x) % k = 0 /\ (k * y) % k = 0
  BY Multiple
<1> QED BY <1>1, <1>9, <1>10, Zenon

(* It does not matter which two of three pieces are put together first.    *)
Joins(s, t, u) == (s \o t) \o u = s \o (t \o u)

LEMMA Joined == \A s, t, u \in Seq(Message) : Joins(s, t, u)
BY ConcatAssociative DEF Joins

(* What waits behind a cut list, put together in the order it is sent in.  *)
LEMMA Regrouped ==
    ASSUME NEW w \in Seq(Message), NEW f \in Seq(Message), NEW x \in Seq(Message),
           NEW p \in Seq(Message), NEW q \in Seq(Message)
    PROVE  /\ ((w \o (f \o x)) \o p) \o q = (w \o f) \o (x \o (p \o q))
           /\ Len((w \o (f \o x)) \o p) = Len(w \o f) + (Len(x) + Len(p))
           /\ f \o x \in Seq(Message)
<1>1. Joins(w, f, x)
  BY Joined, Zenon
<1>2. PICK c \in Seq(Message) : c = w \o f
  BY Cat
<1>3. PICK g \in Seq(Message) : g = c \o x
  BY Cat
<1>4. Joins(g, p, q)
  BY Joined, Zenon
<1>5. PICK y \in Seq(Message) : y = p \o q
  BY Cat
<1>6. Joins(c, x, y)
  BY Joined, Zenon
<1>7. Len(g \o p) = Len(c) + (Len(x) + Len(p)) /\ f \o x \in Seq(Message)
  BY <1>3, Cat
<1> QED BY <1>1, <1>2, <1>3, <1>4, <1>5, <1>6, <1>7, Zenon DEF Joins

(* A list is the two parts that it is cut into.                            *)
LEMMA Pieces ==
    ASSUME NEW s \in Seq(Message), NEW n \in 0 .. Len(s)
    PROVE  /\ Front(s, n) \in Seq(Message) /\ Len(Front(s, n)) = n
           /\ Rest(s, n) \in Seq(Message) /\ Len(Rest(s, n)) = Len(s) - n
           /\ Front(s, n) \o Rest(s, n) = s
           /\ \A b \in 1 .. Len(s) - n : Rest(s, n)[b] = s[n + b]
<1>1. /\ Front(s, n) \in Seq(Message) /\ Len(Front(s, n)) = n
      /\ Rest(s, n) \in Seq(Message) /\ Len(Rest(s, n)) = Len(s) - n
  BY FrontRest
<1>2. \A b \in 1 .. n : Front(s, n)[b] = s[b]
  BY DEF Front
<1>3. \A b \in 1 .. Len(s) - n : Rest(s, n)[b] = s[n + b]
  BY DEF Rest
<1>4. PICK x \in Seq(Message), y \in Seq(Message) : x = Front(s, n) /\ y = Rest(s, n)
  BY <1>1
<1>5. PICK z \in Seq(Message) : z = x \o y
  BY Cat
<1>6. Len(z) = Len(s) /\ \A b \in 1 .. Len(s) : z[b] = s[b]
  <2>1. Len(x) = n /\ Len(y) = Len(s) - n /\ Len(s) \in Nat
    BY <1>1, <1>4
  <2>2. Len(z) = Len(s)
    <3>1. Len(z) = Len(x) + Len(y)
      BY <1>5, Cat, Zenon
    <3> QED BY <2>1, <3>1
  <2> SUFFICES ASSUME NEW b \in 1 .. Len(s) PROVE z[b] = s[b]
    BY <2>2
  <2>3. CASE b <= n
    <3>1. z[b] = x[b]
      BY <1>5, <2>1, <2>3, Cat
    <3> QED BY <1>2, <1>4, <2>3, <3>1
  <2>4. CASE b > n
    <3>1. PICK c \in 1 .. Len(s) - n : b = n + c
      BY <2>4
    <3>2. z[b] = y[c]
      BY <1>5, <2>1, <3>1, Cat
    <3> QED BY <1>3, <1>4, <3>1, <3>2
  <2> QED BY <2>3, <2>4
<1>7. z = s
  BY <1>6, SeqEqual
<1> QED BY <1>1, <1>3, <1>4, <1>5, <1>7

(* The front of a good stream is good.                                     *)
LEMMA GoodFront ==
    ASSUME NEW S, NEW i, NEW s \in Seq(Message), NEW t \in Seq(Message), Good(S, i, s \o t)
    PROVE  Good(S, i, s)
<1>1. PICK u \in Seq(Message) : u = s \o t
  BY Cat
<1>2. Len(s) <= Len(u) /\ \A b \in 1 .. Len(s) : s[b] = u[b]
  BY <1>1
<1> QED BY <1>1, <1>2, GoodPrefix

(* What send_buffer gives to the kernel comes off the front of the stream. *)
LEMMA FlushKeeps ==
    ASSUME Inv, WireInv, StreamInv, Live, NEW o \in Flushes
    PROVE  /\ wire[id] \o o.out \in Seq(Message) /\ Good(sent, id, wire[id] \o o.out)
           /\ {o.high, o.low} \subseteq Seq(Message)
           /\ ((wire[id] \o o.out) \o o.high) \o o.low = Stream
           /\ Len((wire[id] \o o.out) \o o.high) % Size = 0
           /\ \A b \in 1 .. Len(o.low) : o.low[b].prio = "P"
<1>1. id \in 1 .. MaxId /\ wire[id] \in Seq(Message)
  BY SocketAssumption DEF Inv, SlotInv, WireInv, Live
<1>2. PICK w \in Seq(Message) : w = wire[id]
  BY <1>1
<1>3. PICK f \in Seq(Message) : f = First
  <2>1. dw \in Seq(Message) /\ high \in Seq(Message)
    BY DEF Inv, ListInv
  <2> QED BY <2>1, Cat DEF First
<1>11. \A x, p, q \in Seq(Message) :
          /\ ((w \o (f \o x)) \o p) \o q = (w \o f) \o (x \o (p \o q))
          /\ Len((w \o (f \o x)) \o p) = Len(w \o f) + (Len(x) + Len(p))
          /\ f \o x \in Seq(Message)
  BY <1>2, <1>3, Regrouped
<1>4. low \in Seq(Message) /\ Len(low) % Size = 0
  BY DEF Inv, ListInv
<1>5. Good(sent, id, (w \o f) \o low) /\ Len(w \o f) % Size = 0 /\ Stream = (w \o f) \o low
      /\ \A b \in 1 .. Len(low) : low[b].prio = "P"
  BY <1>2, <1>3 DEF StreamInv, Stream
<1>6. ASSUME NEW n \in 0 .. Len(f) - 1,
             o = [out |-> Front(f, n), high |-> Rest(f, n), low |-> low]
      PROVE  /\ o.out \in Seq(Message) /\ o.high \in Seq(Message) /\ o.low \in Seq(Message)
             /\ ((w \o o.out) \o o.high) \o o.low = (w \o f) \o low
             /\ Len((w \o o.out) \o o.high) % Size = 0
             /\ \A b \in 1 .. Len(o.low) : o.low[b].prio = "P"
  <2>1. PICK x \in Seq(Message), y \in Seq(Message) :
           x = Front(f, n) /\ y = Rest(f, n) /\ x \o y = f
    <3>1. n \in 0 .. Len(f)
      OBVIOUS
    <3> QED BY <3>1, Pieces
  <2>2. o.out = x /\ o.high = y /\ o.low = low
    BY <1>6, <2>1
  <2>3. Joins(w, x, y)
    BY Joined, Zenon
  <2>4. (w \o x) \o y = w \o f
    BY <2>1, <2>3 DEF Joins
  <2> QED BY <1>4, <1>5, <2>2, <2>4
<1>7. ASSUME NEW n \in 0 .. Len(low),
             LET rest == Rest(low, n)  part == Len(rest) % Size IN
             o = [out |-> f \o Front(low, n), high |-> Front(rest, part),
                  low |-> Rest(rest, part)]
      PROVE  /\ o.out \in Seq(Message) /\ o.high \in Seq(Message) /\ o.low \in Seq(Message)
             /\ ((w \o o.out) \o o.high) \o o.low = (w \o f) \o low
             /\ Len((w \o o.out) \o o.high) % Size = 0
             /\ \A b \in 1 .. Len(o.low) : o.low[b].prio = "P"
  <2>1. PICK x \in Seq(Message), y \in Seq(Message) :
           /\ x = Front(low, n) /\ y = Rest(low, n) /\ x \o y = low
           /\ Len(x) = n /\ Len(y) = Len(low) - n
           /\ \A b \in 1 .. Len(low) - n : y[b] = low[n + b]
    BY <1>4, Pieces
  <2>2. PICK k \in Nat : k = Len(y)
    OBVIOUS
  <2>3. PICK part \in 0 .. k : part = k % Size /\ (k - part) % Size = 0
    BY WholeMessages
  <2>4. PICK p \in Seq(Message), q \in Seq(Message) :
           /\ p = Front(y, part) /\ q = Rest(y, part) /\ p \o q = y
           /\ Len(p) = part /\ Len(q) = k - part
           /\ \A b \in 1 .. k - part : q[b] = y[part + b]
    <3>1. part \in 0 .. Len(y)
      BY <2>2
    <3>2. /\ Front(y, part) \in Seq(Message) /\ Len(Front(y, part)) = part
          /\ Rest(y, part) \in Seq(Message) /\ Len(Rest(y, part)) = Len(y) - part
          /\ Front(y, part) \o Rest(y, part) = y
          /\ \A b \in 1 .. Len(y) - part : Rest(y, part)[b] = y[part + b]
      BY <3>1, Pieces
    <3> QED BY <2>2, <3>2
  <2>5. o.out = f \o x /\ o.high = p /\ o.low = q
    BY <1>7, <2>1, <2>2, <2>3, <2>4
  <2>6. /\ ((w \o (f \o x)) \o p) \o q = (w \o f) \o (x \o (p \o q))
        /\ Len((w \o (f \o x)) \o p) = Len(w \o f) + (Len(x) + Len(p))
        /\ f \o x \in Seq(Message)
    BY <1>11
  <2>10. ((w \o o.out) \o o.high) \o o.low = (w \o f) \o low /\ o.out \in Seq(Message)
    BY <2>1, <2>4, <2>5, <2>6, Zenon
  <2>11. PICK h \in Int, a \in Int : h = Len(w \o f) /\ a = Len(low)
    <3>1. w \o f \in Seq(Message)
      BY Cat
    <3> QED BY <1>4, <3>1
  <2>12. Len((w \o o.out) \o o.high) = h + (a - (k - part))
    <3>1. Len(x) + Len(p) = a - (k - part)
      BY <1>4, <2>1, <2>2, <2>4, <2>11
    <3> QED BY <2>5, <2>6, <2>11, <3>1, Zenon
  <2>13. h % Size = 0 /\ a % Size = 0 /\ k - part \in Int
    BY <1>4, <1>5, <2>11
  <2>14. PICK e \in Int : e = k - part /\ e % Size = 0
    BY <2>3
  <2>15. (a - e) % Size = 0 /\ a - e \in Int
    BY <2>13, <2>14, Multiples
  <2>16. (h + (a - e)) % Size = 0
    BY <2>13, <2>15, Multiples
  <2>17. Len((w \o o.out) \o o.high) % Size = 0
    BY <2>12, <2>14, <2>16, Zenon
  <2>18. ASSUME NEW b \in 1 .. Len(q) PROVE q[b].prio = "P"
    <3>1. part + b \in 1 .. Len(low) - n /\ n + (part + b) \in 1 .. Len(low)
      BY <2>1, <2>2, <2>4
    <3>2. q[b] = low[n + (part + b)]
      BY <2>1, <2>4, <3>1
    <3> QED BY <1>5, <3>1, <3>2
  <2> QED BY <2>5, <2>10, <2>17, <2>18
<1>8. /\ o.out \in Seq(Message) /\ o.high \in Seq(Message) /\ o.low \in Seq(Message)
      /\ ((w \o o.out) \o o.high) \o o.low = (w \o f) \o low
      /\ Len((w \o o.out) \o o.high) % Size = 0
      /\ \A b \in 1 .. Len(o.low) : o.low[b].prio = "P"
  BY <1>3, <1>6, <1>7 DEF Flushes
<1>9. Good(sent, id, w \o o.out)
  <2>1. PICK a \in Seq(Message) : a = w \o o.out
    BY <1>8, Cat
  <2>2. PICK b \in Seq(Message) : b = a \o o.high
    BY <1>8, Cat
  <2>3. Good(sent, id, b)
    BY <1>5, <1>8, <2>1, <2>2, GoodFront
  <2>4. Good(sent, id, a)
    BY <1>8, <2>2, <2>3, GoodFront
  <2> QED BY <2>1, <2>4
<1>10. w \o o.out \in Seq(Message)
  BY <1>8, Cat
<1> QED BY <1>2, <1>5, <1>8, <1>9, <1>10

-----------------------------------------------------------------------------
(* Steps that leave a part of Flow alone.                                  *)

(* What the kernel took, when no byte goes out.                            *)
LEMMA WireSame ==
    ASSUME WireInv, UNCHANGED <<id, wire, sent, used, torn>>,
           type' # "INVALID" => type # "INVALID" /\ (closing => closing')
    PROVE  WireInv'
BY DEF WireInv

(* The stream, when nothing is put on it.                                  *)
LEMMA StreamSame ==
    ASSUME StreamInv, UNCHANGED <<id, high, low, dw, wire, sent>>,
           Live' => Live /\ (type' # "HALFCLOSE" => type # "HALFCLOSE"),
           \A y \in sent : Pending(y)' => Pending(y),
           type' # "HALFCLOSE" => \A y \in sent : y.to = id /\ Pending(y) => Pending(y)'
    PROVE  StreamInv'
<1> SUFFICES ASSUME Live' PROVE StreamInv'
  BY DEF StreamInv
<1>1. Stream' = Stream /\ First' = First
  BY DEF Stream, First
<1> QED BY <1>1 DEF StreamInv

(* Who holds the lock, when no call moves.                                 *)
LEMMA LockSame ==
    ASSUME LockInv, UNCHANGED <<pc, req, sent, id>>,
           \A w \in Service : pc[w] \in {"locked", "write"} =>
              UNCHANGED <<wire, dw>> /\ type' \in {type, "HALFCLOSE"} /\ (closing => closing')
    PROVE  LockInv'
<1> SUFFICES ASSUME NEW w \in Service, pc[w] \in {"locked", "write"}
             PROVE  /\ req[w].to = id /\ type' \in {"CONNECTED", "HALFCLOSE"}
                    /\ pc[w] = "write" /\ ~closing' =>
                         /\ dw' = << >> /\ Len(wire'[id]) % Size = 0
                         /\ \A y \in sent : Akin(y, req[w]) /\ y # req[w] => On(y, wire'[id])
  BY DEF LockInv
<1> QED BY DEF LockInv

(* The order of the requests: the pipe stays as it is.                     *)
LEMMA OrderSame ==
    ASSUME OrderInv, UNCHANGED <<pc, req, sent, pipe>>
    PROVE  OrderInv'
BY DEF OrderInv, IsSend

(* The order of the requests: the first one is taken.                      *)
LEMMA OrderTail ==
    ASSUME PipeInv, OrderInv, UNCHANGED <<pc, req, sent>>, pipe # << >>, pipe' = Tail(pipe)
    PROVE  OrderInv'
<1>1. /\ Len(pipe') = Len(pipe) - 1 /\ Len(pipe) \in Nat
      /\ \A i \in 1 .. Len(pipe) - 1 : pipe'[i] = pipe[i + 1]
  BY PipeShrinks DEF PipeInv
<1>2. \A i \in 1 .. Len(pipe') : i + 1 \in 1 .. Len(pipe) /\ pipe'[i] = pipe[i + 1]
  BY <1>1
<1>3. \A i, j \in 1 .. Len(pipe') : i < j => i + 1 < j + 1
  BY <1>1
<1>4. \A i, j \in 1 .. Len(pipe') : i < j /\ IsSend(pipe'[i]) /\ IsSend(pipe'[j])
          /\ Akin(pipe'[i].m, pipe'[j].m) => pipe'[i].m.n < pipe'[j].m.n
  BY <1>2, <1>3 DEF OrderInv
<1> QED BY <1>4 DEF OrderInv, IsSend

(* The order of the requests: one without a message comes.                 *)
LEMMA OrderOther ==
    ASSUME PipeInv, OrderInv, UNCHANGED <<pc, req, sent>>, NEW r \in Requests, ~IsSend(r),
           pipe' = Append(pipe, r)
    PROVE  OrderInv'
<1>1. /\ Len(pipe') = Len(pipe) + 1 /\ Len(pipe) \in Nat
      /\ \A i \in 1 .. Len(pipe) : pipe'[i] = pipe[i]
      /\ pipe'[Len(pipe) + 1] = r
  BY PipeGrows DEF PipeInv
<1>2. \A i \in 1 .. Len(pipe') : IsSend(pipe'[i]) => i \in 1 .. Len(pipe) /\ pipe'[i] = pipe[i]
  BY <1>1
<1>3. \A i, j \in 1 .. Len(pipe') : i < j /\ IsSend(pipe'[i]) /\ IsSend(pipe'[j])
          /\ Akin(pipe'[i].m, pipe'[j].m) => pipe'[i].m.n < pipe'[j].m.n
  BY <1>2 DEF OrderInv
<1> QED BY <1>3 DEF OrderInv, IsSend

(* The start of a socket: the pipe stays as it is.                         *)
LEMMA StartSame ==
    ASSUME StartInv, UNCHANGED <<id, pc, req, started, pipe>>,
           type' = "PACCEPT" => type = "PACCEPT"
    PROVE  StartInv'
BY DEF StartInv, Starts, IsSend

(* The start of a socket: a request that does not start it is taken.       *)
LEMMA StartTail ==
    ASSUME PipeInv, StartInv, UNCHANGED <<id, pc, req, started>>, pipe # << >>, pipe' = Tail(pipe),
           type' = "PACCEPT" => type = "PACCEPT" /\ ~(Head(pipe).cmd = "S" /\ Head(pipe).id = id)
    PROVE  StartInv'
<1>1. /\ Len(pipe') = Len(pipe) - 1 /\ Len(pipe) \in Nat /\ Head(pipe) = pipe[1]
      /\ \A i \in 1 .. Len(pipe) - 1 : pipe'[i] = pipe[i + 1]
  BY PipeShrinks DEF PipeInv
<1>2. ASSUME type' = "PACCEPT", NEW k \in 1 .. Len(pipe), Starts(k)
      PROVE  k - 1 \in 1 .. Len(pipe') /\ pipe'[k - 1].cmd = "S" /\ pipe'[k - 1].id = id
  <2>1. k # 1
    BY <1>1, <1>2 DEF Starts
  <2>2. k - 1 \in 1 .. Len(pipe) - 1 /\ (k - 1) + 1 = k
    BY <1>1, <2>1
  <2>3. pipe'[k - 1] = pipe[k]
    BY <1>1, <2>2
  <2> QED BY <1>1, <1>2, <2>2, <2>3 DEF Starts
<1>3. ASSUME type' = "PACCEPT", id \in started
      PROVE  \E k \in 1 .. Len(pipe') : pipe'[k].cmd = "S" /\ pipe'[k].id = id
  BY <1>2, <1>3 DEF StartInv
<1>4. ASSUME type' = "PACCEPT", NEW j \in 1 .. Len(pipe'), IsSend(pipe'[j]), pipe'[j].id = id
      PROVE  \E k \in 1 .. j - 1 : pipe'[k].cmd = "S" /\ pipe'[k].id = id
  <2>1. j + 1 \in 1 .. Len(pipe) /\ pipe'[j] = pipe[j + 1] /\ (j + 1) - 1 = j
    BY <1>1
  <2>2. PICK k \in 1 .. j : Starts(k)
    BY <1>4, <2>1 DEF StartInv
  <2>3. k \in 1 .. Len(pipe)
    BY <2>1
  <2>4. k - 1 \in 1 .. Len(pipe') /\ pipe'[k - 1].cmd = "S" /\ pipe'[k - 1].id = id
    BY <1>2, <1>4, <2>2, <2>3
  <2>5. k - 1 \in 1 .. j - 1
    BY <2>4
  <2> QED BY <2>4, <2>5
<1>5. \A w \in Service : pc'[w] # "idle" => req'[w].to \in started'
  BY DEF StartInv
<1> QED BY <1>3, <1>4, <1>5 DEF StartInv, Starts, IsSend

(* What is on its way hangs on the pipe and the calls alone.               *)
LEMMA PendingSame ==
    ASSUME UNCHANGED <<pc, req>>, \A m : Queued(m)' <=> Queued(m)
    PROVE  \A m : Pending(m)' <=> Pending(m)
BY DEF Pending, Calling

-----------------------------------------------------------------------------
(* The socket thread keeps the stream.                                     *)

(* A new socket starts with an empty stream.                               *)
LEMMA FlowAccept == Inv /\ Flow /\ report_accept => Flow'
<1> SUFFICES ASSUME Inv, Flow, report_accept PROVE Flow'
  OBVIOUS
<1>1. /\ UNCHANGED <<high, low, closing, pipe, pc, req, started, sent, wire, torn>>
      /\ used' = used + 1 /\ id' = used + 1 /\ type' = "PACCEPT" /\ dw' = << >>
      /\ ~closing /\ type = "INVALID"
  BY DEF report_accept, thread, ops
<1>2. high = << >> /\ low = << >> /\ used \in Nat /\ used + 1 \in 1 .. MaxId
  BY SocketAssumption DEF report_accept, Inv, ListInv, SlotInv
<1>3. wire[used + 1] = << >> /\ used + 1 \notin torn
  BY <1>2 DEF Flow, WireInv
<1>4. WireInv'
  <2>1. torn' \subseteq 1 .. used' /\ \A i \in 1 .. MaxId : i > used' => wire'[i] = << >>
    BY <1>1, <1>2 DEF Flow, WireInv
  <2> QED BY <1>1, <1>2, <1>3, <2>1 DEF Flow, WireInv
<1>5. StreamInv'
  <2>1. First' = << >> /\ Stream' = << >> /\ (wire[id] \o First)' = << >>
    <3>1. << >> \o << >> = << >>
      BY ConcatEmptySeq, EmptyLists
    <3>2. First' = << >>
      BY <1>1, <1>2, <3>1 DEF First
    <3>3. wire'[id'] = << >> /\ low' = << >>
      BY <1>1, <1>2, <1>3
    <3> QED BY <3>1, <3>2, <3>3 DEF Stream
  <2>2. Good(sent', id', << >>)
    BY EmptyLists DEF Good
  <2>3. \A y \in sent' : y.to # id' /\ ~On(y, << >>)
    BY <1>1, <1>2 DEF Inv, SentInv, On
  <2>4. Len(<< >>) % Size = 0
    BY EmptyLists
  <2>5. low' = << >> /\ \A b \in 1 .. Len(<< >>) : FALSE
    BY <1>1, <1>2
  <2> QED BY <2>1, <2>2, <2>3, <2>4, <2>5 DEF StreamInv
<1>6. LockInv'
  BY <1>1 DEF Flow, LockInv
<1>7. OrderInv'
  BY <1>1, OrderSame DEF Flow
<1>8. StartInv'
  <2>1. id' \notin started
    BY <1>1, <1>2 DEF Inv, SlotInv
  <2>2. \A j \in 1 .. Len(pipe) : IsSend(pipe[j]) => pipe[j].id # id'
    BY <1>1, <1>2 DEF Inv, PipeInv, SentInv
  <2> QED BY <1>1, <2>1, <2>2 DEF Flow, StartInv, IsSend
<1> QED BY <1>4, <1>5, <1>6, <1>7, <1>8 DEF Flow

(* A start request opens the socket: its stream is empty, and all that was *)
(* sent to it is still on its way.                                         *)
LEMMA FlowStarted == Inv /\ Flow /\ start_socket => Flow'
<1> SUFFICES ASSUME Inv, Flow, start_socket PROVE Flow'
  OBVIOUS
<1>1. /\ UNCHANGED <<id, high, low, dw, closing, pc, req, started, used, sent, wire, torn>>
      /\ pipe # << >> /\ Head(pipe).cmd = "S" /\ pipe' = Tail(pipe)
  BY DEF start_socket, Unchanged_services, Request, env
<1>2. \/ type' = type
      \/ type = "PACCEPT" /\ type' = "CONNECTED"
  BY DEF start_socket
<1>3. type' = "PACCEPT" => type = "PACCEPT" /\ Head(pipe).id # id
  BY DEF start_socket, Invalid
<1>4. \A y : Pending(y)' <=> Pending(y)
  <2>1. \A m : Queued(m)' <=> Queued(m)
    BY <1>1, OtherTaken DEF Inv, IsSend
  <2> QED BY <1>1, <2>1, PendingSame
<1>5. WireInv'
  BY <1>1, <1>2, WireSame DEF Flow
<1>6. Live' => Live /\ (type' # "HALFCLOSE" => type # "HALFCLOSE")
  BY <1>1, <1>2 DEF Live
<1>7. StreamInv'
  BY <1>1, <1>4, <1>6, StreamSame DEF Flow
<1>8. LockInv'
  <2>1. \A w \in Service : pc[w] \in {"locked", "write"} => type # "PACCEPT"
    BY DEF Flow, LockInv
  <2> QED BY <1>1, <1>2, <2>1, LockSame DEF Flow
<1>9. OrderInv'
  BY <1>1, OrderTail DEF Inv, Flow
<1>10. StartInv'
  BY <1>1, <1>3, StartTail DEF Inv, Flow
<1> QED BY <1>5, <1>7, <1>8, <1>9, <1>10 DEF Flow

(* The kernel took a piece of the stream.                                  *)
LEMMA WireTakes ==
    ASSUME Inv, WireInv, StreamInv, Live, NEW o \in Flushes, Sent(o),
           UNCHANGED <<id, sent, used, torn>>
    PROVE  WireInv'
<1>1. id \in 1 .. MaxId /\ id <= used /\ id # 0 /\ id \notin torn /\ used \in Nat
  BY SocketAssumption DEF Inv, SlotInv, WireInv, Live
<1>2. wire[id] \o o.out \in Seq(Message) /\ Good(sent, id, wire[id] \o o.out)
  BY FlushKeeps
<1>3. PICK x \in Seq(Message) : x = wire[id] \o o.out
  BY <1>2
<1>4. wire' = [wire EXCEPT ![id] = x]
  BY <1>3 DEF Sent
<1>5. wire \in [1 .. MaxId -> Seq(Message)]
  BY DEF WireInv
<1>6. \A i \in 1 .. MaxId : wire'[i] = IF i = id THEN x ELSE wire[i]
  BY <1>4, <1>5
<1>7. wire' \in [1 .. MaxId -> Seq(Message)] /\ torn \subseteq 1 .. used
  BY <1>4, <1>5 DEF WireInv
<1>8. \A i \in 1 .. MaxId : i > used => wire'[i] = << >>
  BY <1>1, <1>6 DEF WireInv
<1>9. \A i \in (1 .. MaxId) \ torn : Good(sent, i, wire'[i])
  BY <1>2, <1>3, <1>6 DEF WireInv
<1> QED BY <1>1, <1>7, <1>8, <1>9 DEF WireInv

(* send_buffer moves the border between what is sent and what waits, and   *)
(* the stream stays the same.                                              *)
LEMMA StreamFlushed ==
    ASSUME Inv, WireInv, StreamInv, Live, NEW o \in Flushes, Sent(o), Flushed(o),
           UNCHANGED <<id, sent>>, \A y : Pending(y)' <=> Pending(y),
           type' \in {type, "HALFCLOSE"}
    PROVE  StreamInv'
<1>1. /\ {o.high, o.low} \subseteq Seq(Message)
      /\ ((wire[id] \o o.out) \o o.high) \o o.low = Stream
      /\ Len((wire[id] \o o.out) \o o.high) % Size = 0
      /\ \A b \in 1 .. Len(o.low) : o.low[b].prio = "P"
  BY FlushKeeps
<1>2. id \in 1 .. MaxId /\ wire \in [1 .. MaxId -> Seq(Message)]
  BY SocketAssumption DEF Inv, SlotInv, WireInv, Live
<1>3. wire'[id] = wire[id] \o o.out
  BY <1>2 DEF Sent
<1>4. high' = o.high /\ low' = o.low /\ dw' = << >>
  BY DEF Flushed
<1>5. First' = o.high
  BY <1>1, <1>4, ConcatEmptySeq DEF First
<1>6. Stream' = Stream /\ (wire[id] \o First)' = (wire[id] \o o.out) \o o.high
  BY <1>1, <1>3, <1>4, <1>5 DEF Stream
<1>7. Good(sent', id', Stream')
  BY <1>6 DEF StreamInv
<1>8. type' # "HALFCLOSE" => type # "HALFCLOSE"
  OBVIOUS
<1>9. \A y \in sent' : On(y, Stream') => ~Pending(y)'
  BY <1>6 DEF StreamInv
<1>10. type' # "HALFCLOSE" => \A y \in sent' : y.to = id' => On(y, Stream') \/ Pending(y)'
  BY <1>6, <1>8 DEF StreamInv
<1> QED BY <1>1, <1>4, <1>6, <1>7, <1>9, <1>10 DEF StreamInv

(* Only the holder of dw_lock writes directly.                             *)
LEMMA NobodyWrites ==
    ASSUME Inv, lock = None
    PROVE  \A w \in Service : ~(pc[w] \in {"locked", "write"})
BY SocketAssumption DEF Inv, CallInv

(* send_buffer_.                                                           *)
LEMMA FlowFlush == Inv /\ Flow /\ send_buffer => Flow'
<1> SUFFICES ASSUME Inv, Flow, send_buffer PROVE Flow'
  OBVIOUS
<1>1. /\ UNCHANGED <<id, pipe, torn, pc, req, used, started, sent>>
      /\ ~closing /\ type \in {"CONNECTED", "HALFCLOSE"} /\ lock = None
  BY DEF send_buffer, Unchanged_services, env, Open
<1>2. \/ Shut /\ UNCHANGED wire
      \/ \E o \in Flushes : Sent(o) /\ (Shut \/ (Flushed(o) /\ UNCHANGED type))
  BY DEF send_buffer
<1>3. Live
  BY <1>1 DEF Live
<1>4. \A y : Pending(y)' <=> Pending(y)
  <2>1. \A m : Queued(m)' <=> Queued(m)
    BY <1>1 DEF Queued
  <2> QED BY <1>1, <2>1, PendingSame
<1>5. WireInv' /\ StreamInv'
  <2>1. CASE Shut /\ UNCHANGED wire
    <3>1. type' = "INVALID"
      BY <2>1 DEF Shut
    <3> QED BY <1>1, <2>1, <3>1, WireSame DEF Flow, StreamInv, Live
  <2>2. ASSUME NEW o \in Flushes, Sent(o), Shut PROVE WireInv' /\ StreamInv'
    <3>1. type' = "INVALID"
      BY <2>2 DEF Shut
    <3> QED BY <1>1, <1>3, <2>2, <3>1, WireTakes DEF Flow, StreamInv, Live
  <2>3. ASSUME NEW o \in Flushes, Sent(o), Flushed(o), UNCHANGED type PROVE WireInv' /\ StreamInv'
    BY <1>1, <1>3, <1>4, <2>3, WireTakes, StreamFlushed DEF Flow
  <2> QED BY <1>2, <2>1, <2>2, <2>3
<1>6. LockInv'
  BY <1>1, NobodyWrites, LockSame DEF Flow
<1>7. OrderInv'
  BY <1>1, OrderSame DEF Flow
<1>8. StartInv'
  <2>1. type' # "PACCEPT"
    BY <1>1, <1>2 DEF Shut
  <2> QED BY <1>1, <2>1, StartSame DEF Flow
<1> QED BY <1>5, <1>6, <1>7, <1>8 DEF Flow

(* A close or an error: nothing is claimed of the lists any more, and what *)
(* the kernel took stays good.                                             *)
LEMMA FlowGone == Inv /\ Flow /\ (Gone \/ FinishClose) => Flow'
<1> SUFFICES ASSUME Inv, Flow, Gone \/ FinishClose PROVE Flow'
  OBVIOUS
<1>1. /\ UNCHANGED <<id, pipe, torn, pc, req, used, started, sent, wire>>
      /\ \/ closing' = TRUE /\ UNCHANGED <<type, dw>>
         \/ type' = "INVALID" /\ lock = None
  BY DEF Gone, FinishClose, Closing, Unchanged_services, env
<1>2. WireInv'
  BY <1>1, WireSame DEF Flow
<1>3. StreamInv'
  BY <1>1 DEF StreamInv, Live
<1>4. LockInv'
  BY <1>1, NobodyWrites, LockSame DEF Flow
<1>5. OrderInv'
  BY <1>1, OrderSame DEF Flow
<1>6. StartInv'
  BY <1>1, StartSame DEF Flow
<1> QED BY <1>2, <1>3, <1>4, <1>5, <1>6 DEF Flow

(* A close request closes the socket, or leaves it half closed until the   *)
(* lists are sent.                                                         *)
LEMMA FlowClose == Inv /\ Flow /\ close_socket => Flow'
<1> SUFFICES ASSUME Inv, Flow, close_socket PROVE Flow'
  OBVIOUS
<1>1. /\ UNCHANGED <<id, pc, req, used, started, sent, torn>>
      /\ pipe # << >> /\ Head(pipe).cmd \in {"K", "k"} /\ pipe' = Tail(pipe)
      /\ ~closing
  BY DEF close_socket, Unchanged_services, Request, env
<1>2. \/ UNCHANGED <<type, high, low, dw, closing, wire>>
      \/ Closing /\ UNCHANGED <<dw, wire>>
      \/ type # "INVALID" /\ type' = "HALFCLOSE" /\ UNCHANGED <<high, low, dw, closing, wire>>
      \/ lock = None /\ Shut /\ UNCHANGED wire
      \/ /\ type # "INVALID" /\ lock = None
         /\ \E o \in Flushes : Sent(o) /\ (Shut \/ Closing \/ (Flushed(o) /\ type' = "HALFCLOSE"))
  BY DEF close_socket, Invalid
<1>3. \A y : Pending(y)' <=> Pending(y)
  <2>1. \A m : Queued(m)' <=> Queued(m)
    BY <1>1, OtherTaken DEF Inv, IsSend
  <2> QED BY <1>1, <2>1, PendingSame
<1>4. WireInv' /\ StreamInv' /\ LockInv' /\ (type' = "PACCEPT" => type = "PACCEPT")
  <2>1. CASE UNCHANGED <<type, high, low, dw, closing, wire>>
    <3>1. Live' => Live /\ (type' # "HALFCLOSE" => type # "HALFCLOSE")
      BY <2>1 DEF Live
    <3> QED BY <1>1, <1>3, <2>1, <3>1, WireSame, StreamSame, LockSame DEF Flow
  <2>2. CASE Closing /\ UNCHANGED <<dw, wire>>
    <3>1. closing' = TRUE /\ type' = type
      BY <2>2 DEF Closing
    <3>2. StreamInv'
      BY <3>1 DEF StreamInv, Live
    <3> QED BY <1>1, <2>2, <3>1, <3>2, WireSame, LockSame DEF Flow
  <2>3. CASE type # "INVALID" /\ type' = "HALFCLOSE" /\ UNCHANGED <<high, low, dw, closing, wire>>
    <3>1. Live' => Live /\ (type' # "HALFCLOSE" => type # "HALFCLOSE")
      BY <2>3 DEF Live
    <3> QED BY <1>1, <1>3, <2>3, <3>1, WireSame, StreamSame, LockSame DEF Flow
  <2>4. CASE lock = None /\ Shut /\ UNCHANGED wire
    <3>1. type' = "INVALID"
      BY <2>4 DEF Shut
    <3>2. StreamInv'
      BY <3>1 DEF StreamInv, Live
    <3> QED BY <1>1, <2>4, <3>1, <3>2, WireSame, NobodyWrites, LockSame DEF Flow
  <2>5. ASSUME type # "INVALID", lock = None, NEW o \in Flushes, Sent(o),
               Shut \/ Closing \/ (Flushed(o) /\ type' = "HALFCLOSE")
        PROVE  WireInv' /\ StreamInv' /\ LockInv' /\ (type' = "PACCEPT" => type = "PACCEPT")
    <3>1. Live
      BY <1>1, <2>5 DEF Live
    <3>2. WireInv'
      BY <1>1, <2>5, <3>1, WireTakes DEF Flow
    <3>3. LockInv'
      BY <1>1, <2>5, NobodyWrites, LockSame DEF Flow
    <3>4. CASE Shut \/ Closing
      <4>1. ~Live' /\ (type' = "PACCEPT" => type = "PACCEPT")
        BY <3>4 DEF Shut, Closing, Live
      <4> QED BY <3>2, <3>3, <4>1 DEF StreamInv
    <3>5. CASE Flushed(o) /\ type' = "HALFCLOSE"
      <4>1. StreamInv'
        BY <1>1, <1>3, <2>5, <3>1, <3>5, StreamFlushed DEF Flow
      <4> QED BY <3>2, <3>3, <3>5, <4>1
    <3> QED BY <2>5, <3>4, <3>5
  <2> QED BY <1>2, <2>1, <2>2, <2>3, <2>4, <2>5
<1>5. OrderInv'
  BY <1>1, OrderTail DEF Inv, Flow
<1>6. StartInv'
  BY <1>1, <1>4, StartTail DEF Inv, Flow
<1> QED BY <1>4, <1>5, <1>6 DEF Flow

(* The first request, a send, leaves the pipe.                             *)
LEMMA SendTaken ==
    ASSUME PipeInv, pipe # << >>, IsSend(Head(pipe)), pipe' = Tail(pipe)
    PROVE  /\ Head(pipe).m \in sent /\ Head(pipe).id = Head(pipe).m.to
           /\ Queued(Head(pipe).m)
           /\ \A x : Queued(x)' <=> Queued(x) /\ x # Head(pipe).m
<1> DEFINE m == Head(pipe).m
<1>2. /\ Len(pipe') = Len(pipe) - 1 /\ Len(pipe) \in Nat \ {0}
      /\ \A i \in 1 .. Len(pipe) - 1 : pipe'[i] = pipe[i + 1]
      /\ Head(pipe) = pipe[1]
  BY PipeShrinks DEF PipeInv
<1>3. 1 \in 1 .. Len(pipe) /\ IsSend(pipe[1]) /\ pipe[1].m = m
  BY <1>2
<1>4. m \in sent /\ Head(pipe).id = m.to /\ Queued(m)
  BY <1>2, <1>3 DEF PipeInv, Queued
<1> HIDE DEF m
<1>5. \A i \in 1 .. Len(pipe') : i + 1 \in 1 .. Len(pipe) /\ i + 1 # 1 /\ pipe'[i] = pipe[i + 1]
  BY <1>2
<1>7. \A x : Queued(x)' <=> Queued(x) /\ x # m
  <2>1. ASSUME NEW x, Queued(x)' PROVE Queued(x) /\ x # m
    <3>1. PICK i \in 1 .. Len(pipe') : IsSend(pipe'[i]) /\ pipe'[i].m = x
      BY <2>1 DEF Queued, IsSend
    <3>2. i + 1 \in 1 .. Len(pipe) /\ i + 1 # 1 /\ IsSend(pipe[i + 1]) /\ pipe[i + 1].m = x
      BY <1>5, <3>1
    <3>3. x # m
      BY <1>3, <3>2 DEF PipeInv
    <3> QED BY <3>2, <3>3 DEF Queued
  <2>2. ASSUME NEW x, Queued(x), x # m PROVE Queued(x)'
    <3>1. PICK i \in 1 .. Len(pipe) : IsSend(pipe[i]) /\ pipe[i].m = x
      BY <2>2 DEF Queued
    <3>2. i # 1 /\ i - 1 \in 1 .. Len(pipe') /\ pipe'[i - 1] = pipe[i]
      BY <1>2, <1>3, <2>2, <3>1
    <3> QED BY <3>1, <3>2 DEF Queued, IsSend
  <2> QED BY <2>1, <2>2
<1> QED BY <1>4, <1>7 DEF m

(* When a send is executed, all that its service sent to the socket before *)
(* it with the same priority is on the stream.                             *)
LEMMA BeforeIsOn ==
    ASSUME Inv, Flow, pipe # << >>, IsSend(Head(pipe)), Live, type # "HALFCLOSE",
           Head(pipe).m.to = id, NEW y \in sent, Akin(y, Head(pipe).m), y.n < Head(pipe).m.n
    PROVE  On(y, Stream)
<1>1. PICK m : m = Head(pipe).m
  OBVIOUS
<1>2. PICK r : r = Head(pipe)
  OBVIOUS
<1>3. r = pipe[1] /\ Len(pipe) \in Nat \ {0} /\ pipe[1].m = m /\ IsSend(pipe[1])
  BY <1>1, <1>2 DEF Inv, PipeInv
<1>4. 1 \in 1 .. Len(pipe) /\ m \in sent /\ m \in Message /\ Queued(m)
  BY <1>3 DEF Inv, PipeInv, SentInv, Queued
<1>5. y.to = id /\ y.n \in Nat /\ m.n \in Nat /\ y.n < m.n /\ Akin(y, m)
  BY <1>1, <1>4 DEF Akin, Inv, SentInv, Message
<1>6. ~Queued(y)
  <2>1. SUFFICES ASSUME NEW i \in 1 .. Len(pipe), IsSend(pipe[i]), pipe[i].m = y PROVE FALSE
    BY DEF Queued
  <2>2. i # 1
    BY <1>3, <1>5, <2>1
  <2>3. 1 < i /\ Akin(pipe[1].m, pipe[i].m)
    BY <1>3, <1>5, <2>1, <2>2 DEF Akin
  <2>4. pipe[1].m.n < pipe[i].m.n
    BY <1>3, <1>4, <2>1, <2>3 DEF Flow, OrderInv
  <2> QED BY <1>3, <1>5, <2>1, <2>4
<1>7. ~Calling(y)
  <2>1. SUFFICES ASSUME NEW w \in Service, pc[w] # "idle", req[w] = y PROVE FALSE
    BY DEF Calling
  <2>2. m.n <= y.n
    BY <1>4, <1>5, <2>1 DEF Flow, OrderInv, Akin
  <2> QED BY <1>5, <2>2
<1> QED BY <1>5, <1>6, <1>7 DEF Flow, StreamInv, Pending

(* Where send_socket puts an accepted message on the stream: behind the    *)
(* high list, or at the end.                                               *)
LEMMA StreamAccepts ==
    ASSUME Inv, Flow, Live, type # "HALFCLOSE", NEW m \in sent, m.to = id, Accepted(m),
           UNCHANGED <<type, id, dw, closing, sent, wire>>, ~On(m, Stream),
           \A y \in sent : Akin(y, m) /\ y.n < m.n => On(y, Stream),
           \A x : Pending(x)' <=> Pending(x) /\ x # m
    PROVE  StreamInv'
<1>1. m \in Message /\ m.prio \in {"D", "P"}
  BY DEF Inv, SentInv, Message
<1>11. sent \subseteq Message
  BY DEF Inv, SentInv
<1>12. ASSUME NEW s \in Seq(Message), NEW t \in Seq(Message),
              Good(sent, id, s \o t), Len(s) % Size = 0, ~On(m, s \o t),
              \A y \in sent : Akin(y, m) /\ y.n < m.n => On(y, s)
       PROVE  Good(sent, id, (s \o Bytes(m)) \o t)
  BY <1>11, <1>12, GoodInsert
<1>2. PICK v \in Seq(Message) : v = Bytes(m) /\ Len(v) = Size /\ \A b \in 1 .. Size : v[b] = m
  BY <1>1, BytesOK DEF Bytes
<1>3. PICK w \in Seq(Message) : w = wire[id] \o First
  <2>1. wire[id] \in Seq(Message) /\ dw \in Seq(Message) /\ high \in Seq(Message)
    BY SocketAssumption DEF Inv, ListInv, SlotInv, Flow, WireInv, Live
  <2> QED BY <2>1, Cat DEF First
<1>4. /\ low \in Seq(Message) /\ high \in Seq(Message) /\ Len(low) % Size = 0 /\ Len(w) % Size = 0
      /\ \A b \in 1 .. Len(low) : low[b].prio = "P"
      /\ Good(sent, id, w \o low) /\ Stream = w \o low /\ sent \subseteq Message
  BY <1>3 DEF Inv, ListInv, SentInv, Flow, StreamInv, Stream
<1>5. PICK s \in Seq(Message), t \in Seq(Message) :
         /\ s \o t = w \o low /\ Len(s) % Size = 0
         /\ Stream' = (s \o v) \o t
         /\ \A y \in sent : Akin(y, m) /\ y.n < m.n => On(y, s)
         /\ Len((wire[id] \o First)') % Size = 0
         /\ \A b \in 1 .. Len(low') : low'[b].prio = "P"
  <2>1. Size % Size = 0 /\ Size \in Int
    BY SocketAssumption
  <2>2. CASE high \o low = << >> \/ m.prio = "D"
    <3>1. high' = high \o v /\ low' = low
      BY <1>2, <2>2 DEF Accepted
    <3>2. (wire[id] \o First)' = w \o v
      <4>1. wire[id] \in Seq(Message) /\ dw \in Seq(Message)
        BY SocketAssumption DEF Inv, ListInv, SlotInv, Flow, WireInv, Live
      <4>2. PICK d \in Seq(Message), h \in Seq(Message) : d = dw /\ h = high
        BY <1>4, <4>1
      <4>3. Joins(d, h, v)
        BY Joined, Zenon
      <4>6. PICK f : f \in Seq(Message) /\ f = d \o h
        BY Cat
      <4>7. PICK x \in Seq(Message) : x = wire[id]
        BY <4>1
      <4>4. Joins(x, f, v)
        BY <4>6, Joined, Zenon
      <4>5. First' = d \o (h \o v) /\ First = d \o h /\ wire'[id'] = x
        BY <3>1, <4>2, <4>7 DEF First
      <4>8. First = f /\ First' = f \o v
        BY <4>3, <4>5, <4>6, Zenon DEF Joins
      <4> QED BY <1>3, <4>4, <4>5, <4>7, <4>8, Zenon DEF Joins
    <3>3. Stream' = (w \o v) \o low
      BY <3>1, <3>2 DEF Stream
    <3>4. Len(w \o v) % Size = 0
      <4>1. Len(w \o v) = Len(w) + Size /\ Len(w) \in Int
        BY <1>2, Cat
      <4> QED BY <1>4, <2>1, <4>1, Multiples
    <3>5. ASSUME NEW y \in sent, Akin(y, m), y.n < m.n PROVE On(y, w)
      <4>1. PICK b \in 1 .. Len(w \o low) : (w \o low)[b] = y
        BY <1>4, <3>5 DEF On
      <4>2. CASE b <= Len(w)
        <5>1. b \in 1 .. Len(w) /\ w[b] = y
          BY <4>1, <4>2, Cat
        <5> QED BY <5>1 DEF On
      <4>3. CASE b > Len(w)
        <5>1. b - Len(w) \in 1 .. Len(low) /\ low[b - Len(w)] = y
          BY <1>4, <4>1, <4>3, Cat
        <5>2. y.prio = "P" /\ low # << >>
          BY <1>4, <5>1
        <5>3. high \o low # << >>
          BY <1>4, <5>2, ConcatEqualIffEmpty
        <5> QED BY <2>2, <3>5, <5>2, <5>3 DEF Akin
      <4> QED BY <4>1, <4>2, <4>3, Cat
    <3> QED BY <1>4, <3>1, <3>2, <3>3, <3>4, <3>5
  <2>3. CASE ~(high \o low = << >> \/ m.prio = "D")
    <3>1. low' = low \o v /\ high' = high
      BY <1>2, <2>3 DEF Accepted
    <3>2. (wire[id] \o First)' = w
      BY <1>3, <3>1 DEF First
    <3>3. PICK u \in Seq(Message) : u = w \o low
      BY <1>4, Cat
    <3>4. PICK l \in Seq(Message) : l = low
      BY <1>4
    <3>5. Joins(w, l, v)
      BY Joined, Zenon
    <3>6. Stream' = u \o v
      BY <3>1, <3>2, <3>3, <3>4, <3>5 DEF Stream, Joins
    <3>7. u \o << >> = u /\ (u \o v) \o << >> = u \o v /\ << >> \in Seq(Message)
      <4>1. u \o v \in Seq(Message)
        BY Cat
      <4> QED BY <4>1, ConcatEmptySeq, EmptyLists
    <3>8. Len(u) % Size = 0
      <4>1. Len(u) = Len(w) + Len(low) /\ Len(w) \in Int /\ Len(low) \in Int
        BY <1>4, <3>3, Cat
      <4> QED BY <1>4, <4>1, Multiples
    <3>9. \A b \in 1 .. Len(low') : low'[b].prio = "P"
      <4>1. m.prio = "P"
        BY <1>1, <2>3
      <4>2. \A b \in 1 .. Len(l \o v) : (l \o v)[b] = IF b <= Len(l) THEN l[b] ELSE v[b - Len(l)]
        OBVIOUS
      <4>3. Len(l \o v) = Len(l) + Size /\ Len(l) \in Nat
        BY <1>2, Cat
      <4>4. ASSUME NEW b \in 1 .. Len(l \o v) PROVE (l \o v)[b].prio = "P"
        <5>1. CASE b <= Len(l)
          BY <1>4, <3>4, <4>2, <5>1
        <5>2. CASE b > Len(l)
          <6>1. b - Len(l) \in 1 .. Size
            BY <4>3, <5>2, SocketAssumption
          <6> QED BY <1>2, <4>1, <4>2, <5>2, <6>1
        <5> QED BY <4>3, <5>1, <5>2
      <4> QED BY <3>1, <3>4, <4>4
    <3>10. \A y \in sent : Akin(y, m) /\ y.n < m.n => On(y, u)
      BY <1>4, <3>3
    <3> QED BY <1>4, <3>2, <3>3, <3>6, <3>7, <3>8, <3>9, <3>10
  <2> QED BY <2>2, <2>3
<1>6. Good(sent, id, (s \o v) \o t) /\ \A y : On(y, (s \o v) \o t) <=> On(y, s \o t) \/ y = m
  <2>1. Good(sent, id, s \o t) /\ ~On(m, s \o t)
    BY <1>4, <1>5
  <2>2. \A y \in sent : Akin(y, m) /\ y.n < m.n => On(y, s)
    BY <1>5
  <2>3. Len(s) % Size = 0 /\ sent \subseteq Message
    BY <1>4, <1>5
  <2>4. Good(sent, id, (s \o Bytes(m)) \o t)
    BY <1>12, <2>1, <2>2, <2>3, Zenon
  <2>6. \A y : On(y, (s \o Bytes(m)) \o t) <=> On(y, s \o t) \/ y = m
    BY <1>1, OnInsert
  <2>5. v = Bytes(m)
    BY <1>2
  <2> QED BY <2>4, <2>5, <2>6
<1>7. Good(sent', id', Stream')
  BY <1>5, <1>6
<1>8. \A y \in sent : On(y, Stream') <=> On(y, Stream) \/ y = m
  BY <1>4, <1>5, <1>6
<1>9. \A y \in sent' : On(y, Stream') => ~Pending(y)'
  BY <1>8 DEF Flow, StreamInv
<1>10. \A y \in sent' : y.to = id' => On(y, Stream') \/ Pending(y)'
  BY <1>8 DEF Flow, StreamInv
<1> QED BY <1>5, <1>7, <1>9, <1>10 DEF StreamInv

(* A send request joins its list, or is dropped.                           *)
LEMMA FlowSend == Inv /\ Flow /\ send_socket => Flow'
<1> SUFFICES ASSUME Inv, Flow, send_socket PROVE Flow'
  OBVIOUS
<1>1. PICK m : m = Head(pipe).m
  OBVIOUS
<1>2. /\ UNCHANGED <<type, id, dw, closing, lock, pc, req, used, started, sent, wire, torn>>
      /\ pipe # << >> /\ IsSend(Head(pipe)) /\ pipe' = Tail(pipe) /\ ~closing
      /\ IF id = Head(pipe).id /\ type = "CONNECTED" THEN Accepted(m)
         ELSE UNCHANGED <<high, low>>
  BY <1>1 DEF send_socket, Unchanged_services, Request, IsSend, env
<1>3. m \in sent /\ Head(pipe).id = m.to /\ Queued(m) /\ \A x : Queued(x)' <=> Queued(x) /\ x # m
  BY <1>1, <1>2, SendTaken DEF Inv
<1>4. ~Calling(m)
  BY <1>3 DEF Calling, Inv, CallInv
<1>5. \A x : Pending(x)' <=> Pending(x) /\ x # m
  <2>1. \A x : Calling(x)' <=> Calling(x)
    BY <1>2 DEF Calling
  <2> QED BY <1>3, <1>4, <2>1 DEF Pending
<1>6. StreamInv'
  <2>1. CASE id = m.to /\ type = "CONNECTED"
    <3>1. Live /\ Accepted(m)
      BY <1>2, <1>3, <2>1 DEF Live
    <3>2. ~On(m, Stream)
      BY <1>3, <3>1 DEF Flow, StreamInv, Pending
    <3>3. \A y \in sent : Akin(y, m) /\ y.n < m.n => On(y, Stream)
      BY <1>1, <1>2, <2>1, <3>1, BeforeIsOn
    <3> QED BY <1>2, <1>3, <1>5, <2>1, <3>1, <3>2, <3>3, StreamAccepts
  <2>2. CASE ~(id = m.to /\ type = "CONNECTED")
    <3>1. UNCHANGED <<high, low>>
      BY <1>2, <1>3, <2>2
    <3>2. ~(type = "PACCEPT" /\ m.to = id)
      <4>1. SUFFICES ASSUME type = "PACCEPT", m.to = id PROVE FALSE
        OBVIOUS
      <4>2. Head(pipe) = pipe[1] /\ 1 \in 1 .. Len(pipe)
        BY <1>2 DEF Inv, PipeInv
      <4>3. \E k \in 1 .. 1 - 1 : Starts(k)
        BY <1>2, <1>3, <4>1, <4>2 DEF Flow, StartInv
      <4> QED BY <4>3
    <3>3. Live' => Live
      BY <1>2 DEF Live
    <3>4. type' # "HALFCLOSE" /\ Live => m.to # id
      BY <1>2, <2>2, <3>2 DEF Live, Inv, SlotInv
    <3>5. CASE Live
      BY <1>2, <1>5, <3>1, <3>4, <3>5, StreamSame DEF Flow
    <3>6. CASE ~Live
      BY <3>3, <3>6 DEF StreamInv
    <3> QED BY <3>5, <3>6
  <2> QED BY <2>1, <2>2
<1>7. WireInv'
  BY <1>2, WireSame DEF Flow
<1>8. LockInv'
  BY <1>2, LockSame DEF Flow
<1>9. OrderInv'
  BY <1>2, OrderTail DEF Inv, Flow
<1>10. StartInv'
  BY <1>2, StartTail DEF Inv, Flow, IsSend
<1> QED BY <1>6, <1>7, <1>8, <1>9, <1>10 DEF Flow

-----------------------------------------------------------------------------
(* The services keep the stream.                                           *)

(* Calls that change neither the socket nor what is on its way.            *)
LEMMA FlowQuiet ==
    ASSUME Inv, Flow, UNCHANGED <<type, id, high, low, dw, closing, wire, torn, used, sent>>,
           \A y : Pending(y)' <=> Pending(y), LockInv', OrderInv', StartInv'
    PROVE  Flow'
<1>1. WireInv'
  BY WireSame DEF Flow
<1>2. Live' => Live /\ (type' # "HALFCLOSE" => type # "HALFCLOSE")
  BY DEF Live
<1>3. StreamInv'
  BY <1>2, StreamSame DEF Flow
<1> QED BY <1>1, <1>3 DEF Flow

(* Start and close requests go into the pipe.                              *)
LEMMA FlowRequest ==
    ASSUME Inv, Flow, NEW i \in 1 .. used, Start(i) \/ \E cmd \in {"K", "k"} : Close(i, cmd)
    PROVE  Flow'
<1>1. /\ UNCHANGED <<type, id, high, low, dw, closing, wire, torn, used, sent, pc, req>>
      /\ \/ started' = started \cup {i} /\ pipe' = Append(pipe, [cmd |-> "S", id |-> i])
         \/ UNCHANGED started /\ \E c \in {"K", "k"} : pipe' = Append(pipe, [cmd |-> c, id |-> i])
  BY DEF Start, Close, slot, thread, hist
<1>2. PICK c \in {"S", "K", "k"} : pipe' = Append(pipe, [cmd |-> c, id |-> i])
                                   /\ (c = "S" \/ UNCHANGED started)
  BY <1>1
<1>3. i \in 1 .. MaxId
  BY SocketAssumption DEF Inv, SlotInv
<1>4. PICK r \in Requests : r = [cmd |-> c, id |-> i]
  BY <1>3 DEF Requests
<1>5. ~IsSend(r)
  BY <1>2, <1>4 DEF IsSend
<1>6. \A y : Pending(y)' <=> Pending(y)
  <2>1. \A m : Queued(m)' <=> Queued(m)
    BY <1>1, <1>2, <1>3, OtherRequest DEF Inv
  <2> QED BY <1>1, <2>1, PendingSame
<1>7. LockInv'
  BY <1>1, LockSame DEF Flow
<1>8. OrderInv'
  BY <1>1, <1>2, <1>4, <1>5, OrderOther DEF Inv, Flow
<1>9. StartInv'
  <2>1. /\ Len(pipe') = Len(pipe) + 1 /\ Len(pipe) \in Nat
        /\ \A k \in 1 .. Len(pipe) : pipe'[k] = pipe[k]
        /\ pipe'[Len(pipe) + 1] = r
    BY <1>2, <1>4, PipeGrows DEF Inv, PipeInv
  <2>2. ASSUME NEW k \in 1 .. Len(pipe), Starts(k)
        PROVE  k \in 1 .. Len(pipe') /\ pipe'[k].cmd = "S" /\ pipe'[k].id = id'
    BY <1>1, <2>1, <2>2 DEF Starts
  <2>3. ASSUME type' = "PACCEPT", id' \in started'
        PROVE  \E k \in 1 .. Len(pipe') : pipe'[k].cmd = "S" /\ pipe'[k].id = id'
    <3>1. CASE id \in started
      <4>1. PICK k \in 1 .. Len(pipe) : Starts(k)
        BY <1>1, <2>3, <3>1 DEF Flow, StartInv
      <4> QED BY <2>2, <4>1
    <3>2. CASE id \notin started
      <4>1. started' = started \cup {i} /\ r = [cmd |-> "S", id |-> i]
        BY <1>1, <1>2, <1>4, <2>3, <3>2
      <4>2. i = id
        BY <1>1, <2>3, <3>2, <4>1
      <4>3. Len(pipe) + 1 \in 1 .. Len(pipe')
        BY <2>1
      <4> QED BY <1>1, <2>1, <4>1, <4>2, <4>3
    <3> QED BY <3>1, <3>2
  <2>4. ASSUME type' = "PACCEPT", NEW j \in 1 .. Len(pipe'), IsSend(pipe'[j]), pipe'[j].id = id'
        PROVE  \E k \in 1 .. j - 1 : pipe'[k].cmd = "S" /\ pipe'[k].id = id'
    <3>1. j \in 1 .. Len(pipe) /\ pipe'[j] = pipe[j]
      BY <1>5, <2>1, <2>4
    <3>2. PICK k \in 1 .. j - 1 : Starts(k)
      BY <1>1, <2>4, <3>1 DEF Flow, StartInv
    <3>3. k \in 1 .. Len(pipe)
      BY <2>1, <3>1
    <3> QED BY <2>2, <3>2, <3>3
  <2>5. \A w \in Service : pc'[w] # "idle" => req'[w].to \in started'
    BY <1>1 DEF Flow, StartInv
  <2> QED BY <2>3, <2>4, <2>5 DEF StartInv, Starts, IsSend
<1> QED BY <1>1, <1>6, <1>7, <1>8, <1>9, FlowQuiet

(* The places of kin tell them apart and are those up to their number.     *)
LEMMA KinPlaces ==
    ASSUME Inv, NEW m \in sent
    PROVE  /\ IsFiniteSet(Kin(m)) /\ {x.n : x \in Kin(m)} = 0 .. Cardinality(Kin(m)) - 1
           /\ \A x, y \in Kin(m) : x.n = y.n => x = y
<1>1. IsFiniteSet(Kin(m)) /\ Kin(m) \subseteq sent /\ sent \subseteq Message
  BY FS_Subset DEF Inv, SentInv, Kin
<1>2. PICK c \in Nat : c = Cardinality(Kin(m))
  BY <1>1, FS_CardinalityType
<1>3. \A x, y \in Kin(m) : x.n = y.n => x = y
  BY <1>1 DEF Kin, Message
<1>4. \A x \in Kin(m) : x.n \in 0 .. c - 1
  <2> TAKE x \in Kin(m)
  <2>1. Kin(x) = Kin(m)
    BY DEF Kin
  <2>2. x.n < Cardinality(Kin(x)) /\ x.n \in Nat
    BY <1>1 DEF Inv, SentInv, Message
  <2> QED BY <1>2, <2>1, <2>2
<1>5. PICK f : f = [x \in Kin(m) |-> x.n]
  OBVIOUS
<1>6. f \in Injection(Kin(m), 0 .. c - 1)
  BY <1>3, <1>4, <1>5 DEF Injection, IsInjective
<1>7. IsFiniteSet(0 .. c - 1) /\ Cardinality(0 .. c - 1) = c
  <2>1. 0 \in Int /\ c - 1 \in Int /\ (IF 0 > c - 1 THEN 0 ELSE (c - 1) - 0 + 1) = c
    BY <1>2
  <2> QED BY <2>1, FS_Interval
<1>8. f \in Surjection(Kin(m), 0 .. c - 1)
  BY <1>2, <1>6, <1>7, FS_Injection
<1>9. \A k \in 0 .. c - 1 : \E x \in Kin(m) : x.n = k
  BY <1>5, <1>8 DEF Surjection
<1>10. {x.n : x \in Kin(m)} = 0 .. c - 1
  BY <1>4, <1>9
<1> QED BY <1>1, <1>2, <1>3, <1>10

(* A call of send: its message is the last of its kin.                     *)
LEMMA FlowSendCall ==
    ASSUME Inv, Flow, NEW w \in Service, NEW i \in started, NEW prio \in {"D", "P"},
           Send(w, i, prio)
    PROVE  Flow'
<1> DEFINE earlier == {x \in sent : x.from = w /\ x.to = i /\ x.prio = prio}
<1>1. PICK m : m = [from |-> w, to |-> i, prio |-> prio, n |-> Cardinality(earlier)]
  OBVIOUS
<1>2. /\ pc[w] = "idle" /\ sent' = sent \cup {m}
      /\ UNCHANGED <<type, id, high, low, dw, closing, wire, torn, used, started, pipe>>
      /\ \/ UNCHANGED <<pc, req>> /\ (id # i \/ type = "INVALID")
         \/ /\ req' = [req EXCEPT ![w] = m]
            /\ \E l \in {"try", "count"} : pc' = [pc EXCEPT ![w] = l]
  BY <1>1 DEF Send, Goto, slot, thread, hist
<1>3. IsFiniteSet(earlier) /\ Cardinality(earlier) \in Nat
  BY FS_Subset, FS_CardinalityType DEF Inv, SentInv
<1>4. i \in 1 .. MaxId
  BY SocketAssumption DEF Inv, SlotInv
<1>5. m \in Message /\ m.from = w /\ m.to = i /\ m.prio = prio /\ m.n = Cardinality(earlier)
  BY <1>1, <1>3, <1>4 DEF Message
<1>6. \A y \in sent : Akin(m, y) \/ Akin(y, m) => y.n < m.n
  <2> SUFFICES ASSUME NEW y \in sent, Akin(m, y) \/ Akin(y, m) PROVE y.n < m.n
    OBVIOUS
  <2>1. Kin(y) = earlier
    BY <1>5 DEF Kin, Akin
  <2> QED BY <1>5, <2>1 DEF Inv, SentInv
<1> HIDE DEF earlier
<1>7. m \notin sent /\ sent \subseteq Message
  <2>1. m \in sent => m.n < m.n
    BY <1>6 DEF Akin
  <2> QED BY <1>5, <2>1 DEF Inv, SentInv, Message
<1>8. \A s, j : Good(sent, j, s) => Good(sent', j, s)
  <2>1. \A y \in sent : Akin(m, y) => y.n <= m.n
    BY <1>5, <1>6, <1>7 DEF Message
  <2> QED BY <1>2, <1>5, <1>7, <2>1, GoodGrows
<1>9. WireInv'
  BY <1>2, <1>8 DEF Flow, WireInv
<1>10. \A v \in Service : \/ pc'[v] = pc[v] /\ req'[v] = req[v]
                          \/ v = w /\ pc'[v] \in {"try", "count"} /\ req'[v] = m
  BY <1>2 DEF Inv, CallInv
<1>11. \A y \in sent : Pending(y)' <=> Pending(y)
  <2>1. \A y : Queued(y)' <=> Queued(y)
    BY <1>2 DEF Queued
  <2>2. \A y \in sent : Calling(y)' <=> Calling(y)
    BY <1>2, <1>7, <1>10 DEF Calling
  <2> QED BY <2>1, <2>2 DEF Pending
<1>12. StreamInv'
  <2> SUFFICES ASSUME Live' PROVE StreamInv'
    BY DEF StreamInv
  <2>1. Live /\ Stream' = Stream /\ First' = First
    BY <1>2 DEF Live, Stream, First
  <2>2. Good(sent, id, Stream)
    BY <2>1 DEF Flow, StreamInv
  <2>3. ~On(m, Stream)
    BY <1>7, <2>2 DEF On, Good
  <2>4. type # "HALFCLOSE" /\ m.to = id => Pending(m)'
    <3>1. SUFFICES ASSUME m.to = id PROVE Calling(m)'
      BY DEF Pending
    <3>2. /\ req' = [req EXCEPT ![w] = m]
          /\ \E l \in {"try", "count"} : pc' = [pc EXCEPT ![w] = l]
      BY <1>2, <1>5, <2>1, <3>1 DEF Live
    <3>3. req'[w] = m /\ pc'[w] # "idle"
      BY <3>2 DEF Inv, CallInv
    <3> QED BY <3>3 DEF Calling
  <2>5. Good(sent', id', Stream')
    BY <1>2, <1>8, <2>1, <2>2
  <2>6. \A y \in sent' : On(y, Stream') => ~Pending(y)'
    BY <1>2, <1>11, <2>1, <2>3 DEF Flow, StreamInv
  <2>7. type' # "HALFCLOSE" => \A y \in sent' : y.to = id' => On(y, Stream') \/ Pending(y)'
    BY <1>2, <1>11, <2>1, <2>4 DEF Flow, StreamInv
  <2> QED BY <1>2, <2>1, <2>5, <2>6, <2>7 DEF Flow, StreamInv
<1>13. LockInv'
  <2> SUFFICES ASSUME NEW v \in Service, pc'[v] \in {"locked", "write"}
               PROVE  /\ req'[v].to = id /\ type \in {"CONNECTED", "HALFCLOSE"}
                      /\ pc'[v] = "write" /\ ~closing =>
                           /\ dw = << >> /\ Len(wire[id]) % Size = 0
                           /\ \A y \in sent' : Akin(y, req'[v]) /\ y # req'[v] => On(y, wire[id])
    BY <1>2 DEF LockInv
  <2>1. pc[v] = pc'[v] /\ req'[v] = req[v] /\ v # w
    BY <1>2, <1>10
  <2>2. ~Akin(m, req[v])
    BY <1>5, <2>1 DEF Akin, Inv, CallInv
  <2> QED BY <1>2, <2>1, <2>2 DEF Flow, LockInv
<1>14. OrderInv'
  <2>1. ASSUME NEW v \in Service, pc'[v] # "idle", NEW z \in sent', Akin(z, req'[v])
        PROVE  z.n <= req'[v].n
    <3>1. CASE pc'[v] = pc[v] /\ req'[v] = req[v]
      <4>1. req[v] \in sent /\ req[v].from = v
        BY <2>1, <3>1 DEF Inv, CallInv
      <4>2. CASE z \in sent
        BY <2>1, <3>1, <4>2 DEF Flow, OrderInv
      <4>3. CASE z = m
        <5>1. v = w
          BY <1>5, <2>1, <3>1, <4>1, <4>3 DEF Akin
        <5> QED BY <1>2, <2>1, <3>1, <5>1
      <4> QED BY <1>2, <4>2, <4>3
    <3>2. CASE req'[v] = m
      <4>1. z = m \/ z.n < m.n
        BY <1>2, <1>6, <2>1, <3>2
      <4>2. z.n \in Nat /\ m.n \in Nat
        BY <1>2, <1>5, <1>7 DEF Message
      <4> QED BY <3>2, <4>1, <4>2
    <3> QED BY <1>10, <3>1, <3>2
  <2> QED BY <1>2, <2>1 DEF Flow, OrderInv, IsSend
<1>15. StartInv'
  BY <1>2, <1>5, <1>10 DEF Flow, StartInv, Starts, IsSend
<1> QED BY <1>9, <1>12, <1>13, <1>14, <1>15 DEF Flow

(* A service that finds the socket without data, in its lists and in the   *)
(* pipe, knows that all it sent before is with the kernel.                 *)
LEMMA FlowLocks ==
    ASSUME Inv, Flow, NEW w \in Service, TryDirect(w) \/ Recheck(w)
    PROVE  Flow'
<1>1. /\ UNCHANGED <<type, id, high, low, dw, closing, wire, torn, used, sent, pipe, req, started>>
      /\ pc[w] \in {"try", "locked"} /\ pc'[w] \in {"locked", "count", "write"}
      /\ \A v \in Service \ {w} : pc'[v] = pc[v]
      /\ pc'[w] = "locked" => can_direct_write(req[w].to)
      /\ pc'[w] = "write" => pc[w] = "locked" /\ can_direct_write(req[w].to)
  <2>1. CASE TryDirect(w)
    BY <2>1 DEF TryDirect, Goto, slot, hist, env, Inv, CallInv
  <2>2. CASE Recheck(w)
    BY <2>2 DEF Recheck, Goto, slot, hist, env, Inv, CallInv
  <2> QED BY <2>1, <2>2
<1>2. \A v \in Service : pc'[v] # "idle" <=> pc[v] # "idle"
  BY <1>1
<1>3. \A y : Pending(y)' <=> Pending(y)
  BY <1>1, <1>2 DEF Pending, Calling, Queued
<1>4. PICK m : m = req[w]
  OBVIOUS
<1>5. m \in sent /\ m.from = w
  BY <1>1, <1>4 DEF Inv, CallInv
<1>6. ASSUME pc'[w] = "write", ~closing
      PROVE  /\ dw = << >> /\ Len(wire[id]) % Size = 0
             /\ \A y \in sent : Akin(y, m) /\ y # m => On(y, wire[id])
  <2>1. id = m.to /\ type = "CONNECTED" /\ sending.n = 0 /\ high \o low \o dw = << >>
    BY <1>1, <1>4, <1>6 DEF can_direct_write, nomore_sending_data
  <2>2. high \in Seq(Message) /\ low \in Seq(Message) /\ dw \in Seq(Message)
    BY DEF Inv, ListInv
  <2>3. high = << >> /\ low = << >> /\ dw = << >>
    <3>1. high \o low \in Seq(Message)
      BY <2>2, Cat
    <3>2. high \o low = << >> /\ dw = << >>
      BY <2>1, <2>2, <3>1, ConcatEqualIffEmpty
    <3> QED BY <2>2, <3>2, ConcatEqualIffEmpty
  <2>4. Live /\ wire[id] \in Seq(Message)
    BY <1>6, <2>1, SocketAssumption DEF Live, Inv, SlotInv, Flow, WireInv
  <2>5. wire[id] \o First = wire[id] /\ Stream = wire[id]
    <3>1. First = << >>
      BY <2>2, <2>3, ConcatEmptySeq DEF First
    <3>2. wire[id] \o First = wire[id]
      BY <2>4, <3>1, ConcatEmptySeq
    <3> QED BY <2>3, <2>4, <3>2, ConcatEmptySeq DEF Stream
  <2>6. Owed = {}
    BY <2>1, FS_EmptySet, FS_Subset DEF Inv, CountInv, SentInv, Owed
  <2>7. ASSUME NEW y \in sent, Akin(y, m), y # m PROVE On(y, wire[id])
    <3>1. y.to = id /\ y.from = w
      BY <1>5, <2>1, <2>7 DEF Akin
    <3>2. ~Queued(y)
      BY <2>6, <3>1 DEF Owed
    <3>3. ~Calling(y)
      <4>1. SUFFICES ASSUME NEW v \in Service, pc[v] # "idle", req[v] = y PROVE FALSE
        BY DEF Calling
      <4>2. v = w
        BY <3>1, <4>1 DEF Inv, CallInv
      <4> QED BY <1>4, <2>7, <4>1, <4>2
    <3> QED BY <2>1, <2>4, <2>5, <3>1, <3>2, <3>3 DEF Flow, StreamInv, Pending
  <2> QED BY <2>3, <2>4, <2>5, <2>7 DEF Flow, StreamInv
<1>7. LockInv'
  <2> SUFFICES ASSUME NEW v \in Service, pc'[v] \in {"locked", "write"}
               PROVE  /\ req[v].to = id /\ type \in {"CONNECTED", "HALFCLOSE"}
                      /\ pc'[v] = "write" /\ ~closing =>
                           /\ dw = << >> /\ Len(wire[id]) % Size = 0
                           /\ \A y \in sent : Akin(y, req[v]) /\ y # req[v] => On(y, wire[id])
    BY <1>1 DEF LockInv
  <2>1. CASE v = w
    BY <1>1, <1>4, <1>6, <2>1 DEF can_direct_write
  <2>2. CASE v # w
    BY <1>1, <2>2 DEF Flow, LockInv
  <2> QED BY <2>1, <2>2
<1>8. OrderInv'
  BY <1>1, <1>2 DEF Flow, OrderInv, IsSend
<1>9. StartInv'
  BY <1>1, <1>2 DEF Flow, StartInv, Starts, IsSend
<1> QED BY <1>1, <1>3, <1>7, <1>8, <1>9, FlowQuiet

(* inc_sending_ref.                                                        *)
LEMMA FlowCount ==
    ASSUME Inv, Flow, NEW w \in Service, inc_sending_ref(w)
    PROVE  Flow'
<1>1. /\ UNCHANGED <<type, id, high, low, dw, closing, wire, torn, used, sent, pipe, req, started>>
      /\ \A v \in Service : pc'[v] = pc[v] \/ (pc[v] = "count" /\ pc'[v] = "put")
  <2>1. /\ UNCHANGED <<type, id, high, low, dw, thread, pipe, req, env, hist>>
        /\ pc[w] = "count" /\ pc' = [pc EXCEPT ![w] = "put"]
    BY DEF inc_sending_ref, Goto
  <2>2. \A v \in Service : pc'[v] = pc[v] \/ (pc[v] = "count" /\ pc'[v] = "put")
    <3>1. pc' = [pc EXCEPT ![w] = "put"] /\ pc[w] = "count"
      BY <2>1
    <3>2. \A v \in Service : pc'[v] = IF v = w THEN "put" ELSE pc[v]
      BY <3>1 DEF Inv, CallInv
    <3> QED BY <3>1, <3>2
  <2>3. UNCHANGED <<closing, wire, torn, used, sent, started>>
    BY <2>1 DEF thread, env, hist
  <2> QED BY <2>1, <2>2, <2>3
<1>2. \A v \in Service : pc'[v] # "idle" <=> pc[v] # "idle"
  BY <1>1
<1>3. \A y : Pending(y)' <=> Pending(y)
  BY <1>1, <1>2 DEF Pending, Calling, Queued
<1>4. LockInv'
  <2>1. \A v \in Service : pc'[v] \in {"locked", "write"} => pc'[v] = pc[v]
    BY <1>1
  <2> QED BY <1>1, <2>1 DEF Flow, LockInv
<1>5. OrderInv'
  BY <1>1, <1>2 DEF Flow, OrderInv, IsSend
<1>6. StartInv'
  BY <1>1, <1>2 DEF Flow, StartInv, Starts, IsSend
<1> QED BY <1>1, <1>3, <1>4, <1>5, <1>6, FlowQuiet

(* A message comes into the pipe behind its kin.                           *)
LEMMA FlowPut ==
    ASSUME Inv, Flow, NEW w \in Service, send_request(w)
    PROVE  Flow'
<1>1. PICK m : m = req[w]
  OBVIOUS
<1>2. PICK r : r = [cmd |-> m.prio, id |-> m.to, m |-> m]
  OBVIOUS
<1>3. /\ UNCHANGED <<type, id, high, low, dw, closing, wire, torn, used, sent, started>>
      /\ pc[w] = "put" /\ pc' = [pc EXCEPT ![w] = "idle"] /\ req' = [req EXCEPT ![w] = None]
      /\ pipe' = Append(pipe, r)
  BY <1>1, <1>2 DEF send_request, Done, Goto, slot, thread, env, hist
<1>4. m \in sent /\ m.from = w /\ ~Queued(m) /\ m \in Message
  BY <1>1, <1>3 DEF Inv, CallInv, SentInv
<1>5. r \in Requests /\ IsSend(r) /\ r.m = m /\ r.id = m.to
  BY <1>2, <1>4 DEF Requests, SendRequest, IsSend, Message
<1>6. /\ pipe' \in Seq(Requests) /\ Len(pipe') = Len(pipe) + 1 /\ Len(pipe) \in Nat
      /\ \A k \in 1 .. Len(pipe) : pipe'[k] = pipe[k]
      /\ pipe'[Len(pipe) + 1] = r
  BY <1>3, <1>5, PipeGrows DEF Inv, PipeInv
<1>7. \A k \in 1 .. Len(pipe') : (k \in 1 .. Len(pipe) /\ pipe'[k] = pipe[k])
                                 \/ (k = Len(pipe) + 1 /\ pipe'[k] = r)
  BY <1>6
<1>8. \A v \in Service : /\ pc'[v] = IF v = w THEN "idle" ELSE pc[v]
                         /\ v # w => req'[v] = req[v]
  BY <1>3 DEF Inv, CallInv
<1>9. \A y : Pending(y)' <=> Pending(y)
  <2>1. \A y : Queued(y)' <=> (Queued(y) \/ y = m)
    <3>1. \A k \in 1 .. Len(pipe) : k \in 1 .. Len(pipe') /\ pipe'[k] = pipe[k]
      BY <1>6
    <3>2. Len(pipe) + 1 \in 1 .. Len(pipe')
      BY <1>6
    <3> QED BY <1>5, <1>6, <1>7, <3>1, <3>2 DEF Queued, IsSend
  <2>2. Calling(m) /\ \A y : y # m => (Calling(y)' <=> Calling(y))
    BY <1>1, <1>3, <1>8 DEF Calling
  <2> QED BY <2>1, <2>2 DEF Pending
<1>10. LockInv'
  BY <1>3, <1>8 DEF Flow, LockInv
<1>11. OrderInv'
  <2>1. ASSUME NEW i \in 1 .. Len(pipe'), NEW j \in 1 .. Len(pipe'), i < j,
               IsSend(pipe'[i]), IsSend(pipe'[j]), Akin(pipe'[i].m, pipe'[j].m)
        PROVE  pipe'[i].m.n < pipe'[j].m.n
    <3>1. i \in 1 .. Len(pipe) /\ pipe'[i] = pipe[i]
      BY <1>6, <2>1
    <3>2. CASE j \in 1 .. Len(pipe)
      BY <1>6, <2>1, <3>1, <3>2 DEF Flow, OrderInv
    <3>3. CASE j = Len(pipe) + 1
      <4>1. PICK x : x = pipe[i].m
        OBVIOUS
      <4>2. x \in sent /\ x # m /\ Akin(x, m)
        BY <1>4, <1>5, <1>6, <2>1, <3>1, <3>3, <4>1 DEF Inv, PipeInv, Queued
      <4>3. x.n <= m.n
        BY <1>1, <1>3, <4>2 DEF Flow, OrderInv
      <4>4. x.n # m.n /\ x.n \in Nat /\ m.n \in Nat
        BY <1>4, <4>2 DEF Akin, Message, Inv, SentInv
      <4> QED BY <1>5, <1>6, <3>1, <3>3, <4>1, <4>3, <4>4
    <3> QED BY <1>7, <3>2, <3>3
  <2>2. \A v \in Service : pc'[v] # "idle" => \A z \in sent' : Akin(z, req'[v]) => z.n <= req'[v].n
    BY <1>3, <1>8 DEF Flow, OrderInv
  <2> QED BY <2>1, <2>2 DEF OrderInv, IsSend
<1>12. StartInv'
  <2>1. \A v \in Service : pc'[v] # "idle" => req'[v].to \in started'
    BY <1>3, <1>8 DEF Flow, StartInv
  <2>2. \A k \in 1 .. Len(pipe) : Starts(k) =>
           k \in 1 .. Len(pipe') /\ pipe'[k].cmd = "S" /\ pipe'[k].id = id'
    BY <1>3, <1>6 DEF Starts
  <2>3. ASSUME type' = "PACCEPT", id' \in started'
        PROVE  \E k \in 1 .. Len(pipe') : pipe'[k].cmd = "S" /\ pipe'[k].id = id'
    BY <1>3, <2>2, <2>3 DEF Flow, StartInv
  <2>4. ASSUME type' = "PACCEPT", NEW j \in 1 .. Len(pipe'), IsSend(pipe'[j]), pipe'[j].id = id'
        PROVE  \E k \in 1 .. j - 1 : pipe'[k].cmd = "S" /\ pipe'[k].id = id'
    <3>1. \E k \in 1 .. j - 1 : k \in 1 .. Len(pipe) /\ Starts(k)
      <4>1. CASE j \in 1 .. Len(pipe)
        <5>1. PICK k \in 1 .. j - 1 : Starts(k)
          BY <1>3, <1>6, <2>4, <4>1 DEF Flow, StartInv
        <5>2. k \in 1 .. Len(pipe)
          BY <1>6, <4>1
        <5> QED BY <5>1, <5>2
      <4>2. CASE j = Len(pipe) + 1
        <5>1. m.to \in started /\ m.to = id
          BY <1>1, <1>3, <1>5, <1>6, <2>4, <4>2 DEF Flow, StartInv
        <5>2. PICK k \in 1 .. Len(pipe) : Starts(k)
          BY <1>3, <2>4, <5>1 DEF Flow, StartInv
        <5>3. k \in 1 .. j - 1
          BY <1>6, <4>2
        <5> QED BY <5>2, <5>3
      <4> QED BY <1>7, <4>1, <4>2
    <3> QED BY <2>2, <3>1
  <2> QED BY <2>1, <2>3, <2>4 DEF StartInv, Starts, IsSend
<1> QED BY <1>3, <1>9, <1>10, <1>11, <1>12, FlowQuiet

(* A direct write: the kernel takes the front of the message, and the rest *)
(* waits in front of the lists.  While force_close runs there are no lists *)
(* any more, and the stream of the id counts as torn.                      *)
LEMMA FlowWrite ==
    ASSUME Inv, Flow, NEW w \in Service, Write(w)
    PROVE  Flow'
<1>1. PICK m : m = req[w]
  OBVIOUS
<1>2. m \in sent /\ m.from = w /\ m \in Message /\ ~Queued(m) /\ pc[w] = "write" /\ lock = w
  BY <1>1 DEF Write, Inv, CallInv, SentInv
<1>3. m.to = id /\ type \in {"CONNECTED", "HALFCLOSE"}
  BY <1>1, <1>2 DEF Flow, LockInv
<1>4. PICK v \in Seq(Message) : v = Bytes(m) /\ Len(v) = Size
  BY <1>2, BytesOK
<1>5. PICK n \in 0 .. Size :
         /\ wire' = [wire EXCEPT ![id] = @ \o Front(v, n)] /\ dw' = Rest(v, n)
         /\ torn' = IF closing /\ n > 0 THEN torn \cup {id} ELSE torn
  BY <1>1, <1>3, <1>4 DEF Write
<1>6. /\ UNCHANGED <<type, id, high, low, closing, used, sent, pipe, started>>
      /\ pc' = [pc EXCEPT ![w] = "idle"] /\ req' = [req EXCEPT ![w] = None]
  BY DEF Write, Done, Goto, env
<1>7. \A x \in Service : /\ pc'[x] = IF x = w THEN "idle" ELSE pc[x]
                         /\ x # w => req'[x] = req[x]
  BY <1>6 DEF Inv, CallInv
<1>8. id \in 1 .. MaxId /\ id <= used /\ used \in Nat
  BY <1>3, SocketAssumption DEF Inv, SlotInv, Flow, WireInv
<1>9. PICK s \in Seq(Message) : s = wire[id]
  BY <1>8 DEF Flow, WireInv
<1>10. PICK x, y :
          /\ x \in Seq(Message) /\ y \in Seq(Message)
          /\ x = Front(v, n) /\ y = Rest(v, n) /\ Len(x) = n /\ x \o y = v
  <2>1. n \in 0 .. Len(v)
    BY <1>4
  <2>2. /\ Front(v, n) \in Seq(Message) /\ Rest(v, n) \in Seq(Message)
        /\ Len(Front(v, n)) = n /\ Front(v, n) \o Rest(v, n) = v
    BY <2>1, Pieces
  <2> QED BY <2>2
<1>20. ASSUME NEW g \in Seq(Message) PROVE (s \o x) \o (y \o g) = (s \o v) \o g
  <2>1. PICK a : a \in Seq(Message) /\ a = s \o x
    BY <1>10, Cat
  <2>2. y \in Seq(Message)
    BY <1>10
  <2>3. Joins(a, y, g)
    BY <2>1, <2>2, Joined, Zenon
  <2>4. x \in Seq(Message)
    BY <1>10
  <2>5. Joins(s, x, y)
    BY <2>2, <2>4, Joined, Zenon
  <2> QED BY <1>10, <2>1, <2>3, <2>5 DEF Joins
<1>11. /\ wire' \in [1 .. MaxId -> Seq(Message)]
       /\ \A i \in 1 .. MaxId : wire'[i] = IF i = id THEN s \o x ELSE wire[i]
  <2>1. wire \in [1 .. MaxId -> Seq(Message)]
    BY DEF Flow, WireInv
  <2>2. PICK u \in Seq(Message) : u = s \o x
    BY <1>10, Cat
  <2>3. wire' = [wire EXCEPT ![id] = u]
    BY <1>5, <1>9, <1>10, <2>2
  <2> QED BY <1>8, <2>1, <2>2, <2>3
<1>12. \A z : Pending(z)' <=> Pending(z) /\ z # m
  <2>1. \A z : Queued(z)' <=> Queued(z)
    BY <1>6 DEF Queued
  <2>2. \A z : Calling(z)' <=> Calling(z) /\ z # m
    <3>1. \A u \in Service : u # w /\ pc[u] # "idle" => req[u] # m
      BY <1>2 DEF Inv, CallInv
    <3> QED BY <1>1, <1>2, <1>7, <3>1 DEF Calling
  <2> QED BY <1>2, <2>1, <2>2 DEF Pending
<1>13. LockInv'
  <2>1. \A u \in Service : ~(pc'[u] \in {"locked", "write"})
    BY <1>2, <1>7 DEF Inv, CallInv
  <2> QED BY <2>1 DEF LockInv
<1>14. OrderInv'
  BY <1>6, <1>7 DEF Flow, OrderInv, IsSend
<1>15. StartInv'
  BY <1>6, <1>7 DEF Flow, StartInv, Starts, IsSend
<1>16. CASE closing
  <2>1. StreamInv'
    BY <1>6, <1>16 DEF StreamInv, Live
  <2>2. n = 0 => s \o x = s
    <3>1. n = 0 => x = << >>
      BY <1>10
    <3> QED BY <3>1, ConcatEmptySeq
  <2>3. \A i \in (1 .. MaxId) \ torn' : i \notin torn /\ wire'[i] = wire[i]
    <3>1. CASE n = 0
      BY <1>5, <1>9, <1>11, <2>2, <3>1
    <3>2. CASE n > 0
      BY <1>5, <1>8, <1>11, <1>16, <3>2
    <3> QED BY <3>1, <3>2
  <2>4. torn' \subseteq 1 .. used
    BY <1>5, <1>8 DEF Flow, WireInv
  <2>5. \A i \in 1 .. MaxId : i > used => wire'[i] = << >>
    BY <1>8, <1>11 DEF Flow, WireInv
  <2>6. \A i \in (1 .. MaxId) \ torn' : Good(sent, i, wire'[i])
    BY <2>3 DEF Flow, WireInv
  <2>7. WireInv'
    BY <1>6, <1>8, <1>11, <1>16, <2>4, <2>5, <2>6 DEF WireInv
  <2> QED BY <1>13, <1>14, <1>15, <2>1, <2>7 DEF Flow
<1>17. CASE ~closing
  <2>1. /\ dw = << >> /\ Len(s) % Size = 0 /\ torn' = torn
        /\ \A z \in sent : Akin(z, m) /\ z # m => On(z, s)
    BY <1>1, <1>2, <1>5, <1>9, <1>17 DEF Flow, LockInv
  <2>2. Live
    BY <1>3, <1>17 DEF Live
  <2>3. PICK h \in Seq(Message), l \in Seq(Message) : h = high /\ l = low
    BY DEF Inv, ListInv
  <2>15. Joins(s, h, l)
    BY Joined, Zenon
  <2>4. PICK t \in Seq(Message) : t = h \o l
    BY Cat
  <2>5. First = h /\ Stream = s \o t
    <3>1. First = h
      BY <2>1, <2>3, ConcatEmptySeq DEF First
    <3> QED BY <1>9, <2>3, <2>4, <2>15, <3>1 DEF Stream, Joins
  <2>6. Good(sent, id, s \o t) /\ sent \subseteq Message
    BY <2>2, <2>5 DEF Flow, StreamInv, Inv, SentInv
  <2>7. ~On(m, s \o t)
    <3>1. Pending(m)
      BY <1>1, <1>2 DEF Pending, Calling
    <3> QED BY <1>2, <2>2, <2>5, <3>1 DEF Flow, StreamInv
  <2>8. Good(sent, id, (s \o v) \o t)
    <3>1. \A z \in sent : Akin(z, m) /\ z.n < m.n => On(z, s)
      <4>1. \A z \in sent : z.n < m.n => z # m
        BY <1>2, <2>6 DEF Message
      <4> QED BY <2>1, <4>1
    <3> QED BY <1>2, <1>3, <1>4, <2>1, <2>6, <2>7, <3>1, GoodInsert
  <2>9. \A z : On(z, (s \o v) \o t) <=> On(z, s \o t) \/ z = m
    BY <1>2, <1>4, OnInsert
  <2>10. First' = y \o h /\ wire'[id'] \o First' = (s \o v) \o h /\ Stream' = (s \o v) \o t
    <3>1. First' = y \o h /\ wire'[id'] = s \o x /\ low' = l
      BY <1>5, <1>6, <1>8, <1>10, <1>11, <2>3 DEF First
    <3>2. (s \o x) \o (y \o h) = (s \o v) \o h
      BY <1>20
    <3>3. ((s \o v) \o h) \o l = (s \o v) \o (h \o l)
      <4>1. PICK a \in Seq(Message) : a = s \o v
        BY Cat
      <4>2. Joins(a, h, l)
        BY Joined, Zenon
      <4> QED BY <4>1, <4>2 DEF Joins
    <3> QED BY <2>4, <3>1, <3>2, <3>3 DEF Stream
  <2>11. Len(wire'[id'] \o First') % Size = 0
    <3>1. Len((s \o v) \o h) = Len(s \o h) + Size /\ Len(s \o h) \in Int
      BY <1>4, Inserted, Cat
    <3>2. Len(s \o h) % Size = 0
      BY <1>9, <2>2, <2>5 DEF Flow, StreamInv
    <3>3. Size \in Int /\ Size % Size = 0
      BY SocketAssumption
    <3>4. PICK k \in Int : k = Len(s \o h)
      BY <3>1
    <3>5. (k + Size) % Size = 0
      BY <3>2, <3>3, <3>4, Multiples
    <3> QED BY <2>10, <3>1, <3>4, <3>5
  <2>12. StreamInv'
    <3>1. Good(sent', id', Stream')
      BY <1>6, <2>8, <2>10
    <3>2. \A b \in 1 .. Len(low') : low'[b].prio = "P"
      BY <1>6, <2>2 DEF Flow, StreamInv
    <3>3. \A z : On(z, Stream') <=> On(z, Stream) \/ z = m
      BY <2>5, <2>9, <2>10
    <3>4. \A z \in sent' : On(z, Stream') => ~Pending(z)'
      BY <1>6, <1>12, <2>2, <3>3 DEF Flow, StreamInv
    <3>5. type' # "HALFCLOSE" => \A z \in sent' : z.to = id' => On(z, Stream') \/ Pending(z)'
      BY <1>6, <1>12, <2>2, <3>3 DEF Flow, StreamInv
    <3> QED BY <2>11, <3>1, <3>2, <3>4, <3>5 DEF StreamInv
  <2>13. Good(sent, id, s \o x)
    <3>1. PICK a \in Seq(Message), z \in Seq(Message) : a = s \o x /\ z = y \o h
      BY <1>10, Cat
    <3>2. (a \o z) \o l = Stream' /\ a \o z \in Seq(Message)
      BY <1>6, <1>8, <1>11, <2>3, <2>10, <3>1, Cat DEF Stream
    <3>3. Good(sent, id, (a \o z) \o l)
      BY <2>8, <2>10, <3>2
    <3>4. Good(sent, id, a \o z)
      BY <3>2, <3>3, GoodFront
    <3>5. Good(sent, id, a)
      BY <3>4, GoodFront
    <3> QED BY <3>1, <3>5
  <2>14. WireInv'
    <3>1. \A i \in (1 .. MaxId) \ torn : Good(sent, i, wire'[i])
      BY <1>11, <2>13 DEF Flow, WireInv
    <3>2. \A i \in 1 .. MaxId : i > used => wire'[i] = << >>
      BY <1>8, <1>11 DEF Flow, WireInv
    <3> QED BY <1>6, <1>11, <2>1, <3>1, <3>2 DEF Flow, WireInv
  <2> QED BY <1>13, <1>14, <1>15, <2>12, <2>14 DEF Flow
<1> QED BY <1>16, <1>17

(* Flow is inductive, given Inv.                                           *)
LEMMA FlowInit == Init => Flow
<1> SUFFICES ASSUME Init PROVE Flow
  OBVIOUS
<1>1. \A i \in 1 .. MaxId : wire[i] = << >>
  BY DEF Init
<1>2. wire \in [1 .. MaxId -> Seq(Message)]
  BY EmptyLists DEF Init
<1>3. Good({}, 0, << >>) /\ \A i : Good({}, i, << >>)
  BY EmptyLists DEF Good
<1>4. WireInv
  BY <1>1, <1>2, <1>3 DEF Init, WireInv
<1>5. StreamInv
  BY DEF Init, StreamInv, Live
<1>6. LockInv /\ OrderInv /\ StartInv
  BY DEF Init, LockInv, OrderInv, StartInv
<1> QED BY <1>4, <1>5, <1>6 DEF Flow

LEMMA FlowStep == Inv /\ Flow /\ [Next]_vars => Flow'
<1> SUFFICES ASSUME Inv, Flow, [Next]_vars PROVE Flow'
  OBVIOUS
<1>1. ASSUME NEW i \in 1 .. used, Start(i) \/ \E cmd \in {"K", "k"} : Close(i, cmd)
      PROVE  Flow'
  BY <1>1, FlowRequest
<1>2. ASSUME NEW w \in Service, NEW i \in started, NEW prio \in {"D", "P"}, Send(w, i, prio)
      PROVE  Flow'
  BY <1>2, FlowSendCall
<1>3. ASSUME NEW w \in Service, socket_server_send(w)
      PROVE  Flow'
  BY <1>3, FlowLocks, FlowWrite, FlowCount, FlowPut DEF socket_server_send
<1>4. CASE report_accept \/ ctrl_cmd \/ FinishClose \/ send_buffer \/ Gone
  BY <1>4, FlowAccept, FlowStarted, FlowSend, FlowClose, FlowFlush, FlowGone DEF ctrl_cmd
<1>5. CASE UNCHANGED vars
  <2>1. UNCHANGED <<type, id, high, low, dw, closing, wire, torn, used, sent, pipe, pc, req, started>>
    BY <1>5 DEF vars, slot, thread, ops, env, hist
  <2>2. \A y : Pending(y)' <=> Pending(y)
    BY <2>1 DEF Pending, Calling, Queued
  <2>3. LockInv' /\ OrderInv' /\ StartInv'
    BY <2>1, LockSame, OrderSame, StartSame DEF Flow
  <2> QED BY <2>1, <2>2, <2>3, FlowQuiet
<1>6. started \subseteq 1 .. used
  BY DEF Inv, SlotInv
<1> QED BY <1>1, <1>2, <1>3, <1>4, <1>5, <1>6 DEF Next

(* The place of a message among its kin is the number of its kin in front  *)
(* of it on a good stream.                                                 *)
LEMMA CountOnStream ==
    ASSUME Inv, NEW i \in 1 .. MaxId, Good(sent, i, wire[i]),
           NEW k \in 1 .. (Len(wire[i]) + Size - 1) \div Size
    PROVE  Taken(i, k).n = Cardinality({j \in 1 .. k - 1 :
               Taken(i, j).from = Taken(i, k).from /\ Taken(i, j).prio = Taken(i, k).prio})
<1> DEFINE J == {j \in 1 .. k - 1 :
                   Taken(i, j).from = Taken(i, k).from /\ Taken(i, j).prio = Taken(i, k).prio}
<1>0. PICK s : s = wire[i]
  OBVIOUS
<1>20. Good(sent, i, s)
  BY <1>0
<1>1. PICK l \in Nat : l = Len(s)
  BY <1>20 DEF Good
<1>2. PICK z \in Nat \ {0} : z = Size
  BY SocketAssumption
<1>3. \A j \in 1 .. k : (j - 1) * Size + 1 \in 1 .. l /\ Block((j - 1) * Size + 1) = j - 1
  <2> SUFFICES ASSUME NEW j \in 1 .. k
               PROVE  (j - 1) * Size + 1 \in 1 .. l /\ Block((j - 1) * Size + 1) = j - 1
    OBVIOUS
  <2>1. PICK q \in Int : q = (l + z - 1) \div z
    BY <1>2
  <2>2. q * z <= l + z - 1 /\ k <= q /\ k \in Int /\ j \in Int /\ 1 <= j /\ j <= k
    <3>1. q * z <= l + z - 1
      BY <1>2, <2>1
    <3>2. k \in 1 .. q
      BY <1>0, <1>1, <1>2, <2>1
    <3> QED BY <3>1, <3>2
  <2>3. PICK p \in Int : p = (j - 1) * z
    BY <1>2
  <2>4. p >= 0 /\ p + 1 <= l
    <3>1. p >= 0
      BY <1>2, <2>2, <2>3
    <3>2. (j - 1) * z <= (q - 1) * z
      BY <1>2, <2>2
    <3>3. (q - 1) * z = q * z - z
      BY <1>2
    <3> QED BY <1>2, <2>2, <2>3, <3>1, <3>2, <3>3
  <2>5. p \div z = j - 1
    BY <1>2, <2>2, <2>3
  <2>6. Block(p + 1) = j - 1
    <3>1. (p + 1) - 1 = p
      OBVIOUS
    <3> QED BY <1>2, <2>5, <3>1 DEF Block
  <2> QED BY <1>2, <2>3, <2>4, <2>6
<1>4. PICK f : f = [j \in 1 .. k |-> s[(j - 1) * Size + 1]]
  OBVIOUS
<1>5. PICK g : g = [j \in 1 .. k |-> (j - 1) * Size + 1]
  OBVIOUS
<1>6. \A j \in 1 .. k : g[j] \in 1 .. l /\ Block(g[j]) = j - 1 /\ f[j] = s[g[j]] /\ Taken(i, j) = f[j]
  BY <1>0, <1>3, <1>4, <1>5 DEF Taken
<1>7. k \in Nat \ {0}
  <2>1. PICK q \in Int : q = (l + z - 1) \div z
    BY <1>2
  <2> QED BY <1>0, <1>1, <1>2, <2>1
<1>8. J = {j \in 1 .. k - 1 : f[j].from = f[k].from /\ f[j].prio = f[k].prio} /\ Taken(i, k) = f[k]
  BY <1>6, <1>7
<1> HIDE DEF J
<1>9. PICK m : m = f[k]
  OBVIOUS
<1>10. m \in sent /\ m.to = i /\ sent \subseteq Message
  <2>1. g[k] \in 1 .. Len(s) /\ s[g[k]] = m
    BY <1>1, <1>6, <1>7, <1>9
  <2>2. sent \subseteq Message
    BY DEF Inv, SentInv
  <2> QED BY <1>20, <2>1, <2>2 DEF Good
<1>11. ASSUME NEW j \in J
       PROVE  /\ j \in 1 .. k - 1 /\ f[j] \in Kin(m) /\ f[j].n \in Nat /\ f[j].n < m.n
  <2>1. j \in 1 .. k - 1 /\ j \in 1 .. k /\ f[j].from = m.from /\ f[j].prio = m.prio
    BY <1>7, <1>8, <1>9
  <2>2. f[j] \in sent /\ f[j].to = i
    <3>1. g[j] \in 1 .. Len(s) /\ f[j] = s[g[j]]
      BY <1>1, <1>6, <2>1
    <3> QED BY <1>20, <3>1 DEF Good
  <2>3. f[j] \in Kin(m) /\ f[j].n \in Nat /\ m.n \in Nat
    BY <1>10, <2>1, <2>2 DEF Kin, Message
  <2>4. f[j] # m
    <3>1. SUFFICES ASSUME s[g[j]] = s[g[k]] PROVE FALSE
      BY <1>6, <1>7, <1>9, <2>1
    <3>2. Block(g[j]) = Block(g[k])
      BY <1>20, <1>1, <1>6, <1>7, <2>1, <3>1 DEF Good
    <3> QED BY <1>6, <1>7, <2>1, <3>2
  <2>5. ~(m.n < f[j].n)
    <3>1. SUFFICES ASSUME m.n < f[j].n PROVE FALSE
      OBVIOUS
    <3>2. Akin(m, s[g[j]]) /\ m.n < s[g[j]].n /\ g[j] \in 1 .. Len(s)
      BY <1>1, <1>6, <1>10, <2>1, <2>2, <3>1 DEF Akin
    <3>3. PICK b \in 1 .. g[j] - 1 : s[b] = m
      BY <1>20, <1>10, <3>2 DEF Good
    <3>4. b \in 1 .. Len(s) /\ b \in Nat \ {0} /\ b < g[j] /\ g[k] \in 1 .. Len(s) /\ s[g[k]] = m
      BY <1>1, <1>6, <1>7, <1>9, <2>1, <3>2, <3>3
    <3>5. Block(b) = k - 1
      <4>1. Block(b) = Block(g[k])
        BY <1>20, <3>4, <3>3 DEF Good
      <4> QED BY <1>6, <1>7, <4>1
    <3>6. g[j] = (j - 1) * Size + 1 /\ j - 1 \in Nat
      BY <1>5, <2>1
    <3>7. b <= (j - 1) * Size
      <4>1. PICK p \in Int : p = (j - 1) * Size
        BY <1>2, <2>1
      <4> QED BY <3>4, <3>6, <4>1
    <3>8. Block(b) < j - 1
      BY <3>4, <3>6, <3>7, BlockIs
    <3> QED BY <1>7, <2>1, <3>5, <3>8
  <2>6. f[j].n # m.n
    BY <1>10, <2>3, <2>4, KinPlaces DEF Kin
  <2> QED BY <2>1, <2>3, <2>5, <2>6
<1>12. PICK e : e = [j \in J |-> f[j].n]
  OBVIOUS
<1>13. m.n \in Nat /\ e \in [J -> 0 .. m.n - 1]
  BY <1>10, <1>11, <1>12 DEF Message
<1>14. ASSUME NEW a \in J, NEW b \in J, e[a] = e[b] PROVE a = b
  <2>1. f[a] = f[b]
    BY <1>10, <1>11, <1>12, <1>14, KinPlaces
  <2>2. a \in 1 .. k /\ b \in 1 .. k
    BY <1>7, <1>11
  <2>3. Block(g[a]) = Block(g[b])
    BY <1>20, <1>1, <1>6, <2>1, <2>2 DEF Good
  <2> QED BY <1>6, <2>2, <2>3
<1>15. ASSUME NEW c \in 0 .. m.n - 1 PROVE \E j \in J : e[j] = c
  <2>1. IsFiniteSet(Kin(m)) /\ {x.n : x \in Kin(m)} = 0 .. Cardinality(Kin(m)) - 1
    BY <1>10, KinPlaces
  <2>2. m \in Kin(m) /\ Cardinality(Kin(m)) \in Nat /\ m.n < Cardinality(Kin(m))
    BY <1>10, <2>1, FS_CardinalityType DEF Kin, Inv, SentInv
  <2>3. c \in 0 .. Cardinality(Kin(m)) - 1
    BY <1>13, <2>2
  <2>4. PICK y \in Kin(m) : y.n = c
    BY <2>1, <2>3
  <2>5. y \in sent /\ Akin(y, s[g[k]]) /\ y.n < s[g[k]].n /\ g[k] \in 1 .. Len(s)
    BY <1>1, <1>6, <1>7, <1>9, <1>13, <2>4 DEF Kin, Akin
  <2>6. PICK b \in 1 .. g[k] - 1 : s[b] = y
    BY <1>20, <2>5 DEF Good
  <2>7. b \in 1 .. Len(s) /\ b \in Nat \ {0} /\ b < g[k]
    BY <1>1, <1>6, <1>7, <2>5, <2>6
  <2>8. Block(b) \in Nat /\ Block(b) < k - 1
    <3>1. g[k] = (k - 1) * Size + 1 /\ k - 1 \in Nat
      BY <1>5, <1>7
    <3>2. b <= (k - 1) * Size
      <4>1. PICK p \in Int : p = (k - 1) * Size
        BY <1>2, <1>7
      <4> QED BY <2>7, <3>1, <4>1
    <3> QED BY <2>7, <3>1, <3>2, BlockIs
  <2>9. PICK j \in 1 .. k - 1 : j - 1 = Block(b)
    <3>1. Block(b) + 1 \in 1 .. k - 1 /\ (Block(b) + 1) - 1 = Block(b)
      BY <1>7, <2>8
    <3> QED BY <3>1
  <2>10. j \in 1 .. k /\ Block(g[j]) = Block(b) /\ g[j] \in 1 .. Len(s)
    BY <1>1, <1>6, <1>7, <2>9
  <2>11. f[j] = y
    BY <1>20, <1>6, <2>6, <2>7, <2>10 DEF Good
  <2>12. j \in J
    BY <1>8, <1>9, <2>4, <2>9, <2>11 DEF Kin
  <2> QED BY <1>12, <2>4, <2>11, <2>12
<1>16. e \in Bijection(J, 0 .. m.n - 1)
  BY <1>13, <1>14, <1>15 DEF Bijection, Injection, IsInjective, Surjection
<1>17. IsFiniteSet(J) /\ IsFiniteSet(0 .. m.n - 1)
  <2>1. IsFiniteSet(1 .. k - 1) /\ J \subseteq 1 .. k - 1
    BY <1>7, <1>11, FS_Interval
  <2>2. IsFiniteSet(J)
    BY <2>1, FS_Subset, Zenon
  <2>3. 0 \in Int /\ m.n - 1 \in Int
    BY <1>13
  <2> QED BY <2>2, <2>3, FS_Interval, Zenon
<1>18. Cardinality(0 .. m.n - 1) = m.n
  <2>1. 0 \in Int /\ m.n - 1 \in Int /\ (IF 0 > m.n - 1 THEN 0 ELSE (m.n - 1) - 0 + 1) = m.n
    BY <1>13
  <2> QED BY <2>1, FS_Interval
<1>19. Cardinality(0 .. m.n - 1) = Cardinality(J)
  BY <1>16, <1>17, FS_Bijection DEF ExistsBijection
<1> QED BY <1>8, <1>9, <1>18, <1>19 DEF J

(* Good streams are what StreamIntact says.                                *)
LEMMA GoodIsIntact ==
    ASSUME Inv, WireInv
    PROVE  StreamIntact
<1> SUFFICES ASSUME NEW i \in (1 .. MaxId) \ torn
             PROVE  /\ \A b \in 1 .. Len(wire[i]) :
                         wire[i][b].to = i /\ wire[i][b] = Taken(i, (b - 1) \div Size + 1)
                    /\ \A k \in 1 .. (Len(wire[i]) + Size - 1) \div Size :
                         Taken(i, k).n = Cardinality({j \in 1 .. k - 1 :
                             Taken(i, j).from = Taken(i, k).from /\ Taken(i, j).prio = Taken(i, k).prio})
  BY DEF StreamIntact
<1>1. PICK s : s = wire[i]
  OBVIOUS
<1>2. Good(sent, i, s)
  BY <1>1 DEF WireInv
<1>3. ASSUME NEW b \in 1 .. Len(s)
      PROVE  s[b].to = i /\ s[b] = Taken(i, (b - 1) \div Size + 1)
  <2>1. PICK z \in Nat \ {0} : z = Size
    BY SocketAssumption
  <2>2. PICK d \in Int : d = (b - 1) \div z
    BY <2>1
  <2>3. b \in Nat \ {0} /\ Len(s) \in Nat
    BY <1>2 DEF Good
  <2>4. Block(b) = d /\ d \in Nat
    BY <2>1, <2>2, <2>3, BlockIs DEF Block
  <2>5. PICK p \in Int : p = d * z
    BY <2>1
  <2>6. p <= b - 1 /\ p >= 0
    BY <2>1, <2>2, <2>3, <2>4, <2>5
  <2>7. p \div z = d
    BY <2>1, <2>4, <2>5
  <2>8. p + 1 \in 1 .. Len(s) /\ Block(p + 1) = d
    <3>1. (p + 1) - 1 = p /\ p + 1 \in 1 .. Len(s)
      BY <2>3, <2>6
    <3> QED BY <2>1, <2>7, <3>1 DEF Block
  <2>9. s[b] = s[p + 1] /\ s[b].to = i
    BY <1>2, <2>4, <2>8 DEF Good
  <2>11. PICK q : q = (b - 1) \div Size + 1
    OBVIOUS
  <2>12. Taken(i, q) = s[(q - 1) * Size + 1]
    BY <1>1 DEF Taken
  <2>13. (q - 1) * Size + 1 = p + 1
    <3>1. q = d + 1 /\ d + 1 - 1 = d
      BY <2>1, <2>2, <2>11
    <3> QED BY <2>1, <2>5, <3>1
  <2>14. s[b] = Taken(i, q)
    BY <2>9, <2>12, <2>13
  <2> QED BY <2>9, <2>11, <2>14, Zenon
<1>4. \A k \in 1 .. (Len(wire[i]) + Size - 1) \div Size :
        Taken(i, k).n = Cardinality({j \in 1 .. k - 1 :
            Taken(i, j).from = Taken(i, k).from /\ Taken(i, j).prio = Taken(i, k).prio})
  BY <1>1, <1>2, CountOnStream
<1> QED BY <1>1, <1>3, <1>4

(* What the kernel takes from a socket are whole messages of that socket,  *)
(* in the order of the calls for each service and priority, for any number *)
(* of services, of sockets in the slot, of messages and of bytes: whether  *)
(* a message goes out directly, in part, or through the lists.             *)
THEOREM StreamIsIntact == Spec => []StreamIntact
<1>1. Init => Inv /\ Flow
  BY InvInit, FlowInit
<1>2. Inv /\ Flow /\ [Next]_vars => (Inv /\ Flow)'
  BY InvStep, FlowStep
<1>3. Inv /\ Flow => StreamIntact
  BY GoodIsIntact DEF Flow
<1> QED BY <1>1, <1>2, <1>3, PTL DEF Spec
=============================================================================
