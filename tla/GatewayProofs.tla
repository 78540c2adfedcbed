---------------------------- MODULE GatewayProofs ----------------------------
(* Proofs about the gateway, for any set of clients and any maxclient.     *)
EXTENDS Gateway, FiniteSetTheorems, TLAPS

(* Message m is in a mailbox, and at one place only.                       *)
In(box, m) == \E i \in 1 .. Len(box) : box[i] = m

Once(box, m) == \A i, j \in 1 .. Len(box) : box[i] = m /\ box[j] = m => i = j

(* Where the life of client fd stands: the messages and the states that    *)
(* its report, its agent and the goodbye of the agent pass through.        *)
EnterStage == {"openS", "openW", "launching", "launched"}
ForwardStage == EnterStage \cup {"start", "forward"}
LifeStage == EnterStage \cup {"known", "kick", "kicked", "disconnect", "gone"}

Stages(fd) == {x \in ForwardStage \cup LifeStage :
    \/ x = "openS" /\ In(sq, <<"open", fd>>)
    \/ x = "openW" /\ In(wq, <<"open", fd>>)
    \/ x = "launching" /\ agent[fd] = "launching"
    \/ x = "launched" /\ In(wq, <<"launched", fd>>)
    \/ x = "start" /\ In(aq[fd], "start")
    \/ x = "forward" /\ In(sq, <<"forward", fd>>)
    \/ x = "known" /\ wagent[fd]
    \/ x = "kick" /\ In(sq, <<"kick", fd>>)
    \/ x = "kicked" /\ In(wq, <<"kicked", fd>>)
    \/ x = "disconnect" /\ In(aq[fd], "disconnect")
    \/ x = "gone" /\ agent[fd] = "gone"}

(* On its way to "forward", and on its way to its end, it is in one place. *)
OneStage(fd) ==
    /\ \A x, y \in Stages(fd) \cap ForwardStage : x = y
    /\ \A x, y \in Stages(fd) \cap LifeStage : x = y

SentOnce(fd) ==
    /\ \A type \in {"open", "forward", "kick"} : Once(sq, <<type, fd>>)
    /\ \A type \in {"open", "launched", "kicked"} : Once(wq, <<type, fd>>)
    /\ \A type \in {"start", "disconnect"} : Once(aq[fd], type)

(* Nobody knows a client that was not accepted yet.                        *)
Unborn(fd) == sock[fd] = "free" =>
    /\ Stages(fd) = {} /\ connection[fd] = "nil"
    /\ \A type : ~In(request, <<type, fd>>) /\ ~In(sq, <<type, fd>>) /\ ~In(wq, <<type, fd>>)

(* tcpserver opens the door once, and closes it before the agent's end.    *)
Doors(fd) ==
    /\ In(sq, <<"open", fd>>) => connection[fd] = "nil"
    /\ connection[fd] = "true" =>
          client[fd] # "nil" /\ Stages(fd) \cap {"kicked", "disconnect", "gone"} = {}

(* Before it is forwarded a client's socket is paused, so that nothing is  *)
(* reported of it and nobody drops it.                                     *)
Quiet(fd) ==
    /\ sock[fd] = "paused"
    /\ \A type : /\ ~In(request, <<type, fd>>)
                 /\ (In(sq, <<type, fd>>) => type \in {"open", "forward"})
                 /\ (In(wq, <<type, fd>>) => type \in {"open", "launched"})
    /\ In(sq, <<"open", fd>>) \/ client[fd] # "nil"

Comes(fd) == Stages(fd) \cap ForwardStage # {} /\ fd \notin commanded => Quiet(fd)

Last(fd) == \A i \in 1 .. Len(aq[fd]) - 1 : aq[fd][i] # "disconnect"

Found(fd) == /\ <<"message", fd>> \notin failed
             /\ <<"forward", fd>> \in failed => fd \in commanded

Way(fd) == /\ OneStage(fd) /\ SentOnce(fd) /\ Unborn(fd) /\ Doors(fd)
           /\ Comes(fd) /\ Last(fd) /\ Found(fd)

(* The inductive invariant.                                                *)
GateInv == CountsClients /\ \A fd \in FD : Way(fd)

-----------------------------------------------------------------------------
(* Mailboxes.                                                              *)

LEMMA AppendIn ==
    ASSUME NEW S, NEW box \in Seq(S), NEW x
    PROVE  /\ \A m : In(Append(box, x), m) <=> In(box, m) \/ m = x
           /\ \A m : (Once(box, m) /\ (m = x => ~In(box, m))) => Once(Append(box, x), m)
<1>1. /\ Len(Append(box, x)) = Len(box) + 1 /\ Append(box, x)[Len(box) + 1] = x
      /\ \A i \in 1 .. Len(box) : Append(box, x)[i] = box[i]
      /\ Len(box) \in Nat
  OBVIOUS
<1> QED BY <1>1 DEF In, Once

LEMMA TailIn ==
    ASSUME NEW S, NEW box \in Seq(S), box # << >>
    PROVE  /\ In(box, Head(box))
           /\ \A m : In(Tail(box), m) => In(box, m)
           /\ \A m : m # Head(box) /\ In(box, m) => In(Tail(box), m)
           /\ \A m : Once(box, m) => Once(Tail(box), m)
           /\ Once(box, Head(box)) => ~In(Tail(box), Head(box))
<1>1. /\ Len(Tail(box)) = Len(box) - 1 /\ Len(box) \in Nat \ {0} /\ Head(box) = box[1]
      /\ \A i \in 1 .. Len(Tail(box)) : Tail(box)[i] = box[i + 1]
  OBVIOUS
<1>2. In(box, Head(box)) /\ \A m : In(Tail(box), m) => In(box, m)
  BY <1>1 DEF In
<1>3. ASSUME NEW m, m # Head(box), In(box, m) PROVE In(Tail(box), m)
  <2>1. PICK i \in 1 .. Len(box) : box[i] = m
    BY <1>3 DEF In
  <2>2. i - 1 \in 1 .. Len(Tail(box)) /\ Tail(box)[i - 1] = m
    BY <1>1, <1>3, <2>1
  <2> QED BY <2>2 DEF In
<1>4. ASSUME NEW m, Once(box, m) PROVE Once(Tail(box), m)
  BY <1>1, <1>4 DEF Once
<1>5. Once(box, Head(box)) => ~In(Tail(box), Head(box))
  BY <1>1 DEF Once, In
<1> QED BY <1>2, <1>3, <1>4, <1>5

(* One message about fd is sent or taken: nothing changes for the others.  *)
Step(box, new, type, fd) ==
    \/ new = Append(box, <<type, fd>>)
    \/ box # << >> /\ Head(box) = <<type, fd>> /\ new = Tail(box)

Untouched(box, new, g) == \A type :
    /\ In(new, <<type, g>>) <=> In(box, <<type, g>>)
    /\ Once(box, <<type, g>>) => Once(new, <<type, g>>)

LEMMA OthersUntouched ==
    ASSUME NEW S, NEW box \in Seq(S), NEW new, NEW type, NEW fd, NEW g, g # fd,
           Step(box, new, type, fd)
    PROVE  Untouched(box, new, g)
<1>1. \A t : <<t, g>> # <<type, fd>>
  OBVIOUS
<1>2. CASE new = Append(box, <<type, fd>>)
  BY <1>1, <1>2, AppendIn DEF Untouched
<1>3. CASE box # << >> /\ Head(box) = <<type, fd>> /\ new = Tail(box)
  BY <1>1, <1>3, TailIn DEF Untouched
<1> QED BY <1>2, <1>3 DEF Step

LEMMA SameUntouched ==
    ASSUME NEW box, NEW g PROVE Untouched(box, box, g)
BY DEF Untouched

(* What the client's way rests on.                                         *)
SameClient(g) ==
    /\ Untouched(sq, sq', g) /\ Untouched(wq, wq', g) /\ Untouched(request, request', g)
    /\ sock'[g] = sock[g] /\ connection'[g] = connection[g] /\ client'[g] = client[g]
    /\ wagent'[g] = wagent[g] /\ agent'[g] = agent[g] /\ aq'[g] = aq[g]
    /\ <<"message", g>> \in failed' <=> <<"message", g>> \in failed
    /\ <<"forward", g>> \in failed' <=> <<"forward", g>> \in failed
    /\ g \in commanded' <=> g \in commanded

LEMMA SameStages ==
    ASSUME NEW g, SameClient(g)
    PROVE  Stages(g)' = Stages(g)
BY DEF Stages, SameClient, Untouched

LEMMA OthersKeep ==
    ASSUME NEW g, SameClient(g), Way(g)
    PROVE  Way(g)'
<1>1. Stages(g)' = Stages(g)
  BY SameStages
<1>2. OneStage(g)' /\ SentOnce(g)'
  BY <1>1 DEF Way, OneStage, SentOnce, SameClient, Untouched
<1>3. Unborn(g)' /\ Doors(g)'
  BY <1>1 DEF Way, Unborn, Doors, SameClient, Untouched
<1>4. Comes(g)' /\ Last(g)' /\ Found(g)'
  BY <1>1 DEF Way, Comes, Quiet, Last, Found, SameClient, Untouched
<1> QED BY <1>2, <1>3, <1>4 DEF Way

(* A message about fd is taken from a mailbox, or put into one.            *)
LEMMA TakeOwn ==
    ASSUME NEW S, NEW box \in Seq(S), NEW type, NEW fd, Handling(box, type, fd)
    PROVE  /\ In(box, <<type, fd>>)
           /\ \A t : t # type => (In(Tail(box), <<t, fd>>) <=> In(box, <<t, fd>>))
           /\ \A t : In(Tail(box), <<t, fd>>) => In(box, <<t, fd>>)
           /\ \A t : Once(box, <<t, fd>>) => Once(Tail(box), <<t, fd>>)
           /\ Once(box, <<type, fd>>) => ~In(Tail(box), <<type, fd>>)
<1>1. box # << >> /\ Head(box) = <<type, fd>>
  BY DEF Handling
<1>2. \A t : t # type => <<t, fd>> # <<type, fd>>
  OBVIOUS
<1> QED BY <1>1, <1>2, TailIn

LEMMA PutOwn ==
    ASSUME NEW S, NEW box \in Seq(S), NEW type, NEW fd
    PROVE  /\ In(Append(box, <<type, fd>>), <<type, fd>>)
           /\ \A t : t # type => (In(Append(box, <<type, fd>>), <<t, fd>>) <=> In(box, <<t, fd>>))
           /\ \A t : (Once(box, <<t, fd>>) /\ (t = type => ~In(box, <<t, fd>>)))
                         => Once(Append(box, <<type, fd>>), <<t, fd>>)
<1>1. \A t : t # type => <<t, fd>> # <<type, fd>>
  OBVIOUS
<1> QED BY <1>1, AppendIn

(* A client goes on from stage x to the stages Y.                          *)
LEMMA Advance ==
    ASSUME NEW fd, OneStage(fd), NEW x \in Stages(fd), NEW Y,
           Stages(fd)' \subseteq (Stages(fd) \ {x}) \cup Y,
           x \in ForwardStage \/ Y \cap ForwardStage = {},
           x \in LifeStage \/ Y \cap LifeStage = {},
           \A a, b \in Y \cap ForwardStage : a = b,
           \A a, b \in Y \cap LifeStage : a = b
    PROVE  OneStage(fd)'
<1>1. ASSUME NEW P \in {ForwardStage, LifeStage}, x \in P
      PROVE  \A a, b \in Stages(fd)' \cap P : a = b
  <2>1. Stages(fd) \cap P \subseteq {x}
    BY <1>1 DEF OneStage
  <2>2. Stages(fd)' \cap P \subseteq Y \cap P
    BY <2>1
  <2> QED BY <2>2
<1>2. ASSUME NEW P \in {ForwardStage, LifeStage}, Y \cap P = {}
      PROVE \A a, b \in Stages(fd)' \cap P : a = b
  <2>1. Stages(fd)' \cap P \subseteq Stages(fd) \cap P
    BY <1>2
  <2> QED BY <2>1 DEF OneStage
<1> QED BY <1>1, <1>2 DEF OneStage

LEMMA FewerStages ==
    ASSUME NEW fd, OneStage(fd), Stages(fd)' \subseteq Stages(fd)
    PROVE  OneStage(fd)'
BY DEF OneStage

LEMMA Boxes ==
    ASSUME GateInv
    PROVE  /\ request \in Seq({"start", "close"} \X FD)
           /\ sq \in Seq({"open", "data", "bad", "close", "error", "forward", "kick"} \X FD)
           /\ wq \in Seq({"open", "close", "error", "launched", "kicked"} \X FD)
           /\ \A fd \in FD : aq[fd] \in Seq({"start", "send_test", "disconnect"})
BY DEF GateInv, CountsClients, TypeOK

(* A step about fd leaves the other clients alone.                         *)
LEMMA OthersAlone ==
    ASSUME GateInv, NEW fd \in FD,
           sq' = sq \/ \E type : Step(sq, sq', type, fd),
           wq' = wq \/ \E type : Step(wq, wq', type, fd),
           request' = request \/ \E type : Step(request, request', type, fd),
           \A g \in FD \ {fd} :
               /\ sock'[g] = sock[g] /\ connection'[g] = connection[g] /\ client'[g] = client[g]
               /\ wagent'[g] = wagent[g] /\ agent'[g] = agent[g] /\ aq'[g] = aq[g],
           failed' \subseteq failed \cup {<<"message", fd>>, <<"forward", fd>>},
           failed \subseteq failed',
           commanded \subseteq commanded', commanded' \subseteq commanded \cup {fd},
           Way(fd)'
    PROVE  \A g \in FD : Way(g)'
<1> SUFFICES ASSUME NEW g \in FD, g # fd PROVE Way(g)'
  OBVIOUS
<1>1. Untouched(sq, sq', g) /\ Untouched(wq, wq', g) /\ Untouched(request, request', g)
  BY Boxes, OthersUntouched, SameUntouched
<1>2. /\ <<"message", g>> \in failed' <=> <<"message", g>> \in failed
      /\ <<"forward", g>> \in failed' <=> <<"forward", g>> \in failed
      /\ g \in commanded' <=> g \in commanded
  OBVIOUS
<1>3. SameClient(g)
  BY <1>1, <1>2 DEF SameClient
<1> QED BY <1>3, OthersKeep DEF GateInv

-----------------------------------------------------------------------------
(* The socket thread.                                                      *)

LEMMA AcceptWay ==
    ASSUME GateInv, NEW fd \in FD, report_accept(fd)
    PROVE  \A g \in FD : Way(g)'
<1>1. /\ sock[fd] = "free" /\ sock' = [sock EXCEPT ![fd] = "paused"]
      /\ sq' = Append(sq, <<"open", fd>>)
      /\ UNCHANGED <<request, wq, aq, tcp, wagent, agent, failed, commanded>>
  BY DEF report_accept, Unchanged_services, env
<1>2. /\ Stages(fd) = {} /\ connection[fd] = "nil"
      /\ \A type : ~In(request, <<type, fd>>) /\ ~In(sq, <<type, fd>>) /\ ~In(wq, <<type, fd>>)
  BY <1>1 DEF GateInv, Way, Unborn
<1>3. /\ \A t : In(sq', <<t, fd>>) <=> t = "open"
      /\ \A t : Once(sq, <<t, fd>>) => Once(sq', <<t, fd>>)
  <2>1. /\ In(sq', <<"open", fd>>)
        /\ \A t : t # "open" => (In(sq', <<t, fd>>) <=> In(sq, <<t, fd>>))
        /\ \A t : (Once(sq, <<t, fd>>) /\ (t = "open" => ~In(sq, <<t, fd>>)))
                      => Once(sq', <<t, fd>>)
    BY <1>1, Boxes, PutOwn
  <2> QED BY <1>2, <2>1
<1>4. Stages(fd)' \subseteq {"openS"}
  BY <1>1, <1>2, <1>3 DEF Stages
<1>5. sock'[fd] = "paused"
  BY <1>1 DEF GateInv, CountsClients, TypeOK
<1>6. OneStage(fd)' /\ SentOnce(fd)'
  BY <1>1, <1>3, <1>4 DEF OneStage, GateInv, Way, SentOnce
<1>7. Unborn(fd)' /\ Doors(fd)'
  BY <1>1, <1>2, <1>5 DEF Unborn, Doors, tcp
<1>8. Comes(fd)' /\ Last(fd)' /\ Found(fd)'
  BY <1>1, <1>2, <1>3, <1>5 DEF GateInv, Way, Comes, Quiet, Last, Found
<1>9. Way(fd)'
  BY <1>6, <1>7, <1>8 DEF Way
<1>10. \A g \in FD \ {fd} :
           /\ sock'[g] = sock[g] /\ connection'[g] = connection[g] /\ client'[g] = client[g]
           /\ wagent'[g] = wagent[g] /\ agent'[g] = agent[g] /\ aq'[g] = aq[g]
  BY <1>1 DEF tcp, GateInv, CountsClients, TypeOK
<1>11. Step(sq, sq', "open", fd)
  BY <1>1 DEF Step
<1> QED BY <1>1, <1>9, <1>10, <1>11, OthersAlone

(* A report, and a request that the socket thread executes.                *)
LEMMA SocketWay ==
    ASSUME GateInv, NEW fd \in FD, ~Quiet(fd), sock[fd] # "free",
           NEW state \in SocketState \ {"free"}, sock' = [sock EXCEPT ![fd] = state],
           request' = request \/ \E type : Handling(request, type, fd) /\ request' = Tail(request),
           \/ sq' = sq
           \/ \E event \in {"data", "bad", "close", "error"} : sq' = Append(sq, <<event, fd>>),
           commanded' = commanded, Unchanged_services
    PROVE  \A g \in FD : Way(g)'
<1>1. UNCHANGED <<wq, aq, connection, client, wagent, agent, failed, commanded>>
  BY DEF Unchanged_services, tcp
<1>2. \A t : In(request', <<t, fd>>) => In(request, <<t, fd>>)
  <2>1. ASSUME NEW type, Handling(request, type, fd)
        PROVE  \A t : In(Tail(request), <<t, fd>>) => In(request, <<t, fd>>)
    <3>1. request \in Seq({"start", "close"} \X FD)
      BY Boxes
    <3> QED BY <2>1, <3>1, TakeOwn
  <2> QED BY <2>1
<1>3. \A t \in {"open", "forward", "kick"} :
          /\ In(sq', <<t, fd>>) <=> In(sq, <<t, fd>>)
          /\ Once(sq, <<t, fd>>) => Once(sq', <<t, fd>>)
  <2>1. ASSUME NEW event \in {"data", "bad", "close", "error"},
               NEW t \in {"open", "forward", "kick"}
        PROVE  LET new == Append(sq, <<event, fd>>)
               IN  /\ In(new, <<t, fd>>) <=> In(sq, <<t, fd>>)
                   /\ Once(sq, <<t, fd>>) => Once(new, <<t, fd>>)
    <3>1. t # event
      OBVIOUS
    <3> QED BY <3>1, Boxes, PutOwn
  <2> QED BY <2>1
<1>4. Stages(fd)' = Stages(fd)
  BY <1>1, <1>3 DEF Stages
<1>5. Way(fd)
  BY DEF GateInv
<1>6. sock'[fd] # "free"
  BY DEF GateInv, CountsClients, TypeOK
<1>7. OneStage(fd)' /\ SentOnce(fd)'
  BY <1>1, <1>3, <1>4, <1>5 DEF OneStage, Way, SentOnce
<1>8. Unborn(fd)' /\ Doors(fd)'
  BY <1>1, <1>3, <1>4, <1>5, <1>6 DEF Unborn, Doors, Way
<1>9. Comes(fd)' /\ Last(fd)' /\ Found(fd)'
  BY <1>1, <1>4, <1>5 DEF Way, Comes, Last, Found
<1>10. Way(fd)'
  BY <1>7, <1>8, <1>9 DEF Way
<1>11. \A g \in FD \ {fd} :
           /\ sock'[g] = sock[g] /\ connection'[g] = connection[g] /\ client'[g] = client[g]
           /\ wagent'[g] = wagent[g] /\ agent'[g] = agent[g] /\ aq'[g] = aq[g]
  BY <1>1 DEF GateInv, CountsClients, TypeOK
<1>12. sq' = sq \/ \E type : Step(sq, sq', type, fd)
  BY DEF Step
<1>13. request' = request \/ \E type : Step(request, request', type, fd)
  BY DEF Step, Handling
<1> QED BY <1>1, <1>10, <1>11, <1>12, <1>13, OthersAlone

LEMMA ReportWay ==
    ASSUME GateInv, NEW fd \in FD,
           \/ \E event \in {"data", "bad"} : forward_message_tcp(fd, event)
           \/ \E event \in {"close", "error"} : Gone(fd, event)
    PROVE  \A g \in FD : Way(g)'
<1>1. sock[fd] \in {"open", "half"} /\ ~Quiet(fd)
  BY DEF forward_message_tcp, Gone, Quiet
<1>2. /\ sock' = [sock EXCEPT ![fd] = sock[fd]] \/ sock' = [sock EXCEPT ![fd] = "closed"]
      /\ request' = request /\ commanded' = commanded /\ Unchanged_services
      /\ \E event \in {"data", "bad", "close", "error"} : sq' = Append(sq, <<event, fd>>)
  BY DEF forward_message_tcp, Gone, env, GateInv, CountsClients, TypeOK
<1> QED BY <1>1, <1>2, SocketWay DEF SocketState

LEMMA RequestWay ==
    ASSUME GateInv, NEW fd \in FD, start_socket(fd) \/ close_socket(fd)
    PROVE  \A g \in FD : Way(g)'
<1>1. PICK type : Handling(request, type, fd) /\ request' = Tail(request)
  BY DEF start_socket, close_socket
<1>2. In(request, <<type, fd>>)
  BY <1>1, Boxes, TakeOwn
<1>3. ~Quiet(fd) /\ sock[fd] # "free"
  BY <1>2 DEF Quiet, GateInv, Way, Unborn
<1>4. sock[fd] \in SocketState
  BY DEF GateInv, CountsClients, TypeOK
<1>5. /\ commanded' = commanded /\ Unchanged_services
      /\ \E state \in SocketState \ {"free"} : sock' = [sock EXCEPT ![fd] = state]
      /\ \/ sq' = sq
         \/ \E event \in {"data", "bad", "close", "error"} : sq' = Append(sq, <<event, fd>>)
  BY <1>3, <1>4 DEF start_socket, close_socket, env, SocketState
<1> QED BY <1>1, <1>3, <1>5, SocketWay

-----------------------------------------------------------------------------
(* tcpservice.                                                             *)

LEMMA OpenWay ==
    ASSUME GateInv, NEW fd \in FD, MSG_open(fd)
    PROVE  \A g \in FD : Way(g)'
<1>1. /\ Handling(sq, "open", fd) /\ sq' = Tail(sq)
      /\ UNCHANGED <<sock, aq, failed, wagent, agent, commanded>>
  BY DEF MSG_open, Unchanged_others, env
<1>2. Way(fd) /\ sock[fd] # "free" /\ Stages(fd) = {"openS"} /\ connection[fd] = "nil"
  <2>1. In(sq, <<"open", fd>>)
    BY <1>1, Boxes, TakeOwn
  <2>2. "openS" \in Stages(fd)
    BY <2>1 DEF Stages, ForwardStage, LifeStage, EnterStage
  <2>3. Stages(fd) \subseteq ForwardStage \cup LifeStage
    BY DEF Stages
  <2>4. "openS" \in ForwardStage /\ "openS" \in LifeStage
    BY DEF ForwardStage, LifeStage, EnterStage
  <2> QED BY <2>1, <2>2, <2>3, <2>4 DEF GateInv, Way, OneStage, Unborn, Doors
<1>3. /\ ~In(sq', <<"open", fd>>)
      /\ \A t : t # "open" => (In(sq', <<t, fd>>) <=> In(sq, <<t, fd>>))
      /\ \A t : Once(sq, <<t, fd>>) => Once(sq', <<t, fd>>)
  BY <1>1, <1>2, Boxes, TakeOwn DEF Way, SentOnce
<1>4. CASE client_number >= maxclient
  <2>1. /\ request' = Append(request, <<"close", fd>>)
        /\ UNCHANGED <<connection, client, wq>>
    BY <1>4, Boxes DEF MSG_open, OnOpen, tcp
  <2>2. Stages(fd)' = {}
    BY <1>1, <1>2, <1>3, <2>1 DEF Stages
  <2>3. Way(fd)'
    BY <1>1, <1>2, <1>3, <2>1, <2>2
       DEF Way, OneStage, SentOnce, Unborn, Doors, Comes, Last, Found
  <2>4. Step(request, request', "close", fd) /\ Step(sq, sq', "open", fd)
    BY <1>1, <2>1 DEF Step, Handling
  <2> QED BY <1>1, <2>1, <2>3, <2>4, OthersAlone
<1>5. CASE ~(client_number >= maxclient)
  <2>1. /\ request' = request
        /\ connection' = [connection EXCEPT ![fd] = "true"]
        /\ client' = [client EXCEPT ![fd] = "waiting"]
        /\ wq' = Append(wq, <<"open", fd>>)
    BY <1>5, Boxes DEF MSG_open, OnOpen
  <2>2. /\ \A t : t # "open" => (In(wq', <<t, fd>>) <=> In(wq, <<t, fd>>))
        /\ \A t : Once(wq, <<t, fd>>) => Once(wq', <<t, fd>>)
    <3>1. ~In(wq, <<"open", fd>>)
      BY <1>2 DEF Stages, ForwardStage, EnterStage
    <3> QED BY <2>1, <3>1, Boxes, PutOwn
  <2>3. Stages(fd)' \subseteq {"openW"}
    BY <1>1, <1>2, <1>3, <2>2 DEF Stages
  <2>4. client'[fd] = "waiting"
    BY <2>1 DEF GateInv, CountsClients, TypeOK
  <2>5. OneStage(fd)' /\ SentOnce(fd)'
    BY <1>1, <1>2, <1>3, <2>2, <2>3 DEF OneStage, Way, SentOnce
  <2>6. Unborn(fd)' /\ Doors(fd)' /\ Last(fd)' /\ Found(fd)'
    BY <1>1, <1>2, <1>3, <2>3, <2>4 DEF Way, Unborn, Doors, Last, Found
  <2>7. Comes(fd)'
    <3>1. fd \notin commanded => Quiet(fd)
      BY <1>2 DEF Way, Comes, ForwardStage, EnterStage
    <3> QED BY <1>1, <1>3, <2>1, <2>2, <2>4, <3>1 DEF Comes, Quiet
  <2>8. Way(fd)'
    BY <2>5, <2>6, <2>7 DEF Way
  <2>9. \A g \in FD \ {fd} : connection'[g] = connection[g] /\ client'[g] = client[g]
    BY <2>1 DEF GateInv, CountsClients, TypeOK
  <2>10. Step(wq, wq', "open", fd) /\ Step(sq, sq', "open", fd)
    BY <1>1, <2>1 DEF Step, Handling
  <2> QED BY <1>1, <2>1, <2>8, <2>9, <2>10, OthersAlone
<1> QED BY <1>4, <1>5

(* tcpservice takes a message about fd; the watchdog does.                 *)
LEMMA TakesSq ==
    ASSUME GateInv, NEW fd \in FD, NEW type, Handling(sq, type, fd), sq' = Tail(sq)
    PROVE  /\ In(sq, <<type, fd>>)
           /\ \A t : t # type => (In(sq', <<t, fd>>) <=> In(sq, <<t, fd>>))
           /\ \A t : In(sq', <<t, fd>>) => In(sq, <<t, fd>>)
           /\ \A t : Once(sq, <<t, fd>>) => Once(sq', <<t, fd>>)
           /\ type \in {"open", "forward", "kick"} => ~In(sq', <<type, fd>>)
           /\ Step(sq, sq', type, fd)
           /\ sock[fd] # "free"
<1>1. /\ In(sq, <<type, fd>>)
      /\ \A t : t # type => (In(sq', <<t, fd>>) <=> In(sq, <<t, fd>>))
      /\ \A t : In(sq', <<t, fd>>) => In(sq, <<t, fd>>)
      /\ \A t : Once(sq, <<t, fd>>) => Once(sq', <<t, fd>>)
      /\ Once(sq, <<type, fd>>) => ~In(sq', <<type, fd>>)
  BY Boxes, TakeOwn
<1>2. Step(sq, sq', type, fd)
  BY DEF Handling, Step
<1>3. SentOnce(fd) /\ Unborn(fd)
  BY DEF GateInv, Way
<1> QED BY <1>1, <1>2, <1>3 DEF SentOnce, Unborn

LEMMA TakesWq ==
    ASSUME GateInv, NEW fd \in FD, NEW type, Handling(wq, type, fd), wq' = Tail(wq)
    PROVE  /\ In(wq, <<type, fd>>)
           /\ \A t : t # type => (In(wq', <<t, fd>>) <=> In(wq, <<t, fd>>))
           /\ \A t : In(wq', <<t, fd>>) => In(wq, <<t, fd>>)
           /\ \A t : Once(wq, <<t, fd>>) => Once(wq', <<t, fd>>)
           /\ type \in {"open", "launched", "kicked"} => ~In(wq', <<type, fd>>)
           /\ Step(wq, wq', type, fd)
           /\ sock[fd] # "free"
<1>1. /\ In(wq, <<type, fd>>)
      /\ \A t : t # type => (In(wq', <<t, fd>>) <=> In(wq, <<t, fd>>))
      /\ \A t : In(wq', <<t, fd>>) => In(wq, <<t, fd>>)
      /\ \A t : Once(wq, <<t, fd>>) => Once(wq', <<t, fd>>)
      /\ Once(wq, <<type, fd>>) => ~In(wq', <<type, fd>>)
  BY Boxes, TakeOwn
<1>2. Step(wq, wq', type, fd)
  BY DEF Handling, Step
<1>3. SentOnce(fd) /\ Unborn(fd)
  BY DEF GateInv, Way
<1> QED BY <1>1, <1>2, <1>3 DEF SentOnce, Unborn

(* What a mailbox of an agent holds after one more message.                *)
LEMMA ToAgentIn ==
    ASSUME GateInv, NEW fd \in FD, NEW m, aq' = ToAgent(aq, fd, m), agent[fd] # "gone"
    PROVE  /\ \A x : In(aq'[fd], x) <=> In(aq[fd], x) \/ x = m
           /\ \A x : (Once(aq[fd], x) /\ (x = m => ~In(aq[fd], x))) => Once(aq'[fd], x)
           /\ ~In(aq[fd], "disconnect") => Last(fd)'
           /\ \A g \in FD \ {fd} : aq'[g] = aq[g]
<1>1. aq'[fd] = Append(aq[fd], m) /\ \A g \in FD \ {fd} : aq'[g] = aq[g]
  BY DEF ToAgent, GateInv, CountsClients, TypeOK
<1>2. aq[fd] \in Seq({"start", "send_test", "disconnect"})
  BY Boxes
<1>3. ASSUME ~In(aq[fd], "disconnect") PROVE Last(fd)'
  <2>1. Len(aq'[fd]) - 1 = Len(aq[fd]) /\ \A i \in 1 .. Len(aq[fd]) : aq'[fd][i] = aq[fd][i]
    BY <1>1, <1>2
  <2> QED BY <1>3, <2>1 DEF Last, In
<1> QED BY <1>1, <1>2, <1>3, AppendIn

(* The one stage of a client.                                              *)
LEMMA OnlyStage ==
    ASSUME GateInv, NEW fd \in FD, NEW P \in {ForwardStage, LifeStage}, NEW x \in Stages(fd) \cap P
    PROVE  Stages(fd) \cap P = {x}
<1>1. OneStage(fd)
  BY DEF GateInv, Way
<1>2. ASSUME NEW y \in Stages(fd) \cap P PROVE y = x
  BY <1>1 DEF OneStage
<1> QED BY <1>2

(* The goodbye goes on from stage x to stage y.                            *)
EndStage == {"known", "kick", "kicked", "disconnect", "gone"}

LEMMA GoodbyeGoesOn ==
    ASSUME GateInv, NEW fd \in FD, NEW x \in Stages(fd) \cap EndStage, NEW y \in EndStage,
           Stages(fd)' \subseteq (Stages(fd) \ {x}) \cup {y}
    PROVE  OneStage(fd)' /\ Stages(fd)' \cap ForwardStage \subseteq Stages(fd) \cap ForwardStage
<1>1. x \in LifeStage /\ y \notin ForwardStage
  BY DEF EndStage, LifeStage, ForwardStage, EnterStage
<1>2. {y} \cap ForwardStage = {}
  BY <1>1
<1>3. OneStage(fd)
  BY DEF GateInv, Way
<1> QED BY <1>1, <1>2, <1>3, Advance

LEMMA DataWay ==
    ASSUME GateInv, NEW fd \in FD, MSG_data(fd)
    PROVE  \A g \in FD : Way(g)'
<1>1. /\ Handling(sq, "data", fd) /\ sq' = Tail(sq)
      /\ UNCHANGED <<request, wq, connection, client, sock, wagent, agent, commanded>>
  BY DEF MSG_data, Unchanged_others, env, tcp
<1>2. Way(fd)
  BY DEF GateInv
<1>3. ~Quiet(fd)
  BY <1>1, TakesSq DEF Quiet
<1>4. failed' = failed
  BY <1>2 DEF MSG_data, Way, Doors
<1>5. /\ In(aq'[fd], "start") <=> In(aq[fd], "start")
      /\ In(aq'[fd], "disconnect") <=> In(aq[fd], "disconnect")
      /\ \A t \in {"start", "disconnect"} : Once(aq[fd], t) => Once(aq'[fd], t)
      /\ Last(fd)' /\ \A g \in FD \ {fd} : aq'[g] = aq[g]
  <2>1. CASE connection[fd] = "true" /\ client[fd] = "forwarded"
    <3>1. aq' = ToAgent(aq, fd, "send_test")
      BY <2>1 DEF MSG_data
    <3>2. ~In(aq[fd], "disconnect") /\ agent[fd] # "gone"
      BY <1>2, <2>1 DEF Way, Doors, Stages, LifeStage
    <3> QED BY <3>1, <3>2, ToAgentIn
  <2>2. CASE ~(connection[fd] = "true" /\ client[fd] = "forwarded")
    BY <1>2, <2>2 DEF MSG_data, Way, Last
  <2> QED BY <2>1, <2>2
<1>6. \A t \in {"open", "forward", "kick"} : In(sq', <<t, fd>>) <=> In(sq, <<t, fd>>)
  BY <1>1, TakesSq
<1>7. Stages(fd)' = Stages(fd)
  BY <1>1, <1>5, <1>6 DEF Stages
<1>8. OneStage(fd)' /\ SentOnce(fd)'
  BY <1>1, <1>2, <1>5, <1>7, TakesSq DEF OneStage, Way, SentOnce
<1>9. Unborn(fd)' /\ Doors(fd)' /\ Comes(fd)' /\ Found(fd)'
  BY <1>1, <1>2, <1>3, <1>4, <1>6, <1>7, TakesSq DEF Way, Unborn, Doors, Comes, Found
<1>10. Way(fd)'
  BY <1>5, <1>8, <1>9 DEF Way
<1> QED BY <1>1, <1>4, <1>5, <1>10, TakesSq, OthersAlone

LEMMA LostWay ==
    ASSUME GateInv, NEW fd \in FD, MSG_close(fd) \/ MSG_error(fd)
    PROVE  \A g \in FD : Way(g)'
<1>1. PICK event \in {"close", "error", "bad"}, word \in {"close", "error"} : Lost(fd, event, word)
  BY DEF MSG_close, MSG_error
<1>2. /\ Handling(sq, event, fd) /\ sq' = Tail(sq)
      /\ client' = [client EXCEPT ![fd] = "nil"]
      /\ wq' = Append(wq, <<word, fd>>)
      /\ UNCHANGED <<aq, failed, sock, wagent, agent, commanded>>
  BY <1>1 DEF Lost, Unchanged_others, env
<1>3. /\ request' = request \/ request' = Append(request, <<"close", fd>>)
      /\ connection'[fd] = "nil"
      /\ \A g \in FD \ {fd} : connection'[g] = connection[g] /\ client'[g] = client[g]
  BY <1>1, <1>2 DEF Lost, close_fd, GateInv, CountsClients, TypeOK
<1>4. Way(fd)
  BY DEF GateInv
<1>5. ~Quiet(fd)
  BY <1>2, TakesSq DEF Quiet
<1>6. \A t \in {"open", "forward", "kick"} : In(sq', <<t, fd>>) <=> In(sq, <<t, fd>>)
  BY <1>2, TakesSq
<1>7. \A t \in {"open", "launched", "kicked"} :
          /\ In(wq', <<t, fd>>) <=> In(wq, <<t, fd>>)
          /\ Once(wq, <<t, fd>>) => Once(wq', <<t, fd>>)
  <2>1. \A t \in {"open", "launched", "kicked"} : t # word
    OBVIOUS
  <2> QED BY <1>2, <2>1, Boxes, PutOwn
<1>8. Stages(fd)' = Stages(fd)
  BY <1>2, <1>6, <1>7 DEF Stages
<1>9. OneStage(fd)' /\ SentOnce(fd)'
  BY <1>2, <1>4, <1>7, <1>8, TakesSq DEF OneStage, Way, SentOnce
<1>10. Unborn(fd)' /\ Doors(fd)' /\ Comes(fd)' /\ Last(fd)' /\ Found(fd)'
  BY <1>2, <1>3, <1>4, <1>5, <1>8, TakesSq DEF Way, Unborn, Doors, Comes, Last, Found
<1>11. Way(fd)'
  BY <1>9, <1>10 DEF Way
<1>12. request' = request \/ \E type : Step(request, request', type, fd)
  BY <1>3 DEF Step
<1>13. \E type : Step(wq, wq', type, fd)
  BY <1>2 DEF Step
<1> QED BY <1>2, <1>3, <1>11, <1>12, <1>13, TakesSq, OthersAlone

LEMMA ForwardWay ==
    ASSUME GateInv, NEW fd \in FD, Forward(fd)
    PROVE  \A g \in FD : Way(g)'
<1>1. /\ Handling(sq, "forward", fd) /\ sq' = Tail(sq)
      /\ UNCHANGED <<wq, aq, connection, sock, wagent, agent, commanded>>
  BY DEF Forward, Unchanged_others, env
<1>2. Way(fd) /\ sock[fd] # "free" /\ Stages(fd) \cap ForwardStage = {"forward"}
  <2>1. "forward" \in Stages(fd) \cap ForwardStage
    BY <1>1, TakesSq DEF Stages, ForwardStage
  <2> QED BY <1>1, <2>1, TakesSq, OnlyStage DEF GateInv
<1>3. Stages(fd)' \subseteq Stages(fd) \ {"forward"}
  BY <1>1, TakesSq DEF Stages
<1>4. OneStage(fd)' /\ Comes(fd)' /\ Last(fd)'
  BY <1>1, <1>2, <1>3, FewerStages DEF Way, Comes, Last
<1>5. SentOnce(fd)'
  BY <1>1, <1>2, TakesSq DEF Way, SentOnce
<1>6. /\ request' = request \/ request' = Append(request, <<"start", fd>>)
      /\ \A g \in FD \ {fd} : client'[g] = client[g]
      /\ client[fd] # "nil" => client'[fd] # "nil"
      /\ failed' = failed \/ (client[fd] = "nil" /\ failed' = failed \cup {<<"forward", fd>>})
  BY DEF Forward, GateInv, CountsClients, TypeOK
<1>7. Unborn(fd)' /\ Doors(fd)'
  BY <1>1, <1>2, <1>3, <1>6, TakesSq DEF Way, Unborn, Doors
<1>8. Found(fd)'
  <2>1. client[fd] = "nil" => fd \in commanded
    BY <1>2 DEF Way, Comes, Quiet, Stages, ForwardStage, EnterStage
  <2> QED BY <1>1, <1>2, <1>6, <2>1 DEF Way, Found
<1>9. Way(fd)'
  BY <1>4, <1>5, <1>7, <1>8 DEF Way
<1>10. request' = request \/ \E type : Step(request, request', type, fd)
  BY <1>6 DEF Step
<1> QED BY <1>1, <1>6, <1>9, <1>10, TakesSq, OthersAlone

LEMMA KickWay ==
    ASSUME GateInv, NEW fd \in FD, Kick(fd)
    PROVE  \A g \in FD : Way(g)'
<1>1. /\ Handling(sq, "kick", fd) /\ sq' = Tail(sq)
      /\ wq' = Append(wq, <<"kicked", fd>>)
      /\ UNCHANGED <<aq, client, failed, sock, wagent, agent, commanded>>
  BY DEF Kick, Unchanged_others, env
<1>2. /\ request' = request \/ request' = Append(request, <<"close", fd>>)
      /\ connection'[fd] # "true" /\ (connection[fd] = "nil" => connection'[fd] = "nil")
      /\ \A g \in FD \ {fd} : connection'[g] = connection[g]
  BY DEF Kick, Closing, GateInv, CountsClients, TypeOK
<1>3. Way(fd) /\ sock[fd] # "free" /\ Stages(fd) \cap LifeStage = {"kick"}
  <2>1. "kick" \in Stages(fd) \cap LifeStage
    BY <1>1, TakesSq DEF Stages, LifeStage
  <2> QED BY <1>1, <2>1, TakesSq, OnlyStage DEF GateInv
<1>4. /\ \A t : t # "kicked" => (In(wq', <<t, fd>>) <=> In(wq, <<t, fd>>))
      /\ \A t : Once(wq, <<t, fd>>) => Once(wq', <<t, fd>>)
  <2>1. ~In(wq, <<"kicked", fd>>)
    BY <1>3 DEF Stages, LifeStage
  <2> QED BY <1>1, <2>1, Boxes, PutOwn
<1>5. Stages(fd)' \subseteq (Stages(fd) \ {"kick"}) \cup {"kicked"}
  <2>1. /\ \A t \in {"open", "forward"} : In(sq', <<t, fd>>) => In(sq, <<t, fd>>)
        /\ ~In(sq', <<"kick", fd>>)
    BY <1>1, TakesSq
  <2>2. \A t \in {"open", "launched"} : In(wq', <<t, fd>>) => In(wq, <<t, fd>>)
    BY <1>4
  <2>3. UNCHANGED <<aq, wagent, agent>>
    BY <1>1
  <2> QED BY <2>1, <2>2, <2>3 DEF Stages
<1>6. OneStage(fd)' /\ Stages(fd)' \cap ForwardStage \subseteq Stages(fd) \cap ForwardStage
  BY <1>3, <1>5, GoodbyeGoesOn DEF EndStage
<1>7. SentOnce(fd)'
  BY <1>1, <1>3, <1>4, TakesSq DEF Way, SentOnce
<1>8. ~In(sq', <<"open", fd>>)
  <2>1. "openS" \notin Stages(fd)
    BY <1>3 DEF LifeStage, EnterStage
  <2>2. In(sq', <<"open", fd>>) => In(sq, <<"open", fd>>)
    BY <1>1, TakesSq
  <2> QED BY <2>1, <2>2 DEF Stages, LifeStage, EnterStage
<1>9. Unborn(fd)' /\ Doors(fd)'
  BY <1>1, <1>2, <1>3, <1>8 DEF Unborn, Doors
<1>10. ~Quiet(fd)
  BY <1>1, TakesSq DEF Quiet
<1>11. Comes(fd)' /\ Last(fd)' /\ Found(fd)'
  BY <1>1, <1>3, <1>6, <1>10 DEF Way, Comes, Last, Found
<1>12. Way(fd)'
  BY <1>6, <1>7, <1>9, <1>11 DEF Way
<1>13. request' = request \/ \E type : Step(request, request', type, fd)
  BY <1>2 DEF Step
<1>14. Step(wq, wq', "kicked", fd)
  BY <1>1 DEF Step
<1> QED BY <1>1, <1>2, <1>12, <1>13, <1>14, TakesSq, OthersAlone

-----------------------------------------------------------------------------
(* The watchdog, the launcher and the agents.                              *)

(* A client that was reported: no message of it is on the way but one.     *)
LEMMA EnterAlone ==
    ASSUME GateInv, NEW fd \in FD, NEW x \in Stages(fd) \cap EnterStage
    PROVE  Stages(fd) = {x} /\ sock[fd] # "free"
<1>1. x \in ForwardStage /\ x \in LifeStage
  BY DEF ForwardStage, LifeStage
<1>2. Stages(fd) \cap ForwardStage = {x} /\ Stages(fd) \cap LifeStage = {x}
  BY <1>1, OnlyStage
<1>3. Stages(fd) \subseteq ForwardStage \cup LifeStage
  BY DEF Stages
<1> QED BY <1>2, <1>3 DEF GateInv, Way, Unborn

LEMMA SocketOpenWay ==
    ASSUME GateInv, NEW fd \in FD, SOCKET_open(fd)
    PROVE  \A g \in FD : Way(g)'
<1>1. /\ Handling(wq, "open", fd) /\ wq' = Tail(wq)
      /\ agent' = [agent EXCEPT ![fd] = "launching"]
      /\ UNCHANGED <<sq, aq, wagent, sock, request, connection, client, failed, commanded>>
  BY DEF SOCKET_open, Unchanged_below, env, tcp
<1>2. Way(fd) /\ sock[fd] # "free" /\ Stages(fd) = {"openW"}
  <2>1. "openW" \in Stages(fd) \cap EnterStage
    BY <1>1, TakesWq DEF Stages, ForwardStage, EnterStage
  <2> QED BY <2>1, EnterAlone DEF GateInv
<1>3. /\ agent'[fd] = "launching"
      /\ \A g \in FD \ {fd} : agent'[g] = agent[g]
  BY <1>1 DEF GateInv, CountsClients, TypeOK
<1>4. Stages(fd)' \subseteq {"launching"}
  <2>1. \A t \in {"launched", "kicked"} : In(wq', <<t, fd>>) => In(wq, <<t, fd>>)
    BY <1>1, TakesWq
  <2>2. ~In(wq', <<"open", fd>>)
    BY <1>1, TakesWq
  <2> QED BY <1>1, <1>2, <1>3, <2>1, <2>2 DEF Stages
<1>5. OneStage(fd)' /\ SentOnce(fd)'
  BY <1>1, <1>2, <1>4, TakesWq DEF Way, OneStage, SentOnce
<1>6. Unborn(fd)' /\ Doors(fd)' /\ Last(fd)' /\ Found(fd)'
  BY <1>1, <1>2, <1>4 DEF Way, Unborn, Doors, Last, Found
<1>7. Comes(fd)'
  <2>1. fd \notin commanded => Quiet(fd)
    BY <1>2 DEF Way, Comes, ForwardStage, EnterStage
  <2> QED BY <1>1, <2>1, TakesWq DEF Comes, Quiet
<1>8. Way(fd)'
  BY <1>5, <1>6, <1>7 DEF Way
<1> QED BY <1>1, <1>3, <1>8, TakesWq, OthersAlone

LEMMA LaunchWay ==
    ASSUME GateInv, NEW fd \in FD, Launch(fd)
    PROVE  \A g \in FD : Way(g)'
<1>1. /\ agent[fd] = "launching"
      /\ \/ agent' = [agent EXCEPT ![fd] = "new"] /\ wq' = Append(wq, <<"launched", fd>>)
         \/ agent' = [agent EXCEPT ![fd] = "failed"] /\ wq' = wq
      /\ UNCHANGED <<sq, aq, wagent, sock, request, connection, client, failed, commanded>>
  BY DEF Launch, Unchanged_below, env, tcp
<1>2. Way(fd) /\ sock[fd] # "free" /\ Stages(fd) = {"launching"}
  <2>1. "launching" \in Stages(fd) \cap EnterStage
    BY <1>1 DEF Stages, ForwardStage, EnterStage
  <2> QED BY <2>1, EnterAlone DEF GateInv
<1>3. /\ agent'[fd] \in {"new", "failed"}
      /\ \A g \in FD \ {fd} : agent'[g] = agent[g]
  BY <1>1 DEF GateInv, CountsClients, TypeOK
<1>4. /\ \A t : t # "launched" => (In(wq', <<t, fd>>) <=> In(wq, <<t, fd>>))
      /\ \A t : Once(wq, <<t, fd>>) => Once(wq', <<t, fd>>)
  <2>1. ~In(wq, <<"launched", fd>>)
    BY <1>2 DEF Stages, ForwardStage, EnterStage
  <2>2. CASE wq' = Append(wq, <<"launched", fd>>)
    BY <2>1, <2>2, Boxes, PutOwn
  <2> QED BY <1>1, <2>2
<1>5. Stages(fd)' \subseteq {"launched"}
  <2>1. \A t \in {"open", "kicked"} : In(wq', <<t, fd>>) => In(wq, <<t, fd>>)
    BY <1>4
  <2> QED BY <1>1, <1>2, <1>3, <2>1 DEF Stages
<1>6. OneStage(fd)' /\ SentOnce(fd)'
  BY <1>1, <1>2, <1>4, <1>5 DEF Way, OneStage, SentOnce
<1>7. Unborn(fd)' /\ Doors(fd)' /\ Last(fd)' /\ Found(fd)'
  BY <1>1, <1>2, <1>5 DEF Way, Unborn, Doors, Last, Found
<1>8. Comes(fd)'
  <2>1. fd \notin commanded => Quiet(fd)
    BY <1>2 DEF Way, Comes, ForwardStage, EnterStage
  <2> QED BY <1>1, <1>4, <2>1 DEF Comes, Quiet
<1>9. Way(fd)'
  BY <1>6, <1>7, <1>8 DEF Way
<1>10. wq' = wq \/ \E type : Step(wq, wq', type, fd)
  BY <1>1 DEF Step
<1> QED BY <1>1, <1>3, <1>9, <1>10, OthersAlone

LEMMA LaunchedWay ==
    ASSUME GateInv, NEW fd \in FD, Launched(fd)
    PROVE  \A g \in FD : Way(g)'
<1>1. /\ Handling(wq, "launched", fd) /\ wq' = Tail(wq)
      /\ wagent' = [wagent EXCEPT ![fd] = TRUE]
      /\ aq' = ToAgent(aq, fd, "start")
      /\ UNCHANGED <<sq, agent, sock, request, connection, client, failed, commanded>>
  BY DEF Launched, Unchanged_below, env, tcp
<1>2. Way(fd) /\ sock[fd] # "free" /\ Stages(fd) = {"launched"}
  <2>1. "launched" \in Stages(fd) \cap EnterStage
    BY <1>1, TakesWq DEF Stages, ForwardStage, EnterStage
  <2> QED BY <2>1, EnterAlone DEF GateInv
<1>3. /\ ~In(aq[fd], "start") /\ ~In(aq[fd], "disconnect") /\ agent[fd] # "gone"
  BY <1>2 DEF Stages, ForwardStage, LifeStage
<1>4. /\ \A x : In(aq'[fd], x) <=> In(aq[fd], x) \/ x = "start"
      /\ \A x \in {"start", "disconnect"} : Once(aq[fd], x) => Once(aq'[fd], x)
      /\ Last(fd)'
      /\ \A g \in FD \ {fd} : aq'[g] = aq[g]
  BY <1>1, <1>3, ToAgentIn
<1>5. \A g \in FD \ {fd} : wagent'[g] = wagent[g]
  BY <1>1 DEF GateInv, CountsClients, TypeOK
<1>6. Stages(fd)' \subseteq {"known", "start"}
  <2>1. \A t \in {"open", "kicked"} : In(wq', <<t, fd>>) => In(wq, <<t, fd>>)
    BY <1>1, TakesWq
  <2>2. ~In(wq', <<"launched", fd>>) /\ ~In(aq'[fd], "disconnect")
    BY <1>1, <1>3, <1>4, TakesWq
  <2> QED BY <1>1, <1>2, <2>1, <2>2 DEF Stages
<1>7. OneStage(fd)' /\ SentOnce(fd)'
  <2>1. "known" \notin ForwardStage /\ "start" \notin LifeStage
    BY DEF ForwardStage, LifeStage, EnterStage
  <2>2. OneStage(fd)'
    BY <1>6, <2>1 DEF OneStage
  <2> QED BY <1>1, <1>2, <1>4, <2>2, TakesWq DEF Way, SentOnce
<1>8. Unborn(fd)' /\ Doors(fd)' /\ Found(fd)'
  BY <1>1, <1>2, <1>6 DEF Way, Unborn, Doors, Found
<1>9. Comes(fd)'
  <2>1. fd \notin commanded => Quiet(fd)
    BY <1>2 DEF Way, Comes, ForwardStage, EnterStage
  <2> QED BY <1>1, <2>1, TakesWq DEF Comes, Quiet
<1>10. Way(fd)'
  BY <1>4, <1>7, <1>8, <1>9 DEF Way
<1> QED BY <1>1, <1>4, <1>5, <1>10, TakesWq, OthersAlone

LEMMA SocketCloseWay ==
    ASSUME GateInv, NEW fd \in FD, SOCKET_close(fd)
    PROVE  \A g \in FD : Way(g)'
<1>1. PICK word \in {"close", "error"} : Handling(wq, word, fd)
  BY DEF SOCKET_close
<1>2. /\ wq' = Tail(wq)
      /\ wagent' = [wagent EXCEPT ![fd] = FALSE]
      /\ sq' = IF wagent[fd] THEN Append(sq, <<"kick", fd>>) ELSE sq
      /\ UNCHANGED <<aq, agent, sock, request, connection, client, failed, commanded>>
  BY DEF SOCKET_close, close_agent, Unchanged_below, env, tcp
<1>3. Way(fd) /\ sock[fd] # "free" /\ ~Quiet(fd)
  BY <1>1, <1>2, TakesWq DEF GateInv, Quiet
<1>4. /\ wagent'[fd] = FALSE
      /\ \A g \in FD \ {fd} : wagent'[g] = wagent[g]
  BY <1>2 DEF GateInv, CountsClients, TypeOK
<1>5. \A t \in {"open", "launched", "kicked"} : In(wq', <<t, fd>>) <=> In(wq, <<t, fd>>)
  BY <1>1, <1>2, TakesWq
<1>6. CASE wagent[fd]
  <2>1. "known" \in Stages(fd) \cap EndStage
    BY <1>6 DEF Stages, LifeStage, EndStage
  <2>2. Stages(fd) \cap LifeStage = {"known"}
    BY <2>1, OnlyStage DEF LifeStage
  <2>3. ~In(sq, <<"kick", fd>>) /\ ~In(sq, <<"open", fd>>)
    BY <2>2 DEF Stages, LifeStage, EnterStage
  <2>4. /\ \A t : t # "kick" => (In(sq', <<t, fd>>) <=> In(sq, <<t, fd>>))
        /\ \A t : Once(sq, <<t, fd>>) => Once(sq', <<t, fd>>)
    BY <1>2, <1>6, <2>3, Boxes, PutOwn
  <2>5. Stages(fd)' \subseteq (Stages(fd) \ {"known"}) \cup {"kick"}
    <3>1. \A t \in {"open", "forward"} : In(sq', <<t, fd>>) => In(sq, <<t, fd>>)
      BY <2>4
    <3> QED BY <1>2, <1>4, <1>5, <3>1 DEF Stages
  <2>6. OneStage(fd)' /\ Stages(fd)' \cap ForwardStage \subseteq Stages(fd) \cap ForwardStage
    BY <2>1, <2>5, GoodbyeGoesOn DEF EndStage
  <2>7. SentOnce(fd)' /\ Unborn(fd)' /\ Doors(fd)'
    BY <1>1, <1>2, <1>3, <2>3, <2>4, <2>5, TakesWq DEF Way, SentOnce, Unborn, Doors
  <2>8. Comes(fd)' /\ Last(fd)' /\ Found(fd)'
    BY <1>2, <1>3, <2>6 DEF Way, Comes, Last, Found
  <2>9. Way(fd)'
    BY <2>6, <2>7, <2>8 DEF Way
  <2>10. Step(sq, sq', "kick", fd)
    BY <1>2, <1>6 DEF Step
  <2> QED BY <1>1, <1>2, <1>4, <2>9, <2>10, TakesWq, OthersAlone
<1>7. CASE ~wagent[fd]
  <2>1. sq' = sq
    BY <1>2, <1>7
  <2>2. Stages(fd)' \subseteq Stages(fd)
    BY <1>2, <1>4, <1>5, <2>1 DEF Stages
  <2>3. OneStage(fd)' /\ SentOnce(fd)' /\ Unborn(fd)' /\ Doors(fd)'
    BY <1>1, <1>2, <1>3, <2>1, <2>2, TakesWq, FewerStages DEF Way, SentOnce, Unborn, Doors
  <2>4. Comes(fd)' /\ Last(fd)' /\ Found(fd)'
    BY <1>2, <1>3, <2>2 DEF Way, Comes, Last, Found
  <2>5. Way(fd)'
    BY <2>3, <2>4 DEF Way
  <2> QED BY <1>1, <1>2, <1>4, <2>1, <2>5, TakesWq, OthersAlone
<1> QED BY <1>6, <1>7

LEMMA KickedWay ==
    ASSUME GateInv, NEW fd \in FD, Kicked(fd)
    PROVE  \A g \in FD : Way(g)'
<1>1. /\ Handling(wq, "kicked", fd) /\ wq' = Tail(wq)
      /\ aq' = ToAgent(aq, fd, "disconnect")
      /\ UNCHANGED <<sq, wagent, agent, sock, request, connection, client, failed, commanded>>
  BY DEF Kicked, Unchanged_below, env, tcp
<1>2. "kicked" \in Stages(fd) \cap EndStage
  BY <1>1, TakesWq DEF Stages, LifeStage, EndStage
<1>3. Way(fd) /\ sock[fd] # "free" /\ ~Quiet(fd) /\ Stages(fd) \cap LifeStage = {"kicked"}
  BY <1>1, <1>2, TakesWq, OnlyStage DEF GateInv, Quiet, LifeStage
<1>4. ~In(aq[fd], "disconnect") /\ agent[fd] # "gone" /\ ~In(sq, <<"open", fd>>)
  BY <1>3 DEF Stages, LifeStage, EnterStage
<1>5. /\ \A x : In(aq'[fd], x) <=> In(aq[fd], x) \/ x = "disconnect"
      /\ \A x \in {"start", "disconnect"} : Once(aq[fd], x) => Once(aq'[fd], x)
      /\ Last(fd)'
      /\ \A g \in FD \ {fd} : aq'[g] = aq[g]
  BY <1>1, <1>4, ToAgentIn
<1>6. Stages(fd)' \subseteq (Stages(fd) \ {"kicked"}) \cup {"disconnect"}
  <2>1. \A t \in {"open", "launched"} : In(wq', <<t, fd>>) => In(wq, <<t, fd>>)
    BY <1>1, TakesWq
  <2>2. In(aq'[fd], "start") => In(aq[fd], "start")
    BY <1>5
  <2>3. ~In(wq', <<"kicked", fd>>)
    BY <1>1, TakesWq
  <2> QED BY <1>1, <2>1, <2>2, <2>3 DEF Stages
<1>7. OneStage(fd)' /\ Stages(fd)' \cap ForwardStage \subseteq Stages(fd) \cap ForwardStage
  BY <1>2, <1>6, GoodbyeGoesOn DEF EndStage
<1>8. connection[fd] # "true"
  BY <1>2, <1>3 DEF Way, Doors
<1>9. SentOnce(fd)' /\ Unborn(fd)' /\ Doors(fd)'
  BY <1>1, <1>3, <1>4, <1>5, <1>8, TakesWq DEF Way, SentOnce, Unborn, Doors
<1>10. Comes(fd)' /\ Found(fd)'
  BY <1>1, <1>3, <1>7 DEF Way, Comes, Found
<1>11. Way(fd)'
  BY <1>5, <1>7, <1>9, <1>10 DEF Way
<1> QED BY <1>1, <1>5, <1>11, TakesWq, OthersAlone

LEMMA CommandWay ==
    ASSUME GateInv, NEW fd \in FD, Command(fd)
    PROVE  \A g \in FD : Way(g)'
<1>1. /\ sock[fd] # "free" /\ commanded' = commanded \cup {fd}
      /\ wq' = Append(wq, <<"close", fd>>)
      /\ UNCHANGED <<sq, aq, wagent, agent, sock, request, connection, client, failed>>
  BY DEF Command, Unchanged_below, tcp
<1>2. Way(fd)
  BY DEF GateInv
<1>3. \A t \in {"open", "launched", "kicked"} :
          /\ In(wq', <<t, fd>>) <=> In(wq, <<t, fd>>)
          /\ Once(wq, <<t, fd>>) => Once(wq', <<t, fd>>)
  <2>1. \A t \in {"open", "launched", "kicked"} : t # "close"
    OBVIOUS
  <2> QED BY <1>1, <2>1, Boxes, PutOwn
<1>4. Stages(fd)' = Stages(fd)
  BY <1>1, <1>3 DEF Stages
<1>5. OneStage(fd)' /\ SentOnce(fd)'
  BY <1>1, <1>2, <1>3, <1>4 DEF Way, OneStage, SentOnce
<1>6. Unborn(fd)' /\ Doors(fd)' /\ Comes(fd)' /\ Last(fd)' /\ Found(fd)'
  BY <1>1, <1>2, <1>4 DEF Way, Unborn, Doors, Comes, Last, Found
<1>7. Way(fd)'
  BY <1>5, <1>6 DEF Way
<1>8. Step(wq, wq', "close", fd)
  BY <1>1 DEF Step
<1> QED BY <1>1, <1>7, <1>8, OthersAlone

(* The agent takes a message.                                              *)
LEMMA TakesAq ==
    ASSUME GateInv, NEW fd \in FD, aq[fd] # << >>, aq' = [aq EXCEPT ![fd] = Tail(@)]
    PROVE  /\ In(aq[fd], Head(aq[fd]))
           /\ \A m : In(aq'[fd], m) => In(aq[fd], m)
           /\ \A m : Once(aq[fd], m) => Once(aq'[fd], m)
           /\ Once(aq[fd], Head(aq[fd])) => ~In(aq'[fd], Head(aq[fd]))
           /\ Last(fd)'
           /\ \A g \in FD \ {fd} : aq'[g] = aq[g]
<1>1. aq'[fd] = Tail(aq[fd]) /\ \A g \in FD \ {fd} : aq'[g] = aq[g]
  BY DEF GateInv, CountsClients, TypeOK
<1>2. aq[fd] \in Seq({"start", "send_test", "disconnect"})
  BY Boxes
<1>3. Last(fd)'
  <2>1. /\ Len(aq'[fd]) = Len(aq[fd]) - 1 /\ Len(aq[fd]) \in Nat
        /\ \A i \in 1 .. Len(aq'[fd]) : aq'[fd][i] = aq[fd][i + 1]
    <3>1. ASSUME NEW S, NEW box \in Seq(S), box # << >>
          PROVE  /\ Len(Tail(box)) = Len(box) - 1 /\ Len(box) \in Nat
                 /\ \A i \in 1 .. Len(Tail(box)) : Tail(box)[i] = box[i + 1]
      BY <3>1
    <3>2. /\ Len(Tail(aq[fd])) = Len(aq[fd]) - 1 /\ Len(aq[fd]) \in Nat
          /\ \A i \in 1 .. Len(Tail(aq[fd])) : Tail(aq[fd])[i] = aq[fd][i + 1]
      BY <1>2, <3>1
    <3> QED BY <1>1, <3>2, Zenon
  <2>2. Last(fd)
    BY DEF GateInv, Way
  <2>3. \A i \in 1 .. Len(aq'[fd]) - 1 :
            i + 1 \in 1 .. Len(aq[fd]) - 1 /\ i \in 1 .. Len(aq'[fd])
    BY <2>1
  <2> QED BY <2>1, <2>2 DEF Last
<1> QED BY <1>1, <1>2, <1>3, TailIn

LEMMA StartWay ==
    ASSUME GateInv, NEW fd \in FD, AgentStart(fd)
    PROVE  \A g \in FD : Way(g)'
<1>1. /\ aq[fd] # << >> /\ Head(aq[fd]) = "start"
      /\ aq' = [aq EXCEPT ![fd] = Tail(@)]
      /\ sq' = Append(sq, <<"forward", fd>>)
      /\ UNCHANGED <<wq, wagent, agent, sock, request, connection, client, failed, commanded>>
  BY DEF AgentStart, Unchanged_below, env, tcp
<1>2. Way(fd) /\ sock[fd] # "free" /\ Stages(fd) \cap ForwardStage = {"start"}
  <2>1. "start" \in Stages(fd) \cap ForwardStage
    BY <1>1, TakesAq DEF Stages, ForwardStage
  <2> QED BY <2>1, OnlyStage DEF GateInv, Way, Unborn
<1>3. /\ \A t : t # "forward" => (In(sq', <<t, fd>>) <=> In(sq, <<t, fd>>))
      /\ \A t : Once(sq, <<t, fd>>) => Once(sq', <<t, fd>>)
  <2>1. ~In(sq, <<"forward", fd>>)
    BY <1>2 DEF Stages, ForwardStage
  <2> QED BY <1>1, <2>1, Boxes, PutOwn
<1>4. ~In(aq'[fd], "start")
  BY <1>1, <1>2, TakesAq DEF Way, SentOnce
<1>5. Stages(fd)' \subseteq (Stages(fd) \ {"start"}) \cup {"forward"}
  <2>1. \A t \in {"open", "kick"} : In(sq', <<t, fd>>) => In(sq, <<t, fd>>)
    BY <1>3
  <2>2. In(aq'[fd], "disconnect") => In(aq[fd], "disconnect")
    BY <1>1, TakesAq
  <2> QED BY <1>1, <1>4, <2>1, <2>2 DEF Stages
<1>6. OneStage(fd)'
  <2>1. {"forward"} \cap LifeStage = {} /\ "start" \in ForwardStage
    BY DEF LifeStage, EnterStage, ForwardStage
  <2>2. "start" \in Stages(fd) /\ OneStage(fd)
    BY <1>2 DEF Way
  <2> QED BY <1>5, <2>1, <2>2, Advance
<1>7. SentOnce(fd)' /\ Unborn(fd)' /\ Last(fd)' /\ Found(fd)'
  BY <1>1, <1>2, <1>3, TakesAq DEF Way, SentOnce, Unborn, Last, Found
<1>8. Doors(fd)'
  <2>1. In(sq', <<"open", fd>>) => In(sq, <<"open", fd>>)
    BY <1>3
  <2>2. Stages(fd)' \cap {"kicked", "disconnect", "gone"} \subseteq Stages(fd)
    BY <1>5
  <2> QED BY <1>1, <1>2, <2>1, <2>2 DEF Way, Doors
<1>9. Comes(fd)'
  <2>1. fd \notin commanded => Quiet(fd)
    BY <1>2 DEF Way, Comes
  <2>2. ~In(sq, <<"open", fd>>)
    BY <1>2 DEF Stages, ForwardStage, EnterStage
  <2> QED BY <1>1, <1>3, <2>1, <2>2 DEF Comes, Quiet
<1>10. Way(fd)'
  BY <1>6, <1>7, <1>8, <1>9 DEF Way
<1>11. Step(sq, sq', "forward", fd)
  BY <1>1 DEF Step
<1> QED BY <1>1, <1>10, <1>11, TakesAq, OthersAlone

LEMMA AgentDataWay ==
    ASSUME GateInv, NEW fd \in FD, AgentData(fd)
    PROVE  \A g \in FD : Way(g)'
<1>1. /\ aq[fd] # << >> /\ aq' = [aq EXCEPT ![fd] = Tail(@)]
      /\ UNCHANGED <<sq, wq, wagent, agent, sock, request, connection, client, failed, commanded>>
  BY DEF AgentData, Unchanged_below, env, tcp
<1>2. Way(fd)
  BY DEF GateInv
<1>3. Stages(fd)' \subseteq Stages(fd)
  BY <1>1, TakesAq DEF Stages
<1>4. OneStage(fd)' /\ SentOnce(fd)' /\ Unborn(fd)' /\ Doors(fd)'
  BY <1>1, <1>2, <1>3, TakesAq, FewerStages DEF Way, SentOnce, Unborn, Doors
<1>5. Comes(fd)' /\ Last(fd)' /\ Found(fd)'
  BY <1>1, <1>2, <1>3, TakesAq DEF Way, Comes, Quiet, Last, Found
<1>6. Way(fd)'
  BY <1>4, <1>5 DEF Way
<1> QED BY <1>1, <1>6, TakesAq, OthersAlone

LEMMA ExitWay ==
    ASSUME GateInv, NEW fd \in FD, AgentExit(fd)
    PROVE  \A g \in FD : Way(g)'
<1>1. /\ aq[fd] # << >> /\ Head(aq[fd]) = "disconnect"
      /\ aq' = [aq EXCEPT ![fd] = << >>]
      /\ agent' = [agent EXCEPT ![fd] = "gone"]
      /\ UNCHANGED <<sq, wq, wagent, sock, request, connection, client, failed, commanded>>
  BY DEF AgentExit, Unchanged_below, env, tcp
<1>2. /\ aq'[fd] = << >> /\ agent'[fd] = "gone"
      /\ \A g \in FD \ {fd} : aq'[g] = aq[g] /\ agent'[g] = agent[g]
  BY <1>1 DEF GateInv, CountsClients, TypeOK
<1>3. "disconnect" \in Stages(fd) \cap EndStage
  <2>1. In(aq[fd], "disconnect")
    BY <1>1, Boxes, TailIn
  <2> QED BY <2>1 DEF Stages, LifeStage, EndStage
<1>4. Way(fd) /\ connection[fd] # "true"
  BY <1>3 DEF GateInv, Way, Doors
<1>5. (\A m : ~In(aq'[fd], m) /\ Once(aq'[fd], m)) /\ Last(fd)'
  BY <1>2 DEF In, Once, Last
<1>6. Stages(fd)' \subseteq (Stages(fd) \ {"disconnect"}) \cup {"gone"}
  BY <1>1, <1>2, <1>5 DEF Stages
<1>7. OneStage(fd)' /\ Stages(fd)' \cap ForwardStage \subseteq Stages(fd) \cap ForwardStage
  BY <1>3, <1>6, GoodbyeGoesOn DEF EndStage
<1>8. SentOnce(fd)' /\ Unborn(fd)' /\ Doors(fd)'
  BY <1>1, <1>3, <1>4, <1>5 DEF Way, SentOnce, Unborn, Doors
<1>9. Comes(fd)' /\ Found(fd)'
  BY <1>1, <1>4, <1>7 DEF Way, Comes, Quiet, Found
<1>10. Way(fd)'
  BY <1>5, <1>7, <1>8, <1>9 DEF Way
<1> QED BY <1>1, <1>2, <1>10, OthersAlone

-----------------------------------------------------------------------------
(* The types and the count.                                                *)

LEMMA BoxTypes ==
    ASSUME NEW S, NEW box \in Seq(S)
    PROVE  /\ \A x \in S : Append(box, x) \in Seq(S)
           /\ box # << >> => Tail(box) \in Seq(S)
OBVIOUS

(* What a handler makes of the mailboxes has their types.                  *)
Requests == {"start", "close"} \X FD
ToTcpservice == {"open", "data", "bad", "close", "error", "forward", "kick"} \X FD
ToWatchdog == {"open", "close", "error", "launched", "kicked"} \X FD
ToAgents == {"start", "send_test", "disconnect"}

LEMMA Typed ==
    ASSUME TypeOK, NEW fd \in FD
    PROVE  /\ request \in Seq(Requests) /\ sq \in Seq(ToTcpservice) /\ wq \in Seq(ToWatchdog)
           /\ aq \in [FD -> Seq(ToAgents)]
           /\ \A type \in {"start", "close"} : Append(request, <<type, fd>>) \in Seq(Requests)
           /\ \A type \in {"open", "data", "bad", "close", "error", "forward", "kick"} :
                  Append(sq, <<type, fd>>) \in Seq(ToTcpservice)
           /\ \A type \in {"open", "close", "error", "launched", "kicked"} :
                  Append(wq, <<type, fd>>) \in Seq(ToWatchdog)
           /\ request # << >> => Tail(request) \in Seq(Requests)
           /\ sq # << >> => Tail(sq) \in Seq(ToTcpservice)
           /\ wq # << >> => Tail(wq) \in Seq(ToWatchdog)
           /\ \A m \in ToAgents : ToAgent(aq, fd, m) \in [FD -> Seq(ToAgents)]
           /\ aq[fd] # << >> => [aq EXCEPT ![fd] = Tail(@)] \in [FD -> Seq(ToAgents)]
           /\ [aq EXCEPT ![fd] = << >>] \in [FD -> Seq(ToAgents)]
           /\ request \o OnOpen(fd) \in Seq(Requests)
<1>1. /\ request \in Seq(Requests) /\ sq \in Seq(ToTcpservice) /\ wq \in Seq(ToWatchdog)
      /\ aq \in [FD -> Seq(ToAgents)]
  BY DEF TypeOK, Requests, ToTcpservice, ToWatchdog, ToAgents
<1>2. /\ \A type \in {"start", "close"} : <<type, fd>> \in Requests
      /\ \A type \in {"open", "data", "bad", "close", "error", "forward", "kick"} :
             <<type, fd>> \in ToTcpservice
      /\ \A type \in {"open", "close", "error", "launched", "kicked"} : <<type, fd>> \in ToWatchdog
  BY DEF Requests, ToTcpservice, ToWatchdog
<1>3. ASSUME NEW m \in ToAgents PROVE ToAgent(aq, fd, m) \in [FD -> Seq(ToAgents)]
  <2>1. Append(aq[fd], m) \in Seq(ToAgents)
    BY <1>1, BoxTypes
  <2> QED BY <1>1, <2>1 DEF ToAgent
<1>4. aq[fd] # << >> => [aq EXCEPT ![fd] = Tail(@)] \in [FD -> Seq(ToAgents)]
  <2>1. aq[fd] # << >> => Tail(aq[fd]) \in Seq(ToAgents)
    BY <1>1, BoxTypes
  <2> QED BY <1>1, <2>1
<1>5. [aq EXCEPT ![fd] = << >>] \in [FD -> Seq(ToAgents)]
  BY <1>1
<1>6. request \o OnOpen(fd) \in Seq(Requests)
  <2>1. OnOpen(fd) \in Seq(Requests)
    BY <1>2 DEF OnOpen
  <2> QED BY <1>1, <2>1
<1>7. /\ \A type \in {"start", "close"} : Append(request, <<type, fd>>) \in Seq(Requests)
      /\ request # << >> => Tail(request) \in Seq(Requests)
  BY <1>1, <1>2, BoxTypes
<1>8. /\ \A type \in {"open", "data", "bad", "close", "error", "forward", "kick"} :
             Append(sq, <<type, fd>>) \in Seq(ToTcpservice)
      /\ sq # << >> => Tail(sq) \in Seq(ToTcpservice)
  BY <1>1, <1>2, BoxTypes
<1>9. /\ \A type \in {"open", "close", "error", "launched", "kicked"} :
             Append(wq, <<type, fd>>) \in Seq(ToWatchdog)
      /\ wq # << >> => Tail(wq) \in Seq(ToWatchdog)
  BY <1>1, <1>2, BoxTypes
<1> QED BY <1>1, <1>3, <1>4, <1>5, <1>6, <1>7, <1>8, <1>9

(* The mailboxes, the tables of tcpservice, and the rest.                  *)
BoxesOK ==
    /\ request \in Seq(Requests) /\ sq \in Seq(ToTcpservice) /\ wq \in Seq(ToWatchdog)
    /\ aq \in [FD -> Seq(ToAgents)]

TablesOK ==
    /\ connection \in [FD -> {"nil", "true", "false"}] /\ client_number \in Int
    /\ client \in [FD -> {"nil", "waiting", "forwarded"}]
    /\ failed \subseteq {"message", "forward"} \X FD

EnvOK ==
    /\ sock \in [FD -> SocketState]
    /\ wagent \in [FD -> BOOLEAN] /\ agent \in [FD -> AgentState]
    /\ inputs \in 0 .. MaxInput /\ commanded \subseteq FD

LEMMA TypeParts == TypeOK <=> TablesOK /\ EnvOK /\ BoxesOK
BY DEF TypeOK, BoxesOK, Requests, ToTcpservice, ToWatchdog, ToAgents, TablesOK, EnvOK

LEMMA TypeStep ==
    ASSUME TypeOK, Next PROVE TypeOK'
<1>1. TablesOK /\ EnvOK /\ BoxesOK
  BY TypeParts
<1>2. ASSUME NEW fd \in FD,
             \/ report_accept(fd)
             \/ \E event \in {"data", "bad"} : forward_message_tcp(fd, event)
             \/ \E event \in {"close", "error"} : Gone(fd, event)
             \/ start_socket(fd) \/ close_socket(fd)
      PROVE  TablesOK' /\ EnvOK' /\ BoxesOK'
  <2>1. UNCHANGED <<wq, aq, tcp, wagent, agent, failed, commanded>>
    BY <1>2 DEF report_accept, forward_message_tcp, Gone, start_socket, close_socket,
       Unchanged_services, env
  <2>2. TablesOK'
    BY <1>1, <2>1 DEF TablesOK, tcp
  <2>3. inputs' \in 0 .. MaxInput
    BY <1>1, <1>2, GatewayAssumption
       DEF report_accept, forward_message_tcp, Gone, start_socket, close_socket, env, EnvOK
  <2>4. sock' \in [FD -> SocketState]
    BY <1>1, <1>2
       DEF report_accept, forward_message_tcp, Gone, start_socket, close_socket, EnvOK, SocketState
  <2>5. request' \in Seq(Requests)
    BY <1>2, Typed
       DEF report_accept, forward_message_tcp, Gone, start_socket, close_socket, Handling
  <2>6. sq' \in Seq(ToTcpservice)
    <3>1. \/ sq' = sq
          \/ \E event \in {"open", "data", "bad", "close", "error"} :
                 sq' = Append(sq, <<event, fd>>)
      BY <1>2 DEF report_accept, forward_message_tcp, Gone, start_socket, close_socket
    <3> QED BY <3>1, Typed
  <2>7. EnvOK'
    BY <1>1, <2>1, <2>3, <2>4 DEF EnvOK
  <2> QED BY <1>1, <2>1, <2>2, <2>5, <2>6, <2>7 DEF BoxesOK
<1>3. ASSUME NEW fd \in FD, Command(fd)
      PROVE  TablesOK' /\ EnvOK' /\ BoxesOK'
  <2>1. TablesOK'
    BY <1>1, <1>3 DEF Command, Unchanged_below, TablesOK, tcp
  <2>2. EnvOK'
    BY <1>1, <1>3, GatewayAssumption DEF Command, Unchanged_below, EnvOK
  <2>3. BoxesOK'
    BY <1>1, <1>3, Typed DEF Command, Unchanged_below, BoxesOK
  <2> QED BY <2>1, <2>2, <2>3
<1>4. ASSUME TcpService
      PROVE  TablesOK' /\ EnvOK' /\ BoxesOK'
  <2>1. PICK fd \in FD : \/ MSG_open(fd) \/ MSG_data(fd) \/ Forward(fd) \/ Kick(fd)
                         \/ \E event \in {"close", "error", "bad"}, word \in {"close", "error"} :
                                Lost(fd, event, word)
    BY <1>4 DEF TcpService, MSG_close, MSG_error
  <2>2. EnvOK'
    <3>1. UNCHANGED <<sock, wagent, agent, env>>
      BY <2>1 DEF MSG_open, MSG_data, Forward, Kick, Lost, Unchanged_others
    <3> QED BY <1>1, <3>1 DEF EnvOK, env
  <2>3. sq' \in Seq(ToTcpservice)
    <3>1. sq' = Tail(sq) /\ sq # << >>
      BY <2>1 DEF MSG_open, MSG_data, Forward, Kick, Lost, Handling
    <3> QED BY <3>1, Typed
  <2>4. CASE MSG_open(fd)
    <3>1. TablesOK'
      <4>1. failed' = failed
        BY <2>4 DEF MSG_open
      <4>2. CASE client_number >= maxclient
        BY <1>1, <2>4, <4>1, <4>2 DEF MSG_open, TablesOK, tcp
      <4>3. CASE ~(client_number >= maxclient)
        <5>1. /\ connection' = [connection EXCEPT ![fd] = "true"]
              /\ client_number' = client_number + 1
              /\ client' = [client EXCEPT ![fd] = "waiting"]
          BY <2>4, <4>3 DEF MSG_open
        <5> QED BY <1>1, <4>1, <5>1 DEF TablesOK
      <4> QED BY <4>2, <4>3
    <3>2. BoxesOK'
      BY <1>1, <2>3, <2>4, Typed DEF MSG_open, BoxesOK
    <3> QED BY <2>2, <3>1, <3>2
  <2>5. CASE MSG_data(fd)
    <3>1. TablesOK'
      BY <1>1, <2>5 DEF MSG_data, TablesOK, tcp
    <3>2. aq' \in [FD -> Seq(ToAgents)]
      BY <2>5, Typed DEF MSG_data, ToAgents
    <3>3. BoxesOK'
      BY <1>1, <2>3, <2>5, <3>2 DEF MSG_data, BoxesOK
    <3> QED BY <2>2, <3>1, <3>3
  <2>6. CASE Forward(fd)
    <3>1. TablesOK'
      BY <1>1, <2>6 DEF Forward, TablesOK
    <3>2. BoxesOK'
      BY <1>1, <2>3, <2>6, Typed DEF Forward, BoxesOK
    <3> QED BY <2>2, <3>1, <3>2
  <2>7. CASE Kick(fd)
    <3>1. TablesOK'
      BY <1>1, <2>7 DEF Kick, Closing, TablesOK
    <3>2. BoxesOK'
      BY <1>1, <2>3, <2>7, Typed DEF Kick, BoxesOK
    <3> QED BY <2>2, <3>1, <3>2
  <2>8. ASSUME NEW event, NEW word \in {"close", "error"}, Lost(fd, event, word)
        PROVE  TablesOK' /\ BoxesOK'
    <3>1. TablesOK'
      BY <1>1, <2>8 DEF Lost, close_fd, TablesOK
    <3>2. BoxesOK'
      BY <1>1, <2>3, <2>8, Typed DEF Lost, close_fd, BoxesOK
    <3> QED BY <3>1, <3>2
  <2> QED BY <2>1, <2>2, <2>4, <2>5, <2>6, <2>7, <2>8
<1>5. ASSUME NEW fd \in FD,
             \/ SOCKET_open(fd) \/ Launch(fd) \/ Launched(fd) \/ SOCKET_close(fd) \/ Kicked(fd)
             \/ Agent(fd)
      PROVE  TablesOK' /\ EnvOK' /\ BoxesOK'
  <2>1. UNCHANGED <<sock, request, tcp, failed, env>>
    BY <1>5 DEF SOCKET_open, Launch, Launched, SOCKET_close, Kicked, Agent, AgentStart, AgentData,
       AgentExit, Unchanged_below
  <2>2. TablesOK'
    BY <1>1, <2>1 DEF TablesOK, tcp
  <2>3. agent' \in [FD -> AgentState] /\ wagent' \in [FD -> BOOLEAN]
    BY <1>1, <1>5 DEF SOCKET_open, Launch, Launched, SOCKET_close, close_agent, Kicked, Agent,
       AgentStart, AgentData, AgentExit, EnvOK, AgentState
  <2>4. EnvOK'
    BY <1>1, <2>1, <2>3 DEF EnvOK, env
  <2>5. wq' \in Seq(ToWatchdog)
    BY <1>5, Typed DEF SOCKET_open, Launch, Launched, SOCKET_close, Kicked, Agent, AgentStart,
       AgentData, AgentExit, Handling
  <2>6. sq' \in Seq(ToTcpservice)
    BY <1>5, Typed DEF SOCKET_open, Launch, Launched, SOCKET_close, close_agent, Kicked, Agent,
       AgentStart, AgentData, AgentExit
  <2>7. aq' \in [FD -> Seq(ToAgents)]
    <3>1. CASE SOCKET_open(fd) \/ Launch(fd) \/ SOCKET_close(fd)
      BY <3>1, Typed DEF SOCKET_open, Launch, SOCKET_close
    <3>2. CASE Launched(fd) \/ Kicked(fd)
      BY <3>2, Typed DEF Launched, Kicked, ToAgents
    <3>3. CASE Agent(fd)
      BY <3>3, Typed DEF Agent, AgentStart, AgentData, AgentExit
    <3> QED BY <1>5, <3>1, <3>2, <3>3
  <2> QED BY <2>1, <2>2, <2>4, <2>5, <2>6, <2>7, Typed DEF BoxesOK
<1>6. TablesOK' /\ EnvOK' /\ BoxesOK'
  BY <1>2, <1>3, <1>4, <1>5 DEF Next, Peers, SocketRequests, Watchdog
<1>7. (TypeOK <=> TablesOK /\ EnvOK /\ BoxesOK)'
  BY DEF TypeOK, BoxesOK, Requests, ToTcpservice, ToWatchdog, ToAgents, TablesOK, EnvOK
<1> QED BY <1>6, <1>7

Known == {fd \in FD : connection[fd] # "nil"}

LEMMA CountStep ==
    ASSUME GateInv, Next, TypeOK'
    PROVE  CountsClients'
<1>1. /\ client_number = Cardinality(Known) /\ client_number <= maxclient
      /\ client_number \in Int /\ maxclient \in Nat /\ IsFiniteSet(Known)
  <2>1. IsFiniteSet(Known)
    BY GatewayAssumption, FS_Subset DEF Known
  <2> QED BY <2>1, GatewayAssumption DEF GateInv, CountsClients, TypeOK, Known
<1>2. SUFFICES client_number' = Cardinality(Known') /\ client_number' <= maxclient
  BY DEF CountsClients, Known
<1>3. ASSUME client_number' = client_number, Known' = Known
      PROVE  client_number' = Cardinality(Known') /\ client_number' <= maxclient
  BY <1>1, <1>3
<1>4. ASSUME NEW fd \in FD, MSG_open(fd)
      PROVE  client_number' = Cardinality(Known') /\ client_number' <= maxclient
  <2>1. CASE client_number >= maxclient
    BY <1>3, <1>4, <2>1 DEF MSG_open, tcp, Known
  <2>2. CASE ~(client_number >= maxclient)
    <3>1. /\ client_number' = client_number + 1
          /\ connection' = [connection EXCEPT ![fd] = "true"]
      BY <1>4, <2>2 DEF MSG_open
    <3>2. fd \notin Known
      BY <1>4, TakesSq DEF MSG_open, GateInv, Way, Doors, Known
    <3>3. Known' = Known \cup {fd}
      BY <3>1 DEF Known, GateInv, CountsClients, TypeOK
    <3>4. Cardinality(Known') = Cardinality(Known) + 1
      BY <1>1, <3>2, <3>3, FS_AddElement
    <3> QED BY <1>1, <2>2, <3>1, <3>4
  <2> QED BY <2>1, <2>2
<1>5. ASSUME NEW fd \in FD, close_fd(fd)
      PROVE  client_number' = Cardinality(Known') /\ client_number' <= maxclient
  <2>1. CASE connection[fd] = "nil"
    BY <1>3, <1>5, <2>1 DEF close_fd, Known
  <2>2. CASE connection[fd] # "nil"
    <3>1. fd \in Known /\ Known' = Known \ {fd} /\ client_number' = client_number - 1
      BY <1>5, <2>2 DEF close_fd, Known, GateInv, CountsClients, TypeOK
    <3>2. Cardinality(Known') = Cardinality(Known) - 1
      BY <1>1, <3>1, FS_RemoveElement
    <3> QED BY <1>1, <3>1, <3>2
  <2> QED BY <2>1, <2>2
<1>6. ASSUME NEW fd \in FD, Kick(fd)
      PROVE  client_number' = Cardinality(Known') /\ client_number' <= maxclient
  <2>1. Known' = Known
    BY <1>6 DEF Kick, Closing, Known, GateInv, CountsClients, TypeOK
  <2> QED BY <1>3, <1>6, <2>1 DEF Kick
<1>7. ASSUME UNCHANGED <<connection, client_number>>
      PROVE  client_number' = Cardinality(Known') /\ client_number' <= maxclient
  BY <1>3, <1>7 DEF Known
<1>8. ASSUME Peers \/ SocketRequests \/ Watchdog \/ \E fd \in FD : Launch(fd) \/ Agent(fd)
      PROVE  UNCHANGED <<connection, client_number>>
  BY <1>8 DEF Peers, SocketRequests, Watchdog, Agent, report_accept, forward_message_tcp, Gone,
     Command, start_socket, close_socket, SOCKET_open, Launched, SOCKET_close, Kicked, Launch,
     AgentStart, AgentData, AgentExit, Unchanged_services, Unchanged_below, tcp
<1>9. CASE TcpService
  <2>1. ASSUME NEW fd \in FD, MSG_data(fd) \/ Forward(fd)
        PROVE  UNCHANGED <<connection, client_number>>
    BY <2>1 DEF MSG_data, Forward, tcp
  <2>2. ASSUME NEW fd \in FD, MSG_close(fd) \/ MSG_error(fd) PROVE close_fd(fd)
    BY <2>2 DEF MSG_close, MSG_error, Lost
  <2> QED BY <1>4, <1>5, <1>6, <1>7, <1>9, <2>1, <2>2 DEF TcpService
<1> QED BY <1>7, <1>8, <1>9 DEF Next

-----------------------------------------------------------------------------
(* GateInv is inductive.                                                   *)

LEMMA GateInit == Init => GateInv
<1> SUFFICES ASSUME Init PROVE GateInv
  OBVIOUS
<1>1. TypeOK
  <2>1. /\ sock \in [FD -> SocketState] /\ wagent \in [FD -> BOOLEAN]
        /\ agent \in [FD -> AgentState]
    BY DEF Init, SocketState, AgentState
  <2> QED BY <2>1, GatewayAssumption DEF Init, TypeOK
<1>2. CountsClients
  <2>1. {fd \in FD : connection[fd] # "nil"} = {}
    BY DEF Init
  <2> QED BY <1>1, <2>1, FS_EmptySet, GatewayAssumption DEF CountsClients, Init
<1>3. ASSUME NEW fd \in FD PROVE Way(fd)
  <2>1. \A m : ~In(<< >>, m) /\ Once(<< >>, m)
    BY DEF In, Once
  <2>2. Stages(fd) = {}
    BY <2>1 DEF Stages, Init
  <2>3. OneStage(fd) /\ SentOnce(fd) /\ Unborn(fd) /\ Doors(fd)
    BY <2>1, <2>2 DEF OneStage, SentOnce, Unborn, Doors, Init
  <2>4. Comes(fd) /\ Last(fd) /\ Found(fd)
    BY <2>2 DEF Comes, Last, Found, Init
  <2> QED BY <2>3, <2>4 DEF Way
<1> QED BY <1>2, <1>3 DEF GateInv

LEMMA GateStep == GateInv /\ [Next]_vars => GateInv'
<1> SUFFICES ASSUME GateInv, [Next]_vars PROVE GateInv'
  OBVIOUS
<1>1. CASE UNCHANGED vars
  <2>1. CountsClients'
    BY <1>1 DEF GateInv, CountsClients, TypeOK, vars, tcp, env
  <2>2. ASSUME NEW fd \in FD PROVE Way(fd)'
    BY <1>1, OthersKeep, SameUntouched DEF GateInv, SameClient, vars, tcp, env
  <2> QED BY <2>1, <2>2 DEF GateInv
<1>2. CASE Next
  <2>1. CountsClients'
    BY <1>2, TypeStep, CountStep DEF GateInv, CountsClients
  <2>2. CASE Peers
    BY <2>1, <2>2, AcceptWay, ReportWay, CommandWay DEF Peers, GateInv
  <2>3. CASE SocketRequests
    BY <2>1, <2>3, RequestWay DEF SocketRequests, GateInv
  <2>4. CASE TcpService
    BY <2>1, <2>4, OpenWay, DataWay, LostWay, ForwardWay, KickWay DEF TcpService, GateInv
  <2>5. CASE Watchdog
    BY <2>1, <2>5, SocketOpenWay, LaunchedWay, SocketCloseWay, KickedWay DEF Watchdog, GateInv
  <2>6. CASE \E fd \in FD : Launch(fd) \/ Agent(fd)
    BY <2>1, <2>6, LaunchWay, StartWay, AgentDataWay, ExitWay DEF Agent, GateInv
  <2> QED BY <1>2, <2>2, <2>3, <2>4, <2>5, <2>6 DEF Next
<1> QED BY <1>1, <1>2

LEMMA GateAlways == Spec => []GateInv
BY GateInit, GateStep, PTL DEF Spec

(* The count that lets a client in is the number of clients tcpserver.lua  *)
(* knows, and never passes maxclient (tcpserver.lua:85).                   *)
THEOREM CountIsRight == Spec => []CountsClients
<1>1. GateInv => CountsClients
  BY DEF GateInv
<1> QED BY <1>1, GateAlways, PTL

(* handler.message and CMD.forward find the record of their client         *)
(* (tcpservice.lua:27 and 83), a close command for it apart.               *)
THEOREM ClientIsFound == Spec => []FindsClient
<1>1. GateInv => FindsClient
  BY DEF GateInv, Way, Found, FindsClient
<1> QED BY <1>1, GateAlways, PTL

(* Nothing comes behind the disconnect of an agent (watchdog.lua:20).      *)
THEOREM DisconnectIsLast == Spec => []LastWord
<1>1. GateInv => LastWord
  BY DEF GateInv, Way, Last, LastWord
<1> QED BY <1>1, GateAlways, PTL
=============================================================================
