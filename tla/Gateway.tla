------------------------------ MODULE Gateway ------------------------------
(***************************************************************************)
(* The TCP gateway of eureka/src: tcpservice.lua on the framework          *)
(* net/tcpserver.lua, watchdog.lua and one agent.lua per client.  Each is  *)
(* a service with a mailbox of its own and handles one message at a time   *)
(* until its coroutine yields, so a handler, up to its first yield, is one *)
(* action, and what follows the yield is the action on the reply.  Replies *)
(* that only end a coroutine and messages that nobody acts on (SOCKET.data *)
(* of the watchdog) are left out.                                          *)
(*                                                                         *)
(* Below them stands the socket thread (skynet-src/socket_server.c): it    *)
(* executes the requests of tcpservice in order and reports to it.  An     *)
(* accepted socket is paused and reports nothing until it is started, a    *)
(* close of a socket that is already closed is reported as a close again,  *)
(* and a socket with unsent data closes some time after the request.       *)
(*                                                                         *)
(* A socket id is used once (reserve_id counts on to 2^31).                *)
(***************************************************************************)
EXTENDS Integers, FiniteSets, Sequences

CONSTANTS
    FD,             \* socket ids that may be accepted
    maxclient,
    MaxInput        \* bound: packages and "close" commands, together

ASSUME GatewayAssumption ==
    /\ IsFiniteSet(FD)
    /\ maxclient \in Nat \ {0}
    /\ MaxInput \in Nat

VARIABLES
    sock,           \* socket thread: fd -> state of the socket
    request,        \* requests in the control pipe of the socket thread
    sq, wq, aq,     \* mailboxes: tcpservice, watchdog, agent of fd
    connection,     \* tcpserver.lua: fd -> nil, true or false
    client_number,  \* tcpserver.lua
    client,         \* tcpservice.lua connection: nil, without or with an agent
    wagent,         \* watchdog.lua: agent[fd] is set
    agent,          \* fd -> state of the agent service
    failed,         \* failed assertions and nil indexes: <<line, fd>>
    inputs,         \* packages and commands sent so far
    commanded       \* history: clients named in a command

tcp == <<connection, client_number, client>>
env == <<inputs, commanded>>
vars == <<sock, request, sq, wq, aq, tcp, wagent, agent, failed, env>>

Handling(box, type, fd) == box # <<>> /\ Head(box) = <<type, fd>>

\* skynet_send to an agent that is gone drops the message.
ToAgent(box, fd, m) == IF agent[fd] = "gone" THEN box
                       ELSE [box EXCEPT ![fd] = Append(@, m)]

Init ==
    /\ sock = [fd \in FD |-> "free"]
    /\ request = <<>>
    /\ sq = <<>>
    /\ wq = <<>>
    /\ aq = [fd \in FD |-> <<>>]
    /\ connection = [fd \in FD |-> "nil"]
    /\ client_number = 0
    /\ client = [fd \in FD |-> "nil"]
    /\ wagent = [fd \in FD |-> FALSE]
    /\ agent = [fd \in FD |-> "none"]
    /\ failed = {}
    /\ inputs = 0
    /\ commanded = {}

-----------------------------------------------------------------------------
(* The socket thread.                                                      *)

Unchanged_services == UNCHANGED <<wq, aq, tcp, wagent, agent, failed>>

report_accept(fd) ==
    /\ sock[fd] = "free"
    /\ sock' = [sock EXCEPT ![fd] = "paused"]
    /\ sq' = Append(sq, <<"open", fd>>)
    /\ UNCHANGED <<request, env>>
    /\ Unchanged_services

\* A package reaches tcpservice; netpackext.filter turns one whose length is
\* out of range into an error of a socket that is still open.
forward_message_tcp(fd, event) ==
    /\ sock[fd] = "open"
    /\ inputs < MaxInput
    /\ inputs' = inputs + 1
    /\ sq' = Append(sq, <<event, fd>>)
    /\ UNCHANGED <<sock, request, commanded>>
    /\ Unchanged_services

\* The peer closed, reading or writing failed, or the last unsent data of a
\* half closed socket is out.
Gone(fd, event) ==
    /\ sock[fd] \in {"open", "half"}
    /\ sock' = [sock EXCEPT ![fd] = "closed"]
    /\ sq' = Append(sq, <<event, fd>>)
    /\ UNCHANGED <<request, env>>
    /\ Unchanged_services

\* start_socket; the "start" and "transfer" reports are ignored by
\* netpackext.filter.
start_socket(fd) ==
    /\ Handling(request, "start", fd)
    /\ request' = Tail(request)
    /\ sock' = [sock EXCEPT ![fd] = IF @ = "paused" THEN "open" ELSE @]
    /\ sq' = IF sock[fd] = "closed" THEN Append(sq, <<"error", fd>>) ELSE sq
    /\ UNCHANGED env
    /\ Unchanged_services

close_socket(fd) ==
    /\ Handling(request, "close", fd)
    /\ request' = Tail(request)
    /\ \/ /\ sock' = [sock EXCEPT ![fd] = "closed"]
          /\ sq' = Append(sq, <<"close", fd>>)
       \/ /\ sock[fd] \in {"open", "half"}      \* unsent data
          /\ sock' = [sock EXCEPT ![fd] = "half"]
          /\ sq' = sq
    /\ UNCHANGED env
    /\ Unchanged_services

-----------------------------------------------------------------------------
(* tcpservice: the handlers of tcpserver.lua with the callbacks of         *)
(* tcpservice.lua that they call.                                          *)

Unchanged_others == UNCHANGED <<sock, wagent, agent, env>>

\* Mutant of OnOpen: the client is not turned away.
OpenIgnores(fd) == <<>>

\* What MSG.open asks of the socket thread: a client too many is closed, and
\* one that is let in stays paused.
OnOpen(fd) == IF client_number >= maxclient THEN <<<<"close", fd>>>> ELSE <<>>

MSG_open(fd) ==
    /\ Handling(sq, "open", fd)
    /\ sq' = Tail(sq)
    /\ request' = request \o OnOpen(fd)
    /\ IF client_number >= maxclient
       THEN UNCHANGED <<tcp, wq>>
       ELSE /\ connection' = [connection EXCEPT ![fd] = "true"]
            /\ client_number' = client_number + 1
            /\ client' = [client EXCEPT ![fd] = "waiting"]
            /\ wq' = Append(wq, <<"open", fd>>)
    /\ UNCHANGED <<aq, failed>>
    /\ Unchanged_others

\* MSG.data and MSG.more: handler.message indexes the client's record.
MSG_data(fd) ==
    /\ Handling(sq, "data", fd)
    /\ sq' = Tail(sq)
    /\ aq' = IF connection[fd] = "true" /\ client[fd] = "forwarded"
             THEN ToAgent(aq, fd, "send_test") ELSE aq
    /\ failed' = IF connection[fd] = "true" /\ client[fd] = "nil"
                 THEN failed \cup {<<"message", fd>>} ELSE failed
    /\ UNCHANGED <<request, wq, tcp>>
    /\ Unchanged_others

\* Mutants of close_fd: it counts every report, or keeps the entry.
CloseFdCounts(fd) ==
    /\ connection' = [connection EXCEPT ![fd] = "nil"]
    /\ client_number' = client_number - 1
    /\ request' = Append(request, <<"close", fd>>)

CloseFdKeeps(fd) ==
    /\ request' = Append(request, <<"close", fd>>)
    /\ UNCHANGED <<connection, client_number>>

\* tcpserver's close_fd: a client is counted down and closed once.
close_fd(fd) ==
    IF connection[fd] # "nil"
    THEN /\ connection' = [connection EXCEPT ![fd] = "nil"]
         /\ client_number' = client_number - 1
         /\ request' = Append(request, <<"close", fd>>)
    ELSE UNCHANGED <<connection, client_number, request>>

\* MSG.close and MSG.error of a client; "bad" is the error that
\* netpackext.filter raises.  handler.disconnect and handler.error differ in
\* the word they send to the watchdog.
Lost(fd, event, word) ==
    /\ Handling(sq, event, fd)
    /\ sq' = Tail(sq)
    /\ client' = [client EXCEPT ![fd] = "nil"]
    /\ wq' = Append(wq, <<word, fd>>)
    /\ close_fd(fd)
    /\ UNCHANGED <<aq, failed>>
    /\ Unchanged_others

MSG_close(fd) == Lost(fd, "close", "close")
MSG_error(fd) == Lost(fd, "error", "error") \/ Lost(fd, "bad", "error")

\* CMD.forward with tcpserver.openclient; a failed assertion ends it.
Forward(fd) ==
    /\ Handling(sq, "forward", fd)
    /\ sq' = Tail(sq)
    /\ IF client[fd] = "nil"
       THEN /\ failed' = failed \cup {<<"forward", fd>>}
            /\ UNCHANGED <<client, request>>
       ELSE /\ client' = [client EXCEPT ![fd] = "forwarded"]
            /\ request' = IF connection[fd] = "true"
                          THEN Append(request, <<"start", fd>>) ELSE request
            /\ UNCHANGED failed
    /\ UNCHANGED <<wq, aq, connection, client_number>>
    /\ Unchanged_others

\* What tcpserver.closeclient leaves in connection[fd].
Closing == "false"

Kick(fd) ==
    /\ Handling(sq, "kick", fd)
    /\ sq' = Tail(sq)
    /\ IF connection[fd] = "true"
       THEN /\ connection' = [connection EXCEPT ![fd] = Closing]
            /\ request' = Append(request, <<"close", fd>>)
       ELSE UNCHANGED <<connection, request>>
    /\ wq' = Append(wq, <<"kicked", fd>>)
    /\ UNCHANGED <<aq, client_number, client, failed>>
    /\ Unchanged_others

-----------------------------------------------------------------------------
(* The watchdog.                                                           *)

Unchanged_below == UNCHANGED <<sock, request, tcp, failed>>

\* SOCKET.open calls newservice and waits for the launcher's reply.
SOCKET_open(fd) ==
    /\ Handling(wq, "open", fd)
    /\ wq' = Tail(wq)
    /\ agent' = [agent EXCEPT ![fd] = "launching"]
    /\ UNCHANGED <<sq, aq, wagent, env>>
    /\ Unchanged_below

\* The launcher starts the agent, or reports that its main chunk failed.
Launch(fd) ==
    /\ agent[fd] = "launching"
    /\ \/ /\ agent' = [agent EXCEPT ![fd] = "new"]
          /\ wq' = Append(wq, <<"launched", fd>>)
       \/ /\ agent' = [agent EXCEPT ![fd] = "failed"]
          /\ UNCHANGED wq
    /\ UNCHANGED <<sq, aq, wagent, env>>
    /\ Unchanged_below

\* The rest of SOCKET.open.
Launched(fd) ==
    /\ Handling(wq, "launched", fd)
    /\ wq' = Tail(wq)
    /\ wagent' = [wagent EXCEPT ![fd] = TRUE]
    /\ aq' = ToAgent(aq, fd, "start")
    /\ UNCHANGED <<sq, agent, env>>
    /\ Unchanged_below

\* Mutants of close_agent: agent[fd] is kept over the call, or cleared before
\* it is read.
CloseAgentKeeps(fd) ==
    /\ wagent' = wagent
    /\ sq' = IF wagent[fd] THEN Append(sq, <<"kick", fd>>) ELSE sq

CloseAgentForgets(fd) == wagent' = [wagent EXCEPT ![fd] = FALSE] /\ sq' = sq

\* close_agent up to its call of tcpservice: SOCKET.close, SOCKET.error and
\* CMD.close.
close_agent(fd) ==
    /\ wagent' = [wagent EXCEPT ![fd] = FALSE]
    /\ sq' = IF wagent[fd] THEN Append(sq, <<"kick", fd>>) ELSE sq

SOCKET_close(fd) ==
    /\ \E word \in {"close", "error"} : Handling(wq, word, fd)
    /\ wq' = Tail(wq)
    /\ close_agent(fd)
    /\ UNCHANGED <<aq, agent, env>>
    /\ Unchanged_below

\* The rest of close_agent.
Kicked(fd) ==
    /\ Handling(wq, "kicked", fd)
    /\ wq' = Tail(wq)
    /\ aq' = ToAgent(aq, fd, "disconnect")
    /\ UNCHANGED <<sq, wagent, agent, env>>
    /\ Unchanged_below

\* The debug console has a command to call the watchdog's "close".
Command(fd) ==
    /\ inputs < MaxInput
    /\ sock[fd] # "free"
    /\ inputs' = inputs + 1
    /\ commanded' = commanded \cup {fd}
    /\ wq' = Append(wq, <<"close", fd>>)
    /\ UNCHANGED <<sq, aq, wagent, agent>>
    /\ Unchanged_below

-----------------------------------------------------------------------------
(* The agent of a client.                                                  *)

AgentStart(fd) ==
    /\ aq[fd] # <<>> /\ Head(aq[fd]) = "start"
    /\ aq' = [aq EXCEPT ![fd] = Tail(@)]
    /\ sq' = Append(sq, <<"forward", fd>>)
    /\ UNCHANGED <<wq, wagent, agent, env>>
    /\ Unchanged_below

\* CMD.send_test answers the client and keeps nothing.
AgentData(fd) ==
    /\ aq[fd] # <<>> /\ Head(aq[fd]) = "send_test"
    /\ aq' = [aq EXCEPT ![fd] = Tail(@)]
    /\ UNCHANGED <<sq, wq, wagent, agent, env>>
    /\ Unchanged_below

\* CMD.disconnect is skynet.exit: the rest of the mailbox is dropped.
AgentExit(fd) ==
    /\ aq[fd] # <<>> /\ Head(aq[fd]) = "disconnect"
    /\ aq' = [aq EXCEPT ![fd] = <<>>]
    /\ agent' = [agent EXCEPT ![fd] = "gone"]
    /\ UNCHANGED <<sq, wq, wagent, env>>
    /\ Unchanged_below

-----------------------------------------------------------------------------
SocketRequests == \E fd \in FD : start_socket(fd) \/ close_socket(fd)

TcpService == \E fd \in FD :
    \/ MSG_open(fd) \/ MSG_data(fd) \/ MSG_close(fd) \/ MSG_error(fd)
    \/ Forward(fd) \/ Kick(fd)

Watchdog == \E fd \in FD :
    \/ SOCKET_open(fd) \/ Launched(fd) \/ SOCKET_close(fd) \/ Kicked(fd)

Agent(fd) == AgentStart(fd) \/ AgentData(fd) \/ AgentExit(fd)

Peers == \E fd \in FD :
    \/ report_accept(fd)
    \/ \E event \in {"data", "bad"} : forward_message_tcp(fd, event)
    \/ \E event \in {"close", "error"} : Gone(fd, event)
    \/ Command(fd)

Next ==
    \/ Peers
    \/ SocketRequests
    \/ TcpService
    \/ Watchdog
    \/ \E fd \in FD : Launch(fd) \/ Agent(fd)

Spec == Init /\ [][Next]_vars

\* Every service is dispatched while its mailbox holds a message (Dispatch),
\* the socket thread polls its pipe, and the launcher answers.  Nothing is
\* assumed of the peers.
FairSpec ==
    /\ Spec
    /\ WF_vars(SocketRequests)
    /\ WF_vars(TcpService)
    /\ WF_vars(Watchdog)
    /\ \A fd \in FD : WF_vars(Launch(fd)) /\ WF_vars(Agent(fd))

-----------------------------------------------------------------------------
SocketState == {"free", "paused", "open", "half", "closed"}
AgentState == {"none", "launching", "failed", "new", "gone"}

TypeOK ==
    /\ sock \in [FD -> SocketState]
    /\ request \in Seq({"start", "close"} \X FD)
    /\ sq \in Seq({"open", "data", "bad", "close", "error", "forward", "kick"} \X FD)
    /\ wq \in Seq({"open", "close", "error", "launched", "kicked"} \X FD)
    /\ aq \in [FD -> Seq({"start", "send_test", "disconnect"})]
    /\ connection \in [FD -> {"nil", "true", "false"}]
    /\ client_number \in Int
    /\ client \in [FD -> {"nil", "waiting", "forwarded"}]
    /\ wagent \in [FD -> BOOLEAN]
    /\ agent \in [FD -> AgentState]
    /\ failed \subseteq {"message", "forward"} \X FD
    /\ inputs \in 0 .. MaxInput
    /\ commanded \subseteq FD
-----------------------------------------------------------------------------
(* The count that decides whether a client is let in (tcpserver.lua:85) is *)
(* the number of clients the table holds and never passes maxclient,       *)
(* although every closed client is reported closed twice or more.  With it *)
(* the types of the variables.                                             *)
CountsClients ==
    /\ TypeOK
    /\ client_number = Cardinality({fd \in FD : connection[fd] # "nil"})
    /\ client_number <= maxclient

(* handler.message (tcpservice.lua:27) never indexes the record of a       *)
(* client that tcpservice has dropped: the two tables called connection    *)
(* lose a client together, whatever the socket still delivers.  Nor does   *)
(* the assertion of CMD.forward fail (83): an agent never comes too late   *)
(* for its client, since an accepted socket stays silent until it is       *)
(* started; only a close command for that very client can break it.        *)
FindsClient == \A fd \in FD :
    /\ <<"message", fd>> \notin failed
    /\ <<"forward", fd>> \in failed => fd \in commanded

(* Behind the disconnect of an agent (watchdog.lua:20) comes nothing that  *)
(* needs it: no package of its client, no start and no second disconnect.  *)
(* "kick" closes the door before the agent is told, and agent[fd] is       *)
(* cleared before the watchdog waits for it.                               *)
LastWord == \A fd \in FD : \A i \in 1 .. Len(aq[fd]) - 1 : aq[fd][i] # "disconnect"

Forgotten(fd) ==
    /\ connection[fd] = "nil"
    /\ client[fd] = "nil"
    /\ ~wagent[fd]
    /\ agent[fd] \in {"none", "gone"}

(* Once its socket is closed a client is forgotten by tcpserver,           *)
(* tcpservice and watchdog, and its agent is gone (watchdog.lua:14).       *)
Settles == \A fd \in FD : sock[fd] = "closed" ~> Forgotten(fd)

(* An accepted socket is started or closed, unless its agent could not be  *)
(* launched: then nobody closes it (watchdog.lua:10).                      *)
Served == \A fd \in FD :
    sock[fd] = "paused" ~> sock[fd] # "paused" \/ agent[fd] = "failed"
=============================================================================
