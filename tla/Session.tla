------------------------------ MODULE Session ------------------------------
(***************************************************************************)
(* The Lua runtime of one service, lualib/skynet.lua, with one critical    *)
(* section of lualib/skynet/queue.lua.  The service handles one message at *)
(* a time; the coroutine it resumes runs until it yields, and before the   *)
(* next message all that has become due (sleepers that were woken, calls   *)
(* that have failed, forks) is resumed in turn.                            *)
(*                                                                         *)
(* The code does that by nested calls of suspend.  pc is the function that *)
(* runs, frames the number of calls of dispatch_wakeup on the stack whose  *)
(* caller has dispatch_error_queue still to do; the other calls are tail   *)
(* calls.  What a coroutine does is up to the service: a running one does  *)
(* any operation of the library, in any order, and may fail at any point.  *)
(*                                                                         *)
(* A peer is another service that may send one request, be called, and     *)
(* exit.  While it exits it can still be called, and a request it has      *)
(* reported an error for can still get a response, from the rest of its    *)
(* batch of messages (AnsweredOnce is about the same of this service).     *)
(* Tokens are the coroutines themselves, the default of sleep and   *)
(* wait.  A message of the service's own protocols with session 0 asks for *)
(* no answer and is the same as a timeout; tracing is left out.            *)
(***************************************************************************)
EXTENDS Integers, SequencesExt, FiniteSetsExt

CONSTANTS
    Co,             \* coroutines
    Peer,           \* other services
    MaxSession,     \* bound: sessions drawn
    MaxWakeup,      \* bound: length of wakeup_queue for a further wakeup
    MaxDepth,       \* bound: times one coroutine enters the section anew
    None, BREAK

ASSUME SessionAssumption ==
    /\ IsFiniteSet(Co) /\ IsFiniteSet(Peer)
    /\ MaxSession \in Nat /\ MaxWakeup \in Nat /\ MaxDepth \in Nat
    /\ None \notin Co \cup Peer /\ BREAK \notin Co \cup Peer \cup {None}

VARIABLES
    pc, running, frames,
    at,                     \* co -> what it is doing, or waits for
    waits,                  \* co -> the session it yielded on, its local variable
    session,                \* last session drawn
    session_id_coroutine,
    session_coroutine_id,   \* co -> peer whose request it owes an answer
    unresponse,             \* peers a response closure is kept for
    sleep_session, wakeup_queue,
    watching_session, error_queue,
    fork_queue, triggers,   \* forked coroutines, and empty functions forked
    current_thread, ref, thread_queue,      \* queue.lua
    depth,                  \* co -> calls of the section it is in
    timers, asked,          \* sessions the timer will answer, and <<peer, session>>
    down,                   \* peers that have told us that they exit
    refused,                \* sessions an exiting peer may answer after an error
    exited,
    requests, late,         \* history: peers that sent a request; after exit
    replies, forgotten,     \* history: answers given; handlers that gave none
    stray,                  \* history: a wakeup that did not mean this sleep
    unknown,                \* history: sessions a response did not find
    failed                  \* history: failed assertions, nil resumed

engine == <<pc, running, frames>>
tables == <<session, session_id_coroutine, waits>>
sleeping == <<sleep_session, wakeup_queue, stray>>
calls == <<watching_session, error_queue>>
forks == <<fork_queue, triggers>>
section == <<current_thread, ref, thread_queue, depth>>
world == <<timers, asked, down, refused, unknown>>
served == <<session_coroutine_id, unresponse, requests, late, replies, forgotten>>
vars == <<engine, at, tables, sleeping, calls, forks, section, world, served,
          exited, failed>>

Sessions == 1 .. MaxSession
Free == {c \in Co : at[c] = "free"}

Init ==
    /\ pc = "idle" /\ running = None /\ frames = 0
    /\ at = [c \in Co |-> "free"]
    /\ waits = [c \in Co |-> 0]
    /\ session = 0
    /\ session_id_coroutine = [s \in Sessions |-> None]
    /\ session_coroutine_id = [c \in Co |-> None]
    /\ unresponse = {}
    /\ sleep_session = [c \in Co |-> 0]
    /\ wakeup_queue = <<>>
    /\ watching_session = [s \in Sessions |-> None]
    /\ error_queue = <<>>
    /\ fork_queue = {} /\ triggers = 0
    /\ current_thread = None /\ ref = 0 /\ thread_queue = <<>>
    /\ depth = [c \in Co |-> 0]
    /\ timers = {} /\ asked = {} /\ down = {} /\ refused = {} /\ unknown = {}
    /\ exited = FALSE
    /\ requests = {} /\ late = {} /\ forgotten = {}
    /\ replies = [p \in Peer |-> 0]
    /\ stray = FALSE
    /\ failed = {}

-----------------------------------------------------------------------------
(* The engine: suspend and what it calls.                                  *)

Go(label) == pc' = label /\ running' = None
Resume(c, label) == pc' = label /\ running' = c

\* Answers of p's request: a response or an error.
Reply(p) == replies' = [replies EXCEPT ![p] = @ + 1]

\* Mutant of Mark: the session of a sleeper that was woken is forgotten.
MarkNothing == None

\* What stands for a sleeper that was woken until its timer comes.
Mark == BREAK

\* One token is taken; dispatch_error_queue follows when the call returns.
dispatch_wakeup ==
    /\ pc = "wakeup"
    /\ IF wakeup_queue = <<>> \/ sleep_session[Head(wakeup_queue)] = 0
       THEN Go("error") /\ UNCHANGED <<frames, session_id_coroutine>>
       ELSE LET s == sleep_session[Head(wakeup_queue)]
            IN /\ Resume(session_id_coroutine[s], "resumed")
               /\ session_id_coroutine' = [session_id_coroutine EXCEPT ![s] = Mark]
               /\ frames' = frames + 1
    /\ wakeup_queue' = IF wakeup_queue = <<>> THEN <<>> ELSE Tail(wakeup_queue)
    /\ UNCHANGED <<at, waits, session, sleep_session, stray, calls, forks,
                   section, world, served, exited, failed>>

dispatch_error_queue ==
    /\ pc = "error"
    /\ error_queue # <<>>
    /\ LET s == Head(error_queue) c == session_id_coroutine[s]
       IN /\ \/ c \in Co /\ Resume(c, "resumed") /\ UNCHANGED <<frames, failed>>
             \/ /\ c \notin Co            \* resuming nil raises an error
                /\ Go("forks") /\ frames' = 0 /\ failed' = failed \cup {"session"}
          /\ session_id_coroutine' = [session_id_coroutine EXCEPT ![s] = None]
    /\ error_queue' = Tail(error_queue)
    /\ UNCHANGED <<at, waits, session, sleeping, watching_session, forks, section,
                   world, served, exited>>

\* suspend returns: to the caller of dispatch_wakeup if there is one.
suspend_returns ==
    /\ pc = "quit" \/ (pc = "error" /\ error_queue = <<>>)
    /\ IF frames > 0 THEN Go("error") /\ frames' = frames - 1
                     ELSE Go("forks") /\ UNCHANGED frames
    /\ UNCHANGED <<at, tables, sleeping, calls, forks, section, world, served,
                   exited, failed>>

\* The loop of dispatch_message; an empty function does nothing but yield.
dispatch_forks ==
    /\ pc = "forks"
    /\ \/ \E c \in fork_queue :
            /\ Resume(c, "user")
            /\ fork_queue' = fork_queue \ {c}
            /\ at' = [at EXCEPT ![c] = "run"]
            /\ UNCHANGED triggers
       \/ /\ triggers > 0
          /\ triggers' = triggers - 1
          /\ Go("wakeup")
          /\ UNCHANGED <<at, fork_queue>>
       \/ /\ fork_queue = {} /\ triggers = 0
          /\ Go("idle")
          /\ UNCHANGED <<at, forks>>
    /\ UNCHANGED <<frames, tables, sleeping, calls, section, world, served,
                   exited, failed>>

-----------------------------------------------------------------------------
(* Messages.  The batch of a worker may hold some for a service that has   *)
(* called EXIT (Dispatch), and they are handled like any other.            *)

\* raw_dispatch_message starts a coroutine for a request.
request(p, c) ==
    /\ pc = "idle"
    /\ p \notin requests
    /\ c \in Free
    /\ Resume(c, "user")
    /\ at' = [at EXCEPT ![c] = "run"]
    /\ session_coroutine_id' = [session_coroutine_id EXCEPT ![c] = p]
    /\ requests' = requests \cup {p}
    /\ late' = IF exited THEN late \cup {p} ELSE late
    /\ UNCHANGED <<frames, tables, sleeping, calls, forks, section, world,
                   unresponse, replies, forgotten, exited, failed>>

\* raw_dispatch_message finds what waits for a response.
response(s) ==
    /\ LET c == session_id_coroutine[s]
       IN \/ /\ c \in Co
             /\ Resume(c, "resumed")
             /\ UNCHANGED unknown
          \/ c = BREAK /\ Go("forks") /\ UNCHANGED unknown
          \/ c = None /\ Go("forks") /\ unknown' = unknown \cup {s}
    /\ session_id_coroutine' = [session_id_coroutine EXCEPT ![s] = None]
    /\ UNCHANGED <<frames, at, waits, session, sleeping, calls, forks, section,
                   served, exited, down, refused, failed>>

timer_response(s) ==
    /\ pc = "idle"
    /\ s \in timers
    /\ timers' = timers \ {s}
    /\ response(s)
    /\ UNCHANGED asked

peer_response(p, s) ==
    /\ pc = "idle"
    /\ <<p, s>> \in asked
    /\ asked' = asked \ {<<p, s>>}
    /\ response(s)
    /\ UNCHANGED timers

\* _error_dispatch for one session.  The error is the last word about the
\* call, from the handler that failed or the queue it was dropped with, or it
\* comes from skynet.exit, and the handler may run on in the rest of the batch.
_error_dispatch(p, s) ==
    /\ pc = "idle"
    /\ <<p, s>> \in asked
    /\ \/ asked' = asked \ {<<p, s>>} /\ UNCHANGED refused
       \/ refused' = refused \cup {s} /\ UNCHANGED asked
    /\ error_queue' = IF watching_session[s] # None THEN Append(error_queue, s)
                      ELSE error_queue
    /\ Go("wakeup")
    /\ UNCHANGED <<frames, at, tables, sleeping, watching_session, forks, section,
                   timers, down, unknown, served, exited, failed>>

Watched(p) == {s \in Sessions : watching_session[s] = p}

\* _error_dispatch for session 0: a peer that waits for an answer has exited.
error_source_down(p) ==
    /\ pc = "idle"
    /\ p \in requests
    /\ down' = down \cup {p}
    /\ refused' = refused \cup Watched(p)
    /\ unresponse' = unresponse \ {p}
    /\ \E order \in SetToSeqs(Watched(p)) : error_queue' = error_queue \o order
    /\ Go("wakeup")
    /\ UNCHANGED <<frames, at, tables, sleeping, watching_session, forks, section,
                   timers, asked, unknown, session_coroutine_id, requests, late,
                   replies, forgotten, exited, failed>>

-----------------------------------------------------------------------------
(* What a running coroutine does.                                          *)

Runs(c) == pc = "user" /\ running = c

\* It yields on a new session.
Yield(c, why) ==
    /\ session < MaxSession
    /\ session' = session + 1
    /\ session_id_coroutine' = [session_id_coroutine EXCEPT ![session + 1] = c]
    /\ waits' = [waits EXCEPT ![c] = session + 1]
    /\ at' = [at EXCEPT ![c] = why]
    /\ Go("wakeup")

suspend_sleep(c, why) ==
    /\ Yield(c, why)
    /\ sleep_session' = [sleep_session EXCEPT ![c] = session + 1]
    /\ UNCHANGED <<frames, wakeup_queue, stray, calls, forks, served, exited, failed>>

sleep(c) ==
    /\ Runs(c)
    /\ suspend_sleep(c, "sleep")
    /\ timers' = timers \cup {session + 1}
    /\ UNCHANGED <<section, asked, down, refused, unknown>>

wait(c) ==
    /\ Runs(c)
    /\ suspend_sleep(c, "wait")
    /\ UNCHANGED <<section, world>>

yield_call(c, p) ==
    /\ Runs(c)
    /\ Yield(c, "call")
    /\ watching_session' = [watching_session EXCEPT ![session + 1] = p]
    /\ asked' = asked \cup {<<p, session + 1>>}
    /\ UNCHANGED <<frames, sleeping, error_queue, forks, section, timers, down,
                   refused, unknown, served, exited, failed>>

timeout(c, d) ==
    /\ Runs(c)
    /\ d \in Free
    /\ session < MaxSession
    /\ session' = session + 1
    /\ session_id_coroutine' = [session_id_coroutine EXCEPT ![session + 1] = d]
    /\ at' = [at EXCEPT ![d] = "timeout"]
    /\ timers' = timers \cup {session + 1}
    /\ UNCHANGED <<engine, waits, sleeping, calls, forks, section, asked, down,
                   refused, unknown, served, exited, failed>>

\* After the yield: the locals sleep_session[token], watching_session[session]
\* and, for wait, the session itself are cleared.
Woken(c) ==
    /\ sleep_session' = [sleep_session EXCEPT ![c] = 0]
    /\ session_id_coroutine' = IF at[c] = "sleep" THEN session_id_coroutine
                               ELSE [session_id_coroutine EXCEPT ![waits[c]] = None]
    /\ waits' = [waits EXCEPT ![c] = 0]
    /\ UNCHANGED <<session, wakeup_queue, stray>>

after_sleep(c) ==
    /\ pc = "resumed" /\ running = c
    /\ at[c] \in {"sleep", "wait"}
    /\ Woken(c)
    /\ Resume(c, "user")
    /\ at' = [at EXCEPT ![c] = "run"]
    /\ UNCHANGED <<frames, calls, forks, section, world, served, exited, failed>>

after_call(c) ==
    /\ pc = "resumed" /\ running = c
    /\ at[c] \in {"call", "timeout"}
    /\ Resume(c, "user")
    /\ at' = [at EXCEPT ![c] = "run"]
    /\ watching_session' = IF at[c] = "timeout" THEN watching_session
                           ELSE [watching_session EXCEPT ![waits[c]] = None]
    /\ waits' = [waits EXCEPT ![c] = 0]
    /\ UNCHANGED <<frames, session, session_id_coroutine, sleeping, error_queue,
                   forks, section, world, served, exited, failed>>

-----------------------------------------------------------------------------
\* A token joins the queue if its sleeper still sleeps.  It goes astray if
\* there is one already, or its coroutine waits for the section.
Wake(token, astray) ==
    IF sleep_session[token] = 0
    THEN UNCHANGED <<wakeup_queue, stray>>
    ELSE /\ wakeup_queue' = Append(wakeup_queue, token)
         /\ stray' = (stray \/ Contains(wakeup_queue, token) \/ at[token] \in astray)

wakeup(c, token) ==
    /\ Runs(c)
    /\ Len(wakeup_queue) < MaxWakeup
    /\ Wake(token, {"queue"})
    /\ UNCHANGED <<engine, at, tables, sleep_session, calls, forks, section, world,
                   served, exited, failed>>

fork(c, d) ==
    /\ Runs(c)
    /\ d \in Free
    /\ at' = [at EXCEPT ![d] = "forked"]
    /\ fork_queue' = fork_queue \cup {d}
    /\ UNCHANGED <<engine, tables, sleeping, calls, triggers, section, world,
                   served, exited, failed>>

ret(c) ==
    /\ Runs(c)
    /\ session_coroutine_id[c] # None
    /\ Reply(session_coroutine_id[c])
    /\ session_coroutine_id' = [session_coroutine_id EXCEPT ![c] = None]
    /\ UNCHANGED <<engine, at, tables, sleeping, calls, forks, section, world,
                   unresponse, requests, late, forgotten, exited, failed>>

\* Mutant of Owes: skynet.response leaves the session with the coroutine.
OwesStill(c) == session_coroutine_id[c]

\* What a coroutine still owes after it has made a response closure.
Owes(c) == None

make_response(c) ==
    /\ Runs(c)
    /\ session_coroutine_id[c] # None
    /\ unresponse' = unresponse \cup {session_coroutine_id[c]}
    /\ session_coroutine_id' = [session_coroutine_id EXCEPT ![c] = Owes(c)]
    /\ UNCHANGED <<engine, at, tables, sleeping, calls, forks, section, world,
                   requests, late, replies, forgotten, exited, failed>>

\* The closure is called, by whatever coroutine.
respond(c, p) ==
    /\ Runs(c)
    /\ p \in unresponse
    /\ Reply(p)
    /\ unresponse' = unresponse \ {p}
    /\ UNCHANGED <<engine, at, tables, sleeping, calls, forks, section, world,
                   session_coroutine_id, requests, late, forgotten, exited, failed>>

\* The end of the function; a request may be left without an answer.
ends(c) ==
    /\ Runs(c)
    /\ depth[c] = 0
    /\ forgotten' = IF session_coroutine_id[c] = None THEN forgotten
                    ELSE forgotten \cup {session_coroutine_id[c]}
    /\ session_coroutine_id' = [session_coroutine_id EXCEPT ![c] = None]
    /\ at' = [at EXCEPT ![c] = "free"]
    /\ Go("wakeup")
    /\ UNCHANGED <<frames, tables, sleeping, calls, forks, section, world,
                   unresponse, requests, late, replies, exited, failed>>

\* Mutant of Trigger: nothing is forked for a coroutine that failed.
TriggerNone == 0

\* skynet.fork(function() end) after a failure
Trigger == 1

\* suspend of a coroutine that has failed: the caller gets an error, and the
\* error unwinds the stack up to the loop of dispatch_message.
Unwind(c) ==
    /\ IF session_coroutine_id[c] = None THEN UNCHANGED replies
       ELSE Reply(session_coroutine_id[c])
    /\ session_coroutine_id' = [session_coroutine_id EXCEPT ![c] = None]
    /\ at' = [at EXCEPT ![c] = "dead"]
    /\ triggers' = triggers + Trigger
    /\ frames' = 0
    /\ Go("forks")
    /\ UNCHANGED <<fork_queue, unresponse, requests, late, forgotten>>

fails(c) ==
    /\ Runs(c)
    /\ depth[c] = 0
    /\ Unwind(c)
    /\ UNCHANGED <<tables, sleeping, calls, section, world, exited, failed>>

\* skynet.exit: all who wait for this service get an error, and the callback
\* returns when the calls on its stack have.  The tables stay as they are.
exit(c) ==
    /\ Runs(c)
    /\ replies' = [p \in Peer |->
         replies[p] + Cardinality({d \in Co : session_coroutine_id[d] = p})
                    + (IF p \in unresponse THEN 1 ELSE 0)]
    /\ unresponse' = {}
    /\ at' = [d \in Co |-> IF d = c \/ at[d] = "forked" THEN "dead" ELSE at[d]]
    /\ fork_queue' = {} /\ triggers' = 0
    /\ exited' = TRUE
    /\ Go("quit")
    /\ UNCHANGED <<frames, tables, sleeping, calls, section, world,
                   session_coroutine_id, requests, late, forgotten, failed>>

-----------------------------------------------------------------------------
(* The critical section of queue.lua.                                      *)

Inside(c) ==
    /\ current_thread' = c
    /\ ref' = ref + 1
    /\ depth' = [depth EXCEPT ![c] = @ + 1]

enter(c) ==
    /\ Runs(c)
    /\ current_thread \in {None, c}
    /\ depth[c] < MaxDepth
    /\ Inside(c)
    /\ UNCHANGED <<engine, at, tables, sleeping, calls, forks, thread_queue, world,
                   served, exited, failed>>

enter_waits(c) ==
    /\ Runs(c)
    /\ current_thread \notin {None, c}
    /\ thread_queue' = Append(thread_queue, c)
    /\ suspend_sleep(c, "queue")
    /\ UNCHANGED <<current_thread, ref, depth, world>>

\* Back from skynet.wait: assert(ref == 0).
after_queue(c) ==
    /\ pc = "resumed" /\ running = c
    /\ at[c] = "queue"
    /\ Woken(c)
    /\ \/ /\ ref = 0
          /\ Inside(c)
          /\ Resume(c, "user")
          /\ at' = [at EXCEPT ![c] = "run"]
          /\ UNCHANGED <<frames, forks, served, failed>>
       \/ /\ ref # 0
          /\ failed' = failed \cup {"section"}
          /\ Unwind(c)
          /\ UNCHANGED <<current_thread, ref, depth>>
    /\ UNCHANGED <<calls, thread_queue, world, exited>>

\* Mutant of Heir: the section stands free until the woken one runs.
HeirLater == None

\* The thread that xpcall_ret hands the section to.
Heir == IF thread_queue = <<>> THEN None ELSE Head(thread_queue)

leave(c) ==
    /\ Runs(c)
    /\ depth[c] > 0
    /\ depth' = [depth EXCEPT ![c] = @ - 1]
    /\ ref' = ref - 1
    /\ IF ref' > 0
       THEN UNCHANGED <<current_thread, thread_queue, wakeup_queue, stray>>
       ELSE /\ current_thread' = Heir
            /\ thread_queue' = IF thread_queue = <<>> THEN <<>> ELSE Tail(thread_queue)
            /\ IF thread_queue = <<>> THEN UNCHANGED <<wakeup_queue, stray>>
               ELSE Wake(Head(thread_queue), {})
    /\ UNCHANGED <<engine, at, tables, sleep_session, calls, forks, world, served,
                   exited, failed>>

-----------------------------------------------------------------------------
Engine == dispatch_wakeup \/ dispatch_error_queue \/ suspend_returns \/ dispatch_forks

Message ==
    \/ \E p \in Peer : error_source_down(p) \/ \E c \in Co : request(p, c)
    \/ \E s \in Sessions : timer_response(s)
    \/ \E p \in Peer, s \in Sessions : peer_response(p, s) \/ _error_dispatch(p, s)

Coroutine(c) ==
    \/ sleep(c) \/ wait(c) \/ ret(c) \/ make_response(c)
    \/ ends(c) \/ fails(c) \/ exit(c)
    \/ after_sleep(c) \/ after_call(c)
    \/ enter(c) \/ enter_waits(c) \/ after_queue(c) \/ leave(c)
    \/ \E p \in Peer : yield_call(c, p) \/ respond(c, p)
    \/ \E d \in Co : timeout(c, d) \/ fork(c, d) \/ wakeup(c, d)

Next == Engine \/ Message \/ \E c \in Co : Coroutine(c)

Spec == Init /\ [][Next]_vars

-----------------------------------------------------------------------------
Labels == {"idle", "wakeup", "error", "quit", "forks", "resumed", "user"}
Doing == {"free", "forked", "timeout", "run", "sleep", "wait", "queue", "call", "dead"}

TypeOK ==
    /\ pc \in Labels /\ running \in Co \cup {None} /\ frames \in Nat
    /\ at \in [Co -> Doing]
    /\ waits \in [Co -> 0 .. MaxSession]
    /\ session \in 0 .. MaxSession
    /\ session_id_coroutine \in [Sessions -> Co \cup {None, BREAK}]
    /\ session_coroutine_id \in [Co -> Peer \cup {None}]
    /\ unresponse \subseteq Peer
    /\ sleep_session \in [Co -> 0 .. MaxSession]
    /\ wakeup_queue \in Seq(Co)
    /\ watching_session \in [Sessions -> Peer \cup {None}]
    /\ error_queue \in Seq(Sessions)
    /\ fork_queue \subseteq Co /\ triggers \in Nat
    /\ current_thread \in Co \cup {None} /\ ref \in Nat /\ thread_queue \in Seq(Co)
    /\ depth \in [Co -> 0 .. MaxDepth]
    /\ timers \subseteq Sessions /\ asked \subseteq Peer \X Sessions /\ down \subseteq Peer
    /\ refused \subseteq Sessions /\ unknown \subseteq Sessions
    /\ exited \in BOOLEAN
    /\ requests \subseteq Peer /\ late \subseteq Peer /\ forgotten \subseteq Peer
    /\ replies \in [Peer -> Nat]
    /\ stray \in BOOLEAN
    /\ failed \subseteq {"session", "section"}

(* The tables of sessions, sleepers and watched calls agree: whatever is   *)
(* resumed by a timer, an answer, a wakeup or an error is a coroutine that *)
(* waits for just that (skynet.lua:75, 155).  A message of an unknown      *)
(* session (unknown_response, 509) is only ever the response of an exiting *)
(* peer to a call that its own error had ended before (297-305).  With it  *)
(* the types of the variables.                                             *)
ResumesWaiter ==
    /\ TypeOK
    /\ ~exited => "session" \notin failed /\ unknown \subseteq refused
    /\ pc = "resumed" =>
         /\ running \in Co
         /\ at[running] \in {"sleep", "wait", "queue", "call", "timeout"}

(* Nothing is left over between two messages, whatever failed on the way:  *)
(* every call that a peer has ended by an error has been resumed, every    *)
(* other one that is watched still has an answer to come, every fork has   *)
(* run, and a sleeper that was woken runs; but a wakeup that goes astray   *)
(* can use up the turn of another one (dispatch_wakeup, skynet.lua:151).   *)
NothingLeftOver ==
    pc = "idle" /\ ~exited =>
        /\ error_queue = <<>> /\ \A c \in Co : at[c] # "forked"
        /\ \A s \in Sessions : watching_session[s] # None =>
              s \notin refused /\ <<watching_session[s], s>> \in asked
        /\ stray \/ \A token \in Co :
              sleep_session[token] # 0 => ~Contains(wakeup_queue, token)

Owed(p) == Cardinality({c \in Co : session_coroutine_id[c] = p})
           + (IF p \in unresponse THEN 1 ELSE 0)

(* Every request is answered once: by skynet.ret, a response closure, an   *)
(* error for the coroutine that failed, or an error at the exit of the     *)
(* service; until then exactly one of these is still to come.  Excepted    *)
(* are a handler that forgets its answer and, after the exit, requests of  *)
(* the same batch.                                                         *)
AnsweredOnce ==
    /\ ~exited => \A p \in Peer : replies[p] <= 1
    /\ \A p \in requests \ (forgotten \cup late \cup down) :
         IF exited THEN replies[p] >= 1 ELSE replies[p] + Owed(p) = 1

(* The critical section of skynet.queue holds one coroutine.  It is never  *)
(* left to one that is not inside: between two messages the coroutine it   *)
(* was handed to has run (queue.lua:15), and those behind it wait in the   *)
(* order in which they came.  The assertion after their wait (line 29) can *)
(* fail only when a wakeup that meant an earlier sleep ends that wait.     *)
SectionHandedOver ==
    /\ \A c, d \in Co : depth[c] > 0 /\ depth[d] > 0 => c = d
    /\ "section" \in failed => stray \/ exited
    /\ pc = "idle" /\ ~stray /\ ~exited =>
         /\ current_thread # None <=> ref > 0
         /\ thread_queue # <<>> => ref > 0
         /\ \A i, j \in 1 .. Len(thread_queue) :
              i < j => waits[thread_queue[i]] < waits[thread_queue[j]]
=============================================================================
