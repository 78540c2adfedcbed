--------------------------- MODULE EurekaService ---------------------------
(***************************************************************************)
(* The eureka client of the example: eureka/service.lua, which registers   *)
(* the node, sends heartbeats and fetches the instances of the remote      *)
(* services; eureka/ribbon.lua of one of these services, which keeps one   *)
(* webclient for each instance; and service/invoke.lua, by which any       *)
(* service asks for a webclient and makes a request with it.               *)
(*                                                                         *)
(* All three yield in calls, and other messages run meanwhile.  A timer    *)
(* may be due at any time after it is set: a fetch of the instances may    *)
(* take longer than the time between heartbeats.  The configuration is     *)
(* valid (client.new returns no error); that the service launches its      *)
(* ribbons is before Init.  An update is handled when it is sent: messages *)
(* to the ribbon keep their order, and nothing the service does depends on *)
(* when one is handled.                                                    *)
(***************************************************************************)
EXTENDS FiniteSets, Naturals

CONSTANTS
    Co,             \* coroutines of the eureka service (bound)
    App, Remote,    \* remote services, and the one whose ribbon is modelled
    Instance,       \* its instances
    Updater,        \* coroutines of the ribbon that run update (bound)
    Client,         \* webclients the ribbon can launch (bound)
    Caller,         \* coroutines that call invoke.requestwebservice
    MaxStalled,     \* bound: fetches left without an answer at once
    Own,            \* the webclient of the eureka service
    None

ASSUME EurekaAssumption ==
    /\ Remote \in App
    /\ Own \notin Client /\ None \notin Client \cup {Own} \cup Instance \cup App
    /\ Co \cap Caller = {} /\ IsFiniteSet(Co) /\ MaxStalled \in Nat

VARIABLES
    eurekaclient,   \* the client has been made
    timers,         \* function -> timeouts set for it
    at, todo,       \* coroutine -> what it waits for, apps left to fetch
    ready,          \* the service answers requests
    broken,         \* history: the chain of timeouts has ended in an error
    feignclients,   \* instance -> its webclient
    upd,            \* updater -> its servers, those left, and the one launched for
    live,           \* webclients launched
    closed,         \* webclients that were sent "close"
    last,           \* history: servers of the last update begun
    dirty,          \* history: it met another one, or one has failed since
    overlapped,     \* history: two updates have met
    asked, requests, open, query, stalled, failed

chain == <<eurekaclient, timers, at, todo, ready, broken>>
ribbon == <<feignclients, upd, live, closed, last, dirty, overlapped>>
web == <<asked, requests, open, query, stalled, failed>>
vars == <<chain, ribbon, web>>

Web == INSTANCE WebClient WITH
           WebClients <- Client \cup {Own}, Requester <- Co \cup Caller

Idle == [servers |-> {}, left |-> {}, now |-> None]

\* The start function of the service registers it: client.new launches a
\* webclient first.
Init ==
    /\ eurekaclient = FALSE
    /\ timers = [f \in {"heartbeat", "register"} |-> 0]
    /\ \E c \in Co : at = [d \in Co |-> IF d = c THEN "new" ELSE "idle"]
    /\ todo = [c \in Co |-> {}]
    /\ ready = FALSE /\ broken = FALSE
    /\ feignclients = [i \in Instance |-> None]
    /\ upd = [u \in Updater |-> Idle]
    /\ live = {} /\ closed = {}
    /\ last = {} /\ dirty = FALSE /\ overlapped = FALSE
    /\ Web!WebInit

-----------------------------------------------------------------------------
(* ribbon.lua                                                              *)

\* Which of the unused updaters or webclients is taken tells nothing apart.
Fresh(unused) == CHOOSE x \in unused : TRUE

Busy == {u \in Updater : upd[u] # Idle}
Known(F) == {i \in Instance : F[i] # None}

\* The end of cmd.update: what the list does not name is removed.
Remove(u, servers, F) ==
    /\ feignclients' = [i \in Instance |-> IF i \in servers THEN F[i] ELSE None]
    /\ closed' = closed \cup {F[i] : i \in Known(F) \ servers}
    /\ upd' = [upd EXCEPT ![u] = Idle]

\* It yields in newservice for instance i.
Launch(u, servers, left, i, F) ==
    /\ upd' = [upd EXCEPT ![u] = [servers |-> servers, left |-> left, now |-> i]]
    /\ feignclients' = F
    /\ UNCHANGED closed

\* mutants: what is gone is not removed; an instance that is known gets another
ProceedKeep(u, servers, left, F) ==
    IF left \subseteq Known(F)
    THEN feignclients' = F /\ upd' = [upd EXCEPT ![u] = Idle] /\ UNCHANGED closed
    ELSE \E i \in left \ Known(F) : Launch(u, servers, left \ {i}, i, F)
ProceedAgain(u, servers, left, F) ==
    IF left = {} THEN Remove(u, servers, F)
    ELSE \E i \in left : Launch(u, servers, left \ {i}, i, F)

\* cmd.update from a look at feignclients (F) to its next yield or its end:
\* instances it knows are passed over, for one it does not know a webclient is
\* launched.  The list may name them in any order.
Proceed(u, servers, left, F) ==
    IF left \subseteq Known(F) THEN Remove(u, servers, F)
    ELSE \E i \in left \ Known(F), passed \in SUBSET (left \cap Known(F)) :
             Launch(u, servers, left \ (passed \cup {i}), i, F)

\* It raises an error: json.decode, an instance without a port, newservice.
Dies(u, F) ==
    /\ feignclients' = F
    /\ upd' = [upd EXCEPT ![u] = Idle]
    /\ dirty' = TRUE
    /\ UNCHANGED closed

Update(u, servers) ==
    /\ u \notin Busy /\ u = Fresh(Updater \ Busy)
    /\ last' = servers /\ overlapped' = (overlapped \/ Busy # {})
    /\ \/ Proceed(u, servers, servers, feignclients) /\ dirty' = (Busy # {})
       \/ Dies(u, feignclients)
    /\ UNCHANGED live

Launched(u, w) ==
    /\ u \in Busy /\ w \in Client \ live /\ w = Fresh(Client \ live)
    /\ live' = live \cup {w}
    /\ LET F == [feignclients EXCEPT ![upd[u].now] = w] IN
       \/ Proceed(u, upd[u].servers, upd[u].left, F) /\ UNCHANGED dirty
       \/ Dies(u, F)
    /\ UNCHANGED <<chain, last, overlapped, web>>

LaunchFails(u) ==
    /\ u \in Busy
    /\ Dies(u, feignclients)
    /\ UNCHANGED <<chain, live, last, overlapped, web>>

-----------------------------------------------------------------------------
(* service.lua                                                             *)

Set(f) == timers' = [timers EXCEPT ![f] = @ + 1]
Go(c, where) == at' = [at EXCEPT ![c] = where]

\* _register up to its first yield.
_register(c) ==
    IF eurekaclient
    THEN Go(c, "register") /\ Web!Ask(c, Own)
    ELSE Go(c, "new") /\ UNCHANGED asked

\* A timeout is due, a coroutine starts on it.
TimerFires(c, f) ==
    /\ timers[f] > 0 /\ at[c] = "idle"
    /\ timers' = [timers EXCEPT ![f] = @ - 1]
    /\ IF f = "register" THEN _register(c)
       ELSE Go(c, "heartbeat") /\ Web!Ask(c, Own)
    /\ UNCHANGED <<eurekaclient, todo, ready, broken, ribbon, requests, open, query, stalled, failed>>

\* The webclient is launched and the registration goes to it.
ClientMade(c) ==
    /\ at[c] = "new"
    /\ eurekaclient' = TRUE
    /\ Go(c, "register") /\ Web!Ask(c, Own)
    /\ UNCHANGED <<timers, todo, ready, broken, ribbon, requests, open, query, stalled, failed>>

\* The answer to the registration; the first one makes the service ready.
Registered(c, ok) ==
    /\ at[c] = "register" /\ Web!Answer(c, Own)
    /\ Set(IF ok THEN "heartbeat" ELSE "register")
    /\ Go(c, "idle")
    /\ ready' = TRUE
    /\ UNCHANGED <<eurekaclient, todo, broken, ribbon, asked>>

\* The loop over ribbon_services, one getApp at a time.
Fetch(c, apps) ==
    /\ todo' = [todo EXCEPT ![c] = apps]
    /\ IF apps = {} THEN Go(c, "idle") /\ UNCHANGED asked
       ELSE Go(c, "fetch") /\ Web!Ask(c, Own)

\* mutant: the next heartbeat is set when this one has failed, too
HeartbeatAnsweredTwice(c, ok) ==
    /\ at[c] = "heartbeat" /\ Web!Answer(c, Own)
    /\ Set("heartbeat")
    /\ IF ok THEN Fetch(c, App) ELSE _register(c) /\ UNCHANGED todo
    /\ UNCHANGED <<eurekaclient, ready, broken, ribbon>>

HeartbeatAnswered(c, ok) ==
    /\ at[c] = "heartbeat" /\ Web!Answer(c, Own)
    /\ IF ok THEN Set("heartbeat") /\ Fetch(c, App)
       ELSE _register(c) /\ UNCHANGED <<timers, todo>>
    /\ UNCHANGED <<eurekaclient, ready, broken, ribbon>>

\* _getapp: the instances, if they came, are sent to the ribbon.
Fetched(c, app, ok) ==
    /\ at[c] = "fetch" /\ Web!Answer(c, Own) /\ app \in todo[c]
    /\ Fetch(c, todo[c] \ {app})
    /\ IF ok /\ app = Remote
       THEN \E u \in Updater, servers \in SUBSET Instance : Update(u, servers)
       ELSE UNCHANGED ribbon
    /\ UNCHANGED <<eurekaclient, timers, ready, broken>>

\* A call raises an error and the coroutine dies: newservice fails, or the
\* webclient refuses the request.  In the start function that ends the service.
Raises(c) ==
    /\ \/ at[c] = "new" /\ UNCHANGED web
       \/ Web!Refuse(c)
    /\ broken' = (broken \/ at[c] # "fetch")
    /\ Go(c, "idle") /\ todo' = [todo EXCEPT ![c] = {}]
    /\ UNCHANGED <<eurekaclient, timers, ready, ribbon>>

-----------------------------------------------------------------------------
(* invoke.lua                                                              *)

\* requestwebservice: getwebclient goes through the eureka service to the
\* ribbon, which names the webclient of the first instance pairs gives.  The
\* request to it is on the way from then on.
requestwebservice(k) ==
    /\ ready /\ ~Web!Waits(k)
    /\ \E i \in Known(feignclients) : Web!Ask(k, feignclients[i])
    /\ UNCHANGED <<chain, ribbon, requests, open, query, stalled, failed>>

Responds(k, w) ==
    /\ Web!Answer(k, w)
    /\ UNCHANGED <<chain, ribbon, asked>>

Errors(k) ==
    /\ Web!Refuse(k)
    /\ UNCHANGED <<chain, ribbon>>

-----------------------------------------------------------------------------
(* webclient.lua: a webclient takes a request whether or not it was sent   *)
(* "close", for that command fails the assertion and changes nothing.      *)

\* mutant: "close" works, and what comes after it is lost
AcceptOpen(r) ==
    /\ asked[r] \notin closed
    /\ Web!Accept(r)
    /\ UNCHANGED <<chain, ribbon>>

Accept(r) ==
    /\ Web!Accept(r)
    /\ UNCHANGED <<chain, ribbon>>

QueryFails(w) ==
    /\ Web!QueryFails(w)
    /\ UNCHANGED <<chain, ribbon>>

\* The code has as many coroutines as requests that are left open; here some
\* are kept for the chain.
Stall(r) ==
    /\ Web!Stall(r)
    /\ r \in Co /\ at[r] = "fetch" =>
         Cardinality({c \in Co \cap stalled : at[c] = "fetch"}) < MaxStalled
    /\ UNCHANGED <<chain, ribbon>>

Answered(c) ==
    \/ \E ok \in BOOLEAN : Registered(c, ok) \/ HeartbeatAnswered(c, ok)
    \/ \E app \in App, ok \in BOOLEAN : Fetched(c, app, ok)

Next ==
    \/ \E c \in Co, f \in {"heartbeat", "register"} : TimerFires(c, f)
    \/ \E c \in Co : ClientMade(c) \/ Answered(c) \/ Raises(c)
    \/ \E u \in Updater : LaunchFails(u)
    \/ \E u \in Updater, w \in Client : Launched(u, w)
    \/ \E k \in Caller : requestwebservice(k) \/ Errors(k)
    \/ \E k \in Caller, w \in Client : Responds(k, w)
    \/ \E r \in Co \cup Caller : Accept(r) \/ Stall(r)
    \/ \E w \in Client \cup {Own} : QueryFails(w)

Spec == Init /\ [][Next]_vars

\* Timeouts come, a message is delivered, a launch ends, and a request ends that
\* the server does not leave open: libcurl gives up a connection that is not made
\* in time or that breaks, but waits for an answer as long as it takes.
Fairness ==
    /\ WF_vars(\E c \in Co, f \in {"heartbeat", "register"} : TimerFires(c, f))
    /\ \A c \in Co : WF_vars(ClientMade(c) \/ Raises(c) \/ (c \notin stalled /\ Answered(c)))
    /\ \A k \in Caller : WF_vars(k \notin stalled /\ \E w \in Client : Responds(k, w))
    /\ \A r \in Co \cup Caller : WF_vars(Accept(r))

FairSpec == Spec /\ Fairness

-----------------------------------------------------------------------------
(* Properties                                                              *)

\* The type invariant.
TypeOK ==
    /\ eurekaclient \in BOOLEAN /\ ready \in BOOLEAN /\ broken \in BOOLEAN
    /\ timers \in [{"heartbeat", "register"} -> Nat]
    /\ at \in [Co -> {"idle", "new", "register", "heartbeat", "fetch"}]
    /\ todo \in [Co -> SUBSET App]
    /\ last \subseteq Instance
    /\ feignclients \in [Instance -> Client \cup {None}]
    /\ upd \in [Updater -> [servers : SUBSET Instance, left : SUBSET Instance,
                            now : Instance \cup {None}]]
    /\ closed \subseteq live /\ live \subseteq Client
    /\ dirty \in BOOLEAN /\ overlapped \in BOOLEAN
    /\ Web!WebTypeOK

\* The heartbeat is set by the last heartbeat or registration (service.lua:30,
\* 51, 54): there is never more than one chain, and it goes on until a call
\* raises an error.  With it the types of the variables.
OneChain ==
    LET under == {c \in Co : at[c] \in {"new", "register", "heartbeat"}} IN
    /\ TypeOK
    /\ timers["heartbeat"] + timers["register"] + Cardinality(under)
           = IF broken THEN 0 ELSE 1

\* An update that meets no other (ribbon.lua:15) leaves a webclient for exactly
\* the instances it named, whatever overlapping updates have left behind.
InStep == Busy = {} /\ ~dirty => Known(feignclients) = last

\* Only updates that overlap at newservice (ribbon.lua:35) lose a webclient:
\* otherwise each one belongs to an instance or was sent "close".
NoneLost == ~overlapped => live = closed \cup {feignclients[i] : i \in Known(feignclients)}

\* The service goes from timeout to timeout for ever (service.lua:30, 38),
\* unless a call has raised an error, its webclient has stopped, or the registry
\* leaves a registration or a heartbeat without an answer.  Fetches that stay
\* without one do not stop it.
Beats ==
    LET Off == \/ broken \/ Own \in failed
               \/ \E c \in stalled \cap Co : at[c] \in {"register", "heartbeat"}
        Pending == timers["heartbeat"] + timers["register"] > 0
    IN []<>(Off \/ Pending) /\ []<>(Off \/ ~Pending)

\* A caller that was given a webclient gets an answer from it, even when the
\* instance was removed meanwhile (ribbon.lua:46, webclient.lua:112) and others
\* wait for ever at the same webclient; unless the instance itself leaves the
\* request open, or the webclient's query dies.
Served ==
    \A k \in Caller :
        Web!Waits(k) ~> \/ ~Web!Waits(k) \/ k \in stalled
                        \/ \E w \in failed : Web!At(k, w)
=============================================================================
