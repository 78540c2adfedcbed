----------------------------- MODULE WebClient -----------------------------
(***************************************************************************)
(* eureka/src/service/webclient.lua: services that make HTTP requests with *)
(* libcurl.  A request that comes in while none is open forks the          *)
(* coroutine query, which polls libcurl and answers what has finished,     *)
(* until none is open.  A requester waits for its one answer in            *)
(* skynet.call, which has no timeout; and libcurl is given one for the     *)
(* connection only (webclient.c:214), so that a server which accepts it    *)
(* and stays silent can leave a request open for ever.  Contents of        *)
(* requests and answers are left to the modules that make them.            *)
(***************************************************************************)
CONSTANTS WebClients, Requester, None

VARIABLES
    asked,          \* requester -> webclient its request is on the way to
    requests,       \* webclient -> requesters with an entry in the table
    open,           \* webclients whose table is not nil
    query,          \* webclients with a living coroutine query
    stalled,        \* requesters whose request the server leaves without an answer
    failed          \* history: webclients whose query has died

web == <<asked, requests, open, query, stalled, failed>>

WebInit ==
    /\ asked = [r \in Requester |-> None]
    /\ requests = [w \in WebClients |-> {}]
    /\ open = {} /\ query = {} /\ stalled = {} /\ failed = {}

WebTypeOK ==
    /\ asked \in [Requester -> WebClients \cup {None}]
    /\ requests \in [WebClients -> SUBSET Requester]
    /\ query \subseteq open \ failed
    /\ open \subseteq WebClients /\ failed \subseteq open
    /\ \A r \in stalled : \E w \in WebClients : r \in requests[w]

At(r, w) == asked[r] = w \/ r \in requests[w]
Waits(r) == \E w \in WebClients : At(r, w)

Ask(r, w) == asked' = [asked EXCEPT ![r] = w]

\* The webclient takes the request and answers it later.
Accept(r) ==
    LET w == asked[r] IN
    /\ w # None
    /\ asked' = [asked EXCEPT ![r] = None]
    /\ requests' = [requests EXCEPT ![w] = @ \cup {r}]
    /\ open' = open \cup {w}
    /\ query' = IF w \in open THEN query ELSE query \cup {w}
    /\ UNCHANGED <<stalled, failed>>

\* libcurl takes no further request: set_httpheader is called on nil, and the
\* requester gets an error.
Refuse(r) ==
    /\ asked[r] # None
    /\ asked' = [asked EXCEPT ![r] = None]
    /\ UNCHANGED <<requests, open, query, stalled, failed>>

\* The server has the request and stays silent; it may still answer, but nothing
\* says that it will.
Stall(r) ==
    /\ \E w \in WebClients : r \in requests[w]
    /\ r \notin stalled
    /\ stalled' = stalled \cup {r}
    /\ UNCHANGED <<asked, requests, open, query, failed>>

Ends(r, w) ==
    /\ w \in query /\ r \in requests[w]
    /\ requests' = [requests EXCEPT ![w] = @ \ {r}]
    /\ query' = IF requests[w] = {r} THEN query \ {w} ELSE query
    /\ stalled' = stalled \ {r}
    /\ UNCHANGED failed

\* mutant: the table stays when the coroutine ends
AnswerLeave(r, w) == Ends(r, w) /\ UNCHANGED open

\* The request has finished, in success or not.
Answer(r, w) ==
    /\ Ends(r, w)
    /\ open' = IF requests[w] = {r} THEN open \ {w} ELSE open

\* curl_multi_perform fails and query dies; no later request starts it again.
QueryFails(w) ==
    /\ w \in query
    /\ query' = query \ {w} /\ failed' = failed \cup {w}
    /\ UNCHANGED <<asked, requests, open, stalled>>
=============================================================================
