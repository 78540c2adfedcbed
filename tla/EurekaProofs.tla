---------------------------- MODULE EurekaProofs ----------------------------
(* Proofs about the eureka client and the ribbon of EurekaService, for any *)
(* sets of coroutines, services, instances and callers.                    *)
EXTENDS EurekaService, FiniteSetTheorems, TLAPS

USE DEF chain, ribbon, web, Web!web

-----------------------------------------------------------------------------
(* The ribbon.                                                             *)

Stored(F) == {F[i] : i \in Known(F)}

OneBusy == \A u, v \in Busy : u = v

RibbonTypeOK ==
    /\ feignclients \in [Instance -> Client \cup {None}]
    /\ upd \in [Updater -> [servers : SUBSET Instance, left : SUBSET Instance,
                            now : Instance \cup {None}]]
    /\ \A u \in Busy : upd[u].now \in Instance
    /\ closed \subseteq live /\ live \subseteq Client
    /\ Stored(feignclients) \subseteq live
    /\ last \subseteq Instance
    /\ dirty \in BOOLEAN /\ overlapped \in BOOLEAN

(* While an update runs alone, what it named is known, to be done, or what *)
(* it launches for.                                                        *)
UpdateAlone ==
    ~dirty =>
        /\ OneBusy
        /\ Busy = {} => Known(feignclients) = last
        /\ \A u \in Busy :
              /\ upd[u].servers = last
              /\ last \subseteq Known(feignclients) \cup upd[u].left \cup {upd[u].now}

(* As long as updates have not met, none launches for an instance that has *)
(* a webclient.                                                            *)
NeverMet ==
    ~overlapped =>
        /\ OneBusy
        /\ \A u \in Busy : upd[u].now \notin Known(feignclients)
        /\ live = closed \cup Stored(feignclients)

RibbonInv == RibbonTypeOK /\ UpdateAlone /\ NeverMet

(* What Proceed does: the update ends, or it launches for an instance that *)
(* is not known.                                                           *)
Ends(u, servers, left, F) ==
    /\ Busy' = Busy \ {u}
    /\ left \subseteq Known(F)
    /\ Known(feignclients') = Known(F) \cap servers
    /\ Stored(feignclients') \subseteq Stored(F)
    /\ closed' \cup Stored(feignclients') = closed \cup Stored(F)

Launches(u, servers, left, F) ==
    /\ Busy' = Busy \cup {u}
    /\ feignclients' = F /\ closed' = closed
    /\ upd'[u].servers = servers
    /\ upd'[u].now \in Instance \ Known(F)
    /\ left \subseteq Known(F) \cup upd'[u].left \cup {upd'[u].now}

LEMMA ProceedEffect ==
    ASSUME RibbonTypeOK, NEW u \in Updater,
           NEW servers \in SUBSET Instance, NEW left \in SUBSET Instance,
           NEW F \in [Instance -> Client \cup {None}],
           Proceed(u, servers, left, F)
    PROVE  /\ feignclients' \in [Instance -> Client \cup {None}]
           /\ upd' \in [Updater -> [servers : SUBSET Instance, left : SUBSET Instance,
                                    now : Instance \cup {None}]]
           /\ \A v \in Updater \ {u} : upd'[v] = upd[v]
           /\ Ends(u, servers, left, F) \/ Launches(u, servers, left, F)
<1>1. CASE left \subseteq Known(F)
  <2>1. Remove(u, servers, F)
    BY <1>1 DEF Proceed
  <2>2. upd' = [upd EXCEPT ![u] = Idle]
    BY <2>1 DEF Remove
  <2>3. upd' \in [Updater -> [servers : SUBSET Instance, left : SUBSET Instance,
                              now : Instance \cup {None}]]
    BY <2>2 DEF Idle, RibbonTypeOK
  <2>4. Busy' = Busy \ {u}
    BY <2>2 DEF Busy, RibbonTypeOK
  <2>5. /\ feignclients' = [i \in Instance |-> IF i \in servers THEN F[i] ELSE None]
        /\ closed' = closed \cup {F[i] : i \in Known(F) \ servers}
    BY <2>1 DEF Remove
  <2>6. feignclients' \in [Instance -> Client \cup {None}]
    BY <2>5
  <2>7. Known(feignclients') = Known(F) \cap servers
    BY <2>5 DEF Known
  <2>8. Stored(feignclients') = {F[i] : i \in Known(F) \cap servers}
    BY <2>5, <2>7 DEF Stored, Known
  <2>9. Ends(u, servers, left, F)
    BY <1>1, <2>4, <2>5, <2>7, <2>8 DEF Ends, Stored
  <2> QED BY <2>2, <2>3, <2>6, <2>9 DEF RibbonTypeOK
<1>2. CASE ~ (left \subseteq Known(F))
  <2>1. PICK i \in left \ Known(F), passed \in SUBSET (left \cap Known(F)) :
            Launch(u, servers, left \ (passed \cup {i}), i, F)
    BY <1>2 DEF Proceed
  <2>2. /\ upd' = [upd EXCEPT ![u] = [servers |-> servers,
                                      left |-> left \ (passed \cup {i}), now |-> i]]
        /\ feignclients' = F /\ closed' = closed
    BY <2>1 DEF Launch
  <2>3. /\ upd' \in [Updater -> [servers : SUBSET Instance, left : SUBSET Instance,
                                 now : Instance \cup {None}]]
        /\ \A v \in Updater \ {u} : upd'[v] = upd[v]
        /\ upd'[u] = [servers |-> servers, left |-> left \ (passed \cup {i}), now |-> i]
    BY <2>2 DEF RibbonTypeOK
  <2>4. upd'[u].now # None
    BY <2>3, EurekaAssumption
  <2>5. Busy' = Busy \cup {u}
    BY <2>3, <2>4 DEF Busy, Idle
  <2>6. Launches(u, servers, left, F)
    BY <2>2, <2>3, <2>5 DEF Launches
  <2> QED BY <2>2, <2>3, <2>6
<1> QED BY <1>1, <1>2

(* Steps outside of the ribbon.                                            *)
LEMMA RibbonSame ==
    ASSUME RibbonInv, UNCHANGED ribbon PROVE RibbonInv'
BY DEF RibbonInv, RibbonTypeOK, UpdateAlone, NeverMet, OneBusy, Stored, Known, Busy

(* An error ends the update, and nothing says any more what it has done.   *)
LEMMA DiesKeeps ==
    ASSUME RibbonInv, NEW u \in Updater, NEW F \in [Instance -> Client \cup {None}],
           Dies(u, F), Stored(F) \subseteq live', live \subseteq live', live' \subseteq Client,
           ~overlapped' => /\ ~overlapped
                           /\ live' = closed \cup Stored(F)
                           /\ \A v \in Busy \ {u} : upd[v].now \notin Known(F),
           last' \subseteq Instance, overlapped' \in BOOLEAN
    PROVE  RibbonInv'
<1> USE DEF RibbonInv
<1>1. /\ upd' = [upd EXCEPT ![u] = Idle] /\ dirty' = TRUE
      /\ feignclients' = F /\ closed' = closed
  BY DEF Dies
<1>2. Busy' = Busy \ {u} /\ \A v \in Busy' : upd'[v] = upd[v]
  BY <1>1 DEF Busy, RibbonTypeOK
<1>3. Known(feignclients)' = Known(F) /\ Stored(feignclients)' = Stored(F)
  BY <1>1 DEF Known, Stored
<1>4. RibbonTypeOK'
  <2>1. upd' \in [Updater -> [servers : SUBSET Instance, left : SUBSET Instance,
                              now : Instance \cup {None}]]
    BY <1>1 DEF RibbonTypeOK, Idle
  <2> QED BY <1>1, <1>2, <1>3, <2>1 DEF RibbonTypeOK
<1>5. NeverMet'
  BY <1>1, <1>2, <1>3 DEF NeverMet, OneBusy
<1> QED BY <1>1, <1>4, <1>5 DEF UpdateAlone

LEMMA UpdateKeeps ==
    ASSUME RibbonInv, NEW u \in Updater, NEW servers \in SUBSET Instance,
           Update(u, servers)
    PROVE  RibbonInv'
<1> USE DEF RibbonInv
<1>1. /\ u \notin Busy /\ last' = servers /\ live' = live
      /\ overlapped' = (overlapped \/ Busy # {})
  BY DEF Update
<1>a. CASE Dies(u, feignclients)
  BY <1>1, <1>a, DiesKeeps DEF RibbonTypeOK, NeverMet
<1>b. CASE Proceed(u, servers, servers, feignclients) /\ dirty' = (Busy # {})
  <2>2. /\ feignclients' \in [Instance -> Client \cup {None}]
        /\ upd' \in [Updater -> [servers : SUBSET Instance, left : SUBSET Instance,
                                 now : Instance \cup {None}]]
        /\ \A v \in Updater \ {u} : upd'[v] = upd[v]
        /\ \/ Ends(u, servers, servers, feignclients)
           \/ Launches(u, servers, servers, feignclients)
    BY <1>1, <1>b, ProceedEffect DEF RibbonTypeOK
  <2>3. dirty' \in BOOLEAN /\ overlapped' \in BOOLEAN
    BY <1>1, <1>b DEF RibbonTypeOK
  <2>4. CASE Ends(u, servers, servers, feignclients)
    <3>1. RibbonTypeOK'
      BY <1>1, <2>2, <2>3, <2>4 DEF RibbonTypeOK, Ends, Busy
    <3>2. UpdateAlone'
      BY <1>1, <1>b, <2>4 DEF UpdateAlone, Ends, OneBusy
    <3>3. NeverMet'
      BY <1>1, <2>4 DEF NeverMet, Ends, OneBusy
    <3> QED BY <3>1, <3>2, <3>3
  <2>5. CASE Launches(u, servers, servers, feignclients)
    <3>1. RibbonTypeOK'
      BY <1>1, <2>2, <2>3, <2>5 DEF RibbonTypeOK, Launches, Busy
    <3>2. UpdateAlone'
      BY <1>1, <1>b, <2>5 DEF UpdateAlone, Launches, OneBusy
    <3>3. NeverMet'
      BY <1>1, <2>5 DEF NeverMet, Launches, OneBusy
    <3> QED BY <3>1, <3>2, <3>3
  <2> QED BY <2>2, <2>4, <2>5
<1> QED BY <1>a, <1>b DEF Update

(* An update whose launch is done: F is the table with the new webclient.  *)
LEMMA LaunchedKeeps ==
    ASSUME RibbonInv, NEW u \in Updater, NEW w \in Client, Launched(u, w)
    PROVE  RibbonInv'
<1> USE DEF RibbonInv
<1>c. \/ Dies(u, [feignclients EXCEPT ![upd[u].now] = w])
      \/ /\ Proceed(u, upd[u].servers, upd[u].left, [feignclients EXCEPT ![upd[u].now] = w])
         /\ UNCHANGED dirty
  BY DEF Launched
<1> DEFINE i == upd[u].now
           F == [feignclients EXCEPT ![i] = w]
<1>1. /\ u \in Busy /\ w \notin live /\ live' = live \cup {w}
      /\ last' = last /\ overlapped' = overlapped
  BY DEF Launched
<1>d. Dies(u, F) \/ (Proceed(u, upd[u].servers, upd[u].left, F) /\ UNCHANGED dirty)
  BY <1>c
<1>2. i \in Instance /\ w # None /\ F \in [Instance -> Client \cup {None}]
  BY <1>1, EurekaAssumption DEF RibbonTypeOK
<1>3. Known(F) = Known(feignclients) \cup {i}
  BY <1>2 DEF Known, RibbonTypeOK
<1>4. Stored(F) \subseteq Stored(feignclients) \cup {w}
  BY <1>2, <1>3 DEF Stored, Known, RibbonTypeOK
<1>5. i \notin Known(feignclients) => Stored(F) = Stored(feignclients) \cup {w}
  BY <1>2, <1>3 DEF Stored, Known, RibbonTypeOK
<1>6. upd[u].servers \in SUBSET Instance /\ upd[u].left \in SUBSET Instance
  BY DEF RibbonTypeOK
<1> HIDE DEF F
<1>a. CASE Dies(u, F)
  <2>1. \A v \in Busy \ {u} : ~overlapped => FALSE
    BY <1>1 DEF NeverMet, OneBusy
  <2>2. ~overlapped => live' = closed \cup Stored(F)
    BY <1>1, <1>5 DEF NeverMet
  <2> QED BY <1>1, <1>2, <1>4, <1>a, <2>1, <2>2, DiesKeeps DEF RibbonTypeOK
<1>b. CASE Proceed(u, upd[u].servers, upd[u].left, F) /\ UNCHANGED dirty
  <2>7. /\ feignclients' \in [Instance -> Client \cup {None}]
        /\ upd' \in [Updater -> [servers : SUBSET Instance, left : SUBSET Instance,
                                 now : Instance \cup {None}]]
        /\ \A v \in Updater \ {u} : upd'[v] = upd[v]
        /\ \/ Ends(u, upd[u].servers, upd[u].left, F)
           \/ Launches(u, upd[u].servers, upd[u].left, F)
    BY <1>1, <1>2, <1>6, <1>b, ProceedEffect DEF RibbonTypeOK
  <2>8. CASE Ends(u, upd[u].servers, upd[u].left, F)
    <3>1. RibbonTypeOK'
      BY <1>1, <1>4, <1>b, <2>7, <2>8 DEF RibbonTypeOK, Ends, Busy
    <3>2. UpdateAlone'
      BY <1>1, <1>3, <1>b, <2>8 DEF UpdateAlone, Ends, OneBusy
    <3>3. NeverMet'
      BY <1>1, <1>5, <2>8 DEF NeverMet, Ends, OneBusy
    <3> QED BY <3>1, <3>2, <3>3
  <2>9. CASE Launches(u, upd[u].servers, upd[u].left, F)
    <3>1. RibbonTypeOK'
      BY <1>1, <1>4, <1>b, <2>7, <2>9 DEF RibbonTypeOK, Launches, Busy
    <3>2. UpdateAlone'
      BY <1>1, <1>3, <1>b, <2>9 DEF UpdateAlone, Launches, OneBusy
    <3>3. NeverMet'
      BY <1>1, <1>5, <2>9 DEF NeverMet, Launches, OneBusy
    <3> QED BY <3>1, <3>2, <3>3
  <2> QED BY <2>7, <2>8, <2>9
<1> QED BY <1>a, <1>b, <1>d

LEMMA LaunchFailsKeeps ==
    ASSUME RibbonInv, NEW u \in Updater, LaunchFails(u)
    PROVE  RibbonInv'
<1>1. /\ Dies(u, feignclients)
      /\ UNCHANGED <<live, last, overlapped>>
  BY DEF LaunchFails
<1> QED BY <1>1, DiesKeeps DEF RibbonInv, RibbonTypeOK, NeverMet

LEMMA RibbonInit == Init => RibbonInv
<1> SUFFICES ASSUME Init PROVE RibbonInv
  OBVIOUS
<1>1. /\ feignclients = [i \in Instance |-> None] /\ upd = [u \in Updater |-> Idle]
      /\ live = {} /\ closed = {} /\ last = {} /\ dirty = FALSE /\ overlapped = FALSE
  BY DEF Init
<1>2. Known(feignclients) = {} /\ Stored(feignclients) = {} /\ Busy = {}
  BY <1>1 DEF Known, Stored, Busy
<1> QED BY <1>1, <1>2 DEF RibbonInv, RibbonTypeOK, UpdateAlone, NeverMet, OneBusy, Idle

LEMMA RibbonStep == RibbonInv /\ [Next]_vars => RibbonInv'
<1> SUFFICES ASSUME RibbonInv, [Next]_vars PROVE RibbonInv'
  OBVIOUS
<1>1. ASSUME NEW c \in Co, NEW app \in App, NEW ok \in BOOLEAN, Fetched(c, app, ok)
      PROVE  RibbonInv'
  BY <1>1, UpdateKeeps, RibbonSame DEF Fetched
<1>2. ASSUME NEW u \in Updater, LaunchFails(u) PROVE RibbonInv'
  BY <1>2, LaunchFailsKeeps
<1>3. ASSUME NEW u \in Updater, NEW w \in Client, Launched(u, w) PROVE RibbonInv'
  BY <1>3, LaunchedKeeps
<1>4. CASE UNCHANGED ribbon
  BY <1>4, RibbonSame
<1>5. ASSUME NEW c \in Co PROVE /\ ClientMade(c) \/ Raises(c) => UNCHANGED ribbon
                                /\ \A f \in {"heartbeat", "register"} :
                                       TimerFires(c, f) => UNCHANGED ribbon
                                /\ \A ok \in BOOLEAN : Registered(c, ok) \/ HeartbeatAnswered(c, ok)
                                       => UNCHANGED ribbon
  BY DEF ClientMade, Raises, TimerFires, Registered, HeartbeatAnswered
<1>6. ASSUME NEW k \in Caller PROVE /\ requestwebservice(k) \/ Errors(k) => UNCHANGED ribbon
                                    /\ \A w \in Client : Responds(k, w) => UNCHANGED ribbon
  BY DEF requestwebservice, Errors, Responds
<1>7. ASSUME NEW r PROVE Accept(r) \/ Stall(r) \/ QueryFails(r) => UNCHANGED ribbon
  BY DEF Accept, Stall, QueryFails
<1> QED BY <1>1, <1>2, <1>3, <1>4, <1>5, <1>6, <1>7 DEF Next, Answered, vars

(* For any number of instances and updates in progress: an update that     *)
(* meets no other leaves a webclient for exactly the instances it named.   *)
THEOREM RibbonInStep == Spec => []InStep
<1>1. RibbonInv => InStep
  BY DEF RibbonInv, UpdateAlone, InStep
<1> QED BY <1>1, RibbonInit, RibbonStep, PTL DEF Spec

(* For any number of instances: webclients are lost only by updates that   *)
(* overlap.                                                                *)
THEOREM RibbonNoneLost == Spec => []NoneLost
<1>1. RibbonInv => NoneLost
  BY DEF RibbonInv, NeverMet, NoneLost, Stored
<1> QED BY <1>1, RibbonInit, RibbonStep, PTL DEF Spec

-----------------------------------------------------------------------------
(* The eureka service and its requests.                                    *)

Under == {c \in Co : at[c] \in {"new", "register", "heartbeat"}}

ChainTypeOK ==
    /\ eurekaclient \in BOOLEAN /\ ready \in BOOLEAN /\ broken \in BOOLEAN
    /\ timers \in [{"heartbeat", "register"} -> Nat]
    /\ at \in [Co -> {"idle", "new", "register", "heartbeat", "fetch"}]
    /\ todo \in [Co -> SUBSET App]

Chain == timers["heartbeat"] + timers["register"] + Cardinality(Under)
             = IF broken THEN 0 ELSE 1

(* A coroutine of the service has one request at a time, which goes to its *)
(* own webclient, and none while it is idle or launches that.              *)
OneRequest ==
    \A c \in Co :
        /\ asked[c] \in {Own, None}
        /\ asked[c] = Own \/ at[c] \in {"idle", "new"} => c \notin requests[Own]
        /\ at[c] \in {"idle", "new"} => asked[c] = None

ChainInv == Web!WebTypeOK /\ ChainTypeOK /\ OneRequest /\ Chain

USE DEF Go, Set

LEMMA UnderFinite == IsFiniteSet(Under) /\ Cardinality(Under) \in Nat
BY EurekaAssumption, FS_Subset, FS_CardinalityType DEF Under

(* A timeout becomes a coroutine, or a coroutine sets a timeout.           *)
LEMMA ChainMoves ==
    ASSUME ChainTypeOK, Chain, NEW c \in Co, broken' = broken,
           NEW f \in {"heartbeat", "register"},
           \/ c \notin Under /\ Under' = Under \cup {c} /\ timers[f] > 0
                 /\ timers' = [timers EXCEPT ![f] = @ - 1]
           \/ c \in Under /\ Under' = Under \ {c}
                 /\ timers' = [timers EXCEPT ![f] = @ + 1]
    PROVE  Chain' /\ timers' \in [{"heartbeat", "register"} -> Nat]
<1>1. CASE c \notin Under /\ Under' = Under \cup {c}
             /\ timers[f] > 0 /\ timers' = [timers EXCEPT ![f] = @ - 1]
  <2>1. Cardinality(Under') = Cardinality(Under) + 1
    BY <1>1, UnderFinite, FS_AddElement
  <2> QED BY <1>1, <2>1, UnderFinite DEF Chain, ChainTypeOK
<1>2. CASE c \in Under /\ Under' = Under \ {c}
             /\ timers' = [timers EXCEPT ![f] = @ + 1]
  <2>1. Cardinality(Under') = Cardinality(Under) - 1
    BY <1>2, UnderFinite, FS_RemoveElement
  <2> QED BY <1>2, <2>1, UnderFinite DEF Chain, ChainTypeOK
<1> QED BY <1>1, <1>2

LEMMA ChainSame ==
    ASSUME Chain, UNCHANGED <<timers, broken>>, Under' = Under PROVE Chain'
BY DEF Chain

(* The table of the webclient when it answers.                             *)
LEMMA AnswerKeeps ==
    ASSUME Web!WebTypeOK, NEW r, NEW w \in Client \cup {Own}, Web!Answer(r, w)
    PROVE  /\ requests' \in [Client \cup {Own} -> SUBSET (Co \cup Caller)]
           /\ query' \subseteq open' \ failed'
           /\ open' \subseteq Client \cup {Own} /\ failed' \subseteq open'
           /\ r \in requests[w] /\ requests'[w] = requests[w] \ {r}
           /\ \A v \in Client \cup {Own} : v # w => requests'[v] = requests[v]
           /\ \A q \in stalled' : \E v \in Client \cup {Own} : q \in requests'[v]
<1>1. /\ requests' \in [Client \cup {Own} -> SUBSET (Co \cup Caller)]
      /\ query' \subseteq open' \ failed'
      /\ open' \subseteq Client \cup {Own} /\ failed' \subseteq open'
      /\ r \in requests[w] /\ requests'[w] = requests[w] \ {r}
      /\ \A v \in Client \cup {Own} : v # w => requests'[v] = requests[v]
      /\ stalled' = stalled \ {r}
  BY DEF Web!WebTypeOK, Web!Answer, Web!Ends
<1>2. \A q \in stalled' : \E v \in Client \cup {Own} : q \in requests'[v]
  <2> TAKE q \in stalled'
  <2>1. q \in stalled /\ q # r
    BY <1>1
  <2>2. PICK v \in Client \cup {Own} : q \in requests[v]
    BY <2>1 DEF Web!WebTypeOK
  <2> QED BY <1>1, <2>1, <2>2
<1> QED BY <1>1, <1>2

LEMMA AcceptKeeps ==
    ASSUME Web!WebTypeOK, ChainTypeOK, OneRequest, NEW r \in Co \cup Caller, Accept(r)
    PROVE  Web!WebTypeOK' /\ OneRequest'
<1>1. PICK w \in Client \cup {Own} :
          /\ w = asked[r] /\ asked' = [asked EXCEPT ![r] = None]
          /\ requests' = [requests EXCEPT ![w] = @ \cup {r}]
          /\ open' = open \cup {w} /\ failed' = failed
          /\ query' = IF w \in open THEN query ELSE query \cup {w}
          /\ at' = at /\ stalled' = stalled
  BY DEF Accept, Web!Accept, Web!WebTypeOK
<1>2. Web!WebTypeOK'
  <2>1. \A v \in Client \cup {Own} : requests[v] \subseteq requests'[v]
    BY <1>1 DEF Web!WebTypeOK
  <2>2. \A q \in stalled' : \E v \in Client \cup {Own} : q \in requests'[v]
    BY <1>1, <2>1 DEF Web!WebTypeOK
  <2> QED BY <1>1, <2>2 DEF Web!WebTypeOK
<1>3. OneRequest'
  BY <1>1, EurekaAssumption DEF OneRequest, Web!WebTypeOK
<1> QED BY <1>2, <1>3

(* Whoever calls a webclient from outside of the service.                  *)
LEMMA CallerKeeps ==
    ASSUME Web!WebTypeOK, OneRequest, RibbonTypeOK, NEW k \in Caller,
           \/ requestwebservice(k) \/ Errors(k)
           \/ \E w \in Client : Responds(k, w)
    PROVE  Web!WebTypeOK' /\ OneRequest'
<1>1. k \notin Co
  BY EurekaAssumption
<1>2. CASE requestwebservice(k)
  <2>1. PICK i \in Known(feignclients) : asked' = [asked EXCEPT ![k] = feignclients[i]]
    BY <1>2 DEF requestwebservice, Web!Ask
  <2>2. feignclients[i] \in Client
    BY DEF Known, RibbonTypeOK
  <2> QED BY <1>1, <1>2, <2>1, <2>2 DEF requestwebservice, Web!WebTypeOK, OneRequest
<1>3. CASE Errors(k)
  BY <1>1, <1>3 DEF Errors, Web!Refuse, Web!WebTypeOK, OneRequest
<1>4. ASSUME NEW w \in Client, Responds(k, w) PROVE Web!WebTypeOK' /\ OneRequest'
  <2>1. asked' = asked /\ at' = at /\ Web!Answer(k, w)
    BY <1>4 DEF Responds
  <2>2. w # Own
    BY EurekaAssumption
  <2>3. Web!WebTypeOK'
    BY <2>1, AnswerKeeps DEF Web!WebTypeOK
  <2> QED BY <2>1, <2>2, <2>3, AnswerKeeps DEF Web!WebTypeOK, OneRequest
<1> QED BY <1>2, <1>3, <1>4

(* A request of the service to its webclient, after the answer to the last *)
(* one or without one.                                                     *)
LEMMA AskKeeps ==
    ASSUME Web!WebTypeOK, ChainTypeOK, OneRequest, NEW c \in Co,
           \/ Web!Answer(c, Own)
           \/ c \notin requests[Own] /\ UNCHANGED <<requests, open, query, stalled, failed>>,
           NEW where, at' = [at EXCEPT ![c] = where],
           \/ where \in {"idle", "new"} /\ asked' = [asked EXCEPT ![c] = None]
           \/ where \in {"register", "heartbeat", "fetch"}
                 /\ asked' = [asked EXCEPT ![c] = Own]
    PROVE  /\ Web!WebTypeOK' /\ OneRequest'
           /\ at' \in [Co -> {"idle", "new", "register", "heartbeat", "fetch"}]
<1>1. /\ requests' \in [Client \cup {Own} -> SUBSET (Co \cup Caller)]
      /\ query' \subseteq open' \ failed'
      /\ open' \subseteq Client \cup {Own} /\ failed' \subseteq open'
      /\ c \notin requests'[Own] /\ requests'[Own] \subseteq requests[Own]
      /\ \A q \in stalled' : \E v \in Client \cup {Own} : q \in requests'[v]
  BY AnswerKeeps DEF Web!WebTypeOK
<1>0. asked' \in [Co \cup Caller -> Client \cup {Own, None}]
  BY DEF Web!WebTypeOK
<1>2. Web!WebTypeOK'
  BY <1>0, <1>1 DEF Web!WebTypeOK
<1>3. OneRequest'
  BY <1>1 DEF OneRequest, Web!WebTypeOK, ChainTypeOK
<1> QED BY <1>2, <1>3 DEF ChainTypeOK

LEMMA TimerFiresKeeps ==
    ASSUME ChainInv, NEW c \in Co, NEW f \in {"heartbeat", "register"}, TimerFires(c, f)
    PROVE  ChainInv'
<1> USE DEF ChainInv
<1>1. /\ at[c] = "idle" /\ timers[f] > 0 /\ timers' = [timers EXCEPT ![f] = @ - 1]
      /\ UNCHANGED <<eurekaclient, todo, ready, broken, requests, open, query, stalled, failed>>
  BY DEF TimerFires
<1>2. PICK where \in {"new", "register", "heartbeat"} :
          /\ at' = [at EXCEPT ![c] = where]
          /\ IF where = "new" THEN asked' = asked
             ELSE asked' = [asked EXCEPT ![c] = Own]
  BY DEF TimerFires, _register, Web!Ask
<1>3. asked[c] = None /\ c \notin requests[Own]
  BY <1>1 DEF OneRequest
<1>4. where = "new" => asked' = [asked EXCEPT ![c] = None]
  BY <1>2, <1>3 DEF Web!WebTypeOK
<1>5. /\ Web!WebTypeOK' /\ OneRequest'
      /\ at' \in [Co -> {"idle", "new", "register", "heartbeat", "fetch"}]
  BY <1>1, <1>2, <1>3, <1>4, AskKeeps
<1>6. c \notin Under /\ Under' = Under \cup {c}
  BY <1>1, <1>2 DEF Under, ChainTypeOK
<1>7. Chain' /\ timers' \in [{"heartbeat", "register"} -> Nat]
  BY <1>1, <1>6, ChainMoves
<1> QED BY <1>1, <1>5, <1>7 DEF ChainTypeOK

LEMMA ClientMadeKeeps ==
    ASSUME ChainInv, NEW c \in Co, ClientMade(c)
    PROVE  ChainInv'
<1> USE DEF ChainInv
<1>1. /\ at[c] = "new" /\ eurekaclient' = TRUE
      /\ at' = [at EXCEPT ![c] = "register"] /\ asked' = [asked EXCEPT ![c] = Own]
      /\ UNCHANGED <<timers, todo, ready, broken, requests, open, query, stalled, failed>>
  BY DEF ClientMade, Web!Ask
<1>2. c \notin requests[Own]
  BY <1>1 DEF OneRequest
<1>3. /\ Web!WebTypeOK' /\ OneRequest'
      /\ at' \in [Co -> {"idle", "new", "register", "heartbeat", "fetch"}]
  BY <1>1, <1>2, AskKeeps
<1>4. Under' = Under
  BY <1>1 DEF Under, ChainTypeOK
<1> QED BY <1>1, <1>3, <1>4, ChainSame DEF ChainTypeOK

(* Who is answered has no other request.                                   *)
LEMMA AnsweredAlone ==
    ASSUME ChainInv, NEW c \in Co, Web!Answer(c, Own)
    PROVE  /\ asked[c] = None /\ asked = [asked EXCEPT ![c] = None]
           /\ at[c] \notin {"idle", "new"}
<1>1. c \in requests[Own]
  BY AnswerKeeps DEF ChainInv
<1> QED BY <1>1 DEF ChainInv, OneRequest, Web!WebTypeOK

LEMMA RegisteredKeeps ==
    ASSUME ChainInv, NEW c \in Co, NEW ok \in BOOLEAN, Registered(c, ok)
    PROVE  ChainInv'
<1> USE DEF ChainInv
<1>1. /\ at[c] = "register" /\ Web!Answer(c, Own) /\ ready' = TRUE
      /\ at' = [at EXCEPT ![c] = "idle"] /\ asked' = asked
      /\ UNCHANGED <<eurekaclient, todo, broken>>
      /\ \E f \in {"heartbeat", "register"} : timers' = [timers EXCEPT ![f] = @ + 1]
  BY DEF Registered
<1>2. /\ Web!WebTypeOK' /\ OneRequest'
      /\ at' \in [Co -> {"idle", "new", "register", "heartbeat", "fetch"}]
  BY <1>1, AskKeeps, AnsweredAlone
<1>3. c \in Under /\ Under' = Under \ {c}
  BY <1>1 DEF Under, ChainTypeOK
<1>4. Chain' /\ timers' \in [{"heartbeat", "register"} -> Nat]
  BY <1>1, <1>3, ChainMoves
<1> QED BY <1>1, <1>2, <1>4 DEF ChainTypeOK

(* The loop over the remote services.                                      *)
LEMMA FetchKeeps ==
    ASSUME ChainInv, NEW c \in Co, NEW apps \in SUBSET App,
           Web!Answer(c, Own), Fetch(c, apps)
    PROVE  /\ Web!WebTypeOK' /\ OneRequest'
           /\ at' \in [Co -> {"idle", "new", "register", "heartbeat", "fetch"}]
           /\ todo' \in [Co -> SUBSET App]
           /\ Under' = Under \ {c}
<1> USE DEF ChainInv
<1>1. PICK where \in {"idle", "fetch"} :
          /\ at' = [at EXCEPT ![c] = where]
          /\ IF where = "idle" THEN asked' = asked
             ELSE asked' = [asked EXCEPT ![c] = Own]
  BY DEF Fetch, Web!Ask
<1>2. /\ Web!WebTypeOK' /\ OneRequest'
      /\ at' \in [Co -> {"idle", "new", "register", "heartbeat", "fetch"}]
  BY <1>1, AskKeeps, AnsweredAlone
<1>3. Under' = Under \ {c}
  BY <1>1 DEF Under, ChainTypeOK
<1>4. todo' \in [Co -> SUBSET App]
  BY DEF Fetch, ChainTypeOK
<1> QED BY <1>2, <1>3, <1>4

LEMMA HeartbeatAnsweredKeeps ==
    ASSUME ChainInv, NEW c \in Co, NEW ok \in BOOLEAN, HeartbeatAnswered(c, ok)
    PROVE  ChainInv'
<1> USE DEF ChainInv
<1>1. /\ at[c] = "heartbeat" /\ Web!Answer(c, Own) /\ c \in Under
      /\ UNCHANGED <<eurekaclient, ready, broken>>
  BY DEF HeartbeatAnswered, Under
<1>2. CASE ok
  <2>1. timers' = [timers EXCEPT !["heartbeat"] = @ + 1] /\ Fetch(c, App)
    BY <1>2 DEF HeartbeatAnswered
  <2>2. Chain' /\ timers' \in [{"heartbeat", "register"} -> Nat]
    BY <1>1, <2>1, FetchKeeps, ChainMoves
  <2> QED BY <1>1, <2>1, <2>2, FetchKeeps DEF ChainTypeOK
<1>3. CASE ~ok
  <2>1. _register(c) /\ UNCHANGED <<timers, todo>>
    BY <1>3 DEF HeartbeatAnswered
  <2>2. PICK where \in {"new", "register"} :
            /\ at' = [at EXCEPT ![c] = where]
            /\ IF where = "new" THEN asked' = asked
               ELSE asked' = [asked EXCEPT ![c] = Own]
    BY <2>1 DEF _register, Web!Ask
  <2>3. /\ Web!WebTypeOK' /\ OneRequest'
        /\ at' \in [Co -> {"idle", "new", "register", "heartbeat", "fetch"}]
    BY <1>1, <2>2, AskKeeps, AnsweredAlone
  <2>4. Under' = Under
    BY <1>1, <2>2 DEF Under, ChainTypeOK
  <2> QED BY <1>1, <2>1, <2>3, <2>4, ChainSame DEF ChainTypeOK
<1> QED BY <1>2, <1>3

LEMMA FetchedKeeps ==
    ASSUME ChainInv, NEW c \in Co, NEW app \in App, NEW ok \in BOOLEAN,
           Fetched(c, app, ok)
    PROVE  ChainInv'
<1> USE DEF ChainInv
<1>1. /\ at[c] = "fetch" /\ Web!Answer(c, Own) /\ Fetch(c, todo[c] \ {app})
      /\ UNCHANGED <<eurekaclient, timers, ready, broken>>
  BY DEF Fetched
<1>2. todo[c] \ {app} \in SUBSET App
  BY DEF ChainTypeOK
<1>3. /\ Web!WebTypeOK' /\ OneRequest'
      /\ at' \in [Co -> {"idle", "new", "register", "heartbeat", "fetch"}]
      /\ todo' \in [Co -> SUBSET App] /\ Under' = Under \ {c}
  BY <1>1, <1>2, FetchKeeps
<1>4. c \notin Under
  BY <1>1 DEF Under
<1> QED BY <1>1, <1>3, <1>4, ChainSame DEF ChainTypeOK

(* The chain ends if the coroutine is part of it.                          *)
LEMMA RaisesKeeps ==
    ASSUME ChainInv, NEW c \in Co, Raises(c)
    PROVE  ChainInv'
<1> USE DEF ChainInv
<1>1. /\ broken' = (broken \/ at[c] # "fetch") /\ at' = [at EXCEPT ![c] = "idle"]
      /\ todo' = [todo EXCEPT ![c] = {}]
      /\ UNCHANGED <<eurekaclient, timers, ready, requests, open, query, stalled, failed>>
  BY DEF Raises, Web!Refuse
<1>2. \/ at[c] = "new" /\ asked' = asked
      \/ asked[c] = Own /\ asked' = [asked EXCEPT ![c] = None]
  BY DEF Raises, Web!Refuse, OneRequest
<1>3. c \notin requests[Own] /\ asked' = [asked EXCEPT ![c] = None] /\ at[c] # "idle"
  BY <1>2, EurekaAssumption DEF OneRequest, Web!WebTypeOK
<1>4. /\ Web!WebTypeOK' /\ OneRequest'
      /\ at' \in [Co -> {"idle", "new", "register", "heartbeat", "fetch"}]
  BY <1>1, <1>3, AskKeeps
<1>5. Under' = Under \ {c}
  BY <1>1 DEF Under, ChainTypeOK
<1>6. Chain'
  <2>1. CASE at[c] = "fetch"
    <3>1. c \notin Under /\ broken' = broken
      BY <1>1, <2>1 DEF Under, ChainTypeOK
    <3> QED BY <1>1, <1>5, <3>1, ChainSame
  <2>2. CASE at[c] # "fetch"
    <3>1. c \in Under /\ broken' = TRUE
      BY <1>1, <1>3, <2>2 DEF Under, ChainTypeOK
    <3>2. Cardinality(Under') = Cardinality(Under) - 1 /\ Cardinality(Under') \in Nat
      BY <1>5, <3>1, UnderFinite, FS_RemoveElement, FS_CardinalityType
    <3> QED BY <1>1, <3>1, <3>2, UnderFinite DEF Chain, ChainTypeOK
  <2> QED BY <2>1, <2>2
<1>7. todo' \in [Co -> SUBSET App] /\ broken' \in BOOLEAN
  BY <1>1 DEF ChainTypeOK
<1> QED BY <1>1, <1>4, <1>6, <1>7 DEF ChainTypeOK

(* Steps that leave the service and its tables alone.                      *)
LEMMA ChainRests ==
    ASSUME ChainInv, UNCHANGED chain, Web!WebTypeOK', OneRequest'
    PROVE  ChainInv'
BY DEF ChainInv, ChainTypeOK, Chain, Under

LEMMA WebSame ==
    ASSUME ChainInv, UNCHANGED chain,
           UNCHANGED web \/ (\E w \in Client \cup {Own} : Web!QueryFails(w))
    PROVE  ChainInv'
<1>1. Web!WebTypeOK'
  BY DEF ChainInv, Web!WebTypeOK, Web!QueryFails
<1>2. OneRequest'
  BY DEF ChainInv, OneRequest, Web!QueryFails
<1> QED BY <1>1, <1>2, ChainRests

LEMMA ChainInit == Init => ChainInv
<1> SUFFICES ASSUME Init PROVE ChainInv
  OBVIOUS
<1>1. PICK c \in Co : at = [d \in Co |-> IF d = c THEN "new" ELSE "idle"]
  BY DEF Init
<1>2. Under = {c}
  BY <1>1 DEF Under
<1>3. Cardinality(Under) = 1
  BY <1>2, FS_Singleton
<1>4. Web!WebTypeOK /\ ChainTypeOK /\ OneRequest
  BY <1>1 DEF Init, Web!WebInit, Web!WebTypeOK, ChainTypeOK, OneRequest
<1>5. Chain
  BY <1>3 DEF Init, Chain
<1> QED BY <1>4, <1>5 DEF ChainInv

LEMMA ChainStep == ChainInv /\ RibbonTypeOK /\ [Next]_vars => ChainInv'
<1> SUFFICES ASSUME ChainInv, RibbonTypeOK, [Next]_vars PROVE ChainInv'
  OBVIOUS
<1>1. ASSUME NEW c \in Co, NEW f \in {"heartbeat", "register"}, TimerFires(c, f)
      PROVE  ChainInv'
  BY <1>1, TimerFiresKeeps
<1>2. ASSUME NEW c \in Co, ClientMade(c) \/ Raises(c)
      PROVE  ChainInv'
  BY <1>2, ClientMadeKeeps, RaisesKeeps
<1>3. ASSUME NEW c \in Co, Answered(c)
      PROVE  ChainInv'
  BY <1>3, RegisteredKeeps, HeartbeatAnsweredKeeps, FetchedKeeps DEF Answered
<1>4. ASSUME NEW u \in Updater, LaunchFails(u) \/ \E w \in Client : Launched(u, w)
      PROVE  ChainInv'
  BY <1>4, WebSame DEF LaunchFails, Launched
<1>5. ASSUME NEW k \in Caller, \/ requestwebservice(k) \/ Errors(k)
                               \/ \E w \in Client : Responds(k, w)
      PROVE  ChainInv'
  <2>1. UNCHANGED chain
    BY <1>5 DEF requestwebservice, Errors, Responds
  <2>2. Web!WebTypeOK' /\ OneRequest'
    BY <1>5, CallerKeeps DEF ChainInv
  <2> QED BY <2>1, <2>2, ChainRests
<1>6. ASSUME NEW r \in Co \cup Caller, Accept(r)
      PROVE  ChainInv'
  BY <1>6, AcceptKeeps, ChainRests DEF Accept, ChainInv
<1>7. ASSUME NEW w \in Client \cup {Own}, QueryFails(w)
      PROVE  ChainInv'
  BY <1>7, WebSame DEF QueryFails
<1>8. CASE UNCHANGED vars
  BY <1>8, WebSame DEF vars
<1>9. ASSUME NEW r \in Co \cup Caller, Stall(r)
      PROVE  ChainInv'
  <2>1. Web!WebTypeOK'
    BY <1>9 DEF ChainInv, Web!WebTypeOK, Stall, Web!Stall
  <2>2. OneRequest' /\ UNCHANGED chain
    BY <1>9 DEF ChainInv, OneRequest, Stall, Web!Stall
  <2> QED BY <2>1, <2>2, ChainRests
<1> QED BY <1>1, <1>2, <1>3, <1>4, <1>5, <1>6, <1>7, <1>8, <1>9 DEF Next

(* For any number of coroutines, remote services and callers: there is one *)
(* chain of heartbeats and registrations until a call raises an error, and *)
(* the variables keep their types.                                         *)
THEOREM ChainIsOne == Spec => []OneChain
<1> DEFINE Inv == RibbonInv /\ ChainInv
<1>1. Init => Inv
  BY RibbonInit, ChainInit
<1>2. Inv /\ [Next]_vars => Inv'
  BY RibbonStep, ChainStep DEF RibbonInv
<1>3. Inv => OneChain
  BY DEF RibbonInv, RibbonTypeOK, ChainInv, ChainTypeOK, Chain, Under, OneChain, TypeOK
<1> QED BY <1>1, <1>2, <1>3, PTL DEF Spec
=============================================================================
