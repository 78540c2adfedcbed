--------------------------- MODULE SessionProofs ---------------------------
(* Proofs about the Lua runtime of a service, for any set of coroutines    *)
(* and peers.                                                              *)
EXTENDS Session, FiniteSetTheorems, TLAPS

Sleepy == {"sleep", "wait", "queue"}
Waiting == Sleepy \cup {"call", "timeout"}
Resumed(c) == pc = "resumed" /\ running = c

(* ref counts the calls of the section of the one thread that is inside.   *)
SectionCount ==
    /\ \A c \in Co : depth[c] = IF c = current_thread THEN ref ELSE 0
    /\ current_thread = None => ref = 0
    /\ current_thread # None => MaxDepth > 0
    /\ \A c \in Co : at[c] = "queue" => MaxDepth > 0

RunningOK ==
    /\ pc = "user" => running \in Co /\ at[running] = "run"
    /\ pc = "resumed" => running \in Co /\ at[running] \in Waiting
    /\ \A c \in Co : c \in fork_queue <=> at[c] = "forked"

(* The coroutine that session_id_coroutine holds for a session waits for   *)
(* it, and for no other.                                                   *)
TablesOK ==
    /\ \A s \in Sessions : session_id_coroutine[s] \in Co =>
          /\ at[session_id_coroutine[s]] \in Waiting
          /\ ~Resumed(session_id_coroutine[s])
    /\ \A s, r \in Sessions :
          session_id_coroutine[s] \in Co
             /\ session_id_coroutine[r] = session_id_coroutine[s] => r = s
    /\ \A c \in Co : at[c] \in Sleepy \cup {"call"} =>
          /\ waits[c] \in 1 .. session
          /\ session_id_coroutine[waits[c]] \in {c, BREAK, None}

SleepersOK == \A c \in Co :
    IF at[c] \in Sleepy
    THEN /\ sleep_session[c] = waits[c]
         /\ session_id_coroutine[waits[c]] = c \/ Resumed(c)
    ELSE sleep_session[c] = 0

(* A watched session is one that a call waits for.                         *)
Calls(c, s) == c \in Co /\ at[c] = "call" /\ waits[c] = s

WatchOK == \A s \in Sessions : watching_session[s] # None =>
    \/ Calls(session_id_coroutine[s], s)
    \/ pc = "resumed" /\ Calls(running, s)

(* Sessions that have not been drawn are nowhere.                          *)
UndrawnOK ==
    /\ \A s \in Sessions : s > session =>
          /\ session_id_coroutine[s] = None
          /\ watching_session[s] = None
          /\ s \notin timers /\ s \notin refused
          /\ \A p \in Peer : <<p, s>> \notin asked
    /\ \A i \in 1 .. Len(error_queue) : error_queue[i] <= session

Basics == TypeOK /\ SectionCount /\ RunningOK /\ TablesOK /\ SleepersOK /\ WatchOK
          /\ UndrawnOK

-----------------------------------------------------------------------------
(* Before the exit of the service every answer is awaited.                 *)
TimersOK == \A s \in timers :
    /\ session_id_coroutine[s] # None
    /\ watching_session[s] = None
    /\ \A p \in Peer : <<p, s>> \notin asked
    /\ ~Contains(error_queue, s)
    /\ \A c \in Co : at[c] \in {"wait", "queue"} => waits[c] # s

AskedOK == \A p \in Peer, s \in Sessions : <<p, s>> \in asked =>
    /\ watching_session[s] \in {p, None}
    /\ s \notin refused => session_id_coroutine[s] \in Co
    /\ session_id_coroutine[s] \in Co => watching_session[s] = p

ErrorQueueOK ==
    /\ \A i, j \in 1 .. Len(error_queue) : error_queue[i] = error_queue[j] => i = j
    /\ \A i \in 1 .. Len(error_queue) :
          /\ session_id_coroutine[error_queue[i]] \in Co
          /\ watching_session[error_queue[i]] # None
          /\ error_queue[i] \in refused \/ \A p \in Peer : <<p, error_queue[i]>> \notin asked

(* A call is about to end, or its peer has not ended it yet and has an     *)
(* answer to give.                                                         *)
EndingOK == \A s \in Sessions : watching_session[s] # None =>
    \/ s \notin refused /\ <<watching_session[s], s>> \in asked
    \/ Contains(error_queue, s)
    \/ pc = "resumed" /\ Calls(running, s)

(* What is due will be resumed before the next message.                    *)
DueOK(queue, labels) ==
    queue # <<>> => pc \in labels \/ (pc = "forks" /\ triggers > 0)

TurnOK ==
    /\ "session" \notin failed /\ unknown \subseteq refused
    /\ pc # "quit"
    /\ pc = "idle" => fork_queue = {}
    /\ DueOK(error_queue, {"wakeup", "error", "resumed", "user"})

CallsOK == ~exited => TimersOK /\ AskedOK /\ ErrorQueueOK /\ EndingOK /\ TurnOK

-----------------------------------------------------------------------------
(* And, as long as every wakeup means the sleep it ends:                   *)
WokenOK ==
    /\ \A i, j \in 1 .. Len(wakeup_queue) : wakeup_queue[i] = wakeup_queue[j] => i = j
    /\ \A i \in 1 .. Len(wakeup_queue) :
          /\ at[wakeup_queue[i]] \in Sleepy
          /\ ~Resumed(wakeup_queue[i])
          /\ at[wakeup_queue[i]] = "queue" =>
                ref = 0 /\ current_thread = wakeup_queue[i]
    /\ DueOK(wakeup_queue, {"wakeup", "resumed", "user"})

(* The section is free, occupied, or handed to a thread that is about to   *)
(* run.                                                                    *)
HandOverOK ==
    /\ "section" \notin failed
    /\ pc = "resumed" /\ at[running] = "queue" => ref = 0 /\ current_thread = running
    /\ current_thread # None /\ ref = 0 =>
          /\ at[current_thread] = "queue"
          /\ Contains(wakeup_queue, current_thread) \/ Resumed(current_thread)

ThreadQueueOK ==
    /\ thread_queue # <<>> => current_thread # None
    /\ \A i \in 1 .. Len(thread_queue) :
          at[thread_queue[i]] = "queue" /\ thread_queue[i] # current_thread
    /\ \A i, j \in 1 .. Len(thread_queue) :
          i < j => waits[thread_queue[i]] < waits[thread_queue[j]]

HandedOK == ~exited /\ ~stray => WokenOK /\ HandOverOK /\ ThreadQueueOK

-----------------------------------------------------------------------------
(* Where the answer to peer p is still to come from.                       *)
Open(p) == p \in unresponse \/ \E c \in Co : session_coroutine_id[c] = p

OneAnswer(p) ==
    /\ \A c, d \in Co : session_coroutine_id[c] = p /\ session_coroutine_id[d] = p => c = d
    /\ p \in unresponse => \A c \in Co : session_coroutine_id[c] # p
    /\ p \notin requests => replies[p] = 0 /\ ~Open(p)
    /\ replies[p] # 0 => replies[p] = 1 /\ ~Open(p)
    /\ p \in requests \ (forgotten \cup down) => replies[p] = 1 \/ Open(p)

AnswersOK ==
    /\ \A c \in Co : at[c] = "free" => session_coroutine_id[c] = None
    /\ ~exited => late = {} /\ \A p \in Peer : OneAnswer(p)
    /\ exited => \A p \in requests \ (forgotten \cup late \cup down) : replies[p] >= 1

-----------------------------------------------------------------------------
USE SessionAssumption DEF engine, tables, sleeping, calls, forks, section, world, served,
        vars, Sessions


(* The types of the variables, in the groups the actions change.           *)
EngineTyped ==
    pc \in Labels /\ running \in Co \cup {None} /\ frames \in Nat /\ at \in [Co -> Doing]
TablesTyped ==
    /\ waits \in [Co -> 0 .. MaxSession] /\ session \in 0 .. MaxSession
    /\ session_id_coroutine \in [Sessions -> Co \cup {None, BREAK}]
SleepTyped ==
    /\ sleep_session \in [Co -> 0 .. MaxSession]
    /\ wakeup_queue \in Seq(Co) /\ stray \in BOOLEAN
CallsTyped ==
    /\ watching_session \in [Sessions -> Peer \cup {None}]
    /\ error_queue \in Seq(Sessions)
ForksTyped == fork_queue \subseteq Co /\ triggers \in Nat
SectionTyped ==
    /\ current_thread \in Co \cup {None} /\ ref \in Nat /\ thread_queue \in Seq(Co)
    /\ depth \in [Co -> 0 .. MaxDepth]
WorldTyped ==
    /\ timers \subseteq Sessions /\ asked \subseteq Peer \X Sessions /\ down \subseteq Peer
    /\ refused \subseteq Sessions /\ unknown \subseteq Sessions
ServedTyped ==
    /\ session_coroutine_id \in [Co -> Peer \cup {None}] /\ unresponse \subseteq Peer
    /\ requests \subseteq Peer /\ late \subseteq Peer /\ forgotten \subseteq Peer
    /\ replies \in [Peer -> Nat]
HistoryTyped == exited \in BOOLEAN /\ failed \subseteq {"session", "section"}

Parts ==
    /\ EngineTyped /\ TablesTyped /\ SleepTyped /\ CallsTyped /\ ForksTyped
    /\ SectionTyped /\ WorldTyped /\ ServedTyped /\ HistoryTyped

(* The types, by tables.                                                   *)
LEMMA TypeParts == (TypeOK <=> Parts) /\ (TypeOK <=> Parts)'
BY
DEF TypeOK, Parts, EngineTyped, TablesTyped, SleepTyped, CallsTyped, ForksTyped,
    SectionTyped, WorldTyped, ServedTyped, HistoryTyped

(* The sessions watched on a peer, in some order, each once.               *)
LEMMA WatchedOrder ==
    ASSUME CallsTyped, NEW p \in Peer, NEW order \in SetToSeqs(Watched(p))
    PROVE  /\ order \in Seq(Sessions)
           /\ \A i, j \in 1 .. Len(order) : order[i] = order[j] => i = j
           /\ \A i \in 1 .. Len(order) : watching_session[order[i]] = p
           /\ \A s \in Sessions : watching_session[s] = p => Contains(order, s)
<1>. DEFINE W == Watched(p)
            D == 1 .. Cardinality(W)
<1>1. W \subseteq Sessions /\ \A s \in Sessions : s \in W <=> watching_session[s] = p
  BY DEF Watched
<1>2. IsFiniteSet(Sessions)
  BY FS_Interval
<1>3. IsFiniteSet(W) /\ Cardinality(W) \in Nat
  BY <1>1, <1>2, FS_Subset, FS_CardinalityType
<1>4. order \in [D -> W] /\ \A i, j \in D : i # j => order[i] # order[j]
  BY DEF SetToSeqs
<1>. HIDE DEF W
<1>5. IsFiniteSet(D) /\ Cardinality(D) = Cardinality(W)
  BY <1>3, FS_Interval
<1>6. order \in Surjection(D, W)
  BY <1>3, <1>4, <1>5, FS_Injection DEF Injection, IsInjective
<1>7. order \in Seq(W) /\ Len(order) = Cardinality(W)
  BY <1>3, <1>4
<1>8. \A s \in W : \E i \in D : order[i] = s
  BY <1>6 DEF Surjection
<1>9. \A i \in 1 .. Len(order) : order[i] \in W
  BY <1>7
<1>10. \A s \in Sessions : watching_session[s] = p => Contains(order, s)
  BY <1>1, <1>3, <1>7, <1>8 DEF Contains
<1>11. order \in Seq(Sessions)
  <2>1. order \in [D -> Sessions]
    BY <1>1, <1>4
  <2>. QED BY <1>3, <2>1
<1>. QED BY <1>1, <1>4, <1>7, <1>9, <1>10, <1>11

(* The types after a sleep ended.                                          *)
LEMMA WokenTyped ==
    ASSUME TablesTyped, SleepTyped, NEW c \in Co, Woken(c)
    PROVE  TablesTyped' /\ SleepTyped'
<1>1. session_id_coroutine' \in [Sessions -> Co \cup {None, BREAK}]
  <2>1. CASE at[c] = "sleep"
    BY <2>1 DEF Woken, TablesTyped
  <2>2. CASE at[c] # "sleep"
    BY <2>2 DEF Woken, TablesTyped
  <2>. QED BY <2>1, <2>2
<1>. QED BY <1>1 DEF Woken, TablesTyped, SleepTyped

(* The types after skynet.wakeup.                                          *)
LEMMA WakeTyped ==
    ASSUME SleepTyped, NEW token \in Co, NEW astray, Wake(token, astray)
    PROVE  wakeup_queue' \in Seq(Co) /\ stray' \in BOOLEAN
<1>1. wakeup_queue' \in Seq(Co)
  BY DEF Wake, SleepTyped
<1>2. stray' = stray \/ stray' = (stray \/ Contains(wakeup_queue, token) \/ at[token] \in astray)
  BY Zenon DEF Wake
<1>. QED BY <1>1, <1>2, Zenon DEF SleepTyped

(* Every step keeps the types.                                             *)
LEMMA TypesKept ==
    ASSUME Basics, [Next]_vars
    PROVE  TypeOK'
<1>p. Parts /\ SectionCount /\ RunningOK /\ SleepersOK /\ TablesOK
  BY TypeParts DEF Basics
<1>t. SUFFICES Parts'
  BY TypeParts
<1>0. CASE UNCHANGED vars
  BY <1>p, <1>0
  DEF Parts, EngineTyped, TablesTyped, SleepTyped, CallsTyped, ForksTyped,
      SectionTyped, WorldTyped, ServedTyped, HistoryTyped
<1>1. CASE dispatch_wakeup
  <2>1. EngineTyped'
    <3>1. CASE wakeup_queue = <<>> \/ sleep_session[Head(wakeup_queue)] = 0
      BY <1>p, <1>1, <3>1 DEF dispatch_wakeup, Go, Parts, EngineTyped, Labels
    <3>2. CASE ~(wakeup_queue = <<>> \/ sleep_session[Head(wakeup_queue)] = 0)
      <4>1. PICK c \in Co : c = Head(wakeup_queue)
        BY <1>p, <3>2 DEF Parts, SleepTyped
      <4>2. session_id_coroutine[sleep_session[c]] = c
        BY <1>p, <1>1, <3>2, <4>1 DEF SleepersOK, Resumed, dispatch_wakeup
      <4>. QED
        BY <1>p, <1>1, <3>2, <4>1, <4>2
        DEF dispatch_wakeup, Resume, Parts, EngineTyped, Labels
    <3>. QED BY <3>1, <3>2
  <2>2. TablesTyped'
    BY <1>p, <1>1 DEF dispatch_wakeup, Mark, Go, Resume, Parts, TablesTyped
  <2>3. SleepTyped'
    BY <1>p, <1>1 DEF dispatch_wakeup, Mark, Go, Resume, Parts, SleepTyped
  <2>4. CallsTyped' /\ ForksTyped' /\ SectionTyped' /\ WorldTyped' /\ ServedTyped' /\ HistoryTyped'
    BY <1>p, <1>1
    DEF dispatch_wakeup, Parts, CallsTyped, ForksTyped, SectionTyped, WorldTyped,
        ServedTyped, HistoryTyped
  <2>. QED BY <2>1, <2>2, <2>3, <2>4 DEF Parts
<1>2. CASE dispatch_error_queue
  <2>1. EngineTyped'
    BY <1>p, <1>2
    DEF dispatch_error_queue, Go, Resume, Parts, EngineTyped, Labels, Doing
  <2>2. TablesTyped'
    BY <1>p, <1>2 DEF dispatch_error_queue, Go, Resume, Parts, TablesTyped
  <2>3. CallsTyped'
    BY <1>p, <1>2 DEF dispatch_error_queue, Go, Resume, Parts, CallsTyped
  <2>4. HistoryTyped'
    BY <1>p, <1>2 DEF dispatch_error_queue, Go, Resume, Parts, HistoryTyped
  <2>5. SleepTyped' /\ ForksTyped' /\ SectionTyped' /\ WorldTyped' /\ ServedTyped'
    BY <1>p, <1>2
    DEF dispatch_error_queue, Parts, SleepTyped, ForksTyped, SectionTyped,
        WorldTyped, ServedTyped
  <2>. QED BY <2>1, <2>2, <2>3, <2>4, <2>5 DEF Parts
<1>3. CASE suspend_returns
  <2>1. EngineTyped'
    BY <1>p, <1>3
    DEF suspend_returns, Go, Resume, Parts, EngineTyped, Labels, Doing
  <2>2. TablesTyped' /\ SleepTyped' /\ CallsTyped' /\ ForksTyped' /\ SectionTyped' /\ WorldTyped' /\ ServedTyped' /\ HistoryTyped'
    BY <1>p, <1>3
    DEF suspend_returns, Parts, TablesTyped, SleepTyped, CallsTyped, ForksTyped,
        SectionTyped, WorldTyped, ServedTyped, HistoryTyped
  <2>. QED BY <2>1, <2>2 DEF Parts
<1>4. CASE dispatch_forks
  <2>1. EngineTyped'
    BY <1>p, <1>4
    DEF dispatch_forks, Go, Resume, Parts, EngineTyped, Labels, Doing, ForksTyped
  <2>2. ForksTyped'
    BY <1>p, <1>4 DEF dispatch_forks, Go, Resume, Parts, ForksTyped
  <2>3. TablesTyped' /\ SleepTyped' /\ CallsTyped' /\ SectionTyped' /\ WorldTyped' /\ ServedTyped' /\ HistoryTyped'
    BY <1>p, <1>4
    DEF dispatch_forks, Parts, TablesTyped, SleepTyped, CallsTyped, SectionTyped,
        WorldTyped, ServedTyped, HistoryTyped
  <2>. QED BY <2>1, <2>2, <2>3 DEF Parts
<1>5. ASSUME NEW p \in Peer, error_source_down(p)
      PROVE  Parts'
  <2>1. EngineTyped'
    BY <1>p, <1>5
    DEF error_source_down, Go, Resume, Parts, EngineTyped, Labels, Doing
  <2>2. CallsTyped'
    BY <1>p, <1>5, WatchedOrder DEF error_source_down, Parts, CallsTyped
  <2>3. WorldTyped'
    BY <1>p, <1>5 DEF error_source_down, Watched, Go, Resume, Parts, WorldTyped
  <2>4. ServedTyped'
    BY <1>p, <1>5 DEF error_source_down, Go, Resume, Parts, ServedTyped
  <2>5. TablesTyped' /\ SleepTyped' /\ ForksTyped' /\ SectionTyped' /\ HistoryTyped'
    BY <1>p, <1>5
    DEF error_source_down, Parts, TablesTyped, SleepTyped, ForksTyped,
        SectionTyped, HistoryTyped
  <2>. QED BY <2>1, <2>2, <2>3, <2>4, <2>5 DEF Parts
<1>6. ASSUME NEW p \in Peer, NEW c \in Co, request(p, c)
      PROVE  Parts'
  <2>1. EngineTyped'
    BY <1>p, <1>6 DEF request, Free, Go, Resume, Parts, EngineTyped, Labels, Doing
  <2>2. ServedTyped'
    BY <1>p, <1>6 DEF request, Free, Go, Resume, Parts, ServedTyped
  <2>3. TablesTyped' /\ SleepTyped' /\ CallsTyped' /\ ForksTyped' /\ SectionTyped' /\ WorldTyped' /\ HistoryTyped'
    BY <1>p, <1>6
    DEF request, Parts, TablesTyped, SleepTyped, CallsTyped, ForksTyped,
        SectionTyped, WorldTyped, HistoryTyped
  <2>. QED BY <2>1, <2>2, <2>3 DEF Parts
<1>7. ASSUME NEW s \in Sessions, timer_response(s)
      PROVE  Parts'
  <2>1. EngineTyped'
    BY <1>p, <1>7
    DEF timer_response, response, Go, Resume, Parts, EngineTyped, Labels, Doing
  <2>2. TablesTyped'
    BY <1>p, <1>7 DEF timer_response, response, Go, Resume, Parts, TablesTyped
  <2>3. WorldTyped'
    BY <1>p, <1>7 DEF timer_response, response, Go, Resume, Parts, WorldTyped
  <2>4. HistoryTyped'
    BY <1>p, <1>7 DEF timer_response, response, Go, Resume, Parts, HistoryTyped
  <2>5. SleepTyped' /\ CallsTyped' /\ ForksTyped' /\ SectionTyped' /\ ServedTyped'
    BY <1>p, <1>7
    DEF timer_response, response, Parts, SleepTyped, CallsTyped, ForksTyped,
        SectionTyped, ServedTyped
  <2>. QED BY <2>1, <2>2, <2>3, <2>4, <2>5 DEF Parts
<1>8. ASSUME NEW p \in Peer, NEW s \in Sessions, peer_response(p, s)
      PROVE  Parts'
  <2>1. EngineTyped'
    BY <1>p, <1>8
    DEF peer_response, response, Go, Resume, Parts, EngineTyped, Labels, Doing
  <2>2. TablesTyped'
    BY <1>p, <1>8 DEF peer_response, response, Go, Resume, Parts, TablesTyped
  <2>3. WorldTyped'
    BY <1>p, <1>8 DEF peer_response, response, Go, Resume, Parts, WorldTyped
  <2>4. HistoryTyped'
    BY <1>p, <1>8 DEF peer_response, response, Go, Resume, Parts, HistoryTyped
  <2>5. SleepTyped' /\ CallsTyped' /\ ForksTyped' /\ SectionTyped' /\ ServedTyped'
    BY <1>p, <1>8
    DEF peer_response, response, Parts, SleepTyped, CallsTyped, ForksTyped,
        SectionTyped, ServedTyped
  <2>. QED BY <2>1, <2>2, <2>3, <2>4, <2>5 DEF Parts
<1>9. ASSUME NEW p \in Peer, NEW s \in Sessions, _error_dispatch(p, s)
      PROVE  Parts'
  <2>1. EngineTyped'
    BY <1>p, <1>9
    DEF _error_dispatch, Go, Resume, Parts, EngineTyped, Labels, Doing
  <2>2. CallsTyped'
    <3>1. error_queue' \in {error_queue, Append(error_queue, s)}
      BY <1>9 DEF _error_dispatch
    <3>2. error_queue \in Seq(Sessions) /\ watching_session' = watching_session
      BY <1>p, <1>9 DEF _error_dispatch, Parts, CallsTyped
    <3>3. Append(error_queue, s) \in Seq(Sessions)
      BY <3>2
    <3>. QED BY <1>p, <3>1, <3>2, <3>3 DEF Parts, CallsTyped
  <2>3. WorldTyped'
    BY <1>p, <1>9 DEF _error_dispatch, Go, Resume, Parts, WorldTyped
  <2>4. TablesTyped' /\ SleepTyped' /\ ForksTyped' /\ SectionTyped' /\ ServedTyped' /\ HistoryTyped'
    BY <1>p, <1>9
    DEF _error_dispatch, Parts, TablesTyped, SleepTyped, ForksTyped, SectionTyped,
        ServedTyped, HistoryTyped
  <2>. QED BY <2>1, <2>2, <2>3, <2>4 DEF Parts
<1>10. ASSUME NEW c \in Co, sleep(c)
       PROVE  Parts'
  <2>1. EngineTyped'
    BY <1>p, <1>10
    DEF sleep, suspend_sleep, Yield, Go, Resume, Parts, EngineTyped, Labels, Doing
  <2>2. TablesTyped'
    BY <1>p, <1>10 DEF sleep, suspend_sleep, Yield, Go, Resume, Parts, TablesTyped
  <2>3. SleepTyped'
    BY <1>p, <1>10
    DEF sleep, suspend_sleep, Yield, Go, Resume, Parts, SleepTyped, TablesTyped
  <2>4. WorldTyped'
    BY <1>p, <1>10
    DEF sleep, suspend_sleep, Yield, Go, Resume, Parts, WorldTyped, TablesTyped
  <2>5. CallsTyped' /\ ForksTyped' /\ SectionTyped' /\ ServedTyped' /\ HistoryTyped'
    BY <1>p, <1>10
    DEF sleep, suspend_sleep, Yield, Parts, CallsTyped, ForksTyped, SectionTyped,
        ServedTyped, HistoryTyped
  <2>. QED BY <2>1, <2>2, <2>3, <2>4, <2>5 DEF Parts
<1>11. ASSUME NEW c \in Co, wait(c)
       PROVE  Parts'
  <2>1. EngineTyped'
    BY <1>p, <1>11
    DEF wait, suspend_sleep, Yield, Go, Resume, Parts, EngineTyped, Labels, Doing
  <2>2. TablesTyped'
    BY <1>p, <1>11 DEF wait, suspend_sleep, Yield, Go, Resume, Parts, TablesTyped
  <2>3. SleepTyped'
    BY <1>p, <1>11
    DEF wait, suspend_sleep, Yield, Go, Resume, Parts, SleepTyped, TablesTyped
  <2>4. CallsTyped' /\ ForksTyped' /\ SectionTyped' /\ WorldTyped' /\ ServedTyped' /\ HistoryTyped'
    BY <1>p, <1>11
    DEF wait, suspend_sleep, Yield, Parts, CallsTyped, ForksTyped, SectionTyped,
        WorldTyped, ServedTyped, HistoryTyped
  <2>. QED BY <2>1, <2>2, <2>3, <2>4 DEF Parts
<1>12. ASSUME NEW c \in Co, ret(c)
       PROVE  Parts'
  <2>1. ServedTyped'
    BY <1>p, <1>12 DEF ret, Reply, Go, Resume, Parts, ServedTyped
  <2>2. EngineTyped' /\ TablesTyped' /\ SleepTyped' /\ CallsTyped' /\ ForksTyped' /\ SectionTyped' /\ WorldTyped' /\ HistoryTyped'
    BY <1>p, <1>12
    DEF ret, Parts, EngineTyped, TablesTyped, SleepTyped, CallsTyped, ForksTyped,
        SectionTyped, WorldTyped, HistoryTyped
  <2>. QED BY <2>1, <2>2 DEF Parts
<1>13. ASSUME NEW c \in Co, make_response(c)
       PROVE  Parts'
  <2>1. ServedTyped'
    BY <1>p, <1>13 DEF make_response, Owes, Go, Resume, Parts, ServedTyped
  <2>2. EngineTyped' /\ TablesTyped' /\ SleepTyped' /\ CallsTyped' /\ ForksTyped' /\ SectionTyped' /\ WorldTyped' /\ HistoryTyped'
    BY <1>p, <1>13
    DEF make_response, Parts, EngineTyped, TablesTyped, SleepTyped, CallsTyped,
        ForksTyped, SectionTyped, WorldTyped, HistoryTyped
  <2>. QED BY <2>1, <2>2 DEF Parts
<1>14. ASSUME NEW c \in Co, ends(c)
       PROVE  Parts'
  <2>1. EngineTyped'
    BY <1>p, <1>14 DEF ends, Go, Resume, Parts, EngineTyped, Labels, Doing
  <2>2. ServedTyped'
    BY <1>p, <1>14 DEF ends, Go, Resume, Parts, ServedTyped
  <2>3. TablesTyped' /\ SleepTyped' /\ CallsTyped' /\ ForksTyped' /\ SectionTyped' /\ WorldTyped' /\ HistoryTyped'
    BY <1>p, <1>14
    DEF ends, Parts, TablesTyped, SleepTyped, CallsTyped, ForksTyped,
        SectionTyped, WorldTyped, HistoryTyped
  <2>. QED BY <2>1, <2>2, <2>3 DEF Parts
<1>15. ASSUME NEW c \in Co, fails(c)
       PROVE  Parts'
  <2>1. EngineTyped'
    BY <1>p, <1>15
    DEF fails, Unwind, Reply, Trigger, Go, Resume, Parts, EngineTyped, Labels,
        Doing
  <2>2. ServedTyped'
    BY <1>p, <1>15
    DEF fails, Unwind, Reply, Trigger, Go, Resume, Parts, ServedTyped
  <2>3. ForksTyped'
    BY <1>p, <1>15
    DEF fails, Unwind, Reply, Trigger, Go, Resume, Parts, ForksTyped
  <2>4. TablesTyped' /\ SleepTyped' /\ CallsTyped' /\ SectionTyped' /\ WorldTyped' /\ HistoryTyped'
    BY <1>p, <1>15
    DEF fails, Unwind, Parts, TablesTyped, SleepTyped, CallsTyped, SectionTyped,
        WorldTyped, HistoryTyped
  <2>. QED BY <2>1, <2>2, <2>3, <2>4 DEF Parts
<1>16. ASSUME NEW c \in Co, exit(c)
       PROVE  Parts'
  <2>1. EngineTyped'
    BY <1>p, <1>16 DEF exit, Go, Resume, Parts, EngineTyped, Labels, Doing
  <2>2. ServedTyped'
    <3>1. \A p \in Peer : Cardinality({d \in Co : session_coroutine_id[d] = p}) \in Nat
      <4>. TAKE p \in Peer
      <4>1. IsFiniteSet({d \in Co : session_coroutine_id[d] = p})
        BY FS_Subset
      <4>. QED BY <4>1, FS_CardinalityType
    <3>. QED BY <1>p, <1>16, <3>1 DEF exit, Parts, ServedTyped
  <2>3. ForksTyped'
    BY <1>p, <1>16 DEF exit, Go, Resume, Parts, ForksTyped
  <2>4. HistoryTyped'
    BY <1>p, <1>16 DEF exit, Go, Resume, Parts, HistoryTyped
  <2>5. TablesTyped' /\ SleepTyped' /\ CallsTyped' /\ SectionTyped' /\ WorldTyped'
    BY <1>p, <1>16
    DEF exit, Parts, TablesTyped, SleepTyped, CallsTyped, SectionTyped, WorldTyped
  <2>. QED BY <2>1, <2>2, <2>3, <2>4, <2>5 DEF Parts
<1>17. ASSUME NEW c \in Co, after_sleep(c)
       PROVE  Parts'
  <2>1. EngineTyped'
    BY <1>p, <1>17
    DEF after_sleep, Woken, Go, Resume, Parts, EngineTyped, Labels, Doing
  <2>2. TablesTyped'
    BY <1>p, <1>17, WokenTyped DEF after_sleep, Parts
  <2>3. SleepTyped'
    BY <1>p, <1>17, WokenTyped DEF after_sleep, Parts
  <2>4. CallsTyped' /\ ForksTyped' /\ SectionTyped' /\ WorldTyped' /\ ServedTyped' /\ HistoryTyped'
    BY <1>p, <1>17
    DEF after_sleep, Woken, Parts, CallsTyped, ForksTyped, SectionTyped,
        WorldTyped, ServedTyped, HistoryTyped
  <2>. QED BY <2>1, <2>2, <2>3, <2>4 DEF Parts
<1>18. ASSUME NEW c \in Co, after_call(c)
       PROVE  Parts'
  <2>1. EngineTyped'
    BY <1>p, <1>18 DEF after_call, Go, Resume, Parts, EngineTyped, Labels, Doing
  <2>2. TablesTyped'
    BY <1>p, <1>18 DEF after_call, Go, Resume, Parts, TablesTyped
  <2>3. CallsTyped'
    BY <1>p, <1>18 DEF after_call, Go, Resume, Parts, CallsTyped
  <2>4. SleepTyped' /\ ForksTyped' /\ SectionTyped' /\ WorldTyped' /\ ServedTyped' /\ HistoryTyped'
    BY <1>p, <1>18
    DEF after_call, Parts, SleepTyped, ForksTyped, SectionTyped, WorldTyped,
        ServedTyped, HistoryTyped
  <2>. QED BY <2>1, <2>2, <2>3, <2>4 DEF Parts
<1>19. ASSUME NEW c \in Co, enter(c)
       PROVE  Parts'
  <2>1. SectionTyped'
    BY <1>p, <1>19 DEF enter, Inside, Go, Resume, Parts, SectionTyped
  <2>2. EngineTyped' /\ TablesTyped' /\ SleepTyped' /\ CallsTyped' /\ ForksTyped' /\ WorldTyped' /\ ServedTyped' /\ HistoryTyped'
    BY <1>p, <1>19
    DEF enter, Inside, Parts, EngineTyped, TablesTyped, SleepTyped, CallsTyped,
        ForksTyped, WorldTyped, ServedTyped, HistoryTyped
  <2>. QED BY <2>1, <2>2 DEF Parts
<1>20. ASSUME NEW c \in Co, enter_waits(c)
       PROVE  Parts'
  <2>1. EngineTyped'
    BY <1>p, <1>20
    DEF enter_waits, suspend_sleep, Yield, Go, Resume, Parts, EngineTyped, Labels,
        Doing
  <2>2. TablesTyped'
    BY <1>p, <1>20
    DEF enter_waits, suspend_sleep, Yield, Go, Resume, Parts, TablesTyped
  <2>3. SleepTyped'
    BY <1>p, <1>20
    DEF enter_waits, suspend_sleep, Yield, Go, Resume, Parts, SleepTyped,
        TablesTyped
  <2>4. SectionTyped'
    BY <1>p, <1>20
    DEF enter_waits, suspend_sleep, Yield, Go, Resume, Parts, SectionTyped
  <2>5. CallsTyped' /\ ForksTyped' /\ WorldTyped' /\ ServedTyped' /\ HistoryTyped'
    BY <1>p, <1>20
    DEF enter_waits, suspend_sleep, Yield, Parts, CallsTyped, ForksTyped,
        WorldTyped, ServedTyped, HistoryTyped
  <2>. QED BY <2>1, <2>2, <2>3, <2>4, <2>5 DEF Parts
<1>21. ASSUME NEW c \in Co, after_queue(c)
       PROVE  Parts'
  <2>1. EngineTyped'
    BY <1>p, <1>21
    DEF after_queue, Woken, Inside, Unwind, Reply, Trigger, Go, Resume, Parts,
        EngineTyped, Labels, Doing
  <2>2. TablesTyped'
    BY <1>p, <1>21, WokenTyped DEF after_queue, Parts
  <2>3. SleepTyped'
    BY <1>p, <1>21, WokenTyped DEF after_queue, Parts
  <2>4. SectionTyped'
    <3>1. CASE ref = 0 /\ Inside(c) /\ UNCHANGED thread_queue
      <4>1. depth[c] = 0 /\ MaxDepth > 0
        BY <1>p, <1>21, <3>1 DEF after_queue, SectionCount, Parts
      <4>2. depth' = [depth EXCEPT ![c] = 1] /\ ref' = 1
        BY <1>p, <3>1, <4>1 DEF Inside, Parts, SectionTyped
      <4>. QED BY <1>p, <3>1, <4>1, <4>2 DEF Inside, Parts, SectionTyped
    <3>2. CASE UNCHANGED section
      BY <1>p, <3>2 DEF Parts, SectionTyped
    <3>. QED BY <1>21, <3>1, <3>2 DEF after_queue
  <2>5. ForksTyped'
    BY <1>p, <1>21
    DEF after_queue, Woken, Inside, Unwind, Reply, Trigger, Go, Resume, Parts,
        ForksTyped
  <2>6. ServedTyped'
    BY <1>p, <1>21
    DEF after_queue, Woken, Inside, Unwind, Reply, Trigger, Go, Resume, Parts,
        ServedTyped
  <2>7. HistoryTyped'
    BY <1>p, <1>21
    DEF after_queue, Woken, Inside, Unwind, Reply, Trigger, Go, Resume, Parts,
        HistoryTyped
  <2>8. CallsTyped' /\ WorldTyped'
    BY <1>p, <1>21
    DEF after_queue, Woken, Inside, Unwind, Parts, CallsTyped, WorldTyped
  <2>. QED BY <2>1, <2>2, <2>3, <2>4, <2>5, <2>6, <2>7, <2>8 DEF Parts
<1>22. ASSUME NEW c \in Co, leave(c)
       PROVE  Parts'
  <2>1. SleepTyped'
    <3>1. CASE UNCHANGED <<wakeup_queue, stray>>
      BY <1>p, <1>22, <3>1 DEF leave, Parts, SleepTyped
    <3>2. CASE thread_queue # <<>> /\ Wake(Head(thread_queue), {})
      <4>1. Head(thread_queue) \in Co
        BY <1>p, <3>2 DEF Parts, SectionTyped
      <4>. QED BY <1>p, <1>22, <3>2, <4>1, WakeTyped DEF leave, Parts, SleepTyped
    <3>. QED BY <1>22, <3>1, <3>2 DEF leave
  <2>2. SectionTyped'
    <3>1. ref \in Nat /\ depth[c] = ref /\ ref > 0
      BY <1>p, <1>22 DEF leave, SectionCount, Parts, SectionTyped
    <3>2. depth' = [depth EXCEPT ![c] = ref - 1] /\ ref' = ref - 1
      BY <1>22, <3>1 DEF leave
    <3>3. current_thread' \in {current_thread, Heir}
          /\ \/ thread_queue' = thread_queue
             \/ thread_queue # <<>> /\ thread_queue' = Tail(thread_queue)
             \/ thread_queue' = <<>>
      BY <1>22 DEF leave
    <3>4. Heir \in Co \cup {None}
      BY <1>p DEF Heir, Parts, SectionTyped
    <3>5. thread_queue' \in Seq(Co)
      <4>1. thread_queue \in Seq(Co)
        BY <1>p DEF Parts, SectionTyped
      <4>2. thread_queue # <<>> => Tail(thread_queue) \in Seq(Co)
        BY <4>1
      <4>3. <<>> \in Seq(Co)
        OBVIOUS
      <4>. QED BY <3>3, <4>1, <4>2, <4>3, Zenon
    <3>6. ref - 1 \in 0 .. MaxDepth
      BY <1>p, <3>1 DEF Parts, SectionTyped
    <3>7. depth' \in [Co -> 0 .. MaxDepth]
      BY <1>p, <3>2, <3>6 DEF Parts, SectionTyped
    <3>8. current_thread' \in Co \cup {None}
      BY <1>p, <3>3, <3>4 DEF Parts, SectionTyped
    <3>. QED BY <3>1, <3>2, <3>5, <3>7, <3>8 DEF SectionTyped
  <2>3. EngineTyped' /\ TablesTyped' /\ CallsTyped' /\ ForksTyped' /\ WorldTyped' /\ ServedTyped' /\ HistoryTyped'
    BY <1>p, <1>22
    DEF leave, Parts, EngineTyped, TablesTyped, CallsTyped, ForksTyped,
        WorldTyped, ServedTyped, HistoryTyped
  <2>. QED BY <2>1, <2>2, <2>3 DEF Parts
<1>23. ASSUME NEW c \in Co, NEW p \in Peer, yield_call(c, p)
       PROVE  Parts'
  <2>1. EngineTyped'
    BY <1>p, <1>23
    DEF yield_call, Yield, Go, Resume, Parts, EngineTyped, Labels, Doing
  <2>2. TablesTyped'
    BY <1>p, <1>23 DEF yield_call, Yield, Go, Resume, Parts, TablesTyped
  <2>3. CallsTyped'
    BY <1>p, <1>23
    DEF yield_call, Yield, Go, Resume, Parts, CallsTyped, TablesTyped
  <2>4. WorldTyped'
    BY <1>p, <1>23
    DEF yield_call, Yield, Go, Resume, Parts, WorldTyped, TablesTyped
  <2>5. SleepTyped' /\ ForksTyped' /\ SectionTyped' /\ ServedTyped' /\ HistoryTyped'
    BY <1>p, <1>23
    DEF yield_call, Yield, Parts, SleepTyped, ForksTyped, SectionTyped,
        ServedTyped, HistoryTyped
  <2>. QED BY <2>1, <2>2, <2>3, <2>4, <2>5 DEF Parts
<1>24. ASSUME NEW c \in Co, NEW p \in Peer, respond(c, p)
       PROVE  Parts'
  <2>1. ServedTyped'
    BY <1>p, <1>24 DEF respond, Reply, Go, Resume, Parts, ServedTyped
  <2>2. EngineTyped' /\ TablesTyped' /\ SleepTyped' /\ CallsTyped' /\ ForksTyped' /\ SectionTyped' /\ WorldTyped' /\ HistoryTyped'
    BY <1>p, <1>24
    DEF respond, Parts, EngineTyped, TablesTyped, SleepTyped, CallsTyped,
        ForksTyped, SectionTyped, WorldTyped, HistoryTyped
  <2>. QED BY <2>1, <2>2 DEF Parts
<1>25. ASSUME NEW c \in Co, NEW d \in Co, timeout(c, d)
       PROVE  Parts'
  <2>1. EngineTyped'
    BY <1>p, <1>25
    DEF timeout, Free, Go, Resume, Parts, EngineTyped, Labels, Doing
  <2>2. TablesTyped'
    BY <1>p, <1>25 DEF timeout, Free, Go, Resume, Parts, TablesTyped
  <2>3. WorldTyped'
    BY <1>p, <1>25 DEF timeout, Free, Go, Resume, Parts, WorldTyped, TablesTyped
  <2>4. SleepTyped' /\ CallsTyped' /\ ForksTyped' /\ SectionTyped' /\ ServedTyped' /\ HistoryTyped'
    BY <1>p, <1>25
    DEF timeout, Parts, SleepTyped, CallsTyped, ForksTyped, SectionTyped,
        ServedTyped, HistoryTyped
  <2>. QED BY <2>1, <2>2, <2>3, <2>4 DEF Parts
<1>26. ASSUME NEW c \in Co, NEW d \in Co, fork(c, d)
       PROVE  Parts'
  <2>1. EngineTyped'
    BY <1>p, <1>26 DEF fork, Free, Go, Resume, Parts, EngineTyped, Labels, Doing
  <2>2. ForksTyped'
    BY <1>p, <1>26 DEF fork, Free, Go, Resume, Parts, ForksTyped
  <2>3. TablesTyped' /\ SleepTyped' /\ CallsTyped' /\ SectionTyped' /\ WorldTyped' /\ ServedTyped' /\ HistoryTyped'
    BY <1>p, <1>26
    DEF fork, Parts, TablesTyped, SleepTyped, CallsTyped, SectionTyped,
        WorldTyped, ServedTyped, HistoryTyped
  <2>. QED BY <2>1, <2>2, <2>3 DEF Parts
<1>27. ASSUME NEW c \in Co, NEW d \in Co, wakeup(c, d)
       PROVE  Parts'
  <2>1. SleepTyped'
    BY <1>p, <1>27, WakeTyped DEF wakeup, Parts, SleepTyped
  <2>2. EngineTyped' /\ TablesTyped' /\ CallsTyped' /\ ForksTyped' /\ SectionTyped' /\ WorldTyped' /\ ServedTyped' /\ HistoryTyped'
    BY <1>p, <1>27
    DEF wakeup, Parts, EngineTyped, TablesTyped, CallsTyped, ForksTyped,
        SectionTyped, WorldTyped, ServedTyped, HistoryTyped
  <2>. QED BY <2>1, <2>2 DEF Parts
<1>. QED BY <1>p, <1>0, <1>1, <1>2, <1>3, <1>4, <1>5, <1>6, <1>7, <1>8, <1>9,
     <1>10, <1>11, <1>12, <1>13, <1>14, <1>15, <1>16, <1>17, <1>18, <1>19,
     <1>20, <1>21, <1>22, <1>23, <1>24, <1>25, <1>26, <1>27
     DEF Next, Engine, Message, Coroutine

-----------------------------------------------------------------------------
(* Lists and steps.                                                        *)

(* What is in a queue after its first has been taken, or a last has come.  *)
LEMMA TailContains ==
    ASSUME NEW S, NEW q \in Seq(S), q # <<>>
    PROVE  /\ Tail(q) \in Seq(S) /\ Len(Tail(q)) = Len(q) - 1
           /\ \A i \in 1 .. Len(Tail(q)) : Tail(q)[i] = q[i + 1] /\ i + 1 \in 1 .. Len(q)
           /\ \A r : Contains(q, r) => r = Head(q) \/ Contains(Tail(q), r)
<1>1. Tail(q) \in Seq(S) /\ Len(Tail(q)) = Len(q) - 1
      /\ \A i \in 1 .. Len(Tail(q)) : Tail(q)[i] = q[i + 1] /\ i + 1 \in 1 .. Len(q)
  OBVIOUS
<1>2. ASSUME NEW r, Contains(q, r), r # Head(q) PROVE Contains(Tail(q), r)
  <2>1. PICK i \in 1 .. Len(q) : q[i] = r
    BY <1>2 DEF Contains
  <2>2. i # 1 /\ i - 1 \in 1 .. Len(Tail(q)) /\ (i - 1) + 1 = i
    BY <1>1, <1>2, <2>1
  <2>3. Tail(q)[i - 1] = r
    BY <1>1, <2>1, <2>2
  <2>. QED BY <2>2, <2>3 DEF Contains
<1>. QED BY <1>1, <1>2

(* dispatch_wakeup resumes a coroutine that sleeps, if it resumes one.     *)
LEMMA WakeupStep ==
    ASSUME Basics, dispatch_wakeup
    PROVE  /\ pc = "wakeup" /\ UNCHANGED <<at, waits, session>>
           /\ \/ pc' = "error" /\ running' = None /\ UNCHANGED session_id_coroutine
              \/ \E c \in Co :
                    /\ wakeup_queue # <<>> /\ c = Head(wakeup_queue)
                    /\ pc' = "resumed" /\ running' = c
                    /\ at[c] \in Sleepy /\ waits[c] \in Sessions
                    /\ session_id_coroutine[waits[c]] = c
                    /\ session_id_coroutine' =
                          [session_id_coroutine EXCEPT ![waits[c]] = BREAK]
<1>p. EngineTyped /\ TablesTyped /\ SleepTyped /\ TablesOK /\ SleepersOK
  BY TypeParts DEF Basics, Parts
<1>1. pc = "wakeup" /\ UNCHANGED <<at, waits, session>>
  BY DEF dispatch_wakeup
<1>2. CASE wakeup_queue = <<>> \/ sleep_session[Head(wakeup_queue)] = 0
  BY <1>1, <1>2 DEF dispatch_wakeup, Go
<1>3. CASE ~(wakeup_queue = <<>> \/ sleep_session[Head(wakeup_queue)] = 0)
  <2>1. PICK c \in Co : c = Head(wakeup_queue)
    BY <1>p, <1>3 DEF SleepTyped
  <2>2. at[c] \in Sleepy /\ sleep_session[c] = waits[c]
        /\ session_id_coroutine[waits[c]] = c
    BY <1>p, <1>1, <1>3, <2>1 DEF SleepersOK, Resumed
  <2>3. waits[c] \in Sessions
    BY <1>p, <2>2 DEF TablesOK, TablesTyped
  <2>. QED BY <1>1, <1>3, <2>1, <2>2, <2>3 DEF dispatch_wakeup, Resume, Mark
<1>. QED BY <1>2, <1>3

(* dispatch_error_queue takes a session off the table.                     *)
LEMMA ErrorStep ==
    ASSUME Basics, dispatch_error_queue
    PROVE  \E s \in Sessions :
              /\ pc = "error" /\ error_queue # <<>> /\ s = Head(error_queue)
              /\ UNCHANGED <<at, waits, session>>
              /\ session_id_coroutine' = [session_id_coroutine EXCEPT ![s] = None]
              /\ \/ /\ session_id_coroutine[s] \in Co
                    /\ pc' = "resumed" /\ running' = session_id_coroutine[s]
                    /\ UNCHANGED failed
                 \/ /\ session_id_coroutine[s] \notin Co
                    /\ pc' = "forks" /\ running' = None
<1>1. CallsTyped
  BY TypeParts DEF Basics, Parts
<1>2. PICK s \in Sessions : s = Head(error_queue)
  BY <1>1 DEF dispatch_error_queue, CallsTyped
<1>. QED BY <1>2 DEF dispatch_error_queue, Go, Resume

(* Yielding on a new session.                                              *)
LEMMA YieldTables ==
    ASSUME Basics, NEW c \in Co, NEW why \in Sleepy \cup {"call"},
           Runs(c), Yield(c, why)
    PROVE  TablesOK'
<1>p. EngineTyped /\ TablesTyped /\ RunningOK /\ TablesOK /\ UndrawnOK
  BY TypeParts DEF Basics, Parts
<1>. DEFINE new == session + 1
<1>1. new \in Sessions /\ new > session /\ session' = new
      /\ session_id_coroutine[new] = None /\ at[c] = "run"
  BY <1>p DEF Yield, Runs, TablesTyped, UndrawnOK, RunningOK
<1>2. at' = [at EXCEPT ![c] = why] /\ waits' = [waits EXCEPT ![c] = new]
      /\ session_id_coroutine' = [session_id_coroutine EXCEPT ![new] = c]
      /\ pc' = "wakeup"
  BY DEF Yield, Go
<1>3. \A s \in Sessions : session_id_coroutine[s] # c
  BY <1>p, <1>1 DEF TablesOK, Waiting, Sleepy
<1>4. \A s \in Sessions : session_id_coroutine'[s] =
         IF s = new THEN c ELSE session_id_coroutine[s]
  BY <1>p, <1>1, <1>2 DEF TablesTyped
<1>5. \A d \in Co : at'[d] = (IF d = c THEN why ELSE at[d])
         /\ waits'[d] = (IF d = c THEN new ELSE waits[d])
  BY <1>p, <1>2 DEF TablesTyped, EngineTyped
<1>. HIDE DEF new
<1>6. \A s \in Sessions : session_id_coroutine'[s] \in Co =>
         at'[session_id_coroutine'[s]] \in Waiting
  BY <1>p, <1>1, <1>4, <1>5 DEF TablesOK, Waiting
<1>7. \A s, r \in Sessions : session_id_coroutine'[s] \in Co
         /\ session_id_coroutine'[r] = session_id_coroutine'[s] => r = s
  BY <1>p, <1>3, <1>4 DEF TablesOK
<1>8. ASSUME NEW d \in Co, at'[d] \in Sleepy \cup {"call"}
      PROVE  waits'[d] \in 1 .. session'
             /\ session_id_coroutine'[waits'[d]] \in {d, BREAK, None}
  <2>1. CASE d = c
    BY <1>1, <1>4, <1>5, <2>1
  <2>2. CASE d # c
    <3>1. waits'[d] = waits[d] /\ waits[d] \in 1 .. session
          /\ session_id_coroutine[waits[d]] \in {d, BREAK, None}
      BY <1>p, <1>5, <1>8, <2>2 DEF TablesOK
    <3>2. waits[d] \in Sessions /\ waits[d] # new /\ waits[d] \in 1 .. session'
      BY <1>p, <1>1, <3>1 DEF TablesTyped
    <3>. QED BY <1>4, <3>1, <3>2
  <2>. QED BY <2>1, <2>2
<1>. QED BY <1>2, <1>6, <1>7, <1>8 DEF TablesOK, Resumed

(* A coroutine sleeps, on one session, until it is resumed.                *)
Stay == \A d \in Co : at[d] \in Sleepy /\ ~Resumed(d) =>
            at'[d] = at[d] /\ waits'[d] = waits[d]

-----------------------------------------------------------------------------

(* Only the thread inside is counted, whichever way it came in.          *)
LEMMA SectionKept ==
    ASSUME Basics, [Next]_vars
    PROVE  SectionCount'
<1>p. EngineTyped /\ SectionTyped /\ SectionCount /\ RunningOK
  BY TypeParts DEF Basics, Parts
<1>0. CASE UNCHANGED vars
  BY <1>p, <1>0 DEF SectionCount
<1>1. CASE dispatch_wakeup
  BY <1>p, <1>1 DEF dispatch_wakeup, Mark, Go, Resume, SectionCount
<1>2. CASE dispatch_error_queue
  BY <1>p, <1>2 DEF dispatch_error_queue, Go, Resume, SectionCount
<1>3. CASE suspend_returns
  BY <1>p, <1>3 DEF suspend_returns, Go, Resume, SectionCount
<1>4. CASE dispatch_forks
  BY <1>p, <1>4
  DEF dispatch_forks, Go, Resume, EngineTyped, SectionTyped, SectionCount
<1>5. ASSUME NEW p \in Peer, error_source_down(p)
      PROVE  SectionCount'
  BY <1>p, <1>5 DEF error_source_down, Go, Resume, SectionCount
<1>6. ASSUME NEW p \in Peer, NEW c \in Co, request(p, c)
      PROVE  SectionCount'
  BY <1>p, <1>6 DEF request, Free, Go, Resume, SectionCount
<1>7. ASSUME NEW s \in Sessions, timer_response(s)
      PROVE  SectionCount'
  BY <1>p, <1>7 DEF timer_response, response, Go, Resume, SectionCount
<1>8. ASSUME NEW p \in Peer, NEW s \in Sessions, peer_response(p, s)
      PROVE  SectionCount'
  BY <1>p, <1>8 DEF peer_response, response, Go, Resume, SectionCount
<1>9. ASSUME NEW p \in Peer, NEW s \in Sessions, _error_dispatch(p, s)
      PROVE  SectionCount'
  BY <1>p, <1>9 DEF _error_dispatch, Go, Resume, SectionCount
<1>10. ASSUME NEW c \in Co, sleep(c)
       PROVE  SectionCount'
  BY <1>p, <1>10 DEF sleep, suspend_sleep, Yield, Go, Resume, Runs, SectionCount
<1>11. ASSUME NEW c \in Co, wait(c)
       PROVE  SectionCount'
  BY <1>p, <1>11 DEF wait, suspend_sleep, Yield, Go, Resume, Runs, SectionCount
<1>12. ASSUME NEW c \in Co, ret(c)
       PROVE  SectionCount'
  BY <1>p, <1>12 DEF ret, Reply, Runs, SectionCount
<1>13. ASSUME NEW c \in Co, make_response(c)
       PROVE  SectionCount'
  BY <1>p, <1>13 DEF make_response, Owes, Runs, SectionCount
<1>14. ASSUME NEW c \in Co, ends(c)
       PROVE  SectionCount'
  BY <1>p, <1>14 DEF ends, Go, Resume, Runs, SectionCount
<1>15. ASSUME NEW c \in Co, fails(c)
       PROVE  SectionCount'
  BY <1>p, <1>15 DEF fails, Unwind, Reply, Trigger, Go, Resume, Runs, SectionCount
<1>16. ASSUME NEW c \in Co, exit(c)
       PROVE  SectionCount'
  BY <1>p, <1>16 DEF exit, Go, Resume, Runs, SectionCount
<1>17. ASSUME NEW c \in Co, after_sleep(c)
       PROVE  SectionCount'
  BY <1>p, <1>17 DEF after_sleep, Woken, Go, Resume, SectionCount
<1>18. ASSUME NEW c \in Co, after_call(c)
       PROVE  SectionCount'
  BY <1>p, <1>18 DEF after_call, Go, Resume, SectionCount
<1>19. ASSUME NEW c \in Co, enter(c)
       PROVE  SectionCount'
  BY <1>p, <1>19 DEF enter, Inside, Runs, EngineTyped, SectionTyped, SectionCount
<1>20. ASSUME NEW c \in Co, enter_waits(c)
       PROVE  SectionCount'
  BY <1>p, <1>20
  DEF enter_waits, suspend_sleep, Yield, Go, Resume, Runs, SectionCount
<1>21. ASSUME NEW c \in Co, after_queue(c)
       PROVE  SectionCount'
  BY <1>p, <1>21
  DEF after_queue, Woken, Inside, Unwind, Reply, Trigger, Go, Resume, EngineTyped,
      SectionTyped, SectionCount
<1>22. ASSUME NEW c \in Co, leave(c)
       PROVE  SectionCount'
  BY <1>p, <1>22
  DEF leave, Heir, Wake, Runs, EngineTyped, SectionTyped, SectionCount
<1>23. ASSUME NEW c \in Co, NEW p \in Peer, yield_call(c, p)
       PROVE  SectionCount'
  BY <1>p, <1>23 DEF yield_call, Yield, Go, Resume, Runs, SectionCount
<1>24. ASSUME NEW c \in Co, NEW p \in Peer, respond(c, p)
       PROVE  SectionCount'
  BY <1>p, <1>24 DEF respond, Reply, Runs, SectionCount
<1>25. ASSUME NEW c \in Co, NEW d \in Co, timeout(c, d)
       PROVE  SectionCount'
  BY <1>p, <1>25 DEF timeout, Free, Runs, SectionCount
<1>26. ASSUME NEW c \in Co, NEW d \in Co, fork(c, d)
       PROVE  SectionCount'
  BY <1>p, <1>26 DEF fork, Free, Runs, SectionCount
<1>27. ASSUME NEW c \in Co, NEW d \in Co, wakeup(c, d)
       PROVE  SectionCount'
  BY <1>p, <1>27 DEF wakeup, Wake, Runs, SectionCount
<1>. QED BY <1>0, <1>1, <1>2, <1>3, <1>4, <1>5, <1>6, <1>7, <1>8, <1>9, <1>10,
     <1>11, <1>12, <1>13, <1>14, <1>15, <1>16, <1>17, <1>18, <1>19, <1>20,
     <1>21, <1>22, <1>23, <1>24, <1>25, <1>26, <1>27
     DEF Next, Engine, Message, Coroutine

(* Who runs, and what is on the way to run.                              *)
LEMMA RunningKept ==
    ASSUME Basics, [Next]_vars
    PROVE  RunningOK'
<1>p. EngineTyped /\ ForksTyped /\ TablesTyped /\ RunningOK /\ TablesOK
  BY TypeParts DEF Basics, Parts
<1>0. CASE UNCHANGED vars
  BY <1>p, <1>0 DEF RunningOK, Waiting, Sleepy
<1>1. CASE dispatch_wakeup
  BY <1>p, <1>1, WakeupStep DEF RunningOK, Waiting, Sleepy, dispatch_wakeup
<1>2. CASE dispatch_error_queue
  BY <1>p, <1>2, ErrorStep
  DEF dispatch_error_queue, RunningOK, TablesOK, Waiting, Sleepy
<1>3. CASE suspend_returns
  BY <1>p, <1>3 DEF suspend_returns, Go, Resume, RunningOK, Waiting, Sleepy
<1>4. CASE dispatch_forks
  BY <1>p, <1>4
  DEF dispatch_forks, Go, Resume, EngineTyped, ForksTyped, TablesTyped, RunningOK,
      Waiting, Sleepy
<1>5. ASSUME NEW p \in Peer, error_source_down(p)
      PROVE  RunningOK'
  BY <1>p, <1>5 DEF error_source_down, Go, Resume, RunningOK, Waiting, Sleepy
<1>6. ASSUME NEW p \in Peer, NEW c \in Co, request(p, c)
      PROVE  RunningOK'
  BY <1>p, <1>6
  DEF request, Free, Go, Resume, EngineTyped, ForksTyped, TablesTyped, RunningOK,
      Waiting, Sleepy
<1>7. ASSUME NEW s \in Sessions, timer_response(s)
      PROVE  RunningOK'
  BY <1>p, <1>7
  DEF timer_response, response, Go, Resume, RunningOK, TablesOK, Waiting, Sleepy
<1>8. ASSUME NEW p \in Peer, NEW s \in Sessions, peer_response(p, s)
      PROVE  RunningOK'
  BY <1>p, <1>8
  DEF peer_response, response, Go, Resume, RunningOK, TablesOK, Waiting, Sleepy
<1>9. ASSUME NEW p \in Peer, NEW s \in Sessions, _error_dispatch(p, s)
      PROVE  RunningOK'
  BY <1>p, <1>9 DEF _error_dispatch, Go, Resume, RunningOK, Waiting, Sleepy
<1>10. ASSUME NEW c \in Co, sleep(c)
       PROVE  RunningOK'
  BY <1>p, <1>10
  DEF sleep, suspend_sleep, Yield, Go, Resume, Runs, RunningOK, Waiting, Sleepy
<1>11. ASSUME NEW c \in Co, wait(c)
       PROVE  RunningOK'
  BY <1>p, <1>11
  DEF wait, suspend_sleep, Yield, Go, Resume, Runs, RunningOK, Waiting, Sleepy
<1>12. ASSUME NEW c \in Co, ret(c)
       PROVE  RunningOK'
  BY <1>p, <1>12 DEF ret, Reply, Runs, RunningOK, Waiting, Sleepy
<1>13. ASSUME NEW c \in Co, make_response(c)
       PROVE  RunningOK'
  BY <1>p, <1>13 DEF make_response, Owes, Runs, RunningOK, Waiting, Sleepy
<1>14. ASSUME NEW c \in Co, ends(c)
       PROVE  RunningOK'
  BY <1>p, <1>14 DEF ends, Go, Resume, Runs, RunningOK, Waiting, Sleepy
<1>15. ASSUME NEW c \in Co, fails(c)
       PROVE  RunningOK'
  BY <1>p, <1>15
  DEF fails, Unwind, Reply, Trigger, Go, Resume, Runs, RunningOK, Waiting, Sleepy
<1>16. ASSUME NEW c \in Co, exit(c)
       PROVE  RunningOK'
  BY <1>p, <1>16 DEF exit, Go, Resume, Runs, RunningOK, Waiting, Sleepy
<1>17. ASSUME NEW c \in Co, after_sleep(c)
       PROVE  RunningOK'
  BY <1>p, <1>17
  DEF after_sleep, Woken, Go, Resume, EngineTyped, ForksTyped, TablesTyped,
      RunningOK, Waiting, Sleepy
<1>18. ASSUME NEW c \in Co, after_call(c)
       PROVE  RunningOK'
  BY <1>p, <1>18
  DEF after_call, Go, Resume, EngineTyped, ForksTyped, TablesTyped, RunningOK,
      Waiting, Sleepy
<1>19. ASSUME NEW c \in Co, enter(c)
       PROVE  RunningOK'
  BY <1>p, <1>19 DEF enter, Inside, Runs, RunningOK, Waiting, Sleepy
<1>20. ASSUME NEW c \in Co, enter_waits(c)
       PROVE  RunningOK'
  BY <1>p, <1>20
  DEF enter_waits, suspend_sleep, Yield, Go, Resume, Runs, RunningOK, Waiting,
      Sleepy
<1>21. ASSUME NEW c \in Co, after_queue(c)
       PROVE  RunningOK'
  BY <1>p, <1>21
  DEF after_queue, Woken, Inside, Unwind, Reply, Trigger, Go, Resume, EngineTyped,
      ForksTyped, TablesTyped, RunningOK, Waiting, Sleepy
<1>22. ASSUME NEW c \in Co, leave(c)
       PROVE  RunningOK'
  BY <1>p, <1>22 DEF leave, Heir, Wake, Runs, RunningOK, Waiting, Sleepy
<1>23. ASSUME NEW c \in Co, NEW p \in Peer, yield_call(c, p)
       PROVE  RunningOK'
  BY <1>p, <1>23
  DEF yield_call, Yield, Go, Resume, Runs, RunningOK, Waiting, Sleepy
<1>24. ASSUME NEW c \in Co, NEW p \in Peer, respond(c, p)
       PROVE  RunningOK'
  BY <1>p, <1>24 DEF respond, Reply, Runs, RunningOK, Waiting, Sleepy
<1>25. ASSUME NEW c \in Co, NEW d \in Co, timeout(c, d)
       PROVE  RunningOK'
  BY <1>p, <1>25 DEF timeout, Free, Runs, RunningOK, Waiting, Sleepy
<1>26. ASSUME NEW c \in Co, NEW d \in Co, fork(c, d)
       PROVE  RunningOK'
  BY <1>p, <1>26
  DEF fork, Free, Runs, EngineTyped, ForksTyped, TablesTyped, RunningOK, Waiting,
      Sleepy
<1>27. ASSUME NEW c \in Co, NEW d \in Co, wakeup(c, d)
       PROVE  RunningOK'
  BY <1>p, <1>27 DEF wakeup, Wake, Runs, RunningOK, Waiting, Sleepy
<1>. QED BY <1>0, <1>1, <1>2, <1>3, <1>4, <1>5, <1>6, <1>7, <1>8, <1>9, <1>10,
     <1>11, <1>12, <1>13, <1>14, <1>15, <1>16, <1>17, <1>18, <1>19, <1>20,
     <1>21, <1>22, <1>23, <1>24, <1>25, <1>26, <1>27
     DEF Next, Engine, Message, Coroutine

(* A session finds the one coroutine that waits for it.                  *)
LEMMA TablesKept ==
    ASSUME Basics, [Next]_vars
    PROVE  TablesOK'
<1>p. EngineTyped /\ TablesTyped /\ ForksTyped /\ RunningOK /\ TablesOK /\
      UndrawnOK
  BY TypeParts DEF Basics, Parts
<1>0. CASE UNCHANGED vars
  BY <1>p, <1>0 DEF TablesOK, Waiting, Sleepy, Resumed
<1>1. CASE dispatch_wakeup
  <2>1. UNCHANGED <<at, waits, session>> /\ pc = "wakeup"
    BY <1>1, WakeupStep
  <2>2. CASE pc' = "error" /\ UNCHANGED session_id_coroutine
    BY <1>p, <2>1, <2>2 DEF TablesOK, Resumed
  <2>3. ASSUME NEW c \in Co, pc' = "resumed", running' = c, at[c] \in Sleepy,
               waits[c] \in Sessions, session_id_coroutine[waits[c]] = c,
               session_id_coroutine' = [session_id_coroutine EXCEPT ![waits[c]] = BREAK]
        PROVE  TablesOK'
    BY <1>p, <2>1, <2>3 DEF EngineTyped, TablesTyped, TablesOK, Waiting, Sleepy, Resumed
  <2>. QED BY <1>1, <2>2, <2>3, WakeupStep
<1>2. CASE dispatch_error_queue
  <2>1. PICK s \in Sessions :
          /\ pc = "error" /\ UNCHANGED <<at, waits, session>>
          /\ session_id_coroutine' = [session_id_coroutine EXCEPT ![s] = None]
          /\ \/ session_id_coroutine[s] \in Co
                /\ pc' = "resumed" /\ running' = session_id_coroutine[s]
             \/ session_id_coroutine[s] \notin Co /\ pc' = "forks"
    BY <1>2, ErrorStep
  <2>. QED BY <1>p, <2>1
       DEF EngineTyped, TablesTyped, TablesOK, Waiting, Sleepy, Resumed
<1>3. CASE suspend_returns
  BY <1>p, <1>3
  DEF suspend_returns, Go, Resume, TablesOK, Waiting, Sleepy, Resumed
<1>4. CASE dispatch_forks
  BY <1>p, <1>4
  DEF dispatch_forks, Go, Resume, EngineTyped, TablesTyped, ForksTyped, RunningOK,
      TablesOK, UndrawnOK, Waiting, Sleepy, Resumed
<1>5. ASSUME NEW p \in Peer, error_source_down(p)
      PROVE  TablesOK'
  BY <1>p, <1>5
  DEF error_source_down, Go, Resume, TablesOK, Waiting, Sleepy, Resumed
<1>6. ASSUME NEW p \in Peer, NEW c \in Co, request(p, c)
      PROVE  TablesOK'
  BY <1>p, <1>6 DEF request, Free, Go, Resume, TablesOK, Waiting, Sleepy, Resumed
<1>7. ASSUME NEW s \in Sessions, timer_response(s)
      PROVE  TablesOK'
  BY <1>p, <1>7
  DEF timer_response, response, Go, Resume, EngineTyped, TablesTyped, ForksTyped,
      TablesOK, Waiting, Sleepy, Resumed
<1>8. ASSUME NEW p \in Peer, NEW s \in Sessions, peer_response(p, s)
      PROVE  TablesOK'
  BY <1>p, <1>8
  DEF peer_response, response, Go, Resume, EngineTyped, TablesTyped, ForksTyped,
      TablesOK, Waiting, Sleepy, Resumed
<1>9. ASSUME NEW p \in Peer, NEW s \in Sessions, _error_dispatch(p, s)
      PROVE  TablesOK'
  BY <1>p, <1>9
  DEF _error_dispatch, Go, Resume, TablesOK, Waiting, Sleepy, Resumed
<1>10. ASSUME NEW c \in Co, sleep(c)
       PROVE  TablesOK'
  BY <1>10, YieldTables DEF sleep, suspend_sleep, Sleepy
<1>11. ASSUME NEW c \in Co, wait(c)
       PROVE  TablesOK'
  BY <1>11, YieldTables DEF wait, suspend_sleep, Sleepy
<1>12. ASSUME NEW c \in Co, ret(c)
       PROVE  TablesOK'
  BY <1>p, <1>12 DEF ret, Reply, Runs, TablesOK, Waiting, Sleepy, Resumed
<1>13. ASSUME NEW c \in Co, make_response(c)
       PROVE  TablesOK'
  BY <1>p, <1>13 DEF make_response, Owes, Runs, TablesOK, Waiting, Sleepy, Resumed
<1>14. ASSUME NEW c \in Co, ends(c)
       PROVE  TablesOK'
  BY <1>p, <1>14
  DEF ends, Go, Resume, Runs, RunningOK, TablesOK, UndrawnOK, Waiting, Sleepy,
      Resumed
<1>15. ASSUME NEW c \in Co, fails(c)
       PROVE  TablesOK'
  BY <1>p, <1>15
  DEF fails, Unwind, Reply, Trigger, Go, Resume, Runs, RunningOK, TablesOK,
      UndrawnOK, Waiting, Sleepy, Resumed
<1>16. ASSUME NEW c \in Co, exit(c)
       PROVE  TablesOK'
  BY <1>p, <1>16
  DEF exit, Go, Resume, Runs, RunningOK, TablesOK, UndrawnOK, Waiting, Sleepy,
      Resumed
<1>17. ASSUME NEW c \in Co, after_sleep(c)
       PROVE  TablesOK'
  BY <1>p, <1>17
  DEF after_sleep, Woken, Go, Resume, EngineTyped, TablesTyped, ForksTyped,
      TablesOK, Waiting, Sleepy, Resumed
<1>18. ASSUME NEW c \in Co, after_call(c)
       PROVE  TablesOK'
  BY <1>p, <1>18
  DEF after_call, Go, Resume, EngineTyped, TablesTyped, ForksTyped, TablesOK,
      Waiting, Sleepy, Resumed
<1>19. ASSUME NEW c \in Co, enter(c)
       PROVE  TablesOK'
  BY <1>p, <1>19 DEF enter, Inside, Runs, TablesOK, Waiting, Sleepy, Resumed
<1>20. ASSUME NEW c \in Co, enter_waits(c)
       PROVE  TablesOK'
  BY <1>20, YieldTables DEF enter_waits, suspend_sleep, Sleepy
<1>21. ASSUME NEW c \in Co, after_queue(c)
       PROVE  TablesOK'
  BY <1>p, <1>21
  DEF after_queue, Woken, Inside, Unwind, Reply, Trigger, Go, Resume, EngineTyped,
      TablesTyped, ForksTyped, TablesOK, Waiting, Sleepy, Resumed
<1>22. ASSUME NEW c \in Co, leave(c)
       PROVE  TablesOK'
  BY <1>p, <1>22 DEF leave, Heir, Wake, Runs, TablesOK, Waiting, Sleepy, Resumed
<1>23. ASSUME NEW c \in Co, NEW p \in Peer, yield_call(c, p)
       PROVE  TablesOK'
  BY <1>23, YieldTables DEF yield_call
<1>24. ASSUME NEW c \in Co, NEW p \in Peer, respond(c, p)
       PROVE  TablesOK'
  BY <1>p, <1>24 DEF respond, Reply, Runs, TablesOK, Waiting, Sleepy, Resumed
<1>25. ASSUME NEW c \in Co, NEW d \in Co, timeout(c, d)
       PROVE  TablesOK'
  <2>1. session + 1 \in Sessions /\ session_id_coroutine[session + 1] = None
        /\ at[d] = "free" /\ pc' = pc /\ running' = running
    BY <1>p, <1>25 DEF timeout, Free, TablesTyped, UndrawnOK
  <2>2. \A s \in Sessions : session_id_coroutine[s] # d
    BY <1>p, <2>1 DEF TablesOK, Waiting, Sleepy
  <2>3. \A s \in Sessions : session_id_coroutine'[s] =
           IF s = session + 1 THEN d ELSE session_id_coroutine[s]
    BY <1>p, <1>25, <2>1 DEF timeout, TablesTyped
  <2>4. \A e \in Co : at'[e] = IF e = d THEN "timeout" ELSE at[e]
    BY <1>p, <1>25 DEF timeout, EngineTyped
  <2>5. waits' = waits /\ session' = session + 1 /\ ~Resumed(d)
    BY <1>25 DEF timeout, Runs, Resumed
  <2>6. ASSUME NEW e \in Co, at'[e] \in Sleepy \cup {"call"}
        PROVE  waits'[e] \in 1 .. session'
               /\ session_id_coroutine'[waits'[e]] \in {e, BREAK, None}
    <3>1. waits[e] \in 1 .. session
          /\ session_id_coroutine[waits[e]] \in {e, BREAK, None}
      BY <1>p, <2>4, <2>6 DEF TablesOK, Sleepy
    <3>. QED BY <1>p, <2>1, <2>3, <2>5, <3>1 DEF TablesTyped
  <2>. QED BY <1>p, <2>1, <2>2, <2>3, <2>4, <2>5, <2>6
  DEF TablesOK, Waiting, Resumed
<1>26. ASSUME NEW c \in Co, NEW d \in Co, fork(c, d)
       PROVE  TablesOK'
  BY <1>p, <1>26 DEF fork, Free, Runs, TablesOK, Waiting, Sleepy, Resumed
<1>27. ASSUME NEW c \in Co, NEW d \in Co, wakeup(c, d)
       PROVE  TablesOK'
  BY <1>p, <1>27 DEF wakeup, Wake, Runs, TablesOK, Waiting, Sleepy, Resumed
<1>. QED BY <1>0, <1>1, <1>2, <1>3, <1>4, <1>5, <1>6, <1>7, <1>8, <1>9, <1>10,
     <1>11, <1>12, <1>13, <1>14, <1>15, <1>16, <1>17, <1>18, <1>19, <1>20,
     <1>21, <1>22, <1>23, <1>24, <1>25, <1>26, <1>27
     DEF Next, Engine, Message, Coroutine

(* sleep_session is set while its coroutine sleeps.                      *)
LEMMA SleepersKept ==
    ASSUME Basics, [Next]_vars
    PROVE  SleepersOK'
<1>p. EngineTyped /\ TablesTyped /\ SleepTyped /\ ForksTyped /\
      RunningOK /\ TablesOK /\ SleepersOK
  BY TypeParts DEF Basics, Parts
<1>0. CASE UNCHANGED vars
  BY <1>p, <1>0 DEF SleepersOK, Waiting, Sleepy, Resumed
<1>1. CASE dispatch_wakeup
  BY <1>p, <1>1
  DEF dispatch_wakeup, Mark, Go, Resume, EngineTyped, TablesTyped, SleepTyped,
      ForksTyped, RunningOK, TablesOK, SleepersOK, Waiting, Sleepy, Resumed
<1>2. CASE dispatch_error_queue
  BY <1>p, <1>2
  DEF dispatch_error_queue, Go, Resume, SleepersOK, Waiting, Sleepy, Resumed
<1>3. CASE suspend_returns
  BY <1>p, <1>3
  DEF suspend_returns, Go, Resume, SleepersOK, Waiting, Sleepy, Resumed
<1>4. CASE dispatch_forks
  BY <1>p, <1>4
  DEF dispatch_forks, Go, Resume, EngineTyped, TablesTyped, SleepTyped,
      ForksTyped, RunningOK, TablesOK, SleepersOK, Waiting, Sleepy, Resumed
<1>5. ASSUME NEW p \in Peer, error_source_down(p)
      PROVE  SleepersOK'
  BY <1>p, <1>5
  DEF error_source_down, Go, Resume, SleepersOK, Waiting, Sleepy, Resumed
<1>6. ASSUME NEW p \in Peer, NEW c \in Co, request(p, c)
      PROVE  SleepersOK'
  BY <1>p, <1>6
  DEF request, Free, Go, Resume, SleepersOK, Waiting, Sleepy, Resumed
<1>7. ASSUME NEW s \in Sessions, timer_response(s)
      PROVE  SleepersOK'
  BY <1>p, <1>7
  DEF timer_response, response, Go, Resume, SleepersOK, Waiting, Sleepy, Resumed
<1>8. ASSUME NEW p \in Peer, NEW s \in Sessions, peer_response(p, s)
      PROVE  SleepersOK'
  BY <1>p, <1>8
  DEF peer_response, response, Go, Resume, SleepersOK, Waiting, Sleepy, Resumed
<1>9. ASSUME NEW p \in Peer, NEW s \in Sessions, _error_dispatch(p, s)
      PROVE  SleepersOK'
  BY <1>p, <1>9
  DEF _error_dispatch, Go, Resume, SleepersOK, Waiting, Sleepy, Resumed
<1>10. ASSUME NEW c \in Co, sleep(c)
       PROVE  SleepersOK'
  BY <1>p, <1>10
  DEF sleep, suspend_sleep, Yield, Go, Resume, Runs, EngineTyped, TablesTyped,
      SleepTyped, ForksTyped, RunningOK, TablesOK, SleepersOK, Waiting, Sleepy,
      Resumed
<1>11. ASSUME NEW c \in Co, wait(c)
       PROVE  SleepersOK'
  BY <1>p, <1>11
  DEF wait, suspend_sleep, Yield, Go, Resume, Runs, EngineTyped, TablesTyped,
      SleepTyped, ForksTyped, RunningOK, TablesOK, SleepersOK, Waiting, Sleepy,
      Resumed
<1>12. ASSUME NEW c \in Co, ret(c)
       PROVE  SleepersOK'
  BY <1>p, <1>12 DEF ret, Reply, Runs, SleepersOK, Waiting, Sleepy, Resumed
<1>13. ASSUME NEW c \in Co, make_response(c)
       PROVE  SleepersOK'
  BY <1>p, <1>13
  DEF make_response, Owes, Runs, SleepersOK, Waiting, Sleepy, Resumed
<1>14. ASSUME NEW c \in Co, ends(c)
       PROVE  SleepersOK'
  BY <1>p, <1>14
  DEF ends, Go, Resume, Runs, RunningOK, TablesOK, SleepersOK, Waiting, Sleepy,
      Resumed
<1>15. ASSUME NEW c \in Co, fails(c)
       PROVE  SleepersOK'
  BY <1>p, <1>15
  DEF fails, Unwind, Reply, Trigger, Go, Resume, Runs, RunningOK, TablesOK,
      SleepersOK, Waiting, Sleepy, Resumed
<1>16. ASSUME NEW c \in Co, exit(c)
       PROVE  SleepersOK'
  BY <1>p, <1>16
  DEF exit, Go, Resume, Runs, RunningOK, TablesOK, SleepersOK, Waiting, Sleepy,
      Resumed
<1>17. ASSUME NEW c \in Co, after_sleep(c)
       PROVE  SleepersOK'
  BY <1>p, <1>17
  DEF after_sleep, Woken, Go, Resume, EngineTyped, TablesTyped, SleepTyped,
      ForksTyped, RunningOK, TablesOK, SleepersOK, Waiting, Sleepy, Resumed
<1>18. ASSUME NEW c \in Co, after_call(c)
       PROVE  SleepersOK'
  BY <1>p, <1>18 DEF after_call, Go, Resume, SleepersOK, Waiting, Sleepy, Resumed
<1>19. ASSUME NEW c \in Co, enter(c)
       PROVE  SleepersOK'
  BY <1>p, <1>19 DEF enter, Inside, Runs, SleepersOK, Waiting, Sleepy, Resumed
<1>20. ASSUME NEW c \in Co, enter_waits(c)
       PROVE  SleepersOK'
  BY <1>p, <1>20
  DEF enter_waits, suspend_sleep, Yield, Go, Resume, Runs, EngineTyped,
      TablesTyped, SleepTyped, ForksTyped, RunningOK, TablesOK, SleepersOK,
      Waiting, Sleepy, Resumed
<1>21. ASSUME NEW c \in Co, after_queue(c)
       PROVE  SleepersOK'
  BY <1>p, <1>21
  DEF after_queue, Woken, Inside, Unwind, Reply, Trigger, Go, Resume, EngineTyped,
      TablesTyped, SleepTyped, ForksTyped, RunningOK, TablesOK, SleepersOK,
      Waiting, Sleepy, Resumed
<1>22. ASSUME NEW c \in Co, leave(c)
       PROVE  SleepersOK'
  BY <1>p, <1>22 DEF leave, Heir, Wake, Runs, SleepersOK, Waiting, Sleepy, Resumed
<1>23. ASSUME NEW c \in Co, NEW p \in Peer, yield_call(c, p)
       PROVE  SleepersOK'
  BY <1>p, <1>23
  DEF yield_call, Yield, Go, Resume, Runs, EngineTyped, TablesTyped, SleepTyped,
      ForksTyped, RunningOK, TablesOK, SleepersOK, Waiting, Sleepy, Resumed
<1>24. ASSUME NEW c \in Co, NEW p \in Peer, respond(c, p)
       PROVE  SleepersOK'
  BY <1>p, <1>24 DEF respond, Reply, Runs, SleepersOK, Waiting, Sleepy, Resumed
<1>25. ASSUME NEW c \in Co, NEW d \in Co, timeout(c, d)
       PROVE  SleepersOK'
  BY <1>p, <1>25
  DEF timeout, Free, Runs, EngineTyped, TablesTyped, SleepTyped, ForksTyped,
      RunningOK, TablesOK, SleepersOK, Waiting, Sleepy, Resumed
<1>26. ASSUME NEW c \in Co, NEW d \in Co, fork(c, d)
       PROVE  SleepersOK'
  BY <1>p, <1>26 DEF fork, Free, Runs, SleepersOK, Waiting, Sleepy, Resumed
<1>27. ASSUME NEW c \in Co, NEW d \in Co, wakeup(c, d)
       PROVE  SleepersOK'
  BY <1>p, <1>27 DEF wakeup, Wake, Runs, SleepersOK, Waiting, Sleepy, Resumed
<1>. QED BY <1>0, <1>1, <1>2, <1>3, <1>4, <1>5, <1>6, <1>7, <1>8, <1>9, <1>10,
     <1>11, <1>12, <1>13, <1>14, <1>15, <1>16, <1>17, <1>18, <1>19, <1>20,
     <1>21, <1>22, <1>23, <1>24, <1>25, <1>26, <1>27
     DEF Next, Engine, Message, Coroutine

(* A call is watched until its coroutine has run.                        *)
LEMMA WatchKept ==
    ASSUME Basics, [Next]_vars
    PROVE  WatchOK'
<1>p. EngineTyped /\ TablesTyped /\ CallsTyped /\ ForksTyped /\
      RunningOK /\ TablesOK /\ WatchOK /\ UndrawnOK
  BY TypeParts DEF Basics, Parts
<1>0. CASE UNCHANGED vars
  BY <1>p, <1>0 DEF WatchOK, Waiting, Sleepy, Resumed, Calls
<1>1. CASE dispatch_wakeup
  BY <1>p, <1>1, WakeupStep
  DEF EngineTyped, TablesTyped, WatchOK, Calls, Sleepy, Waiting, dispatch_wakeup,
      CallsTyped
<1>2. CASE dispatch_error_queue
  BY <1>p, <1>2
  DEF dispatch_error_queue, Go, Resume, WatchOK, Waiting, Sleepy, Resumed, Calls
<1>3. CASE suspend_returns
  BY <1>p, <1>3
  DEF suspend_returns, Go, Resume, WatchOK, Waiting, Sleepy, Resumed, Calls
<1>4. CASE dispatch_forks
  BY <1>p, <1>4
  DEF dispatch_forks, Go, Resume, EngineTyped, TablesTyped, CallsTyped,
      ForksTyped, RunningOK, TablesOK, WatchOK, UndrawnOK, Waiting, Sleepy,
      Resumed, Calls
<1>5. ASSUME NEW p \in Peer, error_source_down(p)
      PROVE  WatchOK'
  BY <1>p, <1>5
  DEF error_source_down, Go, Resume, WatchOK, Waiting, Sleepy, Resumed, Calls
<1>6. ASSUME NEW p \in Peer, NEW c \in Co, request(p, c)
      PROVE  WatchOK'
  BY <1>p, <1>6
  DEF request, Free, Go, Resume, WatchOK, Waiting, Sleepy, Resumed, Calls
<1>7. ASSUME NEW s \in Sessions, timer_response(s)
      PROVE  WatchOK'
  BY <1>p, <1>7
  DEF timer_response, response, Go, Resume, WatchOK, Waiting, Sleepy, Resumed,
      Calls
<1>8. ASSUME NEW p \in Peer, NEW s \in Sessions, peer_response(p, s)
      PROVE  WatchOK'
  BY <1>p, <1>8
  DEF peer_response, response, Go, Resume, WatchOK, Waiting, Sleepy, Resumed,
      Calls
<1>9. ASSUME NEW p \in Peer, NEW s \in Sessions, _error_dispatch(p, s)
      PROVE  WatchOK'
  BY <1>p, <1>9
  DEF _error_dispatch, Go, Resume, WatchOK, Waiting, Sleepy, Resumed, Calls
<1>10. ASSUME NEW c \in Co, sleep(c)
       PROVE  WatchOK'
  BY <1>p, <1>10
  DEF sleep, suspend_sleep, Yield, Go, Resume, Runs, EngineTyped, TablesTyped,
      CallsTyped, ForksTyped, RunningOK, TablesOK, WatchOK, UndrawnOK, Waiting,
      Sleepy, Resumed, Calls
<1>11. ASSUME NEW c \in Co, wait(c)
       PROVE  WatchOK'
  BY <1>p, <1>11
  DEF wait, suspend_sleep, Yield, Go, Resume, Runs, EngineTyped, TablesTyped,
      CallsTyped, ForksTyped, RunningOK, TablesOK, WatchOK, UndrawnOK, Waiting,
      Sleepy, Resumed, Calls
<1>12. ASSUME NEW c \in Co, ret(c)
       PROVE  WatchOK'
  BY <1>p, <1>12 DEF ret, Reply, Runs, WatchOK, Waiting, Sleepy, Resumed, Calls
<1>13. ASSUME NEW c \in Co, make_response(c)
       PROVE  WatchOK'
  BY <1>p, <1>13
  DEF make_response, Owes, Runs, WatchOK, Waiting, Sleepy, Resumed, Calls
<1>14. ASSUME NEW c \in Co, ends(c)
       PROVE  WatchOK'
  BY <1>p, <1>14
  DEF ends, Go, Resume, Runs, RunningOK, TablesOK, WatchOK, UndrawnOK, Waiting,
      Sleepy, Resumed, Calls
<1>15. ASSUME NEW c \in Co, fails(c)
       PROVE  WatchOK'
  BY <1>p, <1>15
  DEF fails, Unwind, Reply, Trigger, Go, Resume, Runs, RunningOK, TablesOK,
      WatchOK, UndrawnOK, Waiting, Sleepy, Resumed, Calls
<1>16. ASSUME NEW c \in Co, exit(c)
       PROVE  WatchOK'
  BY <1>p, <1>16
  DEF exit, Go, Resume, Runs, RunningOK, TablesOK, WatchOK, UndrawnOK, Waiting,
      Sleepy, Resumed, Calls
<1>17. ASSUME NEW c \in Co, after_sleep(c)
       PROVE  WatchOK'
  BY <1>p, <1>17
  DEF after_sleep, Woken, Go, Resume, RunningOK, TablesOK, WatchOK, UndrawnOK,
      Waiting, Sleepy, Resumed, Calls
<1>18. ASSUME NEW c \in Co, after_call(c)
       PROVE  WatchOK'
  BY <1>p, <1>18
  DEF after_call, Go, Resume, EngineTyped, TablesTyped, CallsTyped, ForksTyped,
      WatchOK, Waiting, Sleepy, Resumed, Calls
<1>19. ASSUME NEW c \in Co, enter(c)
       PROVE  WatchOK'
  BY <1>p, <1>19 DEF enter, Inside, Runs, WatchOK, Waiting, Sleepy, Resumed, Calls
<1>20. ASSUME NEW c \in Co, enter_waits(c)
       PROVE  WatchOK'
  BY <1>p, <1>20
  DEF enter_waits, suspend_sleep, Yield, Go, Resume, Runs, EngineTyped,
      TablesTyped, CallsTyped, ForksTyped, RunningOK, TablesOK, WatchOK,
      UndrawnOK, Waiting, Sleepy, Resumed, Calls
<1>21. ASSUME NEW c \in Co, after_queue(c)
       PROVE  WatchOK'
  BY <1>p, <1>21
  DEF after_queue, Woken, Inside, Unwind, Reply, Trigger, Go, Resume, EngineTyped,
      TablesTyped, CallsTyped, ForksTyped, RunningOK, TablesOK, WatchOK,
      UndrawnOK, Waiting, Sleepy, Resumed, Calls
<1>22. ASSUME NEW c \in Co, leave(c)
       PROVE  WatchOK'
  BY <1>p, <1>22
  DEF leave, Heir, Wake, Runs, WatchOK, Waiting, Sleepy, Resumed, Calls
<1>23. ASSUME NEW c \in Co, NEW p \in Peer, yield_call(c, p)
       PROVE  WatchOK'
  BY <1>p, <1>23
  DEF yield_call, Yield, Go, Resume, Runs, EngineTyped, TablesTyped, CallsTyped,
      ForksTyped, RunningOK, TablesOK, WatchOK, UndrawnOK, Waiting, Sleepy,
      Resumed, Calls
<1>24. ASSUME NEW c \in Co, NEW p \in Peer, respond(c, p)
       PROVE  WatchOK'
  BY <1>p, <1>24
  DEF respond, Reply, Runs, WatchOK, Waiting, Sleepy, Resumed, Calls
<1>25. ASSUME NEW c \in Co, NEW d \in Co, timeout(c, d)
       PROVE  WatchOK'
  BY <1>p, <1>25
  DEF timeout, Free, Runs, EngineTyped, TablesTyped, CallsTyped, ForksTyped,
      RunningOK, TablesOK, WatchOK, UndrawnOK, Waiting, Sleepy, Resumed, Calls
<1>26. ASSUME NEW c \in Co, NEW d \in Co, fork(c, d)
       PROVE  WatchOK'
  BY <1>p, <1>26 DEF fork, Free, Runs, WatchOK, Waiting, Sleepy, Resumed, Calls
<1>27. ASSUME NEW c \in Co, NEW d \in Co, wakeup(c, d)
       PROVE  WatchOK'
  BY <1>p, <1>27 DEF wakeup, Wake, Runs, WatchOK, Waiting, Sleepy, Resumed, Calls
<1>. QED BY <1>0, <1>1, <1>2, <1>3, <1>4, <1>5, <1>6, <1>7, <1>8, <1>9, <1>10,
     <1>11, <1>12, <1>13, <1>14, <1>15, <1>16, <1>17, <1>18, <1>19, <1>20,
     <1>21, <1>22, <1>23, <1>24, <1>25, <1>26, <1>27
     DEF Next, Engine, Message, Coroutine

(* Nothing refers to a session that is still to be drawn.                *)
LEMMA UndrawnKept ==
    ASSUME Basics, [Next]_vars
    PROVE  UndrawnOK'
<1>p. EngineTyped /\ TablesTyped /\ CallsTyped /\ WorldTyped /\
      RunningOK /\ TablesOK /\ UndrawnOK
  BY TypeParts DEF Basics, Parts
<1>0. CASE UNCHANGED vars
  BY <1>p, <1>0 DEF UndrawnOK, Sleepy, Waiting
<1>1. CASE dispatch_wakeup
  BY <1>p, <1>1, WakeupStep DEF TablesTyped, UndrawnOK, dispatch_wakeup
<1>2. CASE dispatch_error_queue
  BY <1>p, <1>2 DEF dispatch_error_queue, Go, Resume, UndrawnOK, Sleepy, Waiting
<1>3. CASE suspend_returns
  BY <1>p, <1>3 DEF suspend_returns, Go, Resume, UndrawnOK, Sleepy, Waiting
<1>4. CASE dispatch_forks
  BY <1>p, <1>4 DEF dispatch_forks, Go, Resume, UndrawnOK, Sleepy, Waiting
<1>5. ASSUME NEW p \in Peer, error_source_down(p)
      PROVE  UndrawnOK'
  <2>1. PICK order \in SetToSeqs(Watched(p)) : error_queue' = error_queue \o order
    BY <1>5 DEF error_source_down
  <2>2. order \in Seq(Sessions) /\ \A i \in 1 .. Len(order) : order[i] <= session
    <3>1. order \in Seq(Sessions) /\ \A i \in 1 .. Len(order) : watching_session[order[i]] = p
      BY <1>p, WatchedOrder
    <3>2. \A s \in Sessions : watching_session[s] = p => s <= session
      BY <1>p DEF UndrawnOK, TablesTyped
    <3>3. \A i \in 1 .. Len(order) : order[i] \in Sessions
      BY <3>1
    <3>. QED BY <3>1, <3>2, <3>3
  <2>3. ASSUME NEW i \in 1 .. Len(error_queue') PROVE error_queue'[i] <= session
    BY <1>p, <2>1, <2>2 DEF CallsTyped, UndrawnOK
  <2>4. \A s \in Sessions : s > session => s \notin refused'
    BY <1>p, <1>5 DEF error_source_down, Watched, UndrawnOK
  <2>. QED BY <1>p, <1>5, <2>3, <2>4 DEF error_source_down, UndrawnOK
<1>6. ASSUME NEW p \in Peer, NEW c \in Co, request(p, c)
      PROVE  UndrawnOK'
  BY <1>p, <1>6 DEF request, Free, Go, Resume, UndrawnOK, Sleepy, Waiting
<1>7. ASSUME NEW s \in Sessions, timer_response(s)
      PROVE  UndrawnOK'
  BY <1>p, <1>7
  DEF timer_response, response, Go, Resume, UndrawnOK, Sleepy, Waiting
<1>8. ASSUME NEW p \in Peer, NEW s \in Sessions, peer_response(p, s)
      PROVE  UndrawnOK'
  BY <1>p, <1>8
  DEF peer_response, response, Go, Resume, UndrawnOK, Sleepy, Waiting
<1>9. ASSUME NEW p \in Peer, NEW s \in Sessions, _error_dispatch(p, s)
      PROVE  UndrawnOK'
  BY <1>p, <1>9
  DEF _error_dispatch, Go, Resume, EngineTyped, TablesTyped, CallsTyped,
      WorldTyped, UndrawnOK, Sleepy, Waiting
<1>10. ASSUME NEW c \in Co, sleep(c)
       PROVE  UndrawnOK'
  BY <1>p, <1>10
  DEF sleep, suspend_sleep, Yield, Go, Resume, Runs, EngineTyped, TablesTyped,
      CallsTyped, WorldTyped, UndrawnOK, Sleepy, Waiting
<1>11. ASSUME NEW c \in Co, wait(c)
       PROVE  UndrawnOK'
  BY <1>p, <1>11
  DEF wait, suspend_sleep, Yield, Go, Resume, Runs, EngineTyped, TablesTyped,
      CallsTyped, WorldTyped, UndrawnOK, Sleepy, Waiting
<1>12. ASSUME NEW c \in Co, ret(c)
       PROVE  UndrawnOK'
  BY <1>p, <1>12 DEF ret, Reply, Runs, UndrawnOK, Sleepy, Waiting
<1>13. ASSUME NEW c \in Co, make_response(c)
       PROVE  UndrawnOK'
  BY <1>p, <1>13 DEF make_response, Owes, Runs, UndrawnOK, Sleepy, Waiting
<1>14. ASSUME NEW c \in Co, ends(c)
       PROVE  UndrawnOK'
  BY <1>p, <1>14 DEF ends, Go, Resume, Runs, UndrawnOK, Sleepy, Waiting
<1>15. ASSUME NEW c \in Co, fails(c)
       PROVE  UndrawnOK'
  BY <1>p, <1>15
  DEF fails, Unwind, Reply, Trigger, Go, Resume, Runs, UndrawnOK, Sleepy, Waiting
<1>16. ASSUME NEW c \in Co, exit(c)
       PROVE  UndrawnOK'
  BY <1>p, <1>16 DEF exit, Go, Resume, Runs, UndrawnOK, Sleepy, Waiting
<1>17. ASSUME NEW c \in Co, after_sleep(c)
       PROVE  UndrawnOK'
  BY <1>p, <1>17 DEF after_sleep, Woken, Go, Resume, UndrawnOK, Sleepy, Waiting
<1>18. ASSUME NEW c \in Co, after_call(c)
       PROVE  UndrawnOK'
  BY <1>p, <1>18 DEF after_call, Go, Resume, UndrawnOK, Sleepy, Waiting
<1>19. ASSUME NEW c \in Co, enter(c)
       PROVE  UndrawnOK'
  BY <1>p, <1>19 DEF enter, Inside, Runs, UndrawnOK, Sleepy, Waiting
<1>20. ASSUME NEW c \in Co, enter_waits(c)
       PROVE  UndrawnOK'
  BY <1>p, <1>20
  DEF enter_waits, suspend_sleep, Yield, Go, Resume, Runs, EngineTyped,
      TablesTyped, CallsTyped, WorldTyped, UndrawnOK, Sleepy, Waiting
<1>21. ASSUME NEW c \in Co, after_queue(c)
       PROVE  UndrawnOK'
  BY <1>p, <1>21
  DEF after_queue, Woken, Inside, Unwind, Reply, Trigger, Go, Resume, UndrawnOK,
      Sleepy, Waiting
<1>22. ASSUME NEW c \in Co, leave(c)
       PROVE  UndrawnOK'
  BY <1>p, <1>22 DEF leave, Heir, Wake, Runs, UndrawnOK, Sleepy, Waiting
<1>23. ASSUME NEW c \in Co, NEW p \in Peer, yield_call(c, p)
       PROVE  UndrawnOK'
  BY <1>p, <1>23
  DEF yield_call, Yield, Go, Resume, Runs, EngineTyped, TablesTyped, CallsTyped,
      WorldTyped, UndrawnOK, Sleepy, Waiting
<1>24. ASSUME NEW c \in Co, NEW p \in Peer, respond(c, p)
       PROVE  UndrawnOK'
  BY <1>p, <1>24 DEF respond, Reply, Runs, UndrawnOK, Sleepy, Waiting
<1>25. ASSUME NEW c \in Co, NEW d \in Co, timeout(c, d)
       PROVE  UndrawnOK'
  BY <1>p, <1>25
  DEF timeout, Free, Runs, EngineTyped, TablesTyped, CallsTyped, WorldTyped,
      UndrawnOK, Sleepy, Waiting
<1>26. ASSUME NEW c \in Co, NEW d \in Co, fork(c, d)
       PROVE  UndrawnOK'
  BY <1>p, <1>26 DEF fork, Free, Runs, UndrawnOK, Sleepy, Waiting
<1>27. ASSUME NEW c \in Co, NEW d \in Co, wakeup(c, d)
       PROVE  UndrawnOK'
  BY <1>p, <1>27 DEF wakeup, Wake, Runs, UndrawnOK, Sleepy, Waiting
<1>. QED BY <1>0, <1>1, <1>2, <1>3, <1>4, <1>5, <1>6, <1>7, <1>8, <1>9, <1>10,
     <1>11, <1>12, <1>13, <1>14, <1>15, <1>16, <1>17, <1>18, <1>19, <1>20,
     <1>21, <1>22, <1>23, <1>24, <1>25, <1>26, <1>27
     DEF Next, Engine, Message, Coroutine

-----------------------------------------------------------------------------

(* What the timer answers is there to be answered.                       *)
LEMMA TimersKept ==
    ASSUME Basics, CallsOK, ~exited, ~exited', [Next]_vars
    PROVE  TimersOK'
<1>p. EngineTyped /\ TablesTyped /\ WorldTyped /\ CallsTyped /\
      RunningOK /\ TablesOK /\ SleepersOK /\ UndrawnOK /\ TimersOK /\
      AskedOK /\ ErrorQueueOK /\ TurnOK
  BY TypeParts DEF Basics, Parts, CallsOK
<1>0. CASE UNCHANGED vars
  BY <1>p, <1>0 DEF TimersOK, Contains
<1>1. CASE dispatch_wakeup
  BY <1>p, <1>1
  DEF dispatch_wakeup, Mark, Go, Resume, EngineTyped, TablesTyped, WorldTyped,
      CallsTyped, RunningOK, TablesOK, SleepersOK, UndrawnOK, TimersOK, AskedOK,
      ErrorQueueOK, TurnOK, Sleepy, Waiting, Resumed, Contains
<1>2. CASE dispatch_error_queue
  BY <1>p, <1>2
  DEF dispatch_error_queue, Go, Resume, TimersOK, Sleepy, Waiting, Resumed,
      Contains
<1>3. CASE suspend_returns
  BY <1>p, <1>3 DEF suspend_returns, TimersOK, Contains
<1>4. CASE dispatch_forks
  BY <1>p, <1>4
  DEF dispatch_forks, Go, Resume, EngineTyped, TablesTyped, WorldTyped,
      CallsTyped, TimersOK, Sleepy, Waiting, Resumed, Contains
<1>5. ASSUME NEW p \in Peer, error_source_down(p)
      PROVE  TimersOK'
  <2>1. PICK order \in SetToSeqs(Watched(p)) : error_queue' = error_queue \o order
    BY <1>5 DEF error_source_down
  <2>2. error_queue = <<>>
    BY <1>p, <1>5 DEF error_source_down, TurnOK, DueOK
  <2>3. error_queue' = order /\ \A i \in 1 .. Len(order) : watching_session[order[i]] = p
    BY <1>p, <2>1, <2>2, WatchedOrder
  <2>. QED BY <1>p, <1>5, <2>3 DEF error_source_down, TimersOK, Contains
<1>6. ASSUME NEW p \in Peer, NEW c \in Co, request(p, c)
      PROVE  TimersOK'
  <2>1. \A d \in Co : at'[d] \in {"wait", "queue"} => at[d] = at'[d]
    BY <1>p, <1>6 DEF request, EngineTyped
  <2>. QED BY <1>p, <1>6, <2>1 DEF request, TimersOK, Contains
<1>7. ASSUME NEW s \in Sessions, timer_response(s)
      PROVE  TimersOK'
  BY <1>p, <1>7
  DEF timer_response, response, Go, Resume, TimersOK, Sleepy, Waiting, Resumed,
      Contains
<1>8. ASSUME NEW p \in Peer, NEW s \in Sessions, peer_response(p, s)
      PROVE  TimersOK'
  BY <1>p, <1>8
  DEF peer_response, response, Go, Resume, TimersOK, Sleepy, Waiting, Resumed,
      Contains
<1>9. ASSUME NEW p \in Peer, NEW s \in Sessions, _error_dispatch(p, s)
      PROVE  TimersOK'
  BY <1>p, <1>9
  DEF _error_dispatch, Go, Resume, TimersOK, Sleepy, Waiting, Resumed, Contains
<1>10. ASSUME NEW c \in Co, sleep(c)
       PROVE  TimersOK'
  <2>. DEFINE new == session + 1
  <2>1. new \in Sessions /\ watching_session[new] = None
        /\ \A p \in Peer : <<p, new>> \notin asked
    BY <1>p, <1>10 DEF sleep, suspend_sleep, Yield, TablesTyped, UndrawnOK
  <2>2. ~Contains(error_queue, new)
    BY <1>p DEF UndrawnOK, Contains, TablesTyped, CallsTyped
  <2>3. /\ session_id_coroutine' = [session_id_coroutine EXCEPT ![new] = c]
        /\ waits' = [waits EXCEPT ![c] = new] /\ at' = [at EXCEPT ![c] = "sleep"]
        /\ timers' = timers \cup {new}
        /\ UNCHANGED <<watching_session, asked, error_queue>>
    BY <1>10 DEF sleep, suspend_sleep, Yield
  <2>4. \A d \in Co : at'[d] \in {"wait", "queue"} => waits'[d] \in 1 .. session
           /\ at[d] = at'[d] /\ waits[d] = waits'[d]
    BY <1>p, <2>3 DEF EngineTyped, TablesTyped, TablesOK, Sleepy
  <2>5. \A s \in Sessions : session_id_coroutine'[s] =
           IF s = new THEN c ELSE session_id_coroutine[s]
    BY <1>p, <2>1, <2>3 DEF TablesTyped
  <2>6. \A d \in Co : at'[d] \in {"wait", "queue"} => waits'[d] # new
    BY <1>p, <2>4 DEF TablesTyped
  <2>. HIDE DEF new
  <2>. QED BY <1>p, <2>1, <2>2, <2>3, <2>4, <2>5, <2>6
  DEF TimersOK, WorldTyped, Contains
<1>11. ASSUME NEW c \in Co, wait(c)
       PROVE  TimersOK'
  BY <1>p, <1>11
  DEF wait, suspend_sleep, Yield, Go, Resume, Runs, EngineTyped, TablesTyped,
      WorldTyped, CallsTyped, RunningOK, TablesOK, SleepersOK, UndrawnOK,
      TimersOK, AskedOK, ErrorQueueOK, TurnOK, Sleepy, Waiting, Resumed, Contains
<1>12. ASSUME NEW c \in Co, ret(c)
       PROVE  TimersOK'
  BY <1>p, <1>12 DEF ret, TimersOK, Contains
<1>13. ASSUME NEW c \in Co, make_response(c)
       PROVE  TimersOK'
  BY <1>p, <1>13 DEF make_response, TimersOK, Contains
<1>14. ASSUME NEW c \in Co, ends(c)
       PROVE  TimersOK'
  BY <1>p, <1>14
  DEF ends, Go, Resume, Runs, TimersOK, Sleepy, Waiting, Resumed, Contains
<1>15. ASSUME NEW c \in Co, fails(c)
       PROVE  TimersOK'
  BY <1>p, <1>15
  DEF fails, Unwind, Reply, Trigger, Go, Resume, Runs, TimersOK, Sleepy, Waiting,
      Resumed, Contains
<1>16. ASSUME NEW c \in Co, exit(c)
       PROVE  TimersOK'
  BY <1>p, <1>16
  DEF exit, Go, Resume, Runs, TimersOK, Sleepy, Waiting, Resumed, Contains
<1>17. ASSUME NEW c \in Co, after_sleep(c)
       PROVE  TimersOK'
  BY <1>p, <1>17
  DEF after_sleep, Woken, Go, Resume, EngineTyped, TablesTyped, WorldTyped,
      CallsTyped, TimersOK, Sleepy, Waiting, Resumed, Contains
<1>18. ASSUME NEW c \in Co, after_call(c)
       PROVE  TimersOK'
  BY <1>p, <1>18
  DEF after_call, Go, Resume, TimersOK, Sleepy, Waiting, Resumed, Contains
<1>19. ASSUME NEW c \in Co, enter(c)
       PROVE  TimersOK'
  BY <1>p, <1>19 DEF enter, Inside, TimersOK, Contains
<1>20. ASSUME NEW c \in Co, enter_waits(c)
       PROVE  TimersOK'
  BY <1>p, <1>20
  DEF enter_waits, suspend_sleep, Yield, Go, Resume, Runs, EngineTyped,
      TablesTyped, WorldTyped, CallsTyped, RunningOK, TablesOK, SleepersOK,
      UndrawnOK, TimersOK, AskedOK, ErrorQueueOK, TurnOK, Sleepy, Waiting,
      Resumed, Contains
<1>21. ASSUME NEW c \in Co, after_queue(c)
       PROVE  TimersOK'
  BY <1>p, <1>21
  DEF after_queue, Woken, Inside, Unwind, Reply, Trigger, Go, Resume, EngineTyped,
      TablesTyped, WorldTyped, CallsTyped, TimersOK, Sleepy, Waiting, Resumed,
      Contains
<1>22. ASSUME NEW c \in Co, leave(c)
       PROVE  TimersOK'
  BY <1>p, <1>22 DEF leave, TimersOK, Contains
<1>23. ASSUME NEW c \in Co, NEW p \in Peer, yield_call(c, p)
       PROVE  TimersOK'
  BY <1>p, <1>23
  DEF yield_call, Yield, Go, Resume, Runs, EngineTyped, TablesTyped, WorldTyped,
      CallsTyped, RunningOK, TablesOK, SleepersOK, UndrawnOK, TimersOK, AskedOK,
      ErrorQueueOK, TurnOK, Sleepy, Waiting, Resumed, Contains
<1>24. ASSUME NEW c \in Co, NEW p \in Peer, respond(c, p)
       PROVE  TimersOK'
  BY <1>p, <1>24 DEF respond, TimersOK, Contains
<1>25. ASSUME NEW c \in Co, NEW d \in Co, timeout(c, d)
       PROVE  TimersOK'
  BY <1>p, <1>25
  DEF timeout, Free, Runs, EngineTyped, TablesTyped, WorldTyped, CallsTyped,
      RunningOK, TablesOK, SleepersOK, UndrawnOK, TimersOK, AskedOK, ErrorQueueOK,
      TurnOK, Sleepy, Waiting, Resumed, Contains
<1>26. ASSUME NEW c \in Co, NEW d \in Co, fork(c, d)
       PROVE  TimersOK'
  BY <1>p, <1>26
  DEF fork, Free, Runs, TimersOK, Sleepy, Waiting, Resumed, Contains
<1>27. ASSUME NEW c \in Co, NEW d \in Co, wakeup(c, d)
       PROVE  TimersOK'
  BY <1>p, <1>27 DEF wakeup, TimersOK, Contains
<1>. QED BY <1>0, <1>1, <1>2, <1>3, <1>4, <1>5, <1>6, <1>7, <1>8, <1>9, <1>10,
     <1>11, <1>12, <1>13, <1>14, <1>15, <1>16, <1>17, <1>18, <1>19, <1>20,
     <1>21, <1>22, <1>23, <1>24, <1>25, <1>26, <1>27
     DEF Next, Engine, Message, Coroutine

(* What a peer may still answer is there to be answered.                 *)
LEMMA AskedKept ==
    ASSUME Basics, CallsOK, ~exited, ~exited', [Next]_vars
    PROVE  AskedOK'
<1>p. EngineTyped /\ TablesTyped /\ WorldTyped /\ CallsTyped /\
      RunningOK /\ TablesOK /\ SleepersOK /\ WatchOK /\ UndrawnOK /\
      TimersOK /\ AskedOK /\ ErrorQueueOK /\ TurnOK
  BY TypeParts DEF Basics, Parts, CallsOK
<1>0. CASE UNCHANGED vars
  BY <1>p, <1>0 DEF AskedOK
<1>1. CASE dispatch_wakeup
  <2>1. UNCHANGED <<watching_session, asked, refused>> /\ pc = "wakeup"
    BY <1>1 DEF dispatch_wakeup
  <2>2. \A s \in Sessions : watching_session[s] # None =>
           session_id_coroutine'[s] = session_id_coroutine[s]
    BY <1>p, <1>1, <2>1, WakeupStep DEF TablesTyped, WatchOK, Calls, Sleepy
  <2>3. \A s \in Sessions : session_id_coroutine[s] \in Co =>
           session_id_coroutine'[s] \in Co \/ watching_session[s] = None
    BY <2>2
  <2>4. \A s \in Sessions : session_id_coroutine[s] \notin Co => session_id_coroutine'[s] \notin Co
    BY <1>p, <1>1, WakeupStep DEF TablesTyped
  <2>. QED BY <1>p, <2>1, <2>2, <2>3, <2>4 DEF AskedOK
<1>2. CASE dispatch_error_queue
  <2>1. UNCHANGED <<watching_session, asked, refused>>
    BY <1>2 DEF dispatch_error_queue
  <2>2. PICK s \in Sessions :
          /\ error_queue # <<>> /\ s = Head(error_queue)
          /\ session_id_coroutine' = [session_id_coroutine EXCEPT ![s] = None]
    BY <1>2, ErrorStep
  <2>3. s \in refused \/ \A p \in Peer : <<p, s>> \notin asked
    BY <1>p, <2>2 DEF ErrorQueueOK, CallsTyped
  <2>. QED BY <1>p, <2>1, <2>2, <2>3 DEF AskedOK, TablesTyped
<1>3. CASE suspend_returns
  BY <1>p, <1>3 DEF suspend_returns, AskedOK
<1>4. CASE dispatch_forks
  BY <1>p, <1>4 DEF dispatch_forks, AskedOK
<1>5. ASSUME NEW p \in Peer, error_source_down(p)
      PROVE  AskedOK'
  BY <1>p, <1>5
  DEF error_source_down, Go, Resume, AskedOK, Sleepy, Waiting, Resumed, Calls
<1>6. ASSUME NEW p \in Peer, NEW c \in Co, request(p, c)
      PROVE  AskedOK'
  BY <1>p, <1>6 DEF request, AskedOK
<1>7. ASSUME NEW s \in Sessions, timer_response(s)
      PROVE  AskedOK'
  BY <1>p, <1>7
  DEF timer_response, response, Go, Resume, RunningOK, TablesOK, SleepersOK,
      WatchOK, UndrawnOK, TimersOK, AskedOK, ErrorQueueOK, TurnOK, Sleepy,
      Waiting, Resumed, Calls
<1>8. ASSUME NEW p \in Peer, NEW s \in Sessions, peer_response(p, s)
      PROVE  AskedOK'
  BY <1>p, <1>8
  DEF peer_response, response, Go, Resume, AskedOK, Sleepy, Waiting, Resumed,
      Calls
<1>9. ASSUME NEW p \in Peer, NEW s \in Sessions, _error_dispatch(p, s)
      PROVE  AskedOK'
  BY <1>p, <1>9
  DEF _error_dispatch, Go, Resume, AskedOK, Sleepy, Waiting, Resumed, Calls
<1>10. ASSUME NEW c \in Co, sleep(c)
       PROVE  AskedOK'
  <2>1. session + 1 \in Sessions /\ session + 1 > session
        /\ UNCHANGED <<watching_session, asked, refused>>
    BY <1>p, <1>10 DEF sleep, suspend_sleep, Yield, TablesTyped
  <2>2. \A p \in Peer : <<p, session + 1>> \notin asked
    BY <1>p, <2>1 DEF UndrawnOK
  <2>3. \A s \in Sessions \ {session + 1} : session_id_coroutine'[s] = session_id_coroutine[s]
    BY <1>p, <1>10 DEF sleep, suspend_sleep, Yield, TablesTyped
  <2>. QED BY <1>p, <2>1, <2>2, <2>3 DEF AskedOK
<1>11. ASSUME NEW c \in Co, wait(c)
       PROVE  AskedOK'
  <2>1. session + 1 \in Sessions /\ session + 1 > session
        /\ UNCHANGED <<watching_session, asked, refused>>
    BY <1>p, <1>11 DEF wait, suspend_sleep, Yield, TablesTyped
  <2>2. \A p \in Peer : <<p, session + 1>> \notin asked
    BY <1>p, <2>1 DEF UndrawnOK
  <2>3. \A s \in Sessions \ {session + 1} : session_id_coroutine'[s] = session_id_coroutine[s]
    BY <1>p, <1>11 DEF wait, suspend_sleep, Yield, TablesTyped
  <2>. QED BY <1>p, <2>1, <2>2, <2>3 DEF AskedOK
<1>12. ASSUME NEW c \in Co, ret(c)
       PROVE  AskedOK'
  BY <1>p, <1>12 DEF ret, AskedOK
<1>13. ASSUME NEW c \in Co, make_response(c)
       PROVE  AskedOK'
  BY <1>p, <1>13 DEF make_response, AskedOK
<1>14. ASSUME NEW c \in Co, ends(c)
       PROVE  AskedOK'
  BY <1>p, <1>14 DEF ends, AskedOK
<1>15. ASSUME NEW c \in Co, fails(c)
       PROVE  AskedOK'
  BY <1>p, <1>15 DEF fails, Unwind, AskedOK
<1>16. ASSUME NEW c \in Co, exit(c)
       PROVE  AskedOK'
  BY <1>p, <1>16 DEF exit, AskedOK
<1>17. ASSUME NEW c \in Co, after_sleep(c)
       PROVE  AskedOK'
  BY <1>p, <1>17
  DEF after_sleep, Woken, Go, Resume, RunningOK, TablesOK, SleepersOK, WatchOK,
      UndrawnOK, TimersOK, AskedOK, ErrorQueueOK, TurnOK, Sleepy, Waiting,
      Resumed, Calls
<1>18. ASSUME NEW c \in Co, after_call(c)
       PROVE  AskedOK'
  BY <1>p, <1>18
  DEF after_call, Go, Resume, RunningOK, TablesOK, SleepersOK, WatchOK, UndrawnOK,
      TimersOK, AskedOK, ErrorQueueOK, TurnOK, Sleepy, Waiting, Resumed, Calls
<1>19. ASSUME NEW c \in Co, enter(c)
       PROVE  AskedOK'
  BY <1>p, <1>19 DEF enter, Inside, AskedOK
<1>20. ASSUME NEW c \in Co, enter_waits(c)
       PROVE  AskedOK'
  <2>1. session + 1 \in Sessions /\ session + 1 > session
        /\ UNCHANGED <<watching_session, asked, refused>>
    BY <1>p, <1>20 DEF enter_waits, suspend_sleep, Yield, TablesTyped
  <2>2. \A p \in Peer : <<p, session + 1>> \notin asked
    BY <1>p, <2>1 DEF UndrawnOK
  <2>3. \A s \in Sessions \ {session + 1} : session_id_coroutine'[s] = session_id_coroutine[s]
    BY <1>p, <1>20 DEF enter_waits, suspend_sleep, Yield, TablesTyped
  <2>. QED BY <1>p, <2>1, <2>2, <2>3 DEF AskedOK
<1>21. ASSUME NEW c \in Co, after_queue(c)
       PROVE  AskedOK'
  BY <1>p, <1>21
  DEF after_queue, Woken, Inside, Unwind, Reply, Trigger, Go, Resume, RunningOK,
      TablesOK, SleepersOK, WatchOK, UndrawnOK, TimersOK, AskedOK, ErrorQueueOK,
      TurnOK, Sleepy, Waiting, Resumed, Calls
<1>22. ASSUME NEW c \in Co, leave(c)
       PROVE  AskedOK'
  BY <1>p, <1>22 DEF leave, AskedOK
<1>23. ASSUME NEW c \in Co, NEW p \in Peer, yield_call(c, p)
       PROVE  AskedOK'
  BY <1>p, <1>23
  DEF yield_call, Yield, Go, Resume, Runs, EngineTyped, TablesTyped, WorldTyped,
      CallsTyped, RunningOK, TablesOK, SleepersOK, WatchOK, UndrawnOK, TimersOK,
      AskedOK, ErrorQueueOK, TurnOK, Sleepy, Waiting, Resumed, Calls
<1>24. ASSUME NEW c \in Co, NEW p \in Peer, respond(c, p)
       PROVE  AskedOK'
  BY <1>p, <1>24 DEF respond, AskedOK
<1>25. ASSUME NEW c \in Co, NEW d \in Co, timeout(c, d)
       PROVE  AskedOK'
  <2>1. session + 1 \in Sessions /\ session + 1 > session
        /\ UNCHANGED <<watching_session, asked, refused>>
    BY <1>p, <1>25 DEF timeout, TablesTyped
  <2>2. \A p \in Peer : <<p, session + 1>> \notin asked
    BY <1>p, <2>1 DEF UndrawnOK
  <2>3. \A s \in Sessions \ {session + 1} : session_id_coroutine'[s] = session_id_coroutine[s]
    BY <1>p, <1>25 DEF timeout, TablesTyped
  <2>. QED BY <1>p, <2>1, <2>2, <2>3 DEF AskedOK
<1>26. ASSUME NEW c \in Co, NEW d \in Co, fork(c, d)
       PROVE  AskedOK'
  BY <1>p, <1>26 DEF fork, AskedOK
<1>27. ASSUME NEW c \in Co, NEW d \in Co, wakeup(c, d)
       PROVE  AskedOK'
  BY <1>p, <1>27 DEF wakeup, AskedOK
<1>. QED BY <1>0, <1>1, <1>2, <1>3, <1>4, <1>5, <1>6, <1>7, <1>8, <1>9, <1>10,
     <1>11, <1>12, <1>13, <1>14, <1>15, <1>16, <1>17, <1>18, <1>19, <1>20,
     <1>21, <1>22, <1>23, <1>24, <1>25, <1>26, <1>27
     DEF Next, Engine, Message, Coroutine

(* A call that is to fail cannot be answered too.                        *)
LEMMA ErrorQueueKept ==
    ASSUME Basics, CallsOK, ~exited, ~exited', [Next]_vars
    PROVE  ErrorQueueOK'
<1>p. EngineTyped /\ TablesTyped /\ WorldTyped /\ CallsTyped /\
      RunningOK /\ TablesOK /\ SleepersOK /\ WatchOK /\ UndrawnOK /\
      TimersOK /\ AskedOK /\ ErrorQueueOK /\ TurnOK
  BY TypeParts DEF Basics, Parts, CallsOK
<1>0. CASE UNCHANGED vars
  BY <1>p, <1>0 DEF ErrorQueueOK
<1>1. CASE dispatch_wakeup
  <2>1. UNCHANGED <<error_queue, watching_session, asked, refused>> /\ pc = "wakeup"
    BY <1>1 DEF dispatch_wakeup
  <2>2. \A s \in Sessions : watching_session[s] # None =>
           session_id_coroutine'[s] = session_id_coroutine[s]
    BY <1>p, <1>1, <2>1, WakeupStep DEF TablesTyped, WatchOK, Calls, Sleepy
  <2>3. \A i \in 1 .. Len(error_queue) :
           error_queue[i] \in Sessions /\ watching_session[error_queue[i]] # None
    BY <1>p DEF CallsTyped, ErrorQueueOK
  <2>4. \A i \in 1 .. Len(error_queue) : session_id_coroutine'[error_queue[i]] \in Co
    BY <1>p, <2>2, <2>3 DEF ErrorQueueOK
  <2>. QED BY <1>p, <2>1, <2>4 DEF ErrorQueueOK
<1>2. CASE dispatch_error_queue
  <2>1. /\ UNCHANGED <<watching_session, asked, refused>>
        /\ error_queue # <<>> /\ error_queue' = Tail(error_queue)
    BY <1>2 DEF dispatch_error_queue
  <2>2. PICK s \in Sessions :
          /\ s = Head(error_queue)
          /\ session_id_coroutine' = [session_id_coroutine EXCEPT ![s] = None]
    BY <1>2, ErrorStep
  <2>3. /\ Len(error_queue') = Len(error_queue) - 1 /\ Len(error_queue) \in Nat \ {0}
        /\ \A i \in 1 .. Len(error_queue') :
              error_queue'[i] = error_queue[i + 1] /\ i + 1 \in 1 .. Len(error_queue)
        /\ s = error_queue[1]
    BY <1>p, <2>1, <2>2, TailContains DEF CallsTyped
  <2>4. \A i \in 1 .. Len(error_queue) : error_queue[i] \in Sessions
    BY <1>p DEF CallsTyped
  <2>5. \A i \in 1 .. Len(error_queue') : error_queue'[i] # s
    BY <1>p, <2>3 DEF ErrorQueueOK
  <2>6. \A i \in 1 .. Len(error_queue') :
          session_id_coroutine'[error_queue'[i]] = session_id_coroutine[error_queue'[i]]
    BY <1>p, <2>2, <2>3, <2>4, <2>5 DEF TablesTyped
  <2>7. \A i, j \in 1 .. Len(error_queue') : error_queue'[i] = error_queue'[j] => i = j
    BY <1>p, <2>3 DEF ErrorQueueOK
  <2>8. ASSUME NEW i \in 1 .. Len(error_queue')
        PROVE  /\ session_id_coroutine'[error_queue'[i]] \in Co
               /\ watching_session[error_queue'[i]] # None
               /\ \/ error_queue'[i] \in refused
                  \/ \A p \in Peer : <<p, error_queue'[i]>> \notin asked
    <3>1. error_queue'[i] = error_queue[i + 1] /\ i + 1 \in 1 .. Len(error_queue)
      BY <2>3
    <3>. QED BY <1>p, <2>6, <3>1 DEF ErrorQueueOK
  <2>9. watching_session' = watching_session /\ asked' = asked /\ refused' = refused
    BY <2>1
  <2>. QED BY <2>7, <2>8, <2>9 DEF ErrorQueueOK
<1>3. CASE suspend_returns
  BY <1>p, <1>3 DEF suspend_returns, ErrorQueueOK
<1>4. CASE dispatch_forks
  BY <1>p, <1>4 DEF dispatch_forks, ErrorQueueOK
<1>5. ASSUME NEW p \in Peer, error_source_down(p)
      PROVE  ErrorQueueOK'
  <2>1. PICK order \in SetToSeqs(Watched(p)) : error_queue' = error_queue \o order
    BY <1>5 DEF error_source_down
  <2>2. error_queue = <<>> /\ pc = "idle" /\ refused' = refused \cup Watched(p)
        /\ UNCHANGED <<session_id_coroutine, watching_session, asked>>
    BY <1>p, <1>5 DEF error_source_down, TurnOK, DueOK
  <2>3. /\ error_queue' = order /\ order \in Seq(Sessions)
        /\ \A i, j \in 1 .. Len(order) : order[i] = order[j] => i = j
        /\ \A i \in 1 .. Len(order) : watching_session[order[i]] = p
    BY <1>p, <2>1, <2>2, WatchedOrder
  <2>4. \A i \in 1 .. Len(order) : session_id_coroutine[order[i]] \in Co
    BY <1>p, <2>2, <2>3 DEF WatchOK, Calls
  <2>5. \A i \in 1 .. Len(order) : order[i] \in refused'
    BY <2>2, <2>3 DEF Watched
  <2>. QED BY <2>2, <2>3, <2>4, <2>5 DEF ErrorQueueOK
<1>6. ASSUME NEW p \in Peer, NEW c \in Co, request(p, c)
      PROVE  ErrorQueueOK'
  BY <1>p, <1>6 DEF request, ErrorQueueOK
<1>7. ASSUME NEW s \in Sessions, timer_response(s)
      PROVE  ErrorQueueOK'
  BY <1>p, <1>7
  DEF timer_response, response, Go, Resume, RunningOK, TablesOK, SleepersOK,
      WatchOK, UndrawnOK, TimersOK, AskedOK, ErrorQueueOK, TurnOK, Sleepy,
      Waiting, Resumed, DueOK, Calls
<1>8. ASSUME NEW p \in Peer, NEW s \in Sessions, peer_response(p, s)
      PROVE  ErrorQueueOK'
  <2>1. error_queue' = <<>>
    BY <1>p, <1>8 DEF peer_response, response, TurnOK, DueOK
  <2>. QED BY <2>1 DEF ErrorQueueOK
<1>9. ASSUME NEW p \in Peer, NEW s \in Sessions, _error_dispatch(p, s)
      PROVE  ErrorQueueOK'
  BY <1>p, <1>9
  DEF _error_dispatch, Go, Resume, RunningOK, TablesOK, SleepersOK, WatchOK,
      UndrawnOK, TimersOK, AskedOK, ErrorQueueOK, TurnOK, Sleepy, Waiting,
      Resumed, DueOK, Calls
<1>10. ASSUME NEW c \in Co, sleep(c)
       PROVE  ErrorQueueOK'
  BY <1>p, <1>10
  DEF sleep, suspend_sleep, Yield, Go, Resume, Runs, ErrorQueueOK, Sleepy,
      Waiting, Resumed, Calls
<1>11. ASSUME NEW c \in Co, wait(c)
       PROVE  ErrorQueueOK'
  BY <1>p, <1>11
  DEF wait, suspend_sleep, Yield, Go, Resume, Runs, ErrorQueueOK, Sleepy, Waiting,
      Resumed, Calls
<1>12. ASSUME NEW c \in Co, ret(c)
       PROVE  ErrorQueueOK'
  BY <1>p, <1>12 DEF ret, ErrorQueueOK
<1>13. ASSUME NEW c \in Co, make_response(c)
       PROVE  ErrorQueueOK'
  BY <1>p, <1>13 DEF make_response, ErrorQueueOK
<1>14. ASSUME NEW c \in Co, ends(c)
       PROVE  ErrorQueueOK'
  BY <1>p, <1>14 DEF ends, ErrorQueueOK
<1>15. ASSUME NEW c \in Co, fails(c)
       PROVE  ErrorQueueOK'
  BY <1>p, <1>15 DEF fails, Unwind, ErrorQueueOK
<1>16. ASSUME NEW c \in Co, exit(c)
       PROVE  ErrorQueueOK'
  BY <1>p, <1>16 DEF exit, ErrorQueueOK
<1>17. ASSUME NEW c \in Co, after_sleep(c)
       PROVE  ErrorQueueOK'
  BY <1>p, <1>17
  DEF after_sleep, Woken, Go, Resume, EngineTyped, TablesTyped, WorldTyped,
      CallsTyped, RunningOK, TablesOK, SleepersOK, WatchOK, UndrawnOK, TimersOK,
      AskedOK, ErrorQueueOK, TurnOK, Sleepy, Waiting, Resumed, DueOK, Calls
<1>18. ASSUME NEW c \in Co, after_call(c)
       PROVE  ErrorQueueOK'
  <2>1. UNCHANGED <<error_queue, session_id_coroutine, asked, refused>>
    BY <1>18 DEF after_call
  <2>2. \A i \in 1 .. Len(error_queue) :
           watching_session'[error_queue[i]] = watching_session[error_queue[i]]
    <3>1. CASE at[c] = "timeout"
      BY <1>18, <3>1 DEF after_call
    <3>2. CASE at[c] = "call"
      <4>1. waits[c] \in Sessions /\ session_id_coroutine[waits[c]] \notin Co
        BY <1>p, <1>18, <3>2 DEF after_call, TablesOK, TablesTyped, Resumed
      <4>2. watching_session' = [watching_session EXCEPT ![waits[c]] = None]
        BY <1>18, <3>2 DEF after_call
      <4>3. \A i \in 1 .. Len(error_queue) :
               error_queue[i] \in Sessions /\ error_queue[i] # waits[c]
        BY <1>p, <4>1 DEF ErrorQueueOK, CallsTyped
      <4>. QED BY <1>p, <4>2, <4>3 DEF CallsTyped
    <3>. QED BY <1>18, <3>1, <3>2 DEF after_call
  <2>. QED BY <1>p, <2>1, <2>2 DEF ErrorQueueOK
<1>19. ASSUME NEW c \in Co, enter(c)
       PROVE  ErrorQueueOK'
  BY <1>p, <1>19 DEF enter, Inside, ErrorQueueOK
<1>20. ASSUME NEW c \in Co, enter_waits(c)
       PROVE  ErrorQueueOK'
  BY <1>p, <1>20
  DEF enter_waits, suspend_sleep, Yield, Go, Resume, Runs, ErrorQueueOK, Sleepy,
      Waiting, Resumed, Calls
<1>21. ASSUME NEW c \in Co, after_queue(c)
       PROVE  ErrorQueueOK'
  BY <1>p, <1>21
  DEF after_queue, Woken, Inside, Unwind, Reply, Trigger, Go, Resume, EngineTyped,
      TablesTyped, WorldTyped, CallsTyped, RunningOK, TablesOK, SleepersOK,
      WatchOK, UndrawnOK, TimersOK, AskedOK, ErrorQueueOK, TurnOK, Sleepy,
      Waiting, Resumed, DueOK, Calls
<1>22. ASSUME NEW c \in Co, leave(c)
       PROVE  ErrorQueueOK'
  BY <1>p, <1>22 DEF leave, ErrorQueueOK
<1>23. ASSUME NEW c \in Co, NEW p \in Peer, yield_call(c, p)
       PROVE  ErrorQueueOK'
  BY <1>p, <1>23
  DEF yield_call, Yield, Go, Resume, Runs, EngineTyped, TablesTyped, WorldTyped,
      CallsTyped, RunningOK, TablesOK, SleepersOK, WatchOK, UndrawnOK, TimersOK,
      AskedOK, ErrorQueueOK, TurnOK, Sleepy, Waiting, Resumed, DueOK, Calls
<1>24. ASSUME NEW c \in Co, NEW p \in Peer, respond(c, p)
       PROVE  ErrorQueueOK'
  BY <1>p, <1>24 DEF respond, ErrorQueueOK
<1>25. ASSUME NEW c \in Co, NEW d \in Co, timeout(c, d)
       PROVE  ErrorQueueOK'
  BY <1>p, <1>25
  DEF timeout, Free, Runs, ErrorQueueOK, Sleepy, Waiting, Resumed, Calls
<1>26. ASSUME NEW c \in Co, NEW d \in Co, fork(c, d)
       PROVE  ErrorQueueOK'
  BY <1>p, <1>26 DEF fork, ErrorQueueOK
<1>27. ASSUME NEW c \in Co, NEW d \in Co, wakeup(c, d)
       PROVE  ErrorQueueOK'
  BY <1>p, <1>27 DEF wakeup, ErrorQueueOK
<1>. QED BY <1>0, <1>1, <1>2, <1>3, <1>4, <1>5, <1>6, <1>7, <1>8, <1>9, <1>10,
     <1>11, <1>12, <1>13, <1>14, <1>15, <1>16, <1>17, <1>18, <1>19, <1>20,
     <1>21, <1>22, <1>23, <1>24, <1>25, <1>26, <1>27
     DEF Next, Engine, Message, Coroutine

(* A call whose peer has ended it is on its way to fail.                 *)
LEMMA EndingKept ==
    ASSUME Basics, CallsOK, ~exited, ~exited', [Next]_vars
    PROVE  EndingOK'
<1>p. EngineTyped /\ TablesTyped /\ WorldTyped /\ CallsTyped /\
      RunningOK /\ TablesOK /\ SleepersOK /\ WatchOK /\ UndrawnOK /\
      AskedOK /\ ErrorQueueOK /\ EndingOK /\ TurnOK
  BY TypeParts DEF Basics, Parts, CallsOK
<1>0. CASE UNCHANGED vars
  BY <1>p, <1>0 DEF EndingOK, Contains, Calls
<1>1. CASE dispatch_wakeup
  BY <1>p, <1>1
  DEF dispatch_wakeup, Mark, Go, Resume, EndingOK, Sleepy, Waiting, Resumed,
      Contains, Calls
<1>2. CASE dispatch_error_queue
  <2>1. UNCHANGED <<watching_session, asked, refused>> /\ error_queue' = Tail(error_queue)
    BY <1>2 DEF dispatch_error_queue
  <2>2. PICK s \in Sessions :
          /\ pc = "error" /\ error_queue # <<>> /\ s = Head(error_queue)
          /\ UNCHANGED <<at, waits, session>>
          /\ \/ pc' = "resumed" /\ running' = session_id_coroutine[s]
             \/ session_id_coroutine[s] \notin Co
    BY <1>2, ErrorStep
  <2>3. session_id_coroutine[s] \in Co /\ watching_session[s] # None
    BY <1>p, <2>2 DEF ErrorQueueOK, CallsTyped
  <2>4. pc' = "resumed" /\ Calls(running, s)'
    BY <1>p, <2>2, <2>3 DEF WatchOK, Calls
  <2>5. \A r \in Sessions : Contains(error_queue, r) => r = s \/ Contains(error_queue', r)
    BY <1>p, <2>1, <2>2, TailContains DEF CallsTyped
  <2>. QED BY <1>p, <2>1, <2>2, <2>4, <2>5 DEF EndingOK
<1>3. CASE suspend_returns
  BY <1>p, <1>3
  DEF suspend_returns, Go, Resume, EndingOK, Sleepy, Waiting, Resumed, Contains,
      Calls
<1>4. CASE dispatch_forks
  BY <1>p, <1>4
  DEF dispatch_forks, Go, Resume, EndingOK, Sleepy, Waiting, Resumed, Contains,
      Calls
<1>5. ASSUME NEW p \in Peer, error_source_down(p)
      PROVE  EndingOK'
  <2>1. PICK order \in SetToSeqs(Watched(p)) : error_queue' = error_queue \o order
    BY <1>5 DEF error_source_down
  <2>2. error_queue = <<>> /\ pc = "idle" /\ refused' = refused \cup Watched(p)
        /\ UNCHANGED <<watching_session, asked>>
    BY <1>p, <1>5 DEF error_source_down, TurnOK, DueOK
  <2>3. error_queue' = order
        /\ \A s \in Sessions : watching_session[s] = p => Contains(order, s)
    BY <1>p, <2>1, <2>2, WatchedOrder
  <2>4. \A s \in Sessions : watching_session[s] # None =>
           s \notin refused /\ <<watching_session[s], s>> \in asked
    BY <1>p, <2>2 DEF EndingOK, Contains
  <2>. QED BY <2>2, <2>3, <2>4 DEF EndingOK, Watched
<1>6. ASSUME NEW p \in Peer, NEW c \in Co, request(p, c)
      PROVE  EndingOK'
  BY <1>p, <1>6
  DEF request, Free, Go, Resume, EndingOK, Sleepy, Waiting, Resumed, Contains, Calls
<1>7. ASSUME NEW s \in Sessions, timer_response(s)
      PROVE  EndingOK'
  BY <1>p, <1>7
  DEF timer_response, response, Go, Resume, EndingOK, Sleepy, Waiting, Resumed,
      Contains, Calls
<1>8. ASSUME NEW p \in Peer, NEW s \in Sessions, peer_response(p, s)
      PROVE  EndingOK'
  <2>1. error_queue = <<>> /\ pc = "idle" /\ asked' = asked \ {<<p, s>>}
        /\ UNCHANGED <<at, waits, watching_session, error_queue, refused>>
    BY <1>p, <1>8 DEF peer_response, response, TurnOK, DueOK
  <2>2. \A r \in Sessions : watching_session[r] # None =>
           r \notin refused /\ <<watching_session[r], r>> \in asked
    BY <1>p, <2>1 DEF EndingOK, Contains
  <2>3. watching_session[s] # None => pc' = "resumed" /\ Calls(running', s)
    BY <1>p, <1>8, <2>1 DEF peer_response, response, Resume, WatchOK, Calls
  <2>. QED BY <2>1, <2>2, <2>3 DEF EndingOK, Calls
<1>9. ASSUME NEW p \in Peer, NEW s \in Sessions, _error_dispatch(p, s)
      PROVE  EndingOK'
  BY <1>p, <1>9
  DEF _error_dispatch, Go, Resume, EndingOK, Sleepy, Waiting, Resumed, Contains,
      Calls
<1>10. ASSUME NEW c \in Co, sleep(c)
       PROVE  EndingOK'
  BY <1>p, <1>10
  DEF sleep, suspend_sleep, Yield, Go, Resume, Runs, EndingOK, Sleepy, Waiting,
      Resumed, Contains, Calls
<1>11. ASSUME NEW c \in Co, wait(c)
       PROVE  EndingOK'
  BY <1>p, <1>11
  DEF wait, suspend_sleep, Yield, Go, Resume, Runs, EndingOK, Sleepy, Waiting,
      Resumed, Contains, Calls
<1>12. ASSUME NEW c \in Co, ret(c)
       PROVE  EndingOK'
  BY <1>p, <1>12 DEF ret, EndingOK, Contains, Calls
<1>13. ASSUME NEW c \in Co, make_response(c)
       PROVE  EndingOK'
  BY <1>p, <1>13 DEF make_response, EndingOK, Contains, Calls
<1>14. ASSUME NEW c \in Co, ends(c)
       PROVE  EndingOK'
  BY <1>p, <1>14
  DEF ends, Go, Resume, Runs, EndingOK, Sleepy, Waiting, Resumed, Contains, Calls
<1>15. ASSUME NEW c \in Co, fails(c)
       PROVE  EndingOK'
  BY <1>p, <1>15
  DEF fails, Unwind, Reply, Trigger, Go, Resume, Runs, EndingOK, Sleepy, Waiting,
      Resumed, Contains, Calls
<1>16. ASSUME NEW c \in Co, exit(c)
       PROVE  EndingOK'
  BY <1>p, <1>16
  DEF exit, Go, Resume, Runs, EndingOK, Sleepy, Waiting, Resumed, Contains, Calls
<1>17. ASSUME NEW c \in Co, after_sleep(c)
       PROVE  EndingOK'
  BY <1>p, <1>17
  DEF after_sleep, Woken, Go, Resume, EndingOK, Sleepy, Waiting, Resumed, Contains,
      Calls
<1>18. ASSUME NEW c \in Co, after_call(c)
       PROVE  EndingOK'
  BY <1>p, <1>18
  DEF after_call, Go, Resume, EngineTyped, TablesTyped, WorldTyped, CallsTyped,
      EndingOK, Sleepy, Waiting, Resumed, Contains, Calls
<1>19. ASSUME NEW c \in Co, enter(c)
       PROVE  EndingOK'
  BY <1>p, <1>19 DEF enter, Inside, EndingOK, Contains, Calls
<1>20. ASSUME NEW c \in Co, enter_waits(c)
       PROVE  EndingOK'
  BY <1>p, <1>20
  DEF enter_waits, suspend_sleep, Yield, Go, Resume, Runs, EndingOK, Sleepy,
      Waiting, Resumed, Contains, Calls
<1>21. ASSUME NEW c \in Co, after_queue(c)
       PROVE  EndingOK'
  BY <1>p, <1>21
  DEF after_queue, Woken, Inside, Unwind, Reply, Trigger, Go, Resume, EndingOK,
      Sleepy, Waiting, Resumed, Contains, Calls
<1>22. ASSUME NEW c \in Co, leave(c)
       PROVE  EndingOK'
  BY <1>p, <1>22 DEF leave, EndingOK, Contains, Calls
<1>23. ASSUME NEW c \in Co, NEW p \in Peer, yield_call(c, p)
       PROVE  EndingOK'
  <2>1. /\ pc = "user" /\ session + 1 \in Sessions /\ session + 1 > session
        /\ watching_session' = [watching_session EXCEPT ![session + 1] = p]
        /\ asked' = asked \cup {<<p, session + 1>>}
        /\ UNCHANGED <<error_queue, refused>>
    BY <1>p, <1>23 DEF yield_call, Yield, Runs, TablesTyped
  <2>2. session + 1 \notin refused
    BY <1>p, <2>1 DEF UndrawnOK
  <2>3. \A s \in Sessions \ {session + 1} : watching_session'[s] = watching_session[s]
    BY <1>p, <2>1 DEF CallsTyped
  <2>4. watching_session'[session + 1] = p
    BY <1>p, <2>1 DEF CallsTyped
  <2>. QED BY <1>p, <2>1, <2>2, <2>3, <2>4 DEF EndingOK
<1>24. ASSUME NEW c \in Co, NEW p \in Peer, respond(c, p)
       PROVE  EndingOK'
  BY <1>p, <1>24 DEF respond, EndingOK, Contains, Calls
<1>25. ASSUME NEW c \in Co, NEW d \in Co, timeout(c, d)
       PROVE  EndingOK'
  BY <1>p, <1>25
  DEF timeout, Free, Runs, EndingOK, Sleepy, Waiting, Resumed, Contains, Calls
<1>26. ASSUME NEW c \in Co, NEW d \in Co, fork(c, d)
       PROVE  EndingOK'
  BY <1>p, <1>26
  DEF fork, Free, Runs, EndingOK, Sleepy, Waiting, Resumed, Contains, Calls
<1>27. ASSUME NEW c \in Co, NEW d \in Co, wakeup(c, d)
       PROVE  EndingOK'
  BY <1>p, <1>27 DEF wakeup, EndingOK, Contains, Calls
<1>. QED BY <1>0, <1>1, <1>2, <1>3, <1>4, <1>5, <1>6, <1>7, <1>8, <1>9, <1>10,
     <1>11, <1>12, <1>13, <1>14, <1>15, <1>16, <1>17, <1>18, <1>19, <1>20,
     <1>21, <1>22, <1>23, <1>24, <1>25, <1>26, <1>27
     DEF Next, Engine, Message, Coroutine

(* A turn ends only when nothing is due.                                 *)
LEMMA TurnKept ==
    ASSUME Basics, CallsOK, ~exited, ~exited', [Next]_vars
    PROVE  TurnOK'
<1>p. EngineTyped /\ TablesTyped /\ ForksTyped /\ CallsTyped /\
      RunningOK /\ TimersOK /\ AskedOK /\ ErrorQueueOK /\ TurnOK
  BY TypeParts DEF Basics, Parts, CallsOK
<1>0. CASE UNCHANGED vars
  BY <1>p, <1>0 DEF AskedOK, ErrorQueueOK, TurnOK, DueOK
<1>1. CASE dispatch_wakeup
  BY <1>p, <1>1
  DEF dispatch_wakeup, Mark, Go, Resume, RunningOK, TimersOK, AskedOK,
      ErrorQueueOK, TurnOK, DueOK
<1>2. CASE dispatch_error_queue
  BY <1>p, <1>2
  DEF dispatch_error_queue, Go, Resume, RunningOK, TimersOK, AskedOK,
      ErrorQueueOK, TurnOK, DueOK
<1>3. CASE suspend_returns
  BY <1>p, <1>3
  DEF suspend_returns, Go, Resume, RunningOK, TimersOK, AskedOK, ErrorQueueOK,
      TurnOK, DueOK
<1>4. CASE dispatch_forks
  BY <1>p, <1>4
  DEF dispatch_forks, Go, Resume, RunningOK, TimersOK, AskedOK, ErrorQueueOK,
      TurnOK, DueOK
<1>5. ASSUME NEW p \in Peer, error_source_down(p)
      PROVE  TurnOK'
  BY <1>p, <1>5
  DEF error_source_down, Go, Resume, RunningOK, TimersOK, AskedOK, ErrorQueueOK,
      TurnOK, DueOK
<1>6. ASSUME NEW p \in Peer, NEW c \in Co, request(p, c)
      PROVE  TurnOK'
  BY <1>p, <1>6
  DEF request, Free, Go, Resume, RunningOK, TimersOK, AskedOK, ErrorQueueOK,
      TurnOK, DueOK
<1>7. ASSUME NEW s \in Sessions, timer_response(s)
      PROVE  TurnOK'
  BY <1>p, <1>7
  DEF timer_response, response, Go, Resume, RunningOK, TimersOK, AskedOK,
      ErrorQueueOK, TurnOK, DueOK
<1>8. ASSUME NEW p \in Peer, NEW s \in Sessions, peer_response(p, s)
      PROVE  TurnOK'
  BY <1>p, <1>8
  DEF peer_response, response, Go, Resume, RunningOK, TimersOK, AskedOK,
      ErrorQueueOK, TurnOK, DueOK
<1>9. ASSUME NEW p \in Peer, NEW s \in Sessions, _error_dispatch(p, s)
      PROVE  TurnOK'
  BY <1>p, <1>9
  DEF _error_dispatch, Go, Resume, RunningOK, TimersOK, AskedOK, ErrorQueueOK,
      TurnOK, DueOK
<1>10. ASSUME NEW c \in Co, sleep(c)
       PROVE  TurnOK'
  BY <1>p, <1>10
  DEF sleep, suspend_sleep, Yield, Go, Resume, Runs, RunningOK, TimersOK, AskedOK,
      ErrorQueueOK, TurnOK, DueOK
<1>11. ASSUME NEW c \in Co, wait(c)
       PROVE  TurnOK'
  BY <1>p, <1>11
  DEF wait, suspend_sleep, Yield, Go, Resume, Runs, RunningOK, TimersOK, AskedOK,
      ErrorQueueOK, TurnOK, DueOK
<1>12. ASSUME NEW c \in Co, ret(c)
       PROVE  TurnOK'
  BY <1>p, <1>12
  DEF ret, Reply, Runs, RunningOK, TimersOK, AskedOK, ErrorQueueOK, TurnOK, DueOK
<1>13. ASSUME NEW c \in Co, make_response(c)
       PROVE  TurnOK'
  BY <1>p, <1>13
  DEF make_response, Owes, Runs, RunningOK, TimersOK, AskedOK, ErrorQueueOK,
      TurnOK, DueOK
<1>14. ASSUME NEW c \in Co, ends(c)
       PROVE  TurnOK'
  BY <1>p, <1>14
  DEF ends, Go, Resume, Runs, RunningOK, TimersOK, AskedOK, ErrorQueueOK, TurnOK,
      DueOK
<1>15. ASSUME NEW c \in Co, fails(c)
       PROVE  TurnOK'
  BY <1>p, <1>15
  DEF fails, Unwind, Reply, Trigger, Go, Resume, Runs, EngineTyped, TablesTyped,
      ForksTyped, CallsTyped, RunningOK, TimersOK, AskedOK, ErrorQueueOK, TurnOK,
      DueOK
<1>16. ASSUME NEW c \in Co, exit(c)
       PROVE  TurnOK'
  BY <1>p, <1>16 DEF exit, Go, Resume, Runs, TurnOK
<1>17. ASSUME NEW c \in Co, after_sleep(c)
       PROVE  TurnOK'
  BY <1>p, <1>17
  DEF after_sleep, Woken, Go, Resume, RunningOK, TimersOK, AskedOK, ErrorQueueOK,
      TurnOK, DueOK
<1>18. ASSUME NEW c \in Co, after_call(c)
       PROVE  TurnOK'
  BY <1>p, <1>18
  DEF after_call, Go, Resume, RunningOK, TimersOK, AskedOK, ErrorQueueOK, TurnOK,
      DueOK
<1>19. ASSUME NEW c \in Co, enter(c)
       PROVE  TurnOK'
  BY <1>p, <1>19
  DEF enter, Inside, Runs, RunningOK, TimersOK, AskedOK, ErrorQueueOK, TurnOK,
      DueOK
<1>20. ASSUME NEW c \in Co, enter_waits(c)
       PROVE  TurnOK'
  BY <1>p, <1>20
  DEF enter_waits, suspend_sleep, Yield, Go, Resume, Runs, RunningOK, TimersOK,
      AskedOK, ErrorQueueOK, TurnOK, DueOK
<1>21. ASSUME NEW c \in Co, after_queue(c)
       PROVE  TurnOK'
  BY <1>p, <1>21
  DEF after_queue, Woken, Inside, Unwind, Reply, Trigger, Go, Resume, EngineTyped,
      TablesTyped, ForksTyped, CallsTyped, RunningOK, TimersOK, AskedOK,
      ErrorQueueOK, TurnOK, DueOK
<1>22. ASSUME NEW c \in Co, leave(c)
       PROVE  TurnOK'
  BY <1>p, <1>22
  DEF leave, Heir, Wake, Runs, RunningOK, TimersOK, AskedOK, ErrorQueueOK, TurnOK,
      DueOK
<1>23. ASSUME NEW c \in Co, NEW p \in Peer, yield_call(c, p)
       PROVE  TurnOK'
  BY <1>p, <1>23
  DEF yield_call, Yield, Go, Resume, Runs, RunningOK, TimersOK, AskedOK,
      ErrorQueueOK, TurnOK, DueOK
<1>24. ASSUME NEW c \in Co, NEW p \in Peer, respond(c, p)
       PROVE  TurnOK'
  BY <1>p, <1>24
  DEF respond, Reply, Runs, RunningOK, TimersOK, AskedOK, ErrorQueueOK, TurnOK,
      DueOK
<1>25. ASSUME NEW c \in Co, NEW d \in Co, timeout(c, d)
       PROVE  TurnOK'
  BY <1>p, <1>25
  DEF timeout, Free, Runs, RunningOK, TimersOK, AskedOK, ErrorQueueOK, TurnOK,
      DueOK
<1>26. ASSUME NEW c \in Co, NEW d \in Co, fork(c, d)
       PROVE  TurnOK'
  BY <1>p, <1>26
  DEF fork, Free, Runs, RunningOK, TimersOK, AskedOK, ErrorQueueOK, TurnOK, DueOK
<1>27. ASSUME NEW c \in Co, NEW d \in Co, wakeup(c, d)
       PROVE  TurnOK'
  BY <1>p, <1>27
  DEF wakeup, Wake, Runs, RunningOK, TimersOK, AskedOK, ErrorQueueOK, TurnOK,
      DueOK
<1>. QED BY <1>0, <1>1, <1>2, <1>3, <1>4, <1>5, <1>6, <1>7, <1>8, <1>9, <1>10,
     <1>11, <1>12, <1>13, <1>14, <1>15, <1>16, <1>17, <1>18, <1>19, <1>20,
     <1>21, <1>22, <1>23, <1>24, <1>25, <1>26, <1>27
     DEF Next, Engine, Message, Coroutine

-----------------------------------------------------------------------------

(* Whoever sleeps stays asleep until it is resumed.                        *)
LEMMA SleepersStay ==
    ASSUME Basics, [Next]_vars
    PROVE  Stay
<1>p. EngineTyped /\ TablesTyped /\ ForksTyped /\ RunningOK
  BY TypeParts DEF Basics, Parts
<1>0. CASE UNCHANGED vars
  BY <1>p, <1>0 DEF Stay
<1>1. CASE dispatch_wakeup
  BY <1>p, <1>1 DEF dispatch_wakeup, Stay
<1>2. CASE dispatch_error_queue
  BY <1>p, <1>2 DEF dispatch_error_queue, Stay
<1>3. CASE suspend_returns
  BY <1>p, <1>3 DEF suspend_returns, Stay
<1>4. CASE dispatch_forks
  BY <1>p, <1>4
  DEF dispatch_forks, Go, Resume, EngineTyped, TablesTyped, ForksTyped, RunningOK,
      Sleepy, Waiting, Resumed, Stay
<1>5. ASSUME NEW p \in Peer, error_source_down(p)
      PROVE  Stay
  BY <1>p, <1>5 DEF error_source_down, Stay
<1>6. ASSUME NEW p \in Peer, NEW c \in Co, request(p, c)
      PROVE  Stay
  BY <1>p, <1>6 DEF request, Free, Go, Resume, Sleepy, Waiting, Resumed, Stay
<1>7. ASSUME NEW s \in Sessions, timer_response(s)
      PROVE  Stay
  BY <1>p, <1>7 DEF timer_response, response, Stay
<1>8. ASSUME NEW p \in Peer, NEW s \in Sessions, peer_response(p, s)
      PROVE  Stay
  BY <1>p, <1>8 DEF peer_response, response, Stay
<1>9. ASSUME NEW p \in Peer, NEW s \in Sessions, _error_dispatch(p, s)
      PROVE  Stay
  BY <1>p, <1>9 DEF _error_dispatch, Stay
<1>10. ASSUME NEW c \in Co, sleep(c)
       PROVE  Stay
  BY <1>p, <1>10
  DEF sleep, suspend_sleep, Yield, Go, Resume, Runs, RunningOK, Sleepy, Waiting,
      Resumed, Stay
<1>11. ASSUME NEW c \in Co, wait(c)
       PROVE  Stay
  BY <1>p, <1>11
  DEF wait, suspend_sleep, Yield, Go, Resume, Runs, RunningOK, Sleepy, Waiting,
      Resumed, Stay
<1>12. ASSUME NEW c \in Co, ret(c)
       PROVE  Stay
  BY <1>p, <1>12 DEF ret, Stay
<1>13. ASSUME NEW c \in Co, make_response(c)
       PROVE  Stay
  BY <1>p, <1>13 DEF make_response, Stay
<1>14. ASSUME NEW c \in Co, ends(c)
       PROVE  Stay
  BY <1>p, <1>14
  DEF ends, Go, Resume, Runs, RunningOK, Sleepy, Waiting, Resumed, Stay
<1>15. ASSUME NEW c \in Co, fails(c)
       PROVE  Stay
  BY <1>p, <1>15
  DEF fails, Unwind, Reply, Trigger, Go, Resume, Runs, RunningOK, Sleepy, Waiting,
      Resumed, Stay
<1>16. ASSUME NEW c \in Co, exit(c)
       PROVE  Stay
  BY <1>p, <1>16
  DEF exit, Go, Resume, Runs, RunningOK, Sleepy, Waiting, Resumed, Stay
<1>17. ASSUME NEW c \in Co, after_sleep(c)
       PROVE  Stay
  BY <1>p, <1>17
  DEF after_sleep, Woken, Go, Resume, Sleepy, Waiting, Resumed, Stay
<1>18. ASSUME NEW c \in Co, after_call(c)
       PROVE  Stay
  BY <1>p, <1>18 DEF after_call, Go, Resume, Sleepy, Waiting, Resumed, Stay
<1>19. ASSUME NEW c \in Co, enter(c)
       PROVE  Stay
  BY <1>p, <1>19 DEF enter, Inside, Stay
<1>20. ASSUME NEW c \in Co, enter_waits(c)
       PROVE  Stay
  BY <1>p, <1>20
  DEF enter_waits, suspend_sleep, Yield, Go, Resume, Runs, RunningOK, Sleepy,
      Waiting, Resumed, Stay
<1>21. ASSUME NEW c \in Co, after_queue(c)
       PROVE  Stay
  BY <1>p, <1>21
  DEF after_queue, Woken, Inside, Unwind, Reply, Trigger, Go, Resume, EngineTyped,
      TablesTyped, ForksTyped, Sleepy, Waiting, Resumed, Stay
<1>22. ASSUME NEW c \in Co, leave(c)
       PROVE  Stay
  BY <1>p, <1>22 DEF leave, Stay
<1>23. ASSUME NEW c \in Co, NEW p \in Peer, yield_call(c, p)
       PROVE  Stay
  BY <1>p, <1>23
  DEF yield_call, Yield, Go, Resume, Runs, RunningOK, Sleepy, Waiting, Resumed,
      Stay
<1>24. ASSUME NEW c \in Co, NEW p \in Peer, respond(c, p)
       PROVE  Stay
  BY <1>p, <1>24 DEF respond, Stay
<1>25. ASSUME NEW c \in Co, NEW d \in Co, timeout(c, d)
       PROVE  Stay
  BY <1>p, <1>25 DEF timeout, Free, Runs, Sleepy, Waiting, Resumed, Stay
<1>26. ASSUME NEW c \in Co, NEW d \in Co, fork(c, d)
       PROVE  Stay
  BY <1>p, <1>26 DEF fork, Free, Runs, Sleepy, Waiting, Resumed, Stay
<1>27. ASSUME NEW c \in Co, NEW d \in Co, wakeup(c, d)
       PROVE  Stay
  BY <1>p, <1>27 DEF wakeup, Stay
<1>. QED BY <1>0, <1>1, <1>2, <1>3, <1>4, <1>5, <1>6, <1>7, <1>8, <1>9, <1>10,
     <1>11, <1>12, <1>13, <1>14, <1>15, <1>16, <1>17, <1>18, <1>19, <1>20,
     <1>21, <1>22, <1>23, <1>24, <1>25, <1>26, <1>27
     DEF Next, Engine, Message, Coroutine

(* A step that leaves wakeup_queue alone and resumes nobody.               *)
LEMMA WokenFrame ==
    ASSUME SleepTyped, WokenOK, Stay, UNCHANGED wakeup_queue, pc' # "resumed",
           \A d \in Co : at[d] = "queue" /\ d = current_thread /\ ref = 0 /\ ~Resumed(d) =>
              UNCHANGED <<ref, current_thread>>,
           \/ wakeup_queue = <<>> \/ pc' \in {"wakeup", "user"}
           \/ pc' = "forks" /\ triggers' > 0
    PROVE  WokenOK'
<1>1. ASSUME NEW i \in 1 .. Len(wakeup_queue)
      PROVE  /\ at'[wakeup_queue[i]] \in Sleepy
             /\ at'[wakeup_queue[i]] = "queue" =>
                   ref' = 0 /\ current_thread' = wakeup_queue[i]
  <2>1. PICK d \in Co : d = wakeup_queue[i]
    BY DEF SleepTyped
  <2>2. at[d] \in Sleepy /\ ~Resumed(d)
        /\ (at[d] = "queue" => ref = 0 /\ current_thread = d)
    BY <2>1 DEF WokenOK
  <2>3. at'[d] = at[d]
    BY <2>2 DEF Stay
  <2>. QED BY <2>1, <2>2, <2>3
<1>. QED BY <1>1 DEF WokenOK, DueOK, Resumed

(* A step that leaves the section and its queue alone.                     *)
LEMMA ThreadQueueFrame ==
    ASSUME SectionTyped, RunningOK, HandOverOK, ThreadQueueOK, Stay,
           UNCHANGED <<thread_queue, current_thread>>
    PROVE  ThreadQueueOK'
<1>1. ASSUME NEW i \in 1 .. Len(thread_queue)
      PROVE  at'[thread_queue[i]] = "queue" /\ waits'[thread_queue[i]] = waits[thread_queue[i]]
  <2>1. PICK d \in Co : d = thread_queue[i]
    BY DEF SectionTyped
  <2>2. at[d] = "queue" /\ ~Resumed(d)
    BY <2>1 DEF ThreadQueueOK, HandOverOK, Resumed
  <2>. QED BY <2>1, <2>2 DEF Stay, Sleepy
<1>. QED BY <1>1 DEF ThreadQueueOK

(* A token joins the queue only if its sleeper is not in it.               *)
LEMMA WakeStep ==
    ASSUME SleepTyped, NEW token \in Co, NEW astray, Wake(token, astray), ~stray'
    PROVE  \/ sleep_session[token] = 0 /\ UNCHANGED wakeup_queue
           \/ /\ sleep_session[token] # 0 /\ wakeup_queue' = Append(wakeup_queue, token)
              /\ ~Contains(wakeup_queue, token) /\ at[token] \notin astray
<1>1. CASE sleep_session[token] = 0
  BY <1>1 DEF Wake
<1>2. CASE sleep_session[token] # 0
  <2>1. wakeup_queue' = Append(wakeup_queue, token)
    BY <1>2 DEF Wake
  <2>2. stray' = (stray \/ Contains(wakeup_queue, token) \/ at[token] \in astray)
    BY <1>2, Zenon DEF Wake
  <2>3. ~Contains(wakeup_queue, token) /\ at[token] \notin astray
    BY <2>2, Zenon
  <2>. QED BY <1>2, <2>1, <2>3
<1>. QED BY <1>1, <1>2

(* skynet.wakeup marks a coroutine that sleeps, and once.                  *)
LEMMA WakeKept ==
    ASSUME SleepTyped, SleepersOK, WokenOK, NEW token \in Co, NEW astray,
           Wake(token, astray), ~stray', pc = "user", UNCHANGED <<at, pc, running>>,
           sleep_session[token] # 0 /\ at[token] = "queue" => ref' = 0 /\ current_thread' = token,
           \A d \in Co : d = current_thread /\ at[d] = "queue" /\ ref = 0 =>
              UNCHANGED <<ref, current_thread>>
    PROVE  WokenOK'
<1>1. \A i \in 1 .. Len(wakeup_queue) :
         /\ at[wakeup_queue[i]] \in Sleepy
         /\ at[wakeup_queue[i]] = "queue" => ref' = 0 /\ current_thread' = wakeup_queue[i]
  BY DEF WokenOK, SleepTyped
<1>2. CASE UNCHANGED wakeup_queue
  BY <1>1, <1>2 DEF WokenOK, DueOK, Resumed
<1>3. CASE /\ sleep_session[token] # 0 /\ wakeup_queue' = Append(wakeup_queue, token)
           /\ ~Contains(wakeup_queue, token)
  <2>1. at[token] \in Sleepy
    BY <1>3 DEF SleepersOK
  <2>2. \A i \in 1 .. Len(wakeup_queue') :
           \/ i \in 1 .. Len(wakeup_queue) /\ wakeup_queue'[i] = wakeup_queue[i]
           \/ i = Len(wakeup_queue) + 1 /\ wakeup_queue'[i] = token
    BY <1>3 DEF SleepTyped
  <2>3. \A i, j \in 1 .. Len(wakeup_queue') : wakeup_queue'[i] = wakeup_queue'[j] => i = j
    BY <1>3, <2>2 DEF WokenOK, Contains
  <2>4. \A i \in 1 .. Len(wakeup_queue') :
           /\ at[wakeup_queue'[i]] \in Sleepy
           /\ at[wakeup_queue'[i]] = "queue" => ref' = 0 /\ current_thread' = wakeup_queue'[i]
    BY <1>1, <1>3, <2>1, <2>2
  <2>. QED BY <2>3, <2>4 DEF WokenOK, DueOK, Resumed
<1>. QED BY <1>2, <1>3, WakeStep

(* What a queue holds after one more.                                      *)
LEMMA AppendContains ==
    ASSUME NEW S, NEW q \in Seq(S), NEW x \in S, NEW e, Contains(q, e)
    PROVE  Contains(Append(q, x), e)
<1>1. PICK i \in 1 .. Len(q) : q[i] = e
  BY DEF Contains
<1>2. i \in 1 .. Len(Append(q, x)) /\ Append(q, x)[i] = e
  BY <1>1
<1>. QED BY <1>2 DEF Contains

(* Tokens in wakeup_queue sleep, and are in it once.                     *)
LEMMA WokenKept ==
    ASSUME Basics, CallsOK, HandedOK, ~exited, ~exited', ~stray, ~stray', [Next]_vars
    PROVE  WokenOK'
<1>p. EngineTyped /\ TablesTyped /\ SleepTyped /\ SectionTyped /\
      ForksTyped /\ SectionCount /\ RunningOK /\ TablesOK /\ SleepersOK /\
      WatchOK /\ ErrorQueueOK /\ TurnOK /\ WokenOK /\ HandOverOK /\
      ThreadQueueOK
  BY TypeParts DEF Basics, Parts, CallsOK, HandedOK
<1>0. CASE UNCHANGED vars
  BY <1>p, <1>0 DEF WokenOK, DueOK, Resumed
<1>1. CASE dispatch_wakeup
  <2>1. UNCHANGED <<at, ref, current_thread>>
    BY <1>1 DEF dispatch_wakeup
  <2>2. CASE wakeup_queue = <<>>
    BY <1>1, <2>2 DEF dispatch_wakeup, WokenOK, DueOK
  <2>3. CASE wakeup_queue # <<>>
    <3>1. PICK c \in Co : c = Head(wakeup_queue) /\ c = wakeup_queue[1]
      BY <1>p, <2>3 DEF SleepTyped
    <3>2. at[c] \in Sleepy /\ sleep_session[c] # 0
      BY <1>p, <2>3, <3>1 DEF WokenOK, SleepersOK, TablesOK
    <3>3. pc' = "resumed" /\ running' = c /\ wakeup_queue' = Tail(wakeup_queue)
      BY <1>1, <2>3, <3>1, <3>2, WakeupStep DEF dispatch_wakeup, Resume
    <3>4. \A i \in 1 .. Len(wakeup_queue') :
             wakeup_queue'[i] = wakeup_queue[i + 1] /\ i + 1 \in 1 .. Len(wakeup_queue)
      BY <1>p, <2>3, <3>3, TailContains DEF SleepTyped
    <3>5. Len(wakeup_queue') \in Nat /\ Len(wakeup_queue) \in Nat \ {0}
      BY <1>p, <2>3, <3>3 DEF SleepTyped
    <3>6. \A i, j \in 1 .. Len(wakeup_queue') : wakeup_queue'[i] = wakeup_queue'[j] => i = j
      <4>. TAKE i, j \in 1 .. Len(wakeup_queue')
      <4>1. wakeup_queue'[i] = wakeup_queue'[j] => i + 1 = j + 1
        BY <1>p, <3>4 DEF WokenOK
      <4>. QED BY <3>5, <4>1
    <3>7. \A i \in 1 .. Len(wakeup_queue') : wakeup_queue'[i] # c
      BY <1>p, <3>1, <3>4, <3>5 DEF WokenOK
    <3>8. \A i \in 1 .. Len(wakeup_queue') : at'[wakeup_queue'[i]] \in Sleepy
             /\ (at'[wakeup_queue'[i]] = "queue" => ref' = 0 /\ current_thread' = wakeup_queue'[i])
      BY <1>p, <2>1, <3>4 DEF WokenOK
    <3>. QED BY <3>3, <3>6, <3>7, <3>8 DEF WokenOK, DueOK, Resumed
  <2>. QED BY <2>2, <2>3
<1>2. CASE dispatch_error_queue
  BY <1>p, <1>2
  DEF dispatch_error_queue, Go, Resume, SectionCount, RunningOK, TablesOK,
      SleepersOK, WatchOK, ErrorQueueOK, TurnOK, WokenOK, HandOverOK,
      ThreadQueueOK, Sleepy, Waiting, Resumed, DueOK, Contains
<1>3. CASE suspend_returns
  BY <1>p, <1>3, SleepersStay, WokenFrame DEF suspend_returns, Go, WokenOK, DueOK
<1>4. CASE dispatch_forks
  BY <1>p, <1>4, SleepersStay, WokenFrame
  DEF dispatch_forks, Go, Resume, WokenOK, DueOK
<1>5. ASSUME NEW p \in Peer, error_source_down(p)
      PROVE  WokenOK'
  BY <1>p, <1>5
  DEF error_source_down, Go, Resume, SectionCount, RunningOK, TablesOK,
      SleepersOK, WatchOK, ErrorQueueOK, TurnOK, WokenOK, HandOverOK,
      ThreadQueueOK, Sleepy, Waiting, Resumed, DueOK, Contains
<1>6. ASSUME NEW p \in Peer, NEW c \in Co, request(p, c)
      PROVE  WokenOK'
  BY <1>p, <1>6
  DEF request, Free, Go, Resume, SectionCount, RunningOK, TablesOK, SleepersOK,
      WatchOK, ErrorQueueOK, TurnOK, WokenOK, HandOverOK, ThreadQueueOK, Sleepy,
      Waiting, Resumed, DueOK, Contains
<1>7. ASSUME NEW s \in Sessions, timer_response(s)
      PROVE  WokenOK'
  BY <1>p, <1>7
  DEF timer_response, response, Go, Resume, SectionCount, RunningOK, TablesOK,
      SleepersOK, WatchOK, ErrorQueueOK, TurnOK, WokenOK, HandOverOK,
      ThreadQueueOK, Sleepy, Waiting, Resumed, DueOK, Contains
<1>8. ASSUME NEW p \in Peer, NEW s \in Sessions, peer_response(p, s)
      PROVE  WokenOK'
  BY <1>p, <1>8
  DEF peer_response, response, Go, Resume, SectionCount, RunningOK, TablesOK,
      SleepersOK, WatchOK, ErrorQueueOK, TurnOK, WokenOK, HandOverOK,
      ThreadQueueOK, Sleepy, Waiting, Resumed, DueOK, Contains
<1>9. ASSUME NEW p \in Peer, NEW s \in Sessions, _error_dispatch(p, s)
      PROVE  WokenOK'
  BY <1>p, <1>9
  DEF _error_dispatch, Go, Resume, SectionCount, RunningOK, TablesOK, SleepersOK,
      WatchOK, ErrorQueueOK, TurnOK, WokenOK, HandOverOK, ThreadQueueOK, Sleepy,
      Waiting, Resumed, DueOK, Contains
<1>10. ASSUME NEW c \in Co, sleep(c)
       PROVE  WokenOK'
  BY <1>p, <1>10, SleepersStay, WokenFrame
  DEF sleep, suspend_sleep, Yield, Go, Runs
<1>11. ASSUME NEW c \in Co, wait(c)
       PROVE  WokenOK'
  BY <1>p, <1>11, SleepersStay, WokenFrame
  DEF wait, suspend_sleep, Yield, Go, Runs
<1>12. ASSUME NEW c \in Co, ret(c)
       PROVE  WokenOK'
  BY <1>p, <1>12 DEF ret, WokenOK, DueOK, Resumed
<1>13. ASSUME NEW c \in Co, make_response(c)
       PROVE  WokenOK'
  BY <1>p, <1>13 DEF make_response, WokenOK, DueOK, Resumed
<1>14. ASSUME NEW c \in Co, ends(c)
       PROVE  WokenOK'
  BY <1>p, <1>14, SleepersStay, WokenFrame DEF ends, Go, Runs
<1>15. ASSUME NEW c \in Co, fails(c)
       PROVE  WokenOK'
  BY <1>p, <1>15, SleepersStay, WokenFrame
  DEF fails, Unwind, Trigger, Go, Runs, ForksTyped
<1>16. ASSUME NEW c \in Co, exit(c)
       PROVE  WokenOK'
  BY <1>p, <1>16
  DEF exit, Go, Resume, Runs, WokenOK, Sleepy, Waiting, Resumed, Contains
<1>17. ASSUME NEW c \in Co, after_sleep(c)
       PROVE  WokenOK'
  BY <1>p, <1>17, SleepersStay, WokenFrame DEF after_sleep, Woken, Resume
<1>18. ASSUME NEW c \in Co, after_call(c)
       PROVE  WokenOK'
  BY <1>p, <1>18, SleepersStay, WokenFrame DEF after_call, Resume
<1>19. ASSUME NEW c \in Co, enter(c)
       PROVE  WokenOK'
  BY <1>p, <1>19, SleepersStay, WokenFrame DEF enter, Runs, Inside, RunningOK
<1>20. ASSUME NEW c \in Co, enter_waits(c)
       PROVE  WokenOK'
  BY <1>p, <1>20, SleepersStay, WokenFrame
  DEF enter_waits, suspend_sleep, Yield, Go, Runs
<1>21. ASSUME NEW c \in Co, after_queue(c)
       PROVE  WokenOK'
  <2>1. ref = 0 /\ current_thread = c /\ Resumed(c)
    BY <1>p, <1>21 DEF after_queue, HandOverOK, Resumed
  <2>2. UNCHANGED wakeup_queue /\ pc' = "user"
    BY <1>21, <2>1 DEF after_queue, Woken, Resume
  <2>. QED BY <1>p, <2>1, <2>2, SleepersStay, WokenFrame
<1>22. ASSUME NEW c \in Co, leave(c)
       PROVE  WokenOK'
  <2>1. ref \in Nat \ {0} /\ current_thread = c /\ depth[c] = ref
    BY <1>p, <1>22 DEF leave, SectionCount, SectionTyped
  <2>2. ref' = ref - 1 /\ pc = "user" /\ UNCHANGED <<at, waits, pc, running, failed>>
    BY <1>22 DEF leave, Runs
  <2>3. CASE UNCHANGED wakeup_queue
    BY <1>p, <2>1, <2>2, <2>3 DEF WokenOK, DueOK, Resumed
  <2>4. CASE /\ ref' = 0 /\ thread_queue # <<>>
             /\ Wake(Head(thread_queue), {}) /\ current_thread' = Head(thread_queue)
    <3>1. Head(thread_queue) \in Co
      BY <1>p, <2>4 DEF SectionTyped
    <3>. QED BY <1>p, <2>1, <2>2, <2>4, <3>1, WakeKept
  <2>. QED BY <1>22, <2>1, <2>2, <2>3, <2>4 DEF leave, Heir
<1>23. ASSUME NEW c \in Co, NEW p \in Peer, yield_call(c, p)
       PROVE  WokenOK'
  BY <1>p, <1>23, SleepersStay, WokenFrame DEF yield_call, Yield, Go, Runs
<1>24. ASSUME NEW c \in Co, NEW p \in Peer, respond(c, p)
       PROVE  WokenOK'
  BY <1>p, <1>24 DEF respond, WokenOK, DueOK, Resumed
<1>25. ASSUME NEW c \in Co, NEW d \in Co, timeout(c, d)
       PROVE  WokenOK'
  BY <1>p, <1>25, SleepersStay, WokenFrame DEF timeout, Runs
<1>26. ASSUME NEW c \in Co, NEW d \in Co, fork(c, d)
       PROVE  WokenOK'
  BY <1>p, <1>26, SleepersStay, WokenFrame DEF fork, Runs
<1>27. ASSUME NEW c \in Co, NEW d \in Co, wakeup(c, d)
       PROVE  WokenOK'
  <2>1. Wake(d, {"queue"}) /\ pc = "user"
        /\ UNCHANGED <<at, pc, running, ref, current_thread>>
    BY <1>27 DEF wakeup, Runs
  <2>2. sleep_session[d] # 0 => at[d] # "queue"
    BY <1>p, <2>1, WakeStep
  <2>. QED BY <1>p, <2>1, <2>2, WakeKept
<1>. QED BY <1>0, <1>1, <1>2, <1>3, <1>4, <1>5, <1>6, <1>7, <1>8, <1>9, <1>10,
     <1>11, <1>12, <1>13, <1>14, <1>15, <1>16, <1>17, <1>18, <1>19, <1>20,
     <1>21, <1>22, <1>23, <1>24, <1>25, <1>26, <1>27
     DEF Next, Engine, Message, Coroutine

(* The section waits for the thread it was handed to.                    *)
LEMMA HandOverKept ==
    ASSUME Basics, CallsOK, HandedOK, ~exited, ~exited', ~stray, ~stray', [Next]_vars
    PROVE  HandOverOK'
<1>p. EngineTyped /\ CallsTyped /\ ErrorQueueOK /\ TablesTyped /\
      SleepTyped /\ SectionTyped /\ ForksTyped /\ SectionCount /\
      RunningOK /\ TablesOK /\ SleepersOK /\ TimersOK /\ AskedOK /\
      WatchOK /\ TurnOK /\ WokenOK /\ HandOverOK /\ ThreadQueueOK
  BY TypeParts DEF Basics, Parts, CallsOK, HandedOK
<1>0. CASE UNCHANGED vars
  BY <1>p, <1>0 DEF HandOverOK, Contains, Resumed
<1>1. CASE dispatch_wakeup
  <2>1. UNCHANGED <<at, ref, current_thread, failed>> /\ pc = "wakeup"
    BY <1>1 DEF dispatch_wakeup
  <2>2. CASE wakeup_queue = <<>>
    <3>1. pc' = "error" /\ ~(current_thread # None /\ ref = 0)
      BY <1>p, <1>1, <2>1, <2>2
      DEF dispatch_wakeup, Go, HandOverOK, Contains, Resumed
    <3>. QED BY <1>p, <2>1, <3>1 DEF HandOverOK
  <2>3. CASE wakeup_queue # <<>>
    <3>1. PICK c \in Co : c = Head(wakeup_queue) /\ c = wakeup_queue[1]
      BY <1>p, <2>3 DEF SleepTyped
    <3>2. at[c] \in Sleepy /\ sleep_session[c] # 0
      BY <1>p, <2>3, <3>1 DEF WokenOK, SleepersOK, TablesOK
    <3>3. pc' = "resumed" /\ running' = c /\ wakeup_queue' = Tail(wakeup_queue)
      BY <1>1, <2>3, <3>1, <3>2, WakeupStep DEF dispatch_wakeup, Resume
    <3>4. at[c] = "queue" => ref = 0 /\ current_thread = c
      BY <1>p, <2>3, <3>1 DEF WokenOK, SleepTyped
    <3>5. Contains(wakeup_queue, current_thread) =>
             current_thread = c \/ Contains(wakeup_queue', current_thread)
      BY <1>p, <2>3, <3>1, <3>3, TailContains DEF SleepTyped
    <3>. QED BY <1>p, <2>1, <3>3, <3>4, <3>5 DEF HandOverOK, Resumed
  <2>. QED BY <2>2, <2>3
<1>2. CASE dispatch_error_queue
  <2>1. UNCHANGED <<ref, current_thread, wakeup_queue>>
    BY <1>2 DEF dispatch_error_queue
  <2>2. PICK s \in Sessions :
          /\ pc = "error" /\ error_queue # <<>> /\ s = Head(error_queue)
          /\ UNCHANGED <<at, waits, session>>
          /\ \/ /\ pc' = "resumed" /\ running' = session_id_coroutine[s]
                /\ UNCHANGED failed
             \/ session_id_coroutine[s] \notin Co
    BY <1>2, ErrorStep
  <2>3. session_id_coroutine[s] \in Co /\ watching_session[s] # None
    BY <1>p, <2>2 DEF ErrorQueueOK, CallsTyped
  <2>4. at[session_id_coroutine[s]] = "call"
    BY <1>p, <2>2, <2>3 DEF WatchOK, Calls
  <2>5. wakeup_queue = <<>>
    BY <1>p, <2>2 DEF WokenOK, DueOK
  <2>6. ~(current_thread # None /\ ref = 0)
    BY <1>p, <2>2, <2>5 DEF HandOverOK, Contains, Resumed
  <2>. QED BY <1>p, <2>1, <2>2, <2>3, <2>4, <2>6 DEF HandOverOK
<1>3. CASE suspend_returns
  BY <1>p, <1>3
  DEF suspend_returns, Go, Resume, HandOverOK, Sleepy, Waiting, Resumed, Contains
<1>4. CASE dispatch_forks
  <2>1. pc = "forks" /\ pc' # "resumed"
        /\ UNCHANGED <<ref, current_thread, wakeup_queue, failed>>
    BY <1>4 DEF dispatch_forks, Go, Resume
  <2>2. \A d \in Co : at[d] = "queue" => at'[d] = "queue"
    BY <2>1, SleepersStay DEF Stay, Resumed, Sleepy
  <2>. QED BY <1>p, <2>1, <2>2 DEF HandOverOK, Resumed, SectionTyped
<1>5. ASSUME NEW p \in Peer, error_source_down(p)
      PROVE  HandOverOK'
  BY <1>p, <1>5
  DEF error_source_down, Go, Resume, HandOverOK, Sleepy, Waiting, Resumed,
      Contains
<1>6. ASSUME NEW p \in Peer, NEW c \in Co, request(p, c)
      PROVE  HandOverOK'
  BY <1>p, <1>6
  DEF request, Free, Go, Resume, HandOverOK, Sleepy, Waiting, Resumed, Contains
<1>7. ASSUME NEW s \in Sessions, timer_response(s)
      PROVE  HandOverOK'
  <2>1. /\ pc = "idle" /\ UNCHANGED <<at, ref, current_thread, wakeup_queue>>
        /\ pc' = "resumed" => session_id_coroutine[s] \in Co
              /\ running' = session_id_coroutine[s]
        /\ failed' \in {failed, failed \cup {"session"}}
    BY <1>7 DEF timer_response, response, Go, Resume
  <2>2. ~(current_thread # None /\ ref = 0)
    BY <1>p, <2>1 DEF HandOverOK, WokenOK, DueOK, Contains, Resumed
  <2>3. pc' = "resumed" => at[running'] # "queue"
    BY <1>p, <1>7, <2>1
    DEF timer_response, TimersOK, SleepersOK, TablesOK, TablesTyped, Sleepy,
        Resumed
  <2>. QED BY <1>p, <2>1, <2>2, <2>3 DEF HandOverOK
<1>8. ASSUME NEW p \in Peer, NEW s \in Sessions, peer_response(p, s)
      PROVE  HandOverOK'
  <2>1. /\ pc = "idle" /\ UNCHANGED <<at, ref, current_thread, wakeup_queue>>
        /\ pc' = "resumed" => session_id_coroutine[s] \in Co
              /\ running' = session_id_coroutine[s]
        /\ failed' \in {failed, failed \cup {"session"}}
    BY <1>8 DEF peer_response, response, Go, Resume
  <2>2. ~(current_thread # None /\ ref = 0)
    BY <1>p, <2>1 DEF HandOverOK, WokenOK, DueOK, Contains, Resumed
  <2>3. pc' = "resumed" => at[running'] # "queue"
    BY <1>p, <1>8, <2>1 DEF peer_response, response, Go, Resume, AskedOK, WatchOK, Calls
  <2>. QED BY <1>p, <2>1, <2>2, <2>3 DEF HandOverOK
<1>9. ASSUME NEW p \in Peer, NEW s \in Sessions, _error_dispatch(p, s)
      PROVE  HandOverOK'
  BY <1>p, <1>9
  DEF _error_dispatch, Go, Resume, HandOverOK, Sleepy, Waiting, Resumed, Contains
<1>10. ASSUME NEW c \in Co, sleep(c)
       PROVE  HandOverOK'
  BY <1>p, <1>10
  DEF sleep, suspend_sleep, Yield, Go, Resume, Runs, ErrorQueueOK, SectionCount,
      RunningOK, TablesOK, SleepersOK, TimersOK, AskedOK, WatchOK, TurnOK,
      WokenOK, HandOverOK, ThreadQueueOK, Sleepy, Waiting, Resumed, DueOK,
      Contains
<1>11. ASSUME NEW c \in Co, wait(c)
       PROVE  HandOverOK'
  BY <1>p, <1>11
  DEF wait, suspend_sleep, Yield, Go, Resume, Runs, ErrorQueueOK, SectionCount,
      RunningOK, TablesOK, SleepersOK, TimersOK, AskedOK, WatchOK, TurnOK,
      WokenOK, HandOverOK, ThreadQueueOK, Sleepy, Waiting, Resumed, DueOK,
      Contains
<1>12. ASSUME NEW c \in Co, ret(c)
       PROVE  HandOverOK'
  BY <1>p, <1>12 DEF ret, HandOverOK, Contains, Resumed
<1>13. ASSUME NEW c \in Co, make_response(c)
       PROVE  HandOverOK'
  BY <1>p, <1>13 DEF make_response, HandOverOK, Contains, Resumed
<1>14. ASSUME NEW c \in Co, ends(c)
       PROVE  HandOverOK'
  BY <1>p, <1>14
  DEF ends, Go, Resume, Runs, ErrorQueueOK, SectionCount, RunningOK, TablesOK,
      SleepersOK, TimersOK, AskedOK, WatchOK, TurnOK, WokenOK, HandOverOK,
      ThreadQueueOK, Sleepy, Waiting, Resumed, DueOK, Contains
<1>15. ASSUME NEW c \in Co, fails(c)
       PROVE  HandOverOK'
  BY <1>p, <1>15
  DEF fails, Unwind, Reply, Trigger, Go, Resume, Runs, ErrorQueueOK, SectionCount,
      RunningOK, TablesOK, SleepersOK, TimersOK, AskedOK, WatchOK, TurnOK,
      WokenOK, HandOverOK, ThreadQueueOK, Sleepy, Waiting, Resumed, DueOK,
      Contains
<1>16. ASSUME NEW c \in Co, exit(c)
       PROVE  HandOverOK'
  BY <1>p, <1>16
  DEF exit, Go, Resume, Runs, HandOverOK, Sleepy, Waiting, Resumed, Contains
<1>17. ASSUME NEW c \in Co, after_sleep(c)
       PROVE  HandOverOK'
  BY <1>p, <1>17
  DEF after_sleep, Woken, Go, Resume, HandOverOK, Sleepy, Waiting, Resumed,
      Contains
<1>18. ASSUME NEW c \in Co, after_call(c)
       PROVE  HandOverOK'
  BY <1>p, <1>18
  DEF after_call, Go, Resume, HandOverOK, Sleepy, Waiting, Resumed, Contains
<1>19. ASSUME NEW c \in Co, enter(c)
       PROVE  HandOverOK'
  BY <1>p, <1>19
  DEF enter, Inside, Runs, EngineTyped, CallsTyped, TablesTyped, SleepTyped,
      SectionTyped, ForksTyped, HandOverOK, Sleepy, Waiting, Resumed, Contains
<1>20. ASSUME NEW c \in Co, enter_waits(c)
       PROVE  HandOverOK'
  BY <1>p, <1>20
  DEF enter_waits, suspend_sleep, Yield, Go, Resume, Runs, HandOverOK, Sleepy,
      Waiting, Resumed, Contains
<1>21. ASSUME NEW c \in Co, after_queue(c)
       PROVE  HandOverOK'
  BY <1>p, <1>21
  DEF after_queue, Woken, Inside, Unwind, Reply, Trigger, Go, Resume, HandOverOK,
      Sleepy, Waiting, Resumed, Contains
<1>22. ASSUME NEW c \in Co, leave(c)
       PROVE  HandOverOK'
  <2>1. ref \in Nat \ {0} /\ current_thread = c /\ depth[c] = ref
    BY <1>p, <1>22 DEF leave, SectionCount, SectionTyped
  <2>2. ref' = ref - 1 /\ pc = "user" /\ UNCHANGED <<at, waits, pc, running, failed>>
    BY <1>22 DEF leave, Runs
  <2>3. CASE ref' > 0
    <3>1. UNCHANGED <<wakeup_queue, current_thread>>
      BY <1>22, <2>3 DEF leave
    <3>. QED BY <1>p, <2>1, <2>2, <2>3, <3>1 DEF HandOverOK
  <2>4. CASE ref' = 0 /\ thread_queue = <<>>
    BY <1>p, <1>22, <2>2, <2>4 DEF leave, Heir, HandOverOK
  <2>5. CASE ref' = 0 /\ thread_queue # <<>>
    <3>1. PICK h \in Co : h = Head(thread_queue) /\ h = thread_queue[1]
      BY <1>p, <2>5 DEF SectionTyped
    <3>2. current_thread' = h /\ Wake(h, {})
      BY <1>22, <2>5, <3>1 DEF leave, Heir
    <3>3. at[h] = "queue" /\ sleep_session[h] # 0
      BY <1>p, <2>5, <3>1 DEF ThreadQueueOK, SleepersOK, TablesOK, Sleepy
    <3>4. wakeup_queue' = Append(wakeup_queue, h)
      BY <1>p, <3>2, <3>3, WakeStep
    <3>5. Contains(wakeup_queue', h)
      BY <1>p, <3>4 DEF SleepTyped, Contains
    <3>. QED BY <1>p, <2>2, <3>2, <3>3, <3>5 DEF HandOverOK
  <2>. QED BY <2>1, <2>2, <2>3, <2>4, <2>5
<1>23. ASSUME NEW c \in Co, NEW p \in Peer, yield_call(c, p)
       PROVE  HandOverOK'
  BY <1>p, <1>23
  DEF yield_call, Yield, Go, Resume, Runs, ErrorQueueOK, SectionCount, RunningOK,
      TablesOK, SleepersOK, TimersOK, AskedOK, WatchOK, TurnOK, WokenOK,
      HandOverOK, ThreadQueueOK, Sleepy, Waiting, Resumed, DueOK, Contains
<1>24. ASSUME NEW c \in Co, NEW p \in Peer, respond(c, p)
       PROVE  HandOverOK'
  BY <1>p, <1>24 DEF respond, HandOverOK, Contains, Resumed
<1>25. ASSUME NEW c \in Co, NEW d \in Co, timeout(c, d)
       PROVE  HandOverOK'
  BY <1>p, <1>25
  DEF timeout, Free, Runs, HandOverOK, Sleepy, Waiting, Resumed, Contains
<1>26. ASSUME NEW c \in Co, NEW d \in Co, fork(c, d)
       PROVE  HandOverOK'
  BY <1>p, <1>26
  DEF fork, Free, Runs, HandOverOK, Sleepy, Waiting, Resumed, Contains
<1>27. ASSUME NEW c \in Co, NEW d \in Co, wakeup(c, d)
       PROVE  HandOverOK'
  <2>1. Wake(d, {"queue"}) /\ UNCHANGED <<at, pc, running, ref, current_thread, failed>>
    BY <1>27 DEF wakeup
  <2>2. wakeup_queue' = wakeup_queue \/ wakeup_queue' = Append(wakeup_queue, d)
    BY <2>1 DEF Wake
  <2>3. ASSUME NEW e, Contains(wakeup_queue, e) PROVE Contains(wakeup_queue', e)
    <3>1. Contains(Append(wakeup_queue, d), e)
      BY <1>p, <2>3, AppendContains DEF SleepTyped
    <3>. QED BY <2>2, <2>3, <3>1
  <2>. QED BY <1>p, <2>1, <2>3 DEF HandOverOK, Resumed
<1>. QED BY <1>0, <1>1, <1>2, <1>3, <1>4, <1>5, <1>6, <1>7, <1>8, <1>9, <1>10,
     <1>11, <1>12, <1>13, <1>14, <1>15, <1>16, <1>17, <1>18, <1>19, <1>20,
     <1>21, <1>22, <1>23, <1>24, <1>25, <1>26, <1>27
     DEF Next, Engine, Message, Coroutine

(* Threads wait for the section in the order in which they came.         *)
LEMMA ThreadQueueKept ==
    ASSUME Basics, CallsOK, HandedOK, ~exited, ~exited', ~stray, ~stray', [Next]_vars
    PROVE  ThreadQueueOK'
<1>p. EngineTyped /\ TablesTyped /\ SectionTyped /\ SectionCount /\
      RunningOK /\ TablesOK /\ HandOverOK /\ ThreadQueueOK
  BY TypeParts DEF Basics, Parts, CallsOK, HandedOK
<1>0. CASE UNCHANGED vars
  BY <1>p, <1>0 DEF ThreadQueueOK
<1>1. CASE dispatch_wakeup
  BY <1>p, <1>1 DEF dispatch_wakeup, ThreadQueueOK
<1>2. CASE dispatch_error_queue
  BY <1>p, <1>2 DEF dispatch_error_queue, ThreadQueueOK
<1>3. CASE suspend_returns
  BY <1>p, <1>3 DEF suspend_returns, ThreadQueueOK
<1>4. CASE dispatch_forks
  BY <1>p, <1>4, SleepersStay, ThreadQueueFrame DEF dispatch_forks
<1>5. ASSUME NEW p \in Peer, error_source_down(p)
      PROVE  ThreadQueueOK'
  BY <1>p, <1>5 DEF error_source_down, ThreadQueueOK
<1>6. ASSUME NEW p \in Peer, NEW c \in Co, request(p, c)
      PROVE  ThreadQueueOK'
  BY <1>p, <1>6, SleepersStay, ThreadQueueFrame DEF request
<1>7. ASSUME NEW s \in Sessions, timer_response(s)
      PROVE  ThreadQueueOK'
  BY <1>p, <1>7, SleepersStay, ThreadQueueFrame DEF timer_response, response
<1>8. ASSUME NEW p \in Peer, NEW s \in Sessions, peer_response(p, s)
      PROVE  ThreadQueueOK'
  BY <1>p, <1>8, SleepersStay, ThreadQueueFrame DEF peer_response, response
<1>9. ASSUME NEW p \in Peer, NEW s \in Sessions, _error_dispatch(p, s)
      PROVE  ThreadQueueOK'
  BY <1>p, <1>9 DEF _error_dispatch, ThreadQueueOK
<1>10. ASSUME NEW c \in Co, sleep(c)
       PROVE  ThreadQueueOK'
  BY <1>p, <1>10, SleepersStay, ThreadQueueFrame DEF sleep, suspend_sleep
<1>11. ASSUME NEW c \in Co, wait(c)
       PROVE  ThreadQueueOK'
  BY <1>p, <1>11, SleepersStay, ThreadQueueFrame DEF wait, suspend_sleep
<1>12. ASSUME NEW c \in Co, ret(c)
       PROVE  ThreadQueueOK'
  BY <1>p, <1>12 DEF ret, ThreadQueueOK
<1>13. ASSUME NEW c \in Co, make_response(c)
       PROVE  ThreadQueueOK'
  BY <1>p, <1>13 DEF make_response, ThreadQueueOK
<1>14. ASSUME NEW c \in Co, ends(c)
       PROVE  ThreadQueueOK'
  BY <1>p, <1>14, SleepersStay, ThreadQueueFrame DEF ends
<1>15. ASSUME NEW c \in Co, fails(c)
       PROVE  ThreadQueueOK'
  BY <1>p, <1>15, SleepersStay, ThreadQueueFrame DEF fails
<1>16. ASSUME NEW c \in Co, exit(c)
       PROVE  ThreadQueueOK'
  BY <1>p, <1>16
  DEF exit, Go, Resume, Runs, ThreadQueueOK, Sleepy, Waiting, Resumed
<1>17. ASSUME NEW c \in Co, after_sleep(c)
       PROVE  ThreadQueueOK'
  BY <1>p, <1>17, SleepersStay, ThreadQueueFrame DEF after_sleep
<1>18. ASSUME NEW c \in Co, after_call(c)
       PROVE  ThreadQueueOK'
  BY <1>p, <1>18, SleepersStay, ThreadQueueFrame DEF after_call
<1>19. ASSUME NEW c \in Co, enter(c)
       PROVE  ThreadQueueOK'
  BY <1>p, <1>19 DEF enter, Inside, Runs, ThreadQueueOK, Sleepy, Waiting, Resumed
<1>20. ASSUME NEW c \in Co, enter_waits(c)
       PROVE  ThreadQueueOK'
  <2>1. at[c] = "run" /\ current_thread # None /\ current_thread # c /\ session \in Nat
    BY <1>p, <1>20 DEF enter_waits, Runs, RunningOK, TablesTyped
  <2>2. /\ thread_queue' = Append(thread_queue, c) /\ UNCHANGED current_thread
        /\ at'[c] = "queue" /\ waits'[c] = session + 1
    BY <1>p, <1>20 DEF enter_waits, suspend_sleep, Yield, EngineTyped, TablesTyped
  <2>3. ASSUME NEW i \in 1 .. Len(thread_queue)
        PROVE  /\ at'[thread_queue[i]] = "queue" /\ thread_queue[i] # current_thread
               /\ waits'[thread_queue[i]] = waits[thread_queue[i]]
               /\ waits[thread_queue[i]] \in 1 .. session
    <3>1. PICK d \in Co : d = thread_queue[i]
      BY <1>p DEF SectionTyped
    <3>2. at[d] = "queue" /\ ~Resumed(d) /\ d # current_thread /\ waits[d] \in 1 .. session
      BY <1>p, <3>1 DEF ThreadQueueOK, HandOverOK, Resumed, TablesOK, Sleepy
    <3>. QED BY <3>1, <3>2, SleepersStay DEF Stay, Sleepy
  <2>4. \A i \in 1 .. Len(thread_queue') :
           \/ i \in 1 .. Len(thread_queue) /\ thread_queue'[i] = thread_queue[i]
           \/ i = Len(thread_queue) + 1 /\ thread_queue'[i] = c
    BY <1>p, <2>2 DEF SectionTyped
  <2>5. Len(thread_queue) \in Nat
    BY <1>p DEF SectionTyped
  <2>6. \A i, j \in 1 .. Len(thread_queue') :
           i < j => waits'[thread_queue'[i]] < waits'[thread_queue'[j]]
    BY <1>p, <2>1, <2>2, <2>3, <2>4, <2>5 DEF ThreadQueueOK
  <2>7. \A i \in 1 .. Len(thread_queue') :
           at'[thread_queue'[i]] = "queue" /\ thread_queue'[i] # current_thread'
    BY <2>1, <2>2, <2>3, <2>4
  <2>. QED BY <2>1, <2>2, <2>6, <2>7 DEF ThreadQueueOK
<1>21. ASSUME NEW c \in Co, after_queue(c)
       PROVE  ThreadQueueOK'
  <2>1. pc = "resumed" /\ running = c /\ at[c] = "queue" /\ UNCHANGED thread_queue
    BY <1>21 DEF after_queue
  <2>2. ref = 0 /\ current_thread = c
    BY <1>p, <2>1 DEF HandOverOK
  <2>3. current_thread' = c /\ at' = [at EXCEPT ![c] = "run"] /\ waits' = [waits EXCEPT ![c] = 0]
    BY <1>21, <2>2 DEF after_queue, Inside, Woken
  <2>4. \A i \in 1 .. Len(thread_queue) : thread_queue[i] \in Co \ {c}
    BY <1>p, <2>2 DEF ThreadQueueOK, SectionTyped
  <2>5. \A d \in Co \ {c} : at'[d] = at[d] /\ waits'[d] = waits[d]
    BY <1>p, <2>3 DEF EngineTyped, TablesTyped
  <2>. QED BY <1>p, <2>1, <2>2, <2>3, <2>4, <2>5 DEF ThreadQueueOK
<1>22. ASSUME NEW c \in Co, leave(c)
       PROVE  ThreadQueueOK'
  <2>1. ref \in Nat \ {0} /\ current_thread = c /\ depth[c] = ref
    BY <1>p, <1>22 DEF leave, SectionCount, SectionTyped
  <2>2. ref' = ref - 1 /\ pc = "user" /\ UNCHANGED <<at, waits, pc, running, failed>>
    BY <1>22 DEF leave, Runs
  <2>3. CASE UNCHANGED <<thread_queue, current_thread>>
    BY <1>p, <2>2, <2>3 DEF ThreadQueueOK
  <2>4. CASE thread_queue = <<>> /\ thread_queue' = <<>>
    BY <2>4 DEF ThreadQueueOK
  <2>5. CASE /\ thread_queue # <<>> /\ current_thread' = Head(thread_queue)
             /\ thread_queue' = Tail(thread_queue)
    <3>1. PICK h \in Co : h = Head(thread_queue) /\ h = thread_queue[1]
      BY <1>p, <2>5 DEF SectionTyped
    <3>2. /\ Len(thread_queue') \in Nat /\ Len(thread_queue) \in Nat \ {0}
          /\ \A i \in 1 .. Len(thread_queue') :
                thread_queue'[i] = thread_queue[i + 1] /\ i + 1 \in 1 .. Len(thread_queue)
      BY <1>p, <2>5, TailContains DEF SectionTyped
    <3>3. \A i \in 1 .. Len(thread_queue') :
             at[thread_queue'[i]] = "queue" /\ waits[h] < waits[thread_queue'[i]]
      <4>. TAKE i \in 1 .. Len(thread_queue')
      <4>1. 1 \in 1 .. Len(thread_queue) /\ i + 1 \in 1 .. Len(thread_queue) /\ 1 < i + 1
        BY <3>2
      <4>2. at[thread_queue[i + 1]] = "queue" /\ waits[thread_queue[1]] < waits[thread_queue[i + 1]]
        BY <1>p, <4>1 DEF ThreadQueueOK
      <4>. QED BY <3>1, <3>2, <4>2
    <3>4. \A i, j \in 1 .. Len(thread_queue') :
             i < j => waits[thread_queue'[i]] < waits[thread_queue'[j]]
      <4>. TAKE i, j \in 1 .. Len(thread_queue')
      <4>1. i + 1 < j + 1 => waits[thread_queue[i + 1]] < waits[thread_queue[j + 1]]
        BY <1>p, <3>2 DEF ThreadQueueOK
      <4>. QED BY <3>2, <4>1
    <3>5. waits[h] \in Nat
      BY <1>p, <3>1 DEF TablesTyped
    <3>. QED BY <2>2, <2>5, <3>1, <3>3, <3>4, <3>5 DEF ThreadQueueOK
  <2>. QED BY <1>22, <2>3, <2>4, <2>5 DEF leave, Heir
<1>23. ASSUME NEW c \in Co, NEW p \in Peer, yield_call(c, p)
       PROVE  ThreadQueueOK'
  BY <1>p, <1>23, SleepersStay, ThreadQueueFrame DEF yield_call
<1>24. ASSUME NEW c \in Co, NEW p \in Peer, respond(c, p)
       PROVE  ThreadQueueOK'
  BY <1>p, <1>24 DEF respond, ThreadQueueOK
<1>25. ASSUME NEW c \in Co, NEW d \in Co, timeout(c, d)
       PROVE  ThreadQueueOK'
  BY <1>p, <1>25, SleepersStay, ThreadQueueFrame DEF timeout
<1>26. ASSUME NEW c \in Co, NEW d \in Co, fork(c, d)
       PROVE  ThreadQueueOK'
  BY <1>p, <1>26, SleepersStay, ThreadQueueFrame DEF fork
<1>27. ASSUME NEW c \in Co, NEW d \in Co, wakeup(c, d)
       PROVE  ThreadQueueOK'
  BY <1>p, <1>27 DEF wakeup, ThreadQueueOK
<1>. QED BY <1>0, <1>1, <1>2, <1>3, <1>4, <1>5, <1>6, <1>7, <1>8, <1>9, <1>10,
     <1>11, <1>12, <1>13, <1>14, <1>15, <1>16, <1>17, <1>18, <1>19, <1>20,
     <1>21, <1>22, <1>23, <1>24, <1>25, <1>26, <1>27
     DEF Next, Engine, Message, Coroutine

-----------------------------------------------------------------------------
(* The coroutines that owe an answer, counted.                             *)
LEMMA OwedCount ==
    ASSUME NEW p \in Peer
    PROVE  LET S == {c \in Co : session_coroutine_id[c] = p}
           IN  /\ Cardinality(S) \in Nat
               /\ (\A c \in Co : session_coroutine_id[c] # p) => Cardinality(S) = 0
               /\ (\E c \in Co : session_coroutine_id[c] = p) => Cardinality(S) >= 1
               /\ (\A c, d \in Co : session_coroutine_id[c] = p /\ session_coroutine_id[d] = p
                                       => c = d) => Cardinality(S) <= 1
<1>. DEFINE S == {c \in Co : session_coroutine_id[c] = p}
<1>1. IsFiniteSet(S)
  BY FS_Subset
<1>2. Cardinality(S) \in Nat /\ (Cardinality(S) = 0 <=> S = {})
  BY <1>1, FS_CardinalityType, FS_EmptySet
<1>3. ASSUME \A c, d \in Co : session_coroutine_id[c] = p /\ session_coroutine_id[d] = p => c = d
      PROVE  Cardinality(S) <= 1
  <2>1. CASE S = {}
    BY <1>2, <2>1
  <2>2. ASSUME NEW c \in S PROVE Cardinality(S) <= 1
    <3>1. S = {c}
      BY <1>3, <2>2
    <3>. QED BY <3>1, FS_Singleton
  <2>. QED BY <2>1, <2>2
<1>. QED BY <1>2, <1>3

(* No answer is given twice, and none is lost.                           *)
LEMMA AnswersKept ==
    ASSUME Basics, AnswersOK, [Next]_vars
    PROVE  AnswersOK'
<1>p. EngineTyped /\ ServedTyped /\ HistoryTyped /\ ForksTyped /\
      RunningOK /\ AnswersOK
  BY TypeParts DEF Basics, Parts, AnswersOK
<1>0. CASE UNCHANGED vars
  BY <1>p, <1>0 DEF AnswersOK, OneAnswer, Open
<1>1. CASE dispatch_wakeup
  BY <1>p, <1>1 DEF dispatch_wakeup, AnswersOK, OneAnswer, Open
<1>2. CASE dispatch_error_queue
  BY <1>p, <1>2 DEF dispatch_error_queue, AnswersOK, OneAnswer, Open
<1>3. CASE suspend_returns
  BY <1>p, <1>3 DEF suspend_returns, AnswersOK, OneAnswer, Open
<1>4. CASE dispatch_forks
  BY <1>p, <1>4
  DEF dispatch_forks, Go, Resume, EngineTyped, ServedTyped, HistoryTyped,
      ForksTyped, AnswersOK, OneAnswer, Open, Waiting, Sleepy
<1>5. ASSUME NEW p \in Peer, error_source_down(p)
      PROVE  AnswersOK'
  BY <1>p, <1>5
  DEF error_source_down, Go, Resume, AnswersOK, OneAnswer, Open, Waiting, Sleepy
<1>6. ASSUME NEW p \in Peer, NEW c \in Co, request(p, c)
      PROVE  AnswersOK'
  BY <1>p, <1>6
  DEF request, Free, Go, Resume, EngineTyped, ServedTyped, HistoryTyped,
      ForksTyped, AnswersOK, OneAnswer, Open, Waiting, Sleepy
<1>7. ASSUME NEW s \in Sessions, timer_response(s)
      PROVE  AnswersOK'
  BY <1>p, <1>7 DEF timer_response, response, AnswersOK, OneAnswer, Open
<1>8. ASSUME NEW p \in Peer, NEW s \in Sessions, peer_response(p, s)
      PROVE  AnswersOK'
  BY <1>p, <1>8 DEF peer_response, response, AnswersOK, OneAnswer, Open
<1>9. ASSUME NEW p \in Peer, NEW s \in Sessions, _error_dispatch(p, s)
      PROVE  AnswersOK'
  BY <1>p, <1>9 DEF _error_dispatch, AnswersOK, OneAnswer, Open
<1>10. ASSUME NEW c \in Co, sleep(c)
       PROVE  AnswersOK'
  BY <1>p, <1>10
  DEF sleep, suspend_sleep, Yield, Go, Resume, Runs, AnswersOK, OneAnswer, Open,
      Waiting, Sleepy
<1>11. ASSUME NEW c \in Co, wait(c)
       PROVE  AnswersOK'
  BY <1>p, <1>11
  DEF wait, suspend_sleep, Yield, Go, Resume, Runs, AnswersOK, OneAnswer, Open,
      Waiting, Sleepy
<1>12. ASSUME NEW c \in Co, ret(c)
       PROVE  AnswersOK'
  BY <1>p, <1>12
  DEF ret, Reply, Runs, EngineTyped, ServedTyped, HistoryTyped, ForksTyped,
      AnswersOK, OneAnswer, Open, Waiting, Sleepy
<1>13. ASSUME NEW c \in Co, make_response(c)
       PROVE  AnswersOK'
  BY <1>p, <1>13
  DEF make_response, Owes, Runs, EngineTyped, ServedTyped, HistoryTyped,
      ForksTyped, AnswersOK, OneAnswer, Open, Waiting, Sleepy
<1>14. ASSUME NEW c \in Co, ends(c)
       PROVE  AnswersOK'
  BY <1>p, <1>14
  DEF ends, Go, Resume, Runs, EngineTyped, ServedTyped, HistoryTyped, ForksTyped,
      AnswersOK, OneAnswer, Open, Waiting, Sleepy
<1>15. ASSUME NEW c \in Co, fails(c)
       PROVE  AnswersOK'
  BY <1>p, <1>15
  DEF fails, Unwind, Reply, Trigger, Go, Resume, Runs, EngineTyped, ServedTyped,
      HistoryTyped, ForksTyped, AnswersOK, OneAnswer, Open, Waiting, Sleepy
<1>16. ASSUME NEW c \in Co, exit(c)
       PROVE  AnswersOK'
  <2>1. /\ exited' = TRUE /\ unresponse' = {}
        /\ UNCHANGED <<session_coroutine_id, requests, late, forgotten, down>>
    BY <1>16 DEF exit
  <2>2. \A d \in Co : at'[d] = "free" => at[d] = "free"
    BY <1>p, <1>16 DEF exit, EngineTyped
  <2>3. ASSUME NEW p \in requests \ (forgotten \cup late \cup down)
        PROVE  replies'[p] >= 1
    <3>1. p \in Peer /\ replies[p] \in Nat
      BY <1>p, <2>3 DEF ServedTyped
    <3>2. PICK n \in Nat :
             /\ n = Cardinality({d \in Co : session_coroutine_id[d] = p})
             /\ (\E d \in Co : session_coroutine_id[d] = p) => n >= 1
      BY <3>1, OwedCount
    <3>3. replies'[p] = replies[p] + n + (IF p \in unresponse THEN 1 ELSE 0)
      BY <1>16, <3>1, <3>2 DEF exit
    <3>4. CASE exited
      BY <1>p, <2>3, <3>1, <3>2, <3>3, <3>4 DEF AnswersOK
    <3>5. CASE ~exited
      <4>1. replies[p] = 1 \/ p \in unresponse \/ \E d \in Co : session_coroutine_id[d] = p
        BY <1>p, <2>3, <3>1, <3>5 DEF AnswersOK, OneAnswer, Open
      <4>. QED BY <3>1, <3>2, <3>3, <4>1
    <3>. QED BY <3>4, <3>5
  <2>. QED BY <1>p, <2>1, <2>2, <2>3 DEF AnswersOK
<1>17. ASSUME NEW c \in Co, after_sleep(c)
       PROVE  AnswersOK'
  BY <1>p, <1>17
  DEF after_sleep, Woken, Go, Resume, AnswersOK, OneAnswer, Open, Waiting, Sleepy
<1>18. ASSUME NEW c \in Co, after_call(c)
       PROVE  AnswersOK'
  BY <1>p, <1>18
  DEF after_call, Go, Resume, AnswersOK, OneAnswer, Open, Waiting, Sleepy
<1>19. ASSUME NEW c \in Co, enter(c)
       PROVE  AnswersOK'
  BY <1>p, <1>19 DEF enter, Inside, AnswersOK, OneAnswer, Open
<1>20. ASSUME NEW c \in Co, enter_waits(c)
       PROVE  AnswersOK'
  BY <1>p, <1>20
  DEF enter_waits, suspend_sleep, Yield, Go, Resume, Runs, AnswersOK, OneAnswer,
      Open, Waiting, Sleepy
<1>21. ASSUME NEW c \in Co, after_queue(c)
       PROVE  AnswersOK'
  BY <1>p, <1>21
  DEF after_queue, Woken, Inside, Unwind, Reply, Trigger, Go, Resume, EngineTyped,
      ServedTyped, HistoryTyped, ForksTyped, AnswersOK, OneAnswer, Open, Waiting,
      Sleepy
<1>22. ASSUME NEW c \in Co, leave(c)
       PROVE  AnswersOK'
  BY <1>p, <1>22 DEF leave, AnswersOK, OneAnswer, Open
<1>23. ASSUME NEW c \in Co, NEW p \in Peer, yield_call(c, p)
       PROVE  AnswersOK'
  BY <1>p, <1>23
  DEF yield_call, Yield, Go, Resume, Runs, AnswersOK, OneAnswer, Open, Waiting,
      Sleepy
<1>24. ASSUME NEW c \in Co, NEW p \in Peer, respond(c, p)
       PROVE  AnswersOK'
  BY <1>p, <1>24
  DEF respond, Reply, Runs, EngineTyped, ServedTyped, HistoryTyped, ForksTyped,
      AnswersOK, OneAnswer, Open, Waiting, Sleepy
<1>25. ASSUME NEW c \in Co, NEW d \in Co, timeout(c, d)
       PROVE  AnswersOK'
  BY <1>p, <1>25
  DEF timeout, Free, Runs, AnswersOK, OneAnswer, Open, Waiting, Sleepy
<1>26. ASSUME NEW c \in Co, NEW d \in Co, fork(c, d)
       PROVE  AnswersOK'
  BY <1>p, <1>26 DEF fork, Free, Runs, AnswersOK, OneAnswer, Open, Waiting, Sleepy
<1>27. ASSUME NEW c \in Co, NEW d \in Co, wakeup(c, d)
       PROVE  AnswersOK'
  BY <1>p, <1>27 DEF wakeup, AnswersOK, OneAnswer, Open
<1>. QED BY <1>0, <1>1, <1>2, <1>3, <1>4, <1>5, <1>6, <1>7, <1>8, <1>9, <1>10,
     <1>11, <1>12, <1>13, <1>14, <1>15, <1>16, <1>17, <1>18, <1>19, <1>20,
     <1>21, <1>22, <1>23, <1>24, <1>25, <1>26, <1>27
     DEF Next, Engine, Message, Coroutine

-----------------------------------------------------------------------------
(* What ends stays ended.                                                  *)
LEMMA Forever ==
    ASSUME Basics, [Next]_vars
    PROVE  (exited => exited') /\ (stray => stray')
<1>1. ASSUME Engine \/ Message PROVE UNCHANGED <<exited, stray>>
  BY <1>1
  DEF Engine, Message, dispatch_wakeup, dispatch_error_queue, suspend_returns,
      dispatch_forks, error_source_down, request, timer_response, peer_response,
      response, _error_dispatch
<1>2. ASSUME NEW c \in Co, Coroutine(c)
      PROVE  UNCHANGED stray \/ leave(c) \/ \E d \in Co : wakeup(c, d)
  BY <1>2
  DEF Coroutine, sleep, wait, suspend_sleep, ret, make_response, ends, fails, exit,
      after_sleep, Woken, after_call, enter, enter_waits, after_queue, yield_call,
      respond, timeout, fork
<1>5. ASSUME NEW c \in Co, Coroutine(c) PROVE exited' \in {exited, TRUE}
  BY <1>5
  DEF Coroutine, sleep, wait, suspend_sleep, ret, make_response, ends, fails, exit,
      after_sleep, after_call, enter, enter_waits, after_queue, leave, yield_call,
      respond, timeout, fork, wakeup
<1>3. \A token, astray : Wake(token, astray) => (stray => stray')
  BY Zenon DEF Wake
<1>4. ASSUME NEW c \in Co, Coroutine(c) PROVE stray => stray'
  BY <1>2, <1>3, <1>4 DEF wakeup, leave
<1>6. CASE UNCHANGED vars
  BY <1>6 DEF vars, tables, sleeping, calls, forks, section, world, served
<1>7. CASE UNCHANGED <<exited, stray>>
  BY <1>7, Zenon
<1>8. ASSUME NEW c \in Co, Coroutine(c) PROVE (exited => exited') /\ (stray => stray')
  BY <1>4, <1>5, <1>8, Zenon
<1>. QED BY <1>1, <1>6, <1>7, <1>8, Zenon DEF Next

Inv == Basics /\ CallsOK /\ HandedOK /\ AnswersOK

(* The invariant is inductive.                                             *)
LEMMA InvInit == Init => Inv
<1>. SUFFICES ASSUME Init PROVE Inv
  OBVIOUS
<1>1. TypeOK
  <2>. exited = FALSE /\ stray = FALSE
    BY Zenon DEF Init
  <2>. exited \in BOOLEAN /\ stray \in BOOLEAN
    BY Zenon
  <2>4. EngineTyped
    BY DEF Init, EngineTyped, Labels, Doing
  <2>5. TablesTyped
    BY DEF Init, TablesTyped
  <2>1. EngineTyped /\ TablesTyped /\ HistoryTyped
    <3>1. failed = {}
      BY DEF Init
    <3>. QED BY <2>4, <2>5, <3>1 DEF HistoryTyped
  <2>2. SleepTyped /\ CallsTyped /\ ForksTyped
    <3>1. /\ sleep_session = [c \in Co |-> 0] /\ wakeup_queue = <<>>
          /\ watching_session = [s \in 1 .. MaxSession |-> None] /\ error_queue = <<>>
      BY DEF Init
    <3>2. SleepTyped
      BY <3>1 DEF SleepTyped
    <3>3. CallsTyped
      BY <3>1 DEF CallsTyped
    <3>. QED BY <3>2, <3>3 DEF Init, ForksTyped
  <2>3. SectionTyped /\ WorldTyped /\ ServedTyped
    BY DEF Init, SectionTyped, WorldTyped, ServedTyped
  <2>. QED BY <2>1, <2>2, <2>3, TypeParts DEF Parts
<1>2. SectionCount /\ RunningOK /\ TablesOK /\ SleepersOK /\ WatchOK /\ UndrawnOK
  BY
  DEF Init, SectionCount, RunningOK, TablesOK, SleepersOK, WatchOK, UndrawnOK,
      Sleepy, Waiting
<1>3. CallsOK
  BY DEF Init, CallsOK, TimersOK, AskedOK, ErrorQueueOK, EndingOK, TurnOK, DueOK
<1>4. HandedOK
  BY DEF Init, HandedOK, WokenOK, HandOverOK, ThreadQueueOK, DueOK
<1>5. AnswersOK
  BY DEF Init, AnswersOK, OneAnswer, Open
<1>. QED BY <1>1, <1>2, <1>3, <1>4, <1>5 DEF Inv, Basics

LEMMA InvNext == Inv /\ [Next]_vars => Inv'
<1>. SUFFICES ASSUME Inv, [Next]_vars PROVE Inv'
  OBVIOUS
<1>1. Basics'
  BY TypesKept, SectionKept, RunningKept, TablesKept, SleepersKept, WatchKept,
     UndrawnKept
  DEF Inv, Basics
<1>2. CallsOK'
  BY TimersKept, AskedKept, ErrorQueueKept, EndingKept, TurnKept, Forever
  DEF Inv, CallsOK
<1>3. HandedOK'
  BY WokenKept, HandOverKept, ThreadQueueKept, Forever DEF Inv, HandedOK
<1>4. AnswersOK'
  BY AnswersKept DEF Inv
<1>. QED BY <1>1, <1>2, <1>3, <1>4 DEF Inv

LEMMA Invariance == Spec => []Inv
BY InvInit, InvNext, PTL DEF Spec

(* Whatever is resumed waits for just that, and a response of an unknown   *)
(* session follows an error of the same exiting peer, until skynet.exit of *)
(* this service leaves the tables behind.                                  *)
THEOREM WaiterIsResumed == Spec => []ResumesWaiter
<1>1. Inv => ResumesWaiter
  BY DEF Inv, Basics, CallsOK, TurnOK, ResumesWaiter, RunningOK, Waiting, Sleepy
<1>. QED BY <1>1, Invariance, PTL

(* Between two messages every call that still waits has an answer to come  *)
(* and was not ended by an error, no fork has not run, and no sleeper that *)
(* was woken sleeps on (suspend, dispatch_error_queue, dispatch_wakeup).   *)
THEOREM TurnIsFinished == Spec => []NothingLeftOver
<1>1. Inv => NothingLeftOver
  <2>. SUFFICES ASSUME Inv, pc = "idle", ~exited
                PROVE  /\ error_queue = <<>> /\ \A c \in Co : at[c] # "forked"
                       /\ \A s \in Sessions : watching_session[s] # None =>
                             s \notin refused /\ <<watching_session[s], s>> \in asked
                       /\ stray \/ \A token \in Co :
                             sleep_session[token] # 0 => ~Contains(wakeup_queue, token)
    BY DEF NothingLeftOver
  <2>1. error_queue = <<>>
    BY DEF Inv, CallsOK, TurnOK, DueOK
  <2>2. \A c \in Co : at[c] # "forked"
    BY DEF Inv, CallsOK, TurnOK, Basics, RunningOK
  <2>3. \A s \in Sessions : watching_session[s] # None =>
           s \notin refused /\ <<watching_session[s], s>> \in asked
    BY <2>1 DEF Inv, CallsOK, EndingOK, Contains
  <2>4. stray \/ wakeup_queue = <<>>
    BY DEF Inv, HandedOK, WokenOK, DueOK
  <2>. QED BY <2>1, <2>2, <2>3, <2>4 DEF Contains
<1>. QED BY <1>1, Invariance, PTL

(* Every request is answered once, whichever way its handler goes.         *)
THEOREM EveryAnswerOnce == Spec => []AnsweredOnce
<1>1. Inv => AnsweredOnce
  <2>. SUFFICES ASSUME Inv PROVE AnsweredOnce
    OBVIOUS
  <2>. ServedTyped /\ AnswersOK
    BY TypeParts DEF Inv, Basics, Parts
  <2>1. ASSUME ~exited, NEW p \in Peer
        PROVE  /\ replies[p] <= 1
               /\ p \in requests \ (forgotten \cup late \cup down) => replies[p] + Owed(p) = 1
    <3>1. OneAnswer(p) /\ replies[p] \in Nat
      BY <2>1 DEF AnswersOK, ServedTyped
    <3>2. PICK n \in Nat :
             /\ n = Cardinality({c \in Co : session_coroutine_id[c] = p})
             /\ (\A c \in Co : session_coroutine_id[c] # p) => n = 0
             /\ (\E c \in Co : session_coroutine_id[c] = p) => n = 1
      BY <3>1, OwedCount DEF OneAnswer
    <3>3. Owed(p) = n + (IF p \in unresponse THEN 1 ELSE 0)
      BY <3>2 DEF Owed
    <3>. QED BY <3>1, <3>2, <3>3 DEF OneAnswer, Open
  <2>2. ASSUME exited, NEW p \in requests \ (forgotten \cup late \cup down)
        PROVE  replies[p] >= 1
    BY <2>2 DEF AnswersOK
  <2>. QED BY <2>1, <2>2 DEF AnsweredOnce, ServedTyped
<1>. QED BY <1>1, Invariance, PTL

(* The critical section holds one coroutine, is handed on to those that    *)
(* wait in their order, and is never left to one that is not inside.       *)
THEOREM SectionIsHandedOver == Spec => []SectionHandedOver
<1>1. Inv => SectionHandedOver
  <2>. SUFFICES ASSUME Inv PROVE SectionHandedOver
    OBVIOUS
  <2>. SectionTyped /\ SectionCount
    BY TypeParts DEF Inv, Basics, Parts
  <2>1. \A c, d \in Co : depth[c] > 0 /\ depth[d] > 0 => c = d
    BY DEF SectionCount
  <2>2. "section" \in failed => stray \/ exited
    BY DEF Inv, HandedOK, HandOverOK
  <2>3. ASSUME pc = "idle", ~stray, ~exited
        PROVE  /\ current_thread # None <=> ref > 0
               /\ thread_queue # <<>> => ref > 0
               /\ \A i, j \in 1 .. Len(thread_queue) :
                    i < j => waits[thread_queue[i]] < waits[thread_queue[j]]
    <3>1. wakeup_queue = <<>> /\ HandOverOK /\ ThreadQueueOK
      BY <2>3 DEF Inv, HandedOK, WokenOK, DueOK
    <3>2. current_thread # None => ref # 0
      BY <2>3, <3>1 DEF HandOverOK, Contains, Resumed
    <3>. QED BY <3>1, <3>2 DEF SectionCount, SectionTyped, ThreadQueueOK
  <2>. QED BY <2>1, <2>2, <2>3 DEF SectionHandedOver
<1>. QED BY <1>1, Invariance, PTL
=============================================================================
