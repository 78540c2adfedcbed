------------------------------ MODULE Dispatch ------------------------------
(***************************************************************************)
(* The message scheduler of skynet: services (skynet_context), their       *)
(* message queues, the global queue of queues, and the worker threads that *)
(* take a queue, run its service's callback and hand the queue on.         *)
(*                                                                         *)
(* A step is one critical section of the code (a spinlock or rwlock held)  *)
(* or one atomic operation on a reference count; threads interleave        *)
(* between any two of them.  A service value stands for one incarnation of *)
(* a context and its handle; handles are not reused here (module Handle    *)
(* models their allocation).  The ring buffer behind a queue is module     *)
(* MessageQueue; here a queue is the sequence it implements.  Log messages *)
(* to the logger service are left out.                                     *)
(***************************************************************************)
EXTENDS Integers, Sequences, FiniteSets

CONSTANTS
    Worker,     \* worker threads (thread_worker)
    Extern,     \* timer and socket thread: they only send messages
    Monitor,    \* the thread that looks for endless callbacks
    Service,    \* every context that may ever be created
    Boot,       \* the services skynet_start launches before the threads run
    Mute,       \* services that leave ctx->cb NULL
    Msg,        \* the messages services and threads may send, each once
    Share,      \* worker -> 2^weight, or 0 for weight -1 (the table in start())
    None        \* the NULL pointer, and source 0

ASSUME ConstantAssumption ==
    /\ Boot \subseteq Service
    /\ Mute \subseteq Service
    /\ None \notin Service
    /\ Worker \cap Extern = {}
    /\ Monitor \cap (Worker \cup Extern) = {}
    /\ Share \in [Worker -> Nat]
    /\ IsFiniteSet(Worker \cup Extern \cup Monitor)
    /\ IsFiniteSet(Boot)

Thread == Worker \cup Extern \cup Monitor

(* A message in a queue: its source, and whether it is the PTYPE_ERROR     *)
(* notice that message m was dropped rather than m itself.                 *)
Message == [m : Msg, src : Service \cup {None}, err : BOOLEAN]

ASSUME NoneAssumption == None \notin Message

VARIABLES
    reg,        \* service -> the handle table has a slot for it
    ref,        \* service -> ctx->ref
    ctx,        \* service -> "none", "live" or "freed": the skynet_context
    mq,         \* service -> "none", "live" or "freed": the message_queue
    inited,     \* service -> ctx->init
    queue,      \* service -> messages waiting
    inGlobal,   \* service -> q->in_global
    release,    \* service -> q->release
    Q,          \* the global queue
    pc,         \* worker -> where it is in skynet_context_message_dispatch
    held,       \* worker -> local variable q
    nq,         \* worker -> local variable nq
    cur,        \* worker -> local variable ctx
    left,       \* worker -> messages still to dispatch in this turn
    lpc, lsvc,  \* thread -> where it is in skynet_context_new, and for whom
    opc, osvc,  \* thread -> where it is in skynet_send / skynet_handle_retire
    omsg,       \* thread -> the message being sent
    deleting,   \* thread -> the context it brought to ref 0, or None
    outcome     \* message -> what has become of it (history)

ctxVars == <<reg, ref, ctx, inited>>
mqVars == <<mq, queue, inGlobal, release>>
workerVars == <<pc, held, nq, cur, left>>
launchVars == <<lpc, lsvc>>
opVars == <<opc, osvc, omsg>>
vars == <<ctxVars, mqVars, Q, workerVars, launchVars, opVars, deleting, outcome>>

Outcomes == {"unsent", "sending", "queued", "rejected", "dispatched",
             "discarded", "dropped", "reported", "unreportable"}

TypeOK ==
    /\ reg \in [Service -> BOOLEAN]
    /\ ref \in [Service -> Nat]
    /\ ctx \in [Service -> {"none", "live", "freed"}]
    /\ mq \in [Service -> {"none", "live", "freed"}]
    /\ inited \in [Service -> BOOLEAN]
    /\ queue \in [Service -> Seq(Message)]
    /\ inGlobal \in [Service -> BOOLEAN]
    /\ release \in [Service -> BOOLEAN]
    /\ Q \in Seq(Service)
    /\ pc \in [Worker -> {"idle", "grab", "release", "drop", "pop", "length",
                          "call", "yield", "pushback", "unref"}]
    /\ held \in [Worker -> Service \cup {None}]
    /\ nq \in [Worker -> Service \cup {None}]
    /\ cur \in [Worker -> Service \cup {None}]
    /\ left \in [Worker -> Nat]
    /\ lpc \in [Thread -> {"none", "init", "setinit", "publish", "pushnull",
                           "result", "retire", "mqrelease", "drop"}]
    /\ lsvc \in [Thread -> Service \cup {None}]
    /\ opc \in [Thread -> {"none", "send", "push", "unref"}]
    /\ osvc \in [Thread -> Service \cup {None}]
    /\ omsg \in [Thread -> Message \cup {None}]
    /\ deleting \in [Thread -> Service \cup {None}]
    /\ outcome \in [Msg -> Outcomes]

(* The state when start() has created the threads: every boot service has  *)
(* been launched and its queue pushed to the global queue.                 *)
Init ==
    /\ reg = [s \in Service |-> s \in Boot]
    /\ ref = [s \in Service |-> IF s \in Boot THEN 1 ELSE 0]
    /\ ctx = [s \in Service |-> IF s \in Boot THEN "live" ELSE "none"]
    /\ mq = [s \in Service |-> IF s \in Boot THEN "live" ELSE "none"]
    /\ inited = [s \in Service |-> s \in Boot]
    /\ queue = [s \in Service |-> << >>]
    /\ inGlobal = [s \in Service |-> s \in Boot]
    /\ release = [s \in Service |-> FALSE]
    /\ Q \in {q \in [1 .. Cardinality(Boot) -> Boot] :
                 \A i, j \in DOMAIN q : q[i] = q[j] => i = j}
    /\ pc = [w \in Worker |-> "idle"]
    /\ held = [w \in Worker |-> None]
    /\ nq = [w \in Worker |-> None]
    /\ cur = [w \in Worker |-> None]
    /\ left = [w \in Worker |-> 0]
    /\ lpc = [t \in Thread |-> "none"]
    /\ lsvc = [t \in Thread |-> None]
    /\ opc = [t \in Thread |-> "none"]
    /\ osvc = [t \in Thread |-> None]
    /\ omsg = [t \in Thread |-> None]
    /\ deleting = [t \in Thread |-> None]
    /\ outcome = [m \in Msg |-> "unsent"]

-----------------------------------------------------------------------------
(* Primitives, named after the functions they model.                       *)

skynet_globalmq_push(s) == Q' = Append(Q, s)

\* mutant: the reference is not counted
GrabUncounted(s) == UNCHANGED ref

skynet_context_grab(s) == ref' = [ref EXCEPT ![s] = @ + 1]

\* mutant: the count is read again after the decrement that reaches 0
ReleaseEarly(t, s) ==
    /\ ref' = [ref EXCEPT ![s] = @ - 1]
    /\ deleting' = [deleting EXCEPT ![t] = IF ref[s] <= 2 THEN s ELSE @]

(* ATOM_DEC(&ctx->ref): the thread that reaches 0 goes on to delete.       *)
skynet_context_release(t, s) ==
    /\ ref' = [ref EXCEPT ![s] = @ - 1]
    /\ deleting' = [deleting EXCEPT ![t] = IF ref[s] = 1 THEN s ELSE @]

(* No nested call of thread t is pending.                                  *)
Free(t) == opc[t] = "none" /\ deleting[t] = None

(* Worker w is at label l of its dispatch loop itself.                     *)
At(w, l) == pc[w] = l /\ lpc[w] = "none" /\ Free(w)

Goto(w, l) == pc' = [pc EXCEPT ![w] = l]

(* The message becomes r in the history, unless it is an error notice.     *)
Becomes(msg, r, ifErr) ==
    outcome' = [outcome EXCEPT ![msg.m] = IF msg.err THEN ifErr ELSE r]

\* mutant: the queue is marked and not pushed
MarkOnly(s) == /\ release' = [release EXCEPT ![s] = TRUE]
               /\ UNCHANGED Q

(* Mark the queue, and push it unless somebody owns it already.            *)
skynet_mq_mark_release(s) ==
    /\ release' = [release EXCEPT ![s] = TRUE]
    /\ IF inGlobal[s] THEN UNCHANGED Q ELSE skynet_globalmq_push(s)

(* delete_context, after the module's release function.  No other thread   *)
(* has the context, so marking the queue and freeing it is one step.       *)
DeleteContext(t) ==
    LET s == deleting[t] IN
    /\ s # None
    /\ deleting' = [deleting EXCEPT ![t] = None]
    /\ ctx' = [ctx EXCEPT ![s] = "freed"]
    /\ skynet_mq_mark_release(s)
    /\ UNCHANGED <<reg, ref, inited, mq, queue, inGlobal, workerVars,
                   launchVars, opVars, outcome>>

-----------------------------------------------------------------------------
(* skynet_send, skynet_context_push and skynet_handle_retire, as run by a  *)
(* callback, by a thread outside the workers, or on the error path.        *)

(* Thread t has begun to send msg to d.                                    *)
BeginSend(t, msg, d) ==
    /\ opc' = [opc EXCEPT ![t] = "send"]
    /\ osvc' = [osvc EXCEPT ![t] = d]
    /\ omsg' = [omsg EXCEPT ![t] = msg]

EndOp(t) ==
    /\ opc' = [opc EXCEPT ![t] = "none"]
    /\ osvc' = [osvc EXCEPT ![t] = None]
    /\ omsg' = [omsg EXCEPT ![t] = None]

(* skynet_handle_grab finds the destination; a message to a dead handle is *)
(* freed and the call returns -1.                                          *)
SendGrab(t) ==
    LET d == osvc[t] IN
    /\ opc[t] = "send"
    /\ \/ /\ reg[d]
          /\ skynet_context_grab(d)
          /\ opc' = [opc EXCEPT ![t] = "push"]
          /\ UNCHANGED <<osvc, omsg, outcome>>
       \/ /\ ~reg[d]
          /\ Becomes(omsg[t], "rejected", "unreportable")
          /\ EndOp(t)
          /\ UNCHANGED ref
    /\ UNCHANGED <<reg, ctx, inited, mqVars, Q, workerVars, launchVars, deleting>>

\* mutant: the flag is set and not tested
PushAlways(d, msg) ==
    /\ queue' = [queue EXCEPT ![d] = Append(@, msg)]
    /\ inGlobal' = [inGlobal EXCEPT ![d] = TRUE]
    /\ skynet_globalmq_push(d)

(* The queue joins the global queue unless it is there, or being served.   *)
skynet_mq_push(d, msg) ==
    /\ queue' = [queue EXCEPT ![d] = Append(@, msg)]
    /\ inGlobal' = [inGlobal EXCEPT ![d] = TRUE]
    /\ IF inGlobal[d] THEN UNCHANGED Q ELSE skynet_globalmq_push(d)

MqPush(t) ==
    /\ opc[t] = "push"
    /\ skynet_mq_push(osvc[t], omsg[t])
    /\ Becomes(omsg[t], "queued", "dropped")
    /\ opc' = [opc EXCEPT ![t] = "unref"]
    /\ omsg' = [omsg EXCEPT ![t] = None]
    /\ UNCHANGED <<ctxVars, mq, release, workerVars, launchVars, osvc, deleting>>

(* The skynet_context_release that ends a send or a retire.                *)
OpUnref(t) ==
    /\ opc[t] = "unref"
    /\ skynet_context_release(t, osvc[t])
    /\ EndOp(t)
    /\ UNCHANGED <<reg, ctx, inited, mqVars, Q, workerVars, launchVars, outcome>>

(* skynet_handle_retire of a registered handle: the slot's reference is    *)
(* now the thread's to give up.                                            *)
Retire(t, d) ==
    /\ reg[d]
    /\ reg' = [reg EXCEPT ![d] = FALSE]
    /\ opc' = [opc EXCEPT ![t] = "unref"]
    /\ osvc' = [osvc EXCEPT ![t] = d]
    /\ UNCHANGED <<ref, ctx, inited, mqVars, Q, workerVars, omsg, deleting, outcome>>

-----------------------------------------------------------------------------
(* What a callback may do: send, kill a service (or itself, or all of them *)
(* one after another: skynet_handle_retireall), launch a service.  The     *)
(* notice of a kill to the monitor service is one of the sends.            *)

InCallback(w) == At(w, "call") /\ cur[w] \notin Mute

(* Thread t may call skynet_send: its callback runs, or the init function  *)
(* of the service it launches, or it is the timer or the socket thread.    *)
MaySend(t) ==
    \/ t \in Extern /\ Free(t)
    \/ t \in Worker /\ InCallback(t)
    \/ t \in Worker /\ lpc[t] = "init" /\ Free(t)

Source(t) == IF t \in Extern THEN None
             ELSE IF lpc[t] = "init" THEN lsvc[t] ELSE cur[t]

Send(t, m, d) ==
    /\ MaySend(t)
    /\ outcome[m] = "unsent"
    /\ ctx[d] # "none"
    /\ outcome' = [outcome EXCEPT ![m] = "sending"]
    /\ BeginSend(t, [m |-> m, src |-> Source(t), err |-> FALSE], d)
    /\ UNCHANGED <<ctxVars, mqVars, Q, workerVars, launchVars, deleting>>

Kill(w, d) ==
    /\ InCallback(w)
    /\ Retire(w, d)
    /\ UNCHANGED launchVars

(* The monitor thread found a worker busy too long and sets endless on the *)
(* context, holding a reference meanwhile.                                 *)
ContextEndless(t, d) ==
    /\ t \in Monitor /\ Free(t)
    /\ reg[d]
    /\ skynet_context_grab(d)
    /\ opc' = [opc EXCEPT ![t] = "unref"]
    /\ osvc' = [osvc EXCEPT ![t] = d]
    /\ UNCHANGED <<reg, ctx, inited, mqVars, Q, workerVars, launchVars, omsg,
                   deleting, outcome>>

\* mutant: a new queue does not look as if it were in the global queue
CreateOutside(s) ==
    /\ mq' = [mq EXCEPT ![s] = "live"]
    /\ inGlobal' = [inGlobal EXCEPT ![s] = FALSE]

(* in_global is set before the queue is anywhere, so that messages sent    *)
(* while init runs do not start the service.                               *)
skynet_mq_create(s) ==
    /\ mq' = [mq EXCEPT ![s] = "live"]
    /\ inGlobal' = [inGlobal EXCEPT ![s] = TRUE]

(* skynet_context_new up to the call of the module's init function.  The   *)
(* handle is known to nobody before init runs, so that nobody can miss the *)
(* queue between the registration and skynet_mq_create; and a retirement   *)
(* by ABORT there comes to the same as one after it.                       *)
Launch(w, s) ==
    /\ InCallback(w)
    /\ ctx[s] = "none"
    /\ reg' = [reg EXCEPT ![s] = TRUE]
    /\ ref' = [ref EXCEPT ![s] = 2]
    /\ ctx' = [ctx EXCEPT ![s] = "live"]
    /\ skynet_mq_create(s)
    /\ lpc' = [lpc EXCEPT ![w] = "init"]
    /\ lsvc' = [lsvc EXCEPT ![w] = s]
    /\ UNCHANGED <<inited, queue, release, Q, workerVars, opVars, deleting, outcome>>

(* init has returned: drop the creator's reference.  ret is NULL if that   *)
(* was the last one.                                                       *)
LaunchInit(w, ok) ==
    LET s == lsvc[w] IN
    /\ lpc[w] = "init" /\ Free(w)
    /\ skynet_context_release(w, s)
    /\ lpc' = [lpc EXCEPT ![w] = IF ~ok THEN "retire"
                                 ELSE IF ref[s] = 1 THEN "pushnull" ELSE "setinit"]
    /\ UNCHANGED <<reg, ctx, inited, mqVars, Q, workerVars, lsvc, opVars, outcome>>

(* ctx->init = true.  The launcher has no reference any more; the write    *)
(* matters only if the context is still there (see LaunchedContextLive).   *)
LaunchSetInit(w) ==
    LET s == lsvc[w] IN
    /\ lpc[w] = "setinit"
    /\ inited' = [inited EXCEPT ![s] = (ctx[s] = "live")]
    /\ lpc' = [lpc EXCEPT ![w] = "publish"]
    /\ UNCHANGED <<reg, ref, ctx, mqVars, Q, workerVars, lsvc, opVars, deleting, outcome>>

EndLaunch(w) ==
    /\ lpc' = [lpc EXCEPT ![w] = "none"]
    /\ lsvc' = [lsvc EXCEPT ![w] = None]

LaunchPublish(w) ==
    /\ lpc[w] \in {"publish", "pushnull"} /\ Free(w)
    /\ skynet_globalmq_push(lsvc[w])
    /\ \/ /\ lpc[w] = "publish"
          /\ lpc' = [lpc EXCEPT ![w] = "result"]
          /\ UNCHANGED lsvc
       \/ /\ lpc[w] = "pushnull"
          /\ EndLaunch(w)
    /\ UNCHANGED <<ctxVars, mqVars, workerVars, opVars, deleting, outcome>>

(* The log line and cmd_launch read the handle out of the new context.     *)
LaunchResult(w) ==
    /\ lpc[w] = "result"
    /\ EndLaunch(w)
    /\ UNCHANGED <<ctxVars, mqVars, Q, workerVars, opVars, deleting, outcome>>

(* The error path: skynet_handle_retire(handle), then skynet_mq_release.   *)
LaunchRetire(w) ==
    LET s == lsvc[w] IN
    /\ lpc[w] = "retire" /\ Free(w)
    /\ lpc' = [lpc EXCEPT ![w] = "mqrelease"]
    /\ UNCHANGED lsvc
    /\ \/ Retire(w, s)
       \/ /\ ~reg[s]
          /\ UNCHANGED <<ctxVars, mqVars, Q, workerVars, opVars, deleting, outcome>>

LaunchMqRelease(w) ==
    LET s == lsvc[w] IN
    /\ lpc[w] = "mqrelease" /\ Free(w)
    /\ \/ /\ release[s]
          /\ lpc' = [lpc EXCEPT ![w] = "drop"]
          /\ UNCHANGED <<Q, lsvc>>
       \/ /\ ~release[s]
          /\ skynet_globalmq_push(s)
          /\ EndLaunch(w)
    /\ UNCHANGED <<ctxVars, mqVars, workerVars, opVars, deleting, outcome>>

-----------------------------------------------------------------------------
(* _drop_queue of queue s by thread t: every message left is answered with *)
(* an error to its source (drop_message), then the queue is freed.         *)

\* mutant: the source is not told
DropSilently(t, s) ==
    /\ queue[s] # << >>
    /\ queue' = [queue EXCEPT ![s] = Tail(@)]
    /\ Becomes(Head(queue[s]), "dropped", "dropped")
    /\ UNCHANGED <<ctxVars, mq, inGlobal, release, Q, workerVars, launchVars,
                   opVars, deleting>>

DropMessage(t, s) ==
    LET msg == Head(queue[s]) IN
    /\ queue[s] # << >>
    /\ queue' = [queue EXCEPT ![s] = Tail(@)]
    /\ IF msg.src = None
       THEN /\ Becomes(msg, "unreportable", "unreportable")
            /\ UNCHANGED opVars
       ELSE /\ Becomes(msg, "dropped", "unreportable")
            /\ BeginSend(t, [m |-> msg.m, src |-> s, err |-> TRUE], msg.src)
    /\ UNCHANGED <<ctxVars, mq, inGlobal, release, Q, workerVars, launchVars, deleting>>

FreeQueue(s) ==
    /\ queue[s] = << >>
    /\ inGlobal' = [inGlobal EXCEPT ![s] = FALSE]
    /\ mq' = [mq EXCEPT ![s] = "freed"]

LaunchDrop(w) ==
    /\ lpc[w] = "drop" /\ Free(w)
    /\ \/ DropMessage(w, lsvc[w])
       \/ /\ FreeQueue(lsvc[w])
          /\ EndLaunch(w)
          /\ UNCHANGED <<ctxVars, queue, release, Q, workerVars, opVars, deleting, outcome>>

-----------------------------------------------------------------------------
(* skynet_context_message_dispatch, called over and over by thread_worker. *)

(* q == NULL: take a queue from the global queue (sleep if there is none). *)
GlobalMqPop(w) ==
    /\ At(w, "idle")
    /\ Q # << >>
    /\ held' = [held EXCEPT ![w] = Head(Q)]
    /\ Q' = Tail(Q)
    /\ Goto(w, "grab")
    /\ UNCHANGED <<ctxVars, mqVars, nq, cur, left, launchVars, opVars, deleting, outcome>>

DispatchGrab(w) ==
    LET s == held[w] IN
    /\ At(w, "grab")
    /\ \/ /\ reg[s]
          /\ skynet_context_grab(s)
          /\ cur' = [cur EXCEPT ![w] = s]
          /\ Goto(w, "pop")
       \/ /\ ~reg[s]
          /\ Goto(w, "release")
          /\ UNCHANGED <<ref, cur>>
    /\ left' = [left EXCEPT ![w] = 0]
    /\ UNCHANGED <<reg, ctx, inited, mqVars, Q, held, nq, launchVars, opVars,
                   deleting, outcome>>

(* skynet_mq_release: no context any more.                                 *)
MqRelease(w) ==
    LET s == held[w] IN
    /\ At(w, "release")
    /\ \/ /\ release[s]
          /\ Goto(w, "drop")
          /\ UNCHANGED <<Q, held>>
       \/ /\ ~release[s]
          /\ skynet_globalmq_push(s)
          /\ held' = [held EXCEPT ![w] = None]
          /\ Goto(w, "idle")
    /\ UNCHANGED <<ctxVars, mqVars, nq, cur, left, launchVars, opVars, deleting, outcome>>

MqDrop(w) ==
    /\ At(w, "drop")
    /\ \/ DropMessage(w, held[w])
       \/ /\ FreeQueue(held[w])
          /\ held' = [held EXCEPT ![w] = None]
          /\ Goto(w, "idle")
          /\ UNCHANGED <<ctxVars, queue, release, Q, nq, cur, left, launchVars,
                         opVars, deleting, outcome>>

(* skynet_mq_pop: the message goes to the callback (or is discarded if the *)
(* service has none); an empty queue is let go.                            *)
MqPop(w) ==
    LET s == held[w] IN
    /\ At(w, "pop")
    /\ \/ /\ queue[s] # << >>
          /\ queue' = [queue EXCEPT ![s] = Tail(@)]
          /\ Becomes(Head(queue[s]),
                     IF s \in Mute THEN "discarded" ELSE "dispatched", "reported")
          /\ Goto(w, IF left[w] = 0 /\ Share[w] > 0 THEN "length" ELSE "call")
          /\ left' = [left EXCEPT ![w] = IF @ = 0 THEN 0 ELSE @ - 1]
          /\ UNCHANGED <<inGlobal, held>>
       \/ /\ queue[s] = << >>
          /\ inGlobal' = [inGlobal EXCEPT ![s] = FALSE]
          /\ held' = [held EXCEPT ![w] = None]
          /\ Goto(w, "unref")
          /\ UNCHANGED <<queue, left, outcome>>
    /\ UNCHANGED <<ctxVars, mq, release, Q, nq, cur, launchVars, opVars, deleting>>

(* n = skynet_mq_length(q) >> weight, read once, after the first message.  *)
MqLength(w) ==
    LET n == Len(queue[held[w]]) \div Share[w] IN
    /\ At(w, "length")
    /\ left' = [left EXCEPT ![w] = IF n = 0 THEN 0 ELSE n - 1]
    /\ Goto(w, "call")
    /\ UNCHANGED <<ctxVars, mqVars, Q, held, nq, cur, launchVars, opVars,
                   deleting, outcome>>

(* The callback has returned.                                              *)
CallReturn(w) ==
    /\ At(w, "call")
    /\ Goto(w, IF left[w] > 0 THEN "pop" ELSE "yield")
    /\ UNCHANGED <<ctxVars, mqVars, Q, held, nq, cur, left, launchVars, opVars,
                   deleting, outcome>>

(* Hand the queue on if another queue waits, keep it otherwise.            *)
Yield(w) ==
    /\ At(w, "yield")
    /\ \/ /\ Q # << >>
          /\ nq' = [nq EXCEPT ![w] = Head(Q)]
          /\ Q' = Tail(Q)
          /\ Goto(w, "pushback")
       \/ /\ Q = << >>
          /\ Goto(w, "unref")
          /\ UNCHANGED <<Q, nq>>
    /\ UNCHANGED <<ctxVars, mqVars, held, cur, left, launchVars, opVars, deleting, outcome>>

PushBack(w) ==
    /\ At(w, "pushback")
    /\ skynet_globalmq_push(held[w])
    /\ held' = [held EXCEPT ![w] = nq[w]]
    /\ nq' = [nq EXCEPT ![w] = None]
    /\ Goto(w, "unref")
    /\ UNCHANGED <<ctxVars, mqVars, cur, left, launchVars, opVars, deleting, outcome>>

DispatchUnref(w) ==
    /\ At(w, "unref")
    /\ skynet_context_release(w, cur[w])
    /\ cur' = [cur EXCEPT ![w] = None]
    /\ Goto(w, IF held[w] = None THEN "idle" ELSE "grab")
    /\ UNCHANGED <<reg, ctx, inited, mqVars, Q, held, nq, left, launchVars,
                   opVars, outcome>>

-----------------------------------------------------------------------------
(* The steps a thread takes by itself once it is scheduled ...             *)
OpStep(t) == SendGrab(t) \/ MqPush(t) \/ OpUnref(t) \/ DeleteContext(t)

LaunchStep(w) ==
    \/ \E ok \in BOOLEAN : LaunchInit(w, ok)
    \/ LaunchSetInit(w) \/ LaunchPublish(w) \/ LaunchResult(w)
    \/ LaunchRetire(w) \/ LaunchMqRelease(w) \/ LaunchDrop(w)

DispatchStep(w) ==
    \/ GlobalMqPop(w) \/ DispatchGrab(w) \/ MqRelease(w) \/ MqDrop(w)
    \/ MqPop(w) \/ MqLength(w) \/ CallReturn(w)
    \/ Yield(w) \/ PushBack(w) \/ DispatchUnref(w)

(* ... and those its callback or its input chooses to take.                *)
Choice ==
    \/ \E t \in Thread, m \in Msg, d \in Service : Send(t, m, d)
    \/ \E t \in Monitor, d \in Service : ContextEndless(t, d)
    \/ \E w \in Worker, d \in Service : Kill(w, d)
    \/ \E w \in Worker, s \in Service : Launch(w, s)

Next ==
    \/ Choice
    \/ \E t \in Thread : OpStep(t)
    \/ \E w \in Worker : LaunchStep(w) \/ DispatchStep(w)

Spec == Init /\ [][Next]_vars

(* Every thread keeps running and every callback returns.                  *)
Fairness ==
    /\ \A t \in Thread : WF_vars(OpStep(t))
    /\ \A w \in Worker : WF_vars(LaunchStep(w)) /\ WF_vars(DispatchStep(w))

FairSpec == Spec /\ Fairness

-----------------------------------------------------------------------------
(* Safety.                                                                 *)

(* The references to context s: the slot of the handle table, a thread in  *)
(* skynet_send or skynet_handle_retire, a worker dispatching, a launcher   *)
(* whose init function runs.                                               *)
RefToken == ((Thread \cup {None}) \X {"slot", "op", "ctx", "new"})

Refs(s) == {r \in RefToken :
    \/ r = <<None, "slot">> /\ reg[s]
    \/ r[1] \in Thread /\ r[2] = "op" /\ opc[r[1]] \in {"push", "unref"} /\ osvc[r[1]] = s
    \/ r[1] \in Worker /\ r[2] = "ctx" /\ cur[r[1]] = s
    \/ r[1] \in Thread /\ r[2] = "new" /\ lpc[r[1]] = "init" /\ lsvc[r[1]] = s}

(* The count of a live context is the number of references to it, there is *)
(* no reference to a context that was freed, and the one thread that took  *)
(* the count to 0 is the only one to delete it.                            *)
RefCount ==
    /\ \A s \in Service :
          /\ ctx[s] = "live" => ref[s] = Cardinality(Refs(s))
          /\ Refs(s) # {} => ctx[s] = "live"
    /\ \A t \in Thread, s \in Service : deleting[t] = s =>
          /\ ctx[s] = "live"
          /\ Refs(s) = {}
          /\ \A u \in Thread : deleting[u] = s => u = t

(* Who has queue s: a place in the global queue, a worker, a launcher.     *)
Owners(s) ==
    {<<"Q", i>> : i \in {j \in DOMAIN Q : Q[j] = s}}
    \cup {<<"held", w>> : w \in {v \in Worker : held[v] = s}}
    \cup {<<"nq", w>> : w \in {v \in Worker : nq[v] = s}}
    \cup {<<"new", t>> : t \in {u \in Thread : lsvc[u] = s /\ lpc[u] # "result"}}

(* Where the code of service s runs: in a callback or in init.             *)
Running(s) == {w \in Worker : pc[w] = "call" /\ cur[w] = s}
              \cup {t \in Thread : lpc[t] = "init" /\ lsvc[t] = s}

(* "1 means mq is in global mq, or the message is dispatching": a queue    *)
(* has an owner exactly when in_global or release says so, never two, and  *)
(* none once it is freed.  So no queue is linked twice into the global     *)
(* queue, served by two workers, or forgotten with messages in it; and     *)
(* CHECKCALLING holds: a service never runs on two threads, nor while a    *)
(* launcher still runs its init function (skynet_mq.c:88).                 *)
SingleOwner == \A s \in Service :
    /\ \A a, b \in Owners(s) : a = b
    /\ mq[s] = "live" => (Owners(s) # {} <=> inGlobal[s] \/ release[s])
    /\ mq[s] # "live" => Owners(s) = {}
    /\ queue[s] # << >> => Owners(s) # {}
    /\ Cardinality(Running(s)) <= 1

(* The assertions of dispatch_message, skynet_context_message_dispatch and *)
(* skynet_mq_mark_release, and that a queue is pushed to or marked only    *)
(* while it exists.                                                        *)
AssertionsHold ==
    /\ \A w \in Worker :
          /\ pc[w] = "call" => inited[cur[w]]
          /\ pc[w] \in {"pop", "length", "call", "yield", "pushback"} => held[w] = cur[w]
    /\ \A t \in Thread :
          /\ deleting[t] # None => mq[deleting[t]] = "live" /\ ~release[deleting[t]]
          /\ opc[t] = "push" => mq[osvc[t]] = "live"

(* The context a launcher still uses after giving up its reference (to set *)
(* init, to log, to return the handle) has not been freed.                 *)
LaunchedContextLive == \A t \in Thread :
    lpc[t] \in {"setinit", "publish", "result"} => ctx[lsvc[t]] = "live"

-----------------------------------------------------------------------------
(* Liveness.                                                               *)

(* Every message that reaches a queue is dispatched or discarded by the    *)
(* service, or its sender is told that it was dropped, unless the message  *)
(* has no sender or the sender is gone.                                    *)
NoHungCaller == \A m \in Msg :
    outcome[m] = "queued" ~>
        outcome[m] \in {"dispatched", "discarded", "reported", "unreportable"}

(* A context that leaves the handle table is freed, and so is its queue.   *)
Reclaim == \A s \in Service :
    (ctx[s] = "live" /\ ~reg[s]) ~> (ctx[s] = "freed" /\ mq[s] = "freed")
=============================================================================
