--------------------------- MODULE DispatchProofs ---------------------------
(* Proofs about the scheduler of Dispatch, for any set of threads,         *)
(* services and messages.                                                  *)
EXTENDS Dispatch, FiniteSetTheorems, TLAPS

(* Where a worker holds a reference in the local variable ctx.             *)
CtxPc == {"pop", "length", "call", "yield", "pushback", "unref"}

(* How the control state of a thread fixes its local variables.            *)
LocalOK ==
    /\ \A w \in Worker :
          /\ pc[w] \notin {"idle", "unref"} => held[w] # None
          /\ pc[w] \in CtxPc <=> cur[w] # None
          /\ pc[w] = "pushback" => nq[w] # None
          /\ pc[w] = "length" => Share[w] > 0
    /\ \A t \in Thread :
          /\ lpc[t] # "none" => lsvc[t] # None
          /\ opc[t] # "none" => osvc[t] # None /\ deleting[t] = None
          /\ opc[t] \in {"send", "push"} => omsg[t] # None

(* The inductive invariant for TypeOK and RefCount.                        *)
RefInv == TypeOK /\ LocalOK /\ RefCount

USE DEF ctxVars, mqVars, workerVars, launchVars, opVars

-----------------------------------------------------------------------------
(* Reference tokens.                                                       *)

(* There are finitely many possible references to a context.               *)
LEMMA RefsFinite ==
    ASSUME NEW s PROVE IsFiniteSet(Refs(s))
<1>1. IsFiniteSet(Thread \cup {None})
  BY ConstantAssumption, FS_AddElement DEF Thread
<1>2. IsFiniteSet({"slot", "op", "ctx", "new"})
  <2>1. IsFiniteSet({"slot"})
    BY FS_Singleton
  <2>2. IsFiniteSet({"slot", "op"})
    <3>1. {"slot", "op"} = {"slot"} \cup {"op"} OBVIOUS
    <3> QED BY <2>1, <3>1, FS_AddElement
  <2>3. IsFiniteSet({"slot", "op", "ctx"})
    <3>1. {"slot", "op", "ctx"} = {"slot", "op"} \cup {"ctx"} OBVIOUS
    <3> QED BY <2>2, <3>1, FS_AddElement
  <2>4. {"slot", "op", "ctx", "new"} = {"slot", "op", "ctx"} \cup {"new"}
    OBVIOUS
  <2> QED BY <2>3, <2>4, FS_AddElement
<1>3. IsFiniteSet(RefToken)
  BY <1>1, <1>2, FS_Product DEF RefToken
<1>4. Refs(s) \subseteq RefToken
  BY DEF Refs
<1> QED BY <1>3, <1>4, FS_Subset

(* What it is to be a reference, one kind at a time.                       *)
LEMMA RefsMember ==
    ASSUME NEW s
    PROVE  /\ <<None, "slot">> \in Refs(s) <=> reg[s]
           /\ \A t \in Thread :
                 /\ <<t, "op">> \in Refs(s) <=>
                       opc[t] \in {"push", "unref"} /\ osvc[t] = s
                 /\ <<t, "new">> \in Refs(s) <=> lpc[t] = "init" /\ lsvc[t] = s
           /\ \A w \in Worker : <<w, "ctx">> \in Refs(s) <=> cur[w] = s
BY DEF Refs, RefToken, Thread

(* Steps that touch none of the variables references are made of.          *)
LEMMA RefsUnchanged ==
    ASSUME NEW s, UNCHANGED <<reg, opc, osvc, cur, lpc, lsvc>>
    PROVE  Refs(s)' = Refs(s)
BY DEF Refs

(* A new reference to a registered context keeps the count right.          *)
LEMMA GrabCounts ==
    ASSUME RefInv, NEW d \in Service, NEW tok,
           reg[d], tok \notin Refs(d), skynet_context_grab(d),
           Refs(d)' = Refs(d) \cup {tok},
           \A s \in Service \ {d} : Refs(s)' = Refs(s),
           UNCHANGED <<ctx, deleting>>
    PROVE  RefCount' /\ ref' \in [Service -> Nat]
<1>1. <<None, "slot">> \in Refs(d) /\ ctx[d] = "live"
  BY RefsMember DEF RefInv, RefCount
<1>2. ref[d] = Cardinality(Refs(d)) /\ ref'[d] = ref[d] + 1 /\ ref[d] \in Nat
  BY <1>1 DEF RefInv, RefCount, TypeOK, skynet_context_grab
<1>3. Cardinality(Refs(d) \cup {tok}) = Cardinality(Refs(d)) + 1
  BY RefsFinite, FS_AddElement
<1>4. \A s \in Service : /\ ctx'[s] = "live" => ref'[s] = Cardinality(Refs(s)')
                         /\ Refs(s)' # {} => ctx'[s] = "live"
  <2> SUFFICES ASSUME NEW s \in Service
               PROVE  /\ ctx'[s] = "live" => ref'[s] = Cardinality(Refs(s)')
                      /\ Refs(s)' # {} => ctx'[s] = "live"
    OBVIOUS
  <2>1. CASE s = d
    BY <2>1, <1>1, <1>2, <1>3
  <2>2. CASE s # d
    <3>1. ref'[s] = ref[s]
      BY <2>2 DEF skynet_context_grab, RefInv, TypeOK
    <3> QED BY <2>2, <3>1 DEF RefInv, RefCount
  <2> QED BY <2>1, <2>2
<1>5. \A t \in Thread : deleting[t] # d
  BY <1>1 DEF RefInv, RefCount
<1>6. \A t \in Thread, s \in Service : deleting'[t] = s =>
          /\ ctx'[s] = "live"
          /\ Refs(s)' = {}
          /\ \A u \in Thread : deleting'[u] = s => u = t
  BY <1>5 DEF RefInv, RefCount
<1>7. RefCount'
  BY <1>4, <1>6 DEF RefCount
<1>8. ref' \in [Service -> Nat]
  BY DEF RefInv, TypeOK, skynet_context_grab
<1> QED BY <1>7, <1>8

(* Giving up a reference: whoever takes the count to 0 is the only one who *)
(* may still reach the context.                                            *)
LEMMA ReleaseCounts ==
    ASSUME RefInv, NEW t \in Thread, NEW d \in Service, NEW tok \in Refs(d),
           deleting[t] = None, skynet_context_release(t, d),
           Refs(d)' = Refs(d) \ {tok},
           \A s \in Service \ {d} : Refs(s)' = Refs(s),
           ctx' = ctx
    PROVE  /\ RefCount'
           /\ ref' \in [Service -> Nat]
           /\ deleting' \in [Thread -> Service \cup {None}]
<1>1. ctx[d] = "live"
  BY DEF RefInv, RefCount
<1>2. ref[d] = Cardinality(Refs(d)) /\ ref[d] \in Nat /\ ref'[d] = ref[d] - 1
  BY <1>1 DEF RefInv, RefCount, TypeOK, skynet_context_release
<1>3. Cardinality(Refs(d) \ {tok}) = Cardinality(Refs(d)) - 1
  BY RefsFinite, FS_RemoveElement
<1>4. IsFiniteSet(Refs(d) \ {tok}) /\ Cardinality(Refs(d) \ {tok}) \in Nat
  BY RefsFinite, FS_RemoveElement, FS_CardinalityType
<1>5. ref' \in [Service -> Nat]
  BY <1>2, <1>3, <1>4 DEF RefInv, TypeOK, skynet_context_release
<1>6. \A s \in Service : /\ ctx'[s] = "live" => ref'[s] = Cardinality(Refs(s)')
                         /\ Refs(s)' # {} => ctx'[s] = "live"
  <2> SUFFICES ASSUME NEW s \in Service
               PROVE  /\ ctx'[s] = "live" => ref'[s] = Cardinality(Refs(s)')
                      /\ Refs(s)' # {} => ctx'[s] = "live"
    OBVIOUS
  <2>1. CASE s = d
    BY <2>1, <1>1, <1>2, <1>3
  <2>2. CASE s # d
    <3>1. ref'[s] = ref[s]
      BY <2>2 DEF skynet_context_release, RefInv, TypeOK
    <3> QED BY <2>2, <3>1 DEF RefInv, RefCount
  <2> QED BY <2>1, <2>2
<1>7. \A u \in Thread : deleting[u] # d
  BY ConstantAssumption DEF RefInv, RefCount
<1>8. \A u \in Thread, s \in Service : deleting'[u] = s =>
          /\ ctx'[s] = "live"
          /\ Refs(s)' = {}
          /\ \A v \in Thread : deleting'[v] = s => v = u
  <2>1. CASE ref[d] = 1
    <3>1. Refs(d)' = {}
      BY <2>1, <1>2, <1>3, <1>4, FS_EmptySet
    <3>2. deleting' = [deleting EXCEPT ![t] = d]
      BY <2>1 DEF skynet_context_release
    <3>3. \A u \in Thread : deleting'[u] = IF u = t THEN d ELSE deleting[u]
      BY <3>2 DEF RefInv, TypeOK
    <3> QED BY <3>1, <3>3, <1>1, <1>7 DEF RefInv, RefCount
  <2>2. CASE ref[d] # 1
    <3>1. deleting' = deleting
      BY <2>2 DEF skynet_context_release, RefInv, TypeOK
    <3> QED BY <3>1, <1>7 DEF RefInv, RefCount
  <2> QED BY <2>1, <2>2
<1>9. deleting' \in [Thread -> Service \cup {None}]
  BY DEF skynet_context_release, RefInv, TypeOK
<1>10. RefCount'
  BY <1>6, <1>8 DEF RefCount
<1> QED BY <1>5, <1>9, <1>10

(* Retiring a handle moves the slot's reference to the thread.             *)
LEMMA RetireCounts ==
    ASSUME RefInv, NEW t \in Thread, NEW d \in Service,
           Retire(t, d), opc[t] = "none", UNCHANGED <<cur, lsvc>>,
           \A u \in Thread : lpc'[u] = "init" <=> lpc[u] = "init"
    PROVE  RefCount'
<1>1. /\ Refs(d)' = (Refs(d) \ {<<None, "slot">>}) \cup {<<t, "op">>}
      /\ <<None, "slot">> \in Refs(d)
      /\ <<t, "op">> \notin Refs(d)
  BY ConstantAssumption DEF Refs, RefToken, Retire, RefInv, TypeOK, Thread
<1>2. \A s \in Service \ {d} : Refs(s)' = Refs(s)
  BY DEF Refs, Retire, RefInv, TypeOK, Thread
<1>3. Cardinality(Refs(d)') = Cardinality(Refs(d))
  <2>1. Cardinality(Refs(d) \ {<<None, "slot">>}) = Cardinality(Refs(d)) - 1
    BY <1>1, RefsFinite, FS_RemoveElement
  <2>2. IsFiniteSet(Refs(d) \ {<<None, "slot">>})
    BY RefsFinite, FS_RemoveElement
  <2>3. Cardinality(Refs(d)') = Cardinality(Refs(d) \ {<<None, "slot">>}) + 1
    BY <1>1, <2>2, FS_AddElement
  <2>4. Cardinality(Refs(d)) \in Nat
    BY RefsFinite, FS_CardinalityType
  <2> QED BY <2>1, <2>3, <2>4
<1>4. ctx[d] = "live" /\ \A u \in Thread : deleting[u] # d
  BY <1>1, ConstantAssumption DEF RefInv, RefCount
<1>5. UNCHANGED <<ref, ctx, deleting>>
  BY DEF Retire
<1>6. \A s \in Service : /\ ctx'[s] = "live" => ref'[s] = Cardinality(Refs(s)')
                         /\ Refs(s)' # {} => ctx'[s] = "live"
  BY <1>2, <1>3, <1>4, <1>5 DEF RefInv, RefCount
<1>7. \A u \in Thread, s \in Service : deleting'[u] = s =>
          /\ ctx'[s] = "live"
          /\ Refs(s)' = {}
          /\ \A v \in Thread : deleting'[v] = s => v = u
  BY <1>2, <1>4, <1>5 DEF RefInv, RefCount
<1> QED BY <1>6, <1>7 DEF RefCount

(* Steps that leave every reference and count alone.                       *)
LEMMA SameCounts ==
    ASSUME RefInv, UNCHANGED <<ref, ctx, deleting>>,
           \A s \in Service : Refs(s)' = Refs(s)
    PROVE  RefCount'
BY DEF RefInv, RefCount

-----------------------------------------------------------------------------
(* Types of the data structures.                                           *)

(* Pushing a queue to the global queue.                                    *)
LEMMA PushTyped ==
    ASSUME TypeOK, NEW s \in Service, skynet_globalmq_push(s)
    PROVE  Q' \in Seq(Service)
BY DEF TypeOK, skynet_globalmq_push

(* Taking one from it.                                                     *)
LEMMA PopTyped ==
    ASSUME TypeOK, Q # << >>
    PROVE  Head(Q) \in Service /\ Tail(Q) \in Seq(Service)
BY DEF TypeOK

(* Taking a message from a service's queue.                                *)
LEMMA MessageTyped ==
    ASSUME TypeOK, NEW s \in Service, queue[s] # << >>
    PROVE  Head(queue[s]) \in Message /\ Tail(queue[s]) \in Seq(Message)
<1>1. queue[s] \in Seq(Message)
  BY DEF TypeOK
<1> QED BY <1>1

(* The notice sent for a dropped message.                                  *)
LEMMA NoticeTyped ==
    ASSUME NEW msg \in Message, NEW c \in Service
    PROVE  /\ msg.src \in Service \cup {None}
           /\ [m |-> msg.m, src |-> c, err |-> TRUE] \in Message
BY DEF Message

(* The history of a message.                                               *)
LEMMA BecomesTyped ==
    ASSUME TypeOK, NEW msg \in Message, NEW r \in Outcomes, NEW e \in Outcomes,
           Becomes(msg, r, e)
    PROVE  outcome' \in [Msg -> Outcomes]
BY DEF TypeOK, Becomes

-----------------------------------------------------------------------------
(* Each step of a thread keeps the invariant.                              *)

(* delete_context                                                          *)
LEMMA DeleteContextKeeps ==
    ASSUME RefInv, NEW t \in Thread, DeleteContext(t)
    PROVE  RefInv'
<1>1. \A s \in Service : Refs(s)' = Refs(s)
  BY RefsUnchanged DEF DeleteContext
<1>2. RefCount'
  <2>1. deleting[t] \in Service /\ Refs(deleting[t]) = {}
    BY DEF DeleteContext, RefInv, RefCount, TypeOK
  <2>2. \A s \in Service : ctx'[s] = IF s = deleting[t] THEN "freed" ELSE ctx[s]
    BY DEF DeleteContext, RefInv, TypeOK
  <2>3. \A u \in Thread : deleting'[u] = IF u = t THEN None ELSE deleting[u]
    BY DEF DeleteContext, RefInv, TypeOK
  <2>4. ref' = ref
    BY DEF DeleteContext
  <2> QED BY <2>1, <2>2, <2>3, <2>4, <1>1, ConstantAssumption DEF RefInv, RefCount
<1>4. deleting[t] \in Service
  BY ConstantAssumption DEF RefInv, TypeOK, LocalOK, CtxPc, Thread,
     DeleteContext, skynet_mq_mark_release
<1>5. Q' \in Seq(Service)
  BY <1>4, PushTyped DEF RefInv, TypeOK, DeleteContext,
     skynet_mq_mark_release
<1>8. TypeOK'
  BY <1>5, ConstantAssumption DEF RefInv, TypeOK, LocalOK, Thread,
     DeleteContext, skynet_mq_mark_release
<1>9. LocalOK'
  BY ConstantAssumption DEF RefInv, TypeOK, LocalOK, CtxPc, Thread,
     DeleteContext, skynet_mq_mark_release
<1> QED BY <1>2, <1>8, <1>9 DEF RefInv

(* skynet_send                                                             *)
LEMMA SendGrabKeeps ==
    ASSUME RefInv, NEW t \in Thread, SendGrab(t)
    PROVE  RefInv'
<1>0. \A r \in {"queued", "rejected", "dispatched", "discarded", "dropped", "reported", "unreportable"} : r \in Outcomes
  BY DEF Outcomes
<1>4. outcome' \in [Msg -> Outcomes]
  BY <1>0, BecomesTyped, ConstantAssumption DEF RefInv, TypeOK, LocalOK,
     SendGrab
<1>1. PICK d \in Service : d = osvc[t]
  BY ConstantAssumption DEF RefInv, TypeOK, LocalOK, CtxPc, Thread,
     SendGrab, EndOp
<1>2. RefCount' /\ ref' \in [Service -> Nat]
  <2>1. CASE reg[d]
    <3>1. skynet_context_grab(d) /\ UNCHANGED <<ctx, deleting>>
      BY <2>1, <1>1 DEF SendGrab, EndOp
    <3>4. opc[t] \notin {"push", "unref"}
      BY DEF SendGrab, EndOp
    <3>2. <<t, "op">> \notin Refs(d)
      BY <3>4, RefsMember, ConstantAssumption DEF Thread
    <3>3. /\ Refs(d)' = Refs(d) \cup {<<t, "op">>}
          /\ \A s \in Service \ {d} : Refs(s)' = Refs(s)
      BY <2>1, <1>1, <3>4, ConstantAssumption DEF Refs, RefToken, RefInv,
         TypeOK, LocalOK, CtxPc, Thread, SendGrab, EndOp
    <3> QED BY <2>1, <3>1, <3>2, <3>3, GrabCounts
  <2>2. CASE ~reg[d]
    <3>1. \A s \in Service : Refs(s)' = Refs(s)
      BY <2>2, <1>1, ConstantAssumption DEF Refs, RefInv, TypeOK, LocalOK,
         CtxPc, Thread, SendGrab, EndOp
    <3>2. UNCHANGED <<ref, ctx, deleting>>
      BY <2>2, <1>1 DEF SendGrab, EndOp
    <3> QED BY <3>1, <3>2, SameCounts DEF RefInv, TypeOK
  <2> QED BY <2>1, <2>2
<1>8. TypeOK'
  <2>1. CASE reg[d]
    BY <2>1, <1>2, <1>1, <1>4, ConstantAssumption DEF RefInv, TypeOK,
       LocalOK, Thread, SendGrab, EndOp
  <2>2. CASE ~reg[d]
    BY <2>2, <1>2, <1>1, <1>4, ConstantAssumption DEF RefInv, TypeOK,
       LocalOK, Thread, SendGrab, EndOp
  <2> QED BY <2>1, <2>2 DEF SendGrab, EndOp
<1>9. LocalOK'
  <2>1. CASE reg[d]
    BY <2>1, <1>1, ConstantAssumption DEF RefInv, TypeOK, LocalOK, CtxPc,
       Thread, SendGrab, EndOp
  <2>2. CASE ~reg[d]
    BY <2>2, <1>1, ConstantAssumption DEF RefInv, TypeOK, LocalOK, CtxPc,
       Thread, SendGrab, EndOp
  <2> QED BY <2>1, <2>2 DEF SendGrab, EndOp
<1> QED BY <1>2, <1>8, <1>9 DEF RefInv

LEMMA MqPushKeeps ==
    ASSUME RefInv, NEW t \in Thread, MqPush(t)
    PROVE  RefInv'
<1>1. \A s \in Service : Refs(s)' = Refs(s)
  BY ConstantAssumption DEF Refs, RefInv, TypeOK, LocalOK, CtxPc, Thread,
     MqPush, skynet_mq_push
<1>2. RefCount'
  BY <1>1, SameCounts DEF MqPush, skynet_mq_push
<1>0. \A r \in {"queued", "rejected", "dispatched", "discarded", "dropped", "reported", "unreportable"} : r \in Outcomes
  BY DEF Outcomes
<1>3. osvc[t] \in Service /\ omsg[t] \in Message
  BY ConstantAssumption DEF RefInv, TypeOK, LocalOK, MqPush
<1>4. outcome' \in [Msg -> Outcomes]
  BY <1>0, <1>3, BecomesTyped DEF RefInv, MqPush
<1>5. Q' \in Seq(Service)
  BY <1>3, PushTyped DEF RefInv, TypeOK, MqPush, skynet_mq_push
<1>6. queue' \in [Service -> Seq(Message)]
  BY <1>3 DEF RefInv, TypeOK, MqPush, skynet_mq_push
<1>8. TypeOK'
  BY <1>3, <1>4, <1>5, <1>6, ConstantAssumption DEF RefInv, TypeOK, LocalOK,
     Thread, MqPush, skynet_mq_push
<1>9. LocalOK'
  BY ConstantAssumption DEF RefInv, TypeOK, LocalOK, CtxPc, Thread, MqPush,
     skynet_mq_push
<1> QED BY <1>2, <1>8, <1>9 DEF RefInv

LEMMA OpUnrefKeeps ==
    ASSUME RefInv, NEW t \in Thread, OpUnref(t)
    PROVE  RefInv'
<1>1. PICK d \in Service : d = osvc[t]
  BY ConstantAssumption DEF RefInv, TypeOK, LocalOK, CtxPc, Thread, OpUnref,
     EndOp
<1>3. deleting[t] = None /\ t \in Thread /\ skynet_context_release(t, d) /\ ctx' = ctx
  BY <1>1, ConstantAssumption DEF RefInv, TypeOK, LocalOK, CtxPc, Thread,
     OpUnref, EndOp
<1>4. <<t, "op">> \in Refs(d)
  BY <1>1, <1>3, RefsMember DEF RefInv, TypeOK, LocalOK, CtxPc, Thread,
     OpUnref, EndOp
<1>5. /\ Refs(d)' = Refs(d) \ {<<t, "op">>}
      /\ \A s \in Service \ {d} : Refs(s)' = Refs(s)
  BY <1>1, <1>3, <1>4, ConstantAssumption DEF Refs, RefToken, RefInv,
     TypeOK, LocalOK, CtxPc, Thread, OpUnref, EndOp
<1>2. /\ RefCount'
      /\ ref' \in [Service -> Nat]
      /\ deleting' \in [Thread -> Service \cup {None}]
  BY <1>3, <1>4, <1>5, ReleaseCounts
<1>8. TypeOK'
  BY <1>2, ConstantAssumption DEF RefInv, TypeOK, LocalOK, Thread, OpUnref,
     EndOp
<1>9. LocalOK'
  BY ConstantAssumption DEF RefInv, TypeOK, LocalOK, CtxPc, Thread, OpUnref,
     EndOp, skynet_context_release
<1> QED BY <1>2, <1>8, <1>9 DEF RefInv

LEMMA SendKeeps ==
    ASSUME RefInv, NEW t \in Thread, NEW m \in Msg, NEW d \in Service, Send(t, m, d)
    PROVE  RefInv'
<1>1. \A s \in Service : Refs(s)' = Refs(s)
  BY ConstantAssumption DEF Refs, RefInv, TypeOK, LocalOK, CtxPc, Thread,
     Send, MaySend, InCallback, At, Free, BeginSend
<1>2. RefCount'
  BY <1>1, SameCounts DEF Send, MaySend, InCallback, At, Free, BeginSend
<1>3. Source(t) \in Service \cup {None}
  <2>1. t \in Extern \/ t \in Worker
    BY DEF Send, MaySend
  <2> QED BY <2>1 DEF Source, RefInv, TypeOK, Thread
<1>4. [m |-> m, src |-> Source(t), err |-> FALSE] \in Message
  BY <1>3 DEF Message
<1>5. [m |-> m, src |-> Source(t), err |-> FALSE] # None
  BY <1>4, NoneAssumption
<1>8. TypeOK'
  BY <1>4, ConstantAssumption DEF RefInv, TypeOK, LocalOK, Thread, Send,
     MaySend, InCallback, At, Free, BeginSend, Outcomes
<1>9. LocalOK'
  BY <1>5, ConstantAssumption DEF RefInv, TypeOK, LocalOK, CtxPc, Thread,
     Send, MaySend, InCallback, At, Free, BeginSend
<1> QED BY <1>2, <1>8, <1>9 DEF RefInv

(* skynet_context_endless                                                  *)
LEMMA ContextEndlessKeeps ==
    ASSUME RefInv, NEW t \in Monitor, NEW c \in Service, ContextEndless(t, c)
    PROVE  RefInv'
<1>1. PICK d \in Service : d = c
  BY ConstantAssumption DEF RefInv, TypeOK, LocalOK, CtxPc, Thread,
     ContextEndless, Free
<1>2. RefCount' /\ ref' \in [Service -> Nat]
  <2>1. CASE reg[d]
    <3>1. skynet_context_grab(d) /\ UNCHANGED <<ctx, deleting>>
      BY <2>1, <1>1 DEF ContextEndless, Free
    <3>4. opc[t] \notin {"push", "unref"}
      BY DEF ContextEndless, Free
    <3>2. <<t, "op">> \notin Refs(d)
      BY <3>4, RefsMember, ConstantAssumption DEF Thread
    <3>3. /\ Refs(d)' = Refs(d) \cup {<<t, "op">>}
          /\ \A s \in Service \ {d} : Refs(s)' = Refs(s)
      BY <2>1, <1>1, <3>4, ConstantAssumption DEF Refs, RefToken, RefInv,
         TypeOK, LocalOK, CtxPc, Thread, ContextEndless, Free
    <3> QED BY <2>1, <3>1, <3>2, <3>3, GrabCounts
  <2> QED BY <2>1, <1>1 DEF ContextEndless, Free
<1>8. TypeOK'
  BY <1>2, <1>1, ConstantAssumption DEF RefInv, TypeOK, LocalOK, Thread,
     ContextEndless, Free
<1>9. LocalOK'
  BY <1>1, ConstantAssumption DEF RefInv, TypeOK, LocalOK, CtxPc, Thread,
     ContextEndless, Free
<1> QED BY <1>2, <1>8, <1>9 DEF RefInv

(* skynet_handle_retire                                                    *)
LEMMA KillKeeps ==
    ASSUME RefInv, NEW w \in Worker, NEW d \in Service, Kill(w, d)
    PROVE  RefInv'
<1>1. opc[w] = "none" /\ w \in Thread
  BY DEF Kill, InCallback, At, Free, Thread
<1>2. RefCount'
  BY <1>1, RetireCounts DEF Kill, Retire
<1>8. TypeOK'
  BY ConstantAssumption DEF RefInv, TypeOK, LocalOK, Thread, Kill, Retire,
     InCallback, At, Free
<1>9. LocalOK'
  BY ConstantAssumption DEF RefInv, TypeOK, LocalOK, CtxPc, Thread, Kill,
     Retire, InCallback, At, Free
<1> QED BY <1>2, <1>8, <1>9 DEF RefInv

(* skynet_context_new                                                      *)
LEMMA LaunchKeeps ==
    ASSUME RefInv, NEW w \in Worker, NEW d \in Service, Launch(w, d)
    PROVE  RefInv'
<1>1. Refs(d) = {} /\ ctx[d] = "none" /\ w \in Thread
  BY DEF Launch, RefInv, RefCount, Thread
<1>2. RefCount'
  <2>1. \A s \in Service \ {d} : Refs(s)' = Refs(s)
    BY DEF Refs, RefInv, TypeOK, LocalOK, Thread, Launch, InCallback, At, Free
  <2>2. Refs(d)' = {<<None, "slot">>, <<w, "new">>}
    <3>1. reg'[d] /\ lsvc'[w] = d /\ lpc'[w] = "init"
      BY <1>1 DEF RefInv, TypeOK, Launch
    <3>2. UNCHANGED <<opc, osvc, cur>>
      BY DEF Launch
    <3>3. \A u \in Thread : u # w => lpc'[u] = lpc[u] /\ lsvc'[u] = lsvc[u]
      BY DEF Launch, RefInv, TypeOK
    <3>4. /\ \A u \in Thread : ~(opc[u] \in {"push", "unref"} /\ osvc[u] = d)
          /\ \A u \in Thread : ~(lpc[u] = "init" /\ lsvc[u] = d)
          /\ \A u \in Worker : cur[u] # d
      BY <1>1, RefsMember
    <3>5. Refs(d)' \subseteq {<<None, "slot">>, <<w, "new">>}
      <4> SUFFICES ASSUME NEW r \in Refs(d)'
                   PROVE  r \in {<<None, "slot">>, <<w, "new">>}
        OBVIOUS
      <4>1. PICK a \in Thread \cup {None}, b \in {"slot", "op", "ctx", "new"} :
                r = <<a, b>>
        BY DEF Refs, RefToken
      <4>2. r # <<None, "slot">> => b = "new" /\ a = w
        BY <3>2, <3>3, <3>4, <4>1 DEF Refs, Thread
      <4> QED BY <4>1, <4>2
    <3>6. <<None, "slot">> \in Refs(d)' /\ <<w, "new">> \in Refs(d)'
      BY <1>1, <3>1 DEF Refs, RefToken
    <3> QED BY <3>5, <3>6
  <2>3. Cardinality(Refs(d)') = 2
    <3>1. IsFiniteSet({<<None, "slot">>}) /\ Cardinality({<<None, "slot">>}) = 1
      BY FS_Singleton
    <3>2. {<<None, "slot">>, <<w, "new">>} = {<<None, "slot">>} \cup {<<w, "new">>}
      OBVIOUS
    <3>3. <<w, "new">> \notin {<<None, "slot">>}
      OBVIOUS
    <3>4. Cardinality({<<None, "slot">>} \cup {<<w, "new">>}) = 1 + 1
      BY <3>1, <3>3, FS_AddElement
    <3> QED BY <2>2, <3>2, <3>4
  <2>4. /\ \A s \in Service : ref'[s] = IF s = d THEN 2 ELSE ref[s]
        /\ \A s \in Service : ctx'[s] = IF s = d THEN "live" ELSE ctx[s]
        /\ deleting' = deleting
    BY DEF RefInv, TypeOK, Launch
  <2>5. \A u \in Thread : deleting[u] # d
    BY <1>1 DEF RefInv, RefCount
  <2>6. \A s \in Service : /\ ctx'[s] = "live" => ref'[s] = Cardinality(Refs(s)')
                           /\ Refs(s)' # {} => ctx'[s] = "live"
    BY <2>1, <2>3, <2>4 DEF RefInv, RefCount
  <2>7. \A u \in Thread, s \in Service : deleting'[u] = s =>
            /\ ctx'[s] = "live"
            /\ Refs(s)' = {}
            /\ \A v \in Thread : deleting'[v] = s => v = u
    BY <2>1, <2>4, <2>5 DEF RefInv, RefCount
  <2> QED BY <2>6, <2>7 DEF RefCount
<1>8. TypeOK'
  BY ConstantAssumption DEF RefInv, TypeOK, LocalOK, Thread, Launch,
     InCallback, At, Free, skynet_mq_create
<1>9. LocalOK'
  BY ConstantAssumption DEF RefInv, TypeOK, LocalOK, CtxPc, Thread, Launch,
     InCallback, At, Free, skynet_mq_create
<1> QED BY <1>2, <1>8, <1>9 DEF RefInv

LEMMA LaunchInitKeeps ==
    ASSUME RefInv, NEW w \in Worker, NEW ok \in BOOLEAN, LaunchInit(w, ok)
    PROVE  RefInv'
<1>1. PICK d \in Service : d = lsvc[w]
  BY ConstantAssumption DEF RefInv, TypeOK, LocalOK, CtxPc, Thread,
     LaunchInit, Free
<1>3. deleting[w] = None /\ w \in Thread /\ skynet_context_release(w, d) /\ ctx' = ctx
  BY <1>1, ConstantAssumption DEF RefInv, TypeOK, LocalOK, CtxPc, Thread,
     LaunchInit, Free
<1>4. <<w, "new">> \in Refs(d)
  BY <1>1, <1>3, RefsMember DEF RefInv, TypeOK, LocalOK, CtxPc, Thread,
     LaunchInit, Free
<1>5. /\ Refs(d)' = Refs(d) \ {<<w, "new">>}
      /\ \A s \in Service \ {d} : Refs(s)' = Refs(s)
  BY <1>1, <1>3, <1>4, ConstantAssumption DEF Refs, RefToken, RefInv,
     TypeOK, LocalOK, CtxPc, Thread, LaunchInit, Free
<1>2. /\ RefCount'
      /\ ref' \in [Service -> Nat]
      /\ deleting' \in [Thread -> Service \cup {None}]
  BY <1>3, <1>4, <1>5, ReleaseCounts
<1>8. TypeOK'
  BY <1>2, ConstantAssumption DEF RefInv, TypeOK, LocalOK, Thread,
     LaunchInit, Free
<1>9. LocalOK'
  BY ConstantAssumption DEF RefInv, TypeOK, LocalOK, CtxPc, Thread,
     LaunchInit, Free, skynet_context_release
<1> QED BY <1>2, <1>8, <1>9 DEF RefInv

LEMMA LaunchSetInitKeeps ==
    ASSUME RefInv, NEW w \in Worker, LaunchSetInit(w)
    PROVE  RefInv'
<1>1. \A s \in Service : Refs(s)' = Refs(s)
  BY ConstantAssumption DEF Refs, RefInv, TypeOK, LocalOK, CtxPc, Thread,
     LaunchSetInit
<1>2. RefCount'
  BY <1>1, SameCounts DEF LaunchSetInit
<1>8. TypeOK'
  BY ConstantAssumption DEF RefInv, TypeOK, LocalOK, Thread, LaunchSetInit
<1>9. LocalOK'
  BY ConstantAssumption DEF RefInv, TypeOK, LocalOK, CtxPc, Thread,
     LaunchSetInit
<1> QED BY <1>2, <1>8, <1>9 DEF RefInv

LEMMA LaunchPublishKeeps ==
    ASSUME RefInv, NEW w \in Worker, LaunchPublish(w)
    PROVE  RefInv'
<1>1. \A s \in Service : Refs(s)' = Refs(s)
  BY ConstantAssumption DEF Refs, RefInv, TypeOK, LocalOK, CtxPc, Thread,
     LaunchPublish, EndLaunch, Free
<1>2. RefCount'
  BY <1>1, SameCounts DEF LaunchPublish, EndLaunch, Free
<1>4. lsvc[w] \in Service
  BY ConstantAssumption DEF RefInv, TypeOK, LocalOK, CtxPc, Thread,
     LaunchPublish
<1>5. Q' \in Seq(Service)
  BY <1>4, PushTyped DEF RefInv, TypeOK, LaunchPublish
<1>8. TypeOK'
  <2>1. CASE lpc[w] = "publish"
    BY <2>1, <1>5, ConstantAssumption DEF RefInv, TypeOK, LocalOK, Thread,
       LaunchPublish, EndLaunch, Free
  <2>2. CASE lpc[w] = "pushnull"
    <3>1. /\ EndLaunch(w)
          /\ UNCHANGED <<ctxVars, mqVars, workerVars, opVars, deleting, outcome>>
      BY <2>2 DEF LaunchPublish
    <3> QED BY <3>1, <1>5 DEF RefInv, TypeOK, EndLaunch
  <2> QED BY <2>1, <2>2 DEF LaunchPublish, EndLaunch, Free
<1>9. LocalOK'
  <2>1. CASE lpc[w] = "publish"
    BY <2>1, ConstantAssumption DEF RefInv, TypeOK, LocalOK, CtxPc, Thread,
       LaunchPublish, EndLaunch, Free
  <2>2. CASE lpc[w] = "pushnull"
    BY <2>2, ConstantAssumption DEF RefInv, TypeOK, LocalOK, CtxPc, Thread,
       LaunchPublish, EndLaunch, Free
  <2> QED BY <2>1, <2>2 DEF LaunchPublish, EndLaunch, Free
<1> QED BY <1>2, <1>8, <1>9 DEF RefInv

LEMMA LaunchResultKeeps ==
    ASSUME RefInv, NEW w \in Worker, LaunchResult(w)
    PROVE  RefInv'
<1>1. \A s \in Service : Refs(s)' = Refs(s)
  BY ConstantAssumption DEF Refs, RefInv, TypeOK, LocalOK, CtxPc, Thread,
     LaunchResult, EndLaunch
<1>2. RefCount'
  BY <1>1, SameCounts DEF LaunchResult, EndLaunch
<1>8. TypeOK'
  BY ConstantAssumption DEF RefInv, TypeOK, LocalOK, Thread, LaunchResult,
     EndLaunch
<1>9. LocalOK'
  BY ConstantAssumption DEF RefInv, TypeOK, LocalOK, CtxPc, Thread,
     LaunchResult, EndLaunch
<1> QED BY <1>2, <1>8, <1>9 DEF RefInv

LEMMA LaunchRetireKeeps ==
    ASSUME RefInv, NEW w \in Worker, LaunchRetire(w)
    PROVE  RefInv'
<1>1. opc[w] = "none" /\ w \in Thread /\ lsvc[w] \in Service
  BY DEF LaunchRetire, Free, Thread, RefInv, TypeOK, LocalOK
<1>2. RefCount'
  <2>1. CASE Retire(w, lsvc[w])
    <3>1. \A u \in Thread : lpc'[u] = "init" <=> lpc[u] = "init"
      BY DEF LaunchRetire, RefInv, TypeOK
    <3> QED BY <1>1, <2>1, <3>1, RetireCounts DEF LaunchRetire, Retire
  <2>2. CASE ~reg[lsvc[w]]
    <3>1. \A s \in Service : Refs(s)' = Refs(s)
      BY <2>2 DEF Refs, RefInv, TypeOK, Thread, LaunchRetire, Retire
    <3> QED BY <2>2, <3>1, SameCounts DEF LaunchRetire, Retire
  <2> QED BY <2>1, <2>2 DEF LaunchRetire
<1>8. TypeOK'
  <2>1. CASE reg[lsvc[w]]
    <3>1. /\ Retire(w, lsvc[w])
          /\ lpc' = [lpc EXCEPT ![w] = "mqrelease"]
          /\ lsvc' = lsvc
      BY <2>1 DEF LaunchRetire
    <3> QED BY <1>1, <3>1 DEF RefInv, TypeOK, Retire
  <2>2. CASE ~reg[lsvc[w]]
    BY <2>2, <1>1, ConstantAssumption DEF RefInv, TypeOK, LocalOK, Thread,
       LaunchRetire, Retire, Free
  <2> QED BY <2>1, <2>2 DEF LaunchRetire, Retire, Free
<1>9. LocalOK'
  <2>1. CASE reg[lsvc[w]]
    BY <2>1, ConstantAssumption DEF RefInv, TypeOK, LocalOK, CtxPc, Thread,
       LaunchRetire, Retire, Free
  <2>2. CASE ~reg[lsvc[w]]
    BY <2>2, ConstantAssumption DEF RefInv, TypeOK, LocalOK, CtxPc, Thread,
       LaunchRetire, Retire, Free
  <2> QED BY <2>1, <2>2 DEF LaunchRetire, Retire, Free
<1> QED BY <1>2, <1>8, <1>9 DEF RefInv

LEMMA LaunchMqReleaseKeeps ==
    ASSUME RefInv, NEW w \in Worker, LaunchMqRelease(w)
    PROVE  RefInv'
<1>1. \A s \in Service : Refs(s)' = Refs(s)
  BY ConstantAssumption DEF Refs, RefInv, TypeOK, LocalOK, CtxPc, Thread,
     LaunchMqRelease, EndLaunch, Free
<1>2. RefCount'
  BY <1>1, SameCounts DEF LaunchMqRelease, EndLaunch, Free
<1>4. lsvc[w] \in Service
  BY ConstantAssumption DEF RefInv, TypeOK, LocalOK, CtxPc, Thread,
     LaunchMqRelease
<1>5. Q' \in Seq(Service)
  BY <1>4, PushTyped DEF RefInv, TypeOK, LaunchMqRelease
<1>8. TypeOK'
  <2>1. CASE release[lsvc[w]]
    <3>1. /\ lpc' = [lpc EXCEPT ![w] = "drop"]
          /\ lsvc' = lsvc
          /\ UNCHANGED <<ctxVars, mqVars, workerVars, opVars, deleting, outcome>>
      BY <2>1 DEF LaunchMqRelease
    <3> QED BY <3>1, <1>5 DEF RefInv, TypeOK
  <2>2. CASE ~release[lsvc[w]]
    BY <2>2, <1>5, ConstantAssumption DEF RefInv, TypeOK, LocalOK, Thread,
       LaunchMqRelease, EndLaunch, Free
  <2> QED BY <2>1, <2>2 DEF LaunchMqRelease, EndLaunch, Free
<1>9. LocalOK'
  <2>1. CASE release[lsvc[w]]
    BY <2>1, ConstantAssumption DEF RefInv, TypeOK, LocalOK, CtxPc, Thread,
       LaunchMqRelease, EndLaunch, Free
  <2>2. CASE ~release[lsvc[w]]
    BY <2>2, ConstantAssumption DEF RefInv, TypeOK, LocalOK, CtxPc, Thread,
       LaunchMqRelease, EndLaunch, Free
  <2> QED BY <2>1, <2>2 DEF LaunchMqRelease, EndLaunch, Free
<1> QED BY <1>2, <1>8, <1>9 DEF RefInv

(* drop_message, called by a thread with no send of its own pending.       *)
LEMMA DropMessageKeeps ==
    ASSUME RefInv, NEW t \in Thread, NEW c \in Service, DropMessage(t, c), Free(t)
    PROVE  RefInv'
<1> DEFINE msg == Head(queue[c])
           notice == [m |-> msg.m, src |-> c, err |-> TRUE]
<1>1. \A s \in Service : Refs(s)' = Refs(s)
  BY ConstantAssumption DEF Refs, RefInv, TypeOK, LocalOK, CtxPc, Thread,
     DropMessage, BeginSend, Free
<1>2. RefCount'
  BY <1>1, SameCounts DEF DropMessage, BeginSend, Free
<1>0. \A r \in {"queued", "rejected", "dispatched", "discarded", "dropped", "reported", "unreportable"} : r \in Outcomes
  BY DEF Outcomes
<1>3. msg \in Message /\ Tail(queue[c]) \in Seq(Message)
  BY MessageTyped DEF RefInv, DropMessage
<1>4. notice \in Message /\ notice # None /\ msg.src \in Service \cup {None}
  BY <1>3, NoticeTyped, NoneAssumption
<1>5. outcome' \in [Msg -> Outcomes]
  BY <1>0, <1>3, BecomesTyped DEF RefInv, DropMessage
<1>6. queue' \in [Service -> Seq(Message)]
  BY <1>3 DEF RefInv, TypeOK, DropMessage
<1>7. \/ UNCHANGED opVars
      \/ msg.src # None /\ BeginSend(t, notice, msg.src)
  BY DEF DropMessage
<1> HIDE DEF msg, notice
<1>8. TypeOK'
  <2>1. UNCHANGED <<ctxVars, mq, inGlobal, release, Q, workerVars, launchVars, deleting>>
    BY DEF DropMessage
  <2>2. CASE UNCHANGED opVars
    BY <2>1, <2>2, <1>5, <1>6 DEF RefInv, TypeOK
  <2>3. CASE msg.src # None /\ BeginSend(t, notice, msg.src)
    BY <2>1, <2>3, <1>4, <1>5, <1>6 DEF RefInv, TypeOK, BeginSend
  <2> QED BY <1>7, <2>2, <2>3
<1>9. LocalOK'
  BY <1>4, <1>7 DEF RefInv, TypeOK, LocalOK, Free, BeginSend, DropMessage
<1> QED BY <1>2, <1>8, <1>9 DEF RefInv

LEMMA LaunchDropKeeps ==
    ASSUME RefInv, NEW w \in Worker, LaunchDrop(w)
    PROVE  RefInv'
<1>1. lsvc[w] \in Service /\ w \in Thread /\ Free(w)
  BY ConstantAssumption DEF RefInv, TypeOK, LocalOK, Thread, At, LaunchDrop,
     EndLaunch
<1>2. CASE DropMessage(w, lsvc[w])
  BY <1>1, <1>2, DropMessageKeeps
<1>3. CASE FreeQueue(lsvc[w]) /\ ~DropMessage(w, lsvc[w])
  <2>1. \A s \in Service : Refs(s)' = Refs(s)
    BY <1>3, ConstantAssumption DEF Refs, RefInv, TypeOK, LocalOK, CtxPc,
       Thread, LaunchDrop, EndLaunch, FreeQueue, Free
  <2>2. RefCount'
    BY <1>3, <2>1, SameCounts DEF LaunchDrop, EndLaunch, FreeQueue, Free
  <2>5. /\ FreeQueue(lsvc[w]) /\ EndLaunch(w)
        /\ UNCHANGED <<ctxVars, queue, release, Q, workerVars, opVars, deleting, outcome>>
    BY <1>3 DEF LaunchDrop
  <2>3. TypeOK'
    BY <2>5, <1>1, ConstantAssumption DEF RefInv, TypeOK, Thread, FreeQueue,
       EndLaunch
  <2>4. LocalOK'
    BY <2>5, <1>1, ConstantAssumption DEF RefInv, TypeOK, LocalOK, CtxPc,
       Thread, EndLaunch
  <2> QED BY <2>2, <2>3, <2>4 DEF RefInv
<1> QED BY <1>2, <1>3 DEF LaunchDrop

(* skynet_context_message_dispatch                                         *)
LEMMA GlobalMqPopKeeps ==
    ASSUME RefInv, NEW w \in Worker, GlobalMqPop(w)
    PROVE  RefInv'
<1>1. \A s \in Service : Refs(s)' = Refs(s)
  BY ConstantAssumption DEF Refs, RefInv, TypeOK, LocalOK, CtxPc, Thread,
     GlobalMqPop, At, Goto
<1>2. RefCount'
  BY <1>1, SameCounts DEF GlobalMqPop, At, Goto
<1>3. Head(Q) \in Service /\ Tail(Q) \in Seq(Service)
  BY PopTyped DEF RefInv, GlobalMqPop
<1>8. TypeOK'
  BY <1>3, ConstantAssumption DEF RefInv, TypeOK, LocalOK, Thread,
     GlobalMqPop, At, Goto
<1>9. LocalOK'
  BY <1>3, ConstantAssumption DEF RefInv, TypeOK, LocalOK, CtxPc, Thread,
     GlobalMqPop, At, Goto
<1> QED BY <1>2, <1>8, <1>9 DEF RefInv

LEMMA DispatchGrabKeeps ==
    ASSUME RefInv, NEW w \in Worker, DispatchGrab(w)
    PROVE  RefInv'
<1>1. PICK d \in Service : d = held[w]
  <2>1. pc[w] = "grab"
    BY DEF DispatchGrab, At
  <2> QED BY <2>1 DEF RefInv, TypeOK, LocalOK
<1>2. RefCount' /\ ref' \in [Service -> Nat]
  <2>1. CASE reg[d]
    <3>1. skynet_context_grab(d) /\ UNCHANGED <<ctx, deleting>>
      BY <2>1, <1>1 DEF DispatchGrab, At, Goto
    <3>4. cur[w] = None
      BY DEF RefInv, LocalOK, CtxPc, DispatchGrab, At
    <3>2. <<w, "ctx">> \notin Refs(d)
      BY <3>4, RefsMember, ConstantAssumption DEF Thread
    <3>3. /\ Refs(d)' = Refs(d) \cup {<<w, "ctx">>}
          /\ \A s \in Service \ {d} : Refs(s)' = Refs(s)
      BY <2>1, <1>1, <3>4, ConstantAssumption DEF Refs, RefToken, RefInv,
         TypeOK, LocalOK, CtxPc, Thread, DispatchGrab, At, Goto
    <3> QED BY <2>1, <3>1, <3>2, <3>3, GrabCounts
  <2>2. CASE ~reg[d]
    <3>1. \A s \in Service : Refs(s)' = Refs(s)
      BY <2>2, <1>1, ConstantAssumption DEF Refs, RefInv, TypeOK, LocalOK,
         CtxPc, Thread, DispatchGrab, At, Goto
    <3>2. UNCHANGED <<ref, ctx, deleting>>
      BY <2>2, <1>1 DEF DispatchGrab, At, Goto
    <3> QED BY <3>1, <3>2, SameCounts DEF RefInv, TypeOK
  <2> QED BY <2>1, <2>2
<1>8. TypeOK'
  <2>1. CASE reg[d]
    BY <2>1, <1>2, <1>1, ConstantAssumption DEF RefInv, TypeOK, LocalOK,
       Thread, DispatchGrab, At, Goto
  <2>2. CASE ~reg[d]
    BY <2>2, <1>2, <1>1, ConstantAssumption DEF RefInv, TypeOK, LocalOK,
       Thread, DispatchGrab, At, Goto
  <2> QED BY <2>1, <2>2 DEF DispatchGrab, At, Goto
<1>9. LocalOK'
  <2>1. CASE reg[d]
    BY <2>1, <1>1, ConstantAssumption DEF RefInv, TypeOK, LocalOK, CtxPc,
       Thread, DispatchGrab, At, Goto
  <2>2. CASE ~reg[d]
    BY <2>2, <1>1, ConstantAssumption DEF RefInv, TypeOK, LocalOK, CtxPc,
       Thread, DispatchGrab, At, Goto
  <2> QED BY <2>1, <2>2 DEF DispatchGrab, At, Goto
<1> QED BY <1>2, <1>8, <1>9 DEF RefInv

LEMMA MqReleaseKeeps ==
    ASSUME RefInv, NEW w \in Worker, MqRelease(w)
    PROVE  RefInv'
<1>1. \A s \in Service : Refs(s)' = Refs(s)
  BY ConstantAssumption DEF Refs, RefInv, TypeOK, LocalOK, CtxPc, Thread,
     MqRelease, At, Goto
<1>2. RefCount'
  BY <1>1, SameCounts DEF MqRelease, At, Goto
<1>4. held[w] \in Service
  BY ConstantAssumption DEF RefInv, TypeOK, LocalOK, CtxPc, Thread,
     MqRelease, At, Goto
<1>5. Q' \in Seq(Service)
  BY <1>4, PushTyped DEF RefInv, TypeOK, MqRelease, At, Goto
<1>8. TypeOK'
  <2>1. CASE release[held[w]]
    BY <2>1, <1>5, ConstantAssumption DEF RefInv, TypeOK, LocalOK, Thread,
       MqRelease, At, Goto
  <2>2. CASE ~release[held[w]]
    BY <2>2, <1>5, ConstantAssumption DEF RefInv, TypeOK, LocalOK, Thread,
       MqRelease, At, Goto
  <2> QED BY <2>1, <2>2 DEF MqRelease, At, Goto
<1>9. LocalOK'
  <2>1. CASE release[held[w]]
    BY <2>1, ConstantAssumption DEF RefInv, TypeOK, LocalOK, CtxPc, Thread,
       MqRelease, At, Goto
  <2>2. CASE ~release[held[w]]
    BY <2>2, ConstantAssumption DEF RefInv, TypeOK, LocalOK, CtxPc, Thread,
       MqRelease, At, Goto
  <2> QED BY <2>1, <2>2 DEF MqRelease, At, Goto
<1> QED BY <1>2, <1>8, <1>9 DEF RefInv

LEMMA MqDropKeeps ==
    ASSUME RefInv, NEW w \in Worker, MqDrop(w)
    PROVE  RefInv'
<1>1. held[w] \in Service /\ w \in Thread /\ Free(w)
  <2>1. pc[w] = "drop" /\ Free(w)
    BY DEF MqDrop, At
  <2> QED BY <2>1 DEF RefInv, TypeOK, LocalOK, Thread
<1>2. CASE DropMessage(w, held[w])
  BY <1>1, <1>2, DropMessageKeeps
<1>3. CASE FreeQueue(held[w]) /\ ~DropMessage(w, held[w])
  <2>1. \A s \in Service : Refs(s)' = Refs(s)
    BY <1>3, ConstantAssumption DEF Refs, RefInv, TypeOK, LocalOK, CtxPc,
       Thread, MqDrop, At, Goto, FreeQueue, Free
  <2>2. RefCount'
    BY <1>3, <2>1, SameCounts DEF MqDrop, At, Goto, FreeQueue, Free
  <2>5. /\ FreeQueue(held[w]) /\ Goto(w, "idle") /\ held' = [held EXCEPT ![w] = None]
        /\ UNCHANGED <<ctxVars, queue, release, Q, nq, cur, left, launchVars,
                       opVars, deleting, outcome>>
    BY <1>3 DEF MqDrop
  <2>3. TypeOK'
    BY <2>5, <1>1, ConstantAssumption DEF RefInv, TypeOK, Thread, FreeQueue,
       At, Goto
  <2>4. LocalOK'
    <3>1. cur[w] = None
      BY DEF RefInv, LocalOK, CtxPc, MqDrop, At
    <3>2. /\ \A v \in Worker : held'[v] = IF v = w THEN None ELSE held[v]
          /\ \A v \in Worker : pc'[v] = IF v = w THEN "idle" ELSE pc[v]
          /\ UNCHANGED <<cur, nq, lpc, lsvc, opc, osvc, omsg, deleting>>
      BY <2>5 DEF RefInv, TypeOK, Goto
    <3> QED BY <3>1, <3>2 DEF RefInv, LocalOK, CtxPc
  <2> QED BY <2>2, <2>3, <2>4 DEF RefInv
<1> QED BY <1>2, <1>3 DEF MqDrop

LEMMA MqPopKeeps ==
    ASSUME RefInv, NEW w \in Worker, MqPop(w)
    PROVE  RefInv'
<1>1. \A s \in Service : Refs(s)' = Refs(s)
  BY ConstantAssumption DEF Refs, RefInv, TypeOK, LocalOK, CtxPc, Thread,
     MqPop, At, Goto
<1>2. RefCount'
  BY <1>1, SameCounts DEF MqPop, At, Goto
<1>0. \A r \in {"queued", "rejected", "dispatched", "discarded", "dropped", "reported", "unreportable"} : r \in Outcomes
  BY DEF Outcomes
<1>7. pc[w] = "pop"
  BY DEF MqPop, At
<1>3. held[w] \in Service
  BY <1>7 DEF RefInv, TypeOK, LocalOK
<1>4. queue[held[w]] # << >> => Head(queue[held[w]]) \in Message /\ Tail(queue[held[w]]) \in Seq(Message)
  BY <1>3, MessageTyped DEF RefInv
<1>5. outcome' \in [Msg -> Outcomes]
  BY <1>0, <1>4, BecomesTyped DEF RefInv, TypeOK, MqPop
<1>6. queue' \in [Service -> Seq(Message)]
  <2>1. queue \in [Service -> Seq(Message)]
    BY DEF RefInv, TypeOK
  <2>2. UNCHANGED queue \/ (queue[held[w]] # << >> /\ queue' = [queue EXCEPT ![held[w]] = Tail(@)])
    BY DEF MqPop
  <2> QED BY <1>3, <1>4, <2>1, <2>2
<1>8. TypeOK'
  <2>1. CASE queue[held[w]] # << >>
    <3>1. /\ Goto(w, IF left[w] = 0 /\ Share[w] > 0 THEN "length" ELSE "call")
          /\ left' = [left EXCEPT ![w] = IF @ = 0 THEN 0 ELSE @ - 1]
          /\ UNCHANGED <<ctxVars, mq, inGlobal, release, Q, held, nq, cur,
                         launchVars, opVars, deleting>>
      BY <2>1 DEF MqPop
    <3>2. left' \in [Worker -> Nat]
      BY <3>1 DEF RefInv, TypeOK
    <3> QED BY <3>1, <3>2, <1>5, <1>6 DEF RefInv, TypeOK, Goto
  <2>2. CASE queue[held[w]] = << >>
    BY <2>2, <1>3, <1>5, <1>6, ConstantAssumption DEF RefInv, TypeOK,
       LocalOK, Thread, MqPop, At, Goto
  <2> QED BY <2>1, <2>2 DEF MqPop, At, Goto
<1>9. LocalOK'
  <2>1. CASE queue[held[w]] # << >>
    <3>1. /\ pc' = [pc EXCEPT ![w] = IF left[w] = 0 /\ Share[w] > 0
                                     THEN "length" ELSE "call"]
          /\ UNCHANGED <<held, nq, cur, lpc, lsvc, opc, osvc, omsg, deleting>>
      BY <2>1 DEF MqPop, Goto
    <3>2. cur[w] # None
      BY <1>7 DEF RefInv, LocalOK, CtxPc
    <3>3. \A v \in Worker : pc'[v] = IF v # w THEN pc[v]
                                    ELSE IF left[w] = 0 /\ Share[w] > 0
                                    THEN "length" ELSE "call"
      BY <3>1 DEF RefInv, TypeOK
    <3> QED BY <3>1, <3>2, <3>3, <1>3, ConstantAssumption DEF RefInv, LocalOK, CtxPc
  <2>2. CASE queue[held[w]] = << >>
    BY <2>2, ConstantAssumption DEF RefInv, TypeOK, LocalOK, CtxPc, Thread,
       MqPop, At, Goto
  <2> QED BY <2>1, <2>2 DEF MqPop, At, Goto
<1> QED BY <1>2, <1>8, <1>9 DEF RefInv

LEMMA MqLengthKeeps ==
    ASSUME RefInv, NEW w \in Worker, MqLength(w)
    PROVE  RefInv'
<1>1. \A s \in Service : Refs(s)' = Refs(s)
  BY ConstantAssumption DEF Refs, RefInv, TypeOK, LocalOK, CtxPc, Thread,
     MqLength, At, Goto
<1>2. RefCount'
  BY <1>1, SameCounts DEF MqLength, At, Goto
<1>3. held[w] \in Service /\ Share[w] \in Nat /\ Share[w] > 0
  BY ConstantAssumption DEF RefInv, TypeOK, LocalOK, CtxPc, MqLength, At,
     Goto
<1>4. Len(queue[held[w]]) \in Nat
  BY <1>3 DEF RefInv, TypeOK
<1>5. \A n, k \in Nat : k > 0 => n \div k \in Nat
  OBVIOUS
<1>7. Len(queue[held[w]]) \div Share[w] \in Nat
  BY <1>3, <1>4, <1>5
<1>6. left' \in [Worker -> Nat]
  BY <1>7 DEF RefInv, TypeOK, MqLength
<1>8. TypeOK'
  BY <1>6, ConstantAssumption DEF RefInv, TypeOK, LocalOK, Thread, MqLength,
     At, Goto
<1>9. LocalOK'
  BY ConstantAssumption DEF RefInv, TypeOK, LocalOK, CtxPc, Thread,
     MqLength, At, Goto
<1> QED BY <1>2, <1>8, <1>9 DEF RefInv

LEMMA CallReturnKeeps ==
    ASSUME RefInv, NEW w \in Worker, CallReturn(w)
    PROVE  RefInv'
<1>1. \A s \in Service : Refs(s)' = Refs(s)
  BY ConstantAssumption DEF Refs, RefInv, TypeOK, LocalOK, CtxPc, Thread,
     CallReturn, At, Goto
<1>2. RefCount'
  BY <1>1, SameCounts DEF CallReturn, At, Goto
<1>8. TypeOK'
  BY ConstantAssumption DEF RefInv, TypeOK, LocalOK, Thread, CallReturn, At,
     Goto
<1>9. LocalOK'
  BY ConstantAssumption DEF RefInv, TypeOK, LocalOK, CtxPc, Thread,
     CallReturn, At, Goto
<1> QED BY <1>2, <1>8, <1>9 DEF RefInv

LEMMA YieldKeeps ==
    ASSUME RefInv, NEW w \in Worker, Yield(w)
    PROVE  RefInv'
<1>1. \A s \in Service : Refs(s)' = Refs(s)
  BY ConstantAssumption DEF Refs, RefInv, TypeOK, LocalOK, CtxPc, Thread,
     Yield, At, Goto
<1>2. RefCount'
  BY <1>1, SameCounts DEF Yield, At, Goto
<1>3. Q # << >> => Head(Q) \in Service /\ Tail(Q) \in Seq(Service)
  BY PopTyped DEF RefInv
<1>8. TypeOK'
  <2>1. CASE Q # << >>
    <3>1. /\ nq' = [nq EXCEPT ![w] = Head(Q)]
          /\ Q' = Tail(Q)
          /\ Goto(w, "pushback")
          /\ UNCHANGED <<ctxVars, mqVars, held, cur, left, launchVars, opVars,
                         deleting, outcome>>
      BY <2>1 DEF Yield
    <3> QED BY <2>1, <3>1, <1>3 DEF RefInv, TypeOK, Goto
  <2>2. CASE Q = << >>
    BY <2>2, <1>3, ConstantAssumption DEF RefInv, TypeOK, LocalOK, Thread,
       Yield, At, Goto
  <2> QED BY <2>1, <2>2 DEF Yield, At, Goto
<1>9. LocalOK'
  <2>1. CASE Q # << >>
    BY <2>1, <1>3, ConstantAssumption DEF RefInv, TypeOK, LocalOK, CtxPc,
       Thread, Yield, At, Goto
  <2>2. CASE Q = << >>
    BY <2>2, <1>3, ConstantAssumption DEF RefInv, TypeOK, LocalOK, CtxPc,
       Thread, Yield, At, Goto
  <2> QED BY <2>1, <2>2 DEF Yield, At, Goto
<1> QED BY <1>2, <1>8, <1>9 DEF RefInv

LEMMA PushBackKeeps ==
    ASSUME RefInv, NEW w \in Worker, PushBack(w)
    PROVE  RefInv'
<1>1. \A s \in Service : Refs(s)' = Refs(s)
  BY ConstantAssumption DEF Refs, RefInv, TypeOK, LocalOK, CtxPc, Thread,
     PushBack, At, Goto
<1>2. RefCount'
  BY <1>1, SameCounts DEF PushBack, At, Goto
<1>4. held[w] \in Service
  BY ConstantAssumption DEF RefInv, TypeOK, LocalOK, CtxPc, Thread,
     PushBack, At, Goto
<1>5. Q' \in Seq(Service)
  BY <1>4, PushTyped DEF RefInv, TypeOK, PushBack, At, Goto
<1>8. TypeOK'
  BY <1>5, ConstantAssumption DEF RefInv, TypeOK, LocalOK, Thread, PushBack,
     At, Goto
<1>9. LocalOK'
  BY ConstantAssumption DEF RefInv, TypeOK, LocalOK, CtxPc, Thread,
     PushBack, At, Goto
<1> QED BY <1>2, <1>8, <1>9 DEF RefInv

LEMMA DispatchUnrefKeeps ==
    ASSUME RefInv, NEW w \in Worker, DispatchUnref(w)
    PROVE  RefInv'
<1>1. PICK d \in Service : d = cur[w]
  BY ConstantAssumption DEF RefInv, TypeOK, LocalOK, CtxPc, Thread,
     DispatchUnref, At, Goto, Free
<1>3. deleting[w] = None /\ w \in Thread /\ skynet_context_release(w, d) /\ ctx' = ctx
  BY <1>1, ConstantAssumption DEF RefInv, TypeOK, LocalOK, CtxPc, Thread,
     DispatchUnref, At, Goto, Free
<1>4. <<w, "ctx">> \in Refs(d)
  BY <1>1, <1>3, RefsMember DEF RefInv, TypeOK, LocalOK, CtxPc, Thread,
     DispatchUnref, At, Goto, Free
<1>5. /\ Refs(d)' = Refs(d) \ {<<w, "ctx">>}
      /\ \A s \in Service \ {d} : Refs(s)' = Refs(s)
  BY <1>1, <1>3, <1>4, ConstantAssumption DEF Refs, RefToken, RefInv,
     TypeOK, LocalOK, CtxPc, Thread, DispatchUnref, At, Goto, Free
<1>2. /\ RefCount'
      /\ ref' \in [Service -> Nat]
      /\ deleting' \in [Thread -> Service \cup {None}]
  BY <1>3, <1>4, <1>5, ReleaseCounts
<1>8. TypeOK'
  BY <1>2, ConstantAssumption DEF RefInv, TypeOK, LocalOK, Thread,
     DispatchUnref, At, Goto, Free
<1>9. LocalOK'
  BY ConstantAssumption DEF RefInv, TypeOK, LocalOK, CtxPc, Thread,
     DispatchUnref, At, Goto, Free, skynet_context_release
<1> QED BY <1>2, <1>8, <1>9 DEF RefInv

-----------------------------------------------------------------------------
(* The theorems.                                                           *)

(* The state start() leaves: each boot service has the reference of its    *)
(* slot and nothing else.                                                  *)
LEMMA RefInvInit == Init => RefInv
<1> SUFFICES ASSUME Init PROVE RefInv
  OBVIOUS
<1>1. LocalOK
  BY ConstantAssumption DEF Init, LocalOK, CtxPc, Thread
<1>2. Q \in Seq(Service)
  <2>1. Cardinality(Boot) \in Nat
    BY ConstantAssumption, FS_CardinalityType
  <2>2. Q \in [1 .. Cardinality(Boot) -> Service]
    BY ConstantAssumption DEF Init
  <2> QED BY <2>1, <2>2
<1>3. TypeOK
  BY <1>2, ConstantAssumption DEF Init, TypeOK, Outcomes, Thread
<1>4. \A s \in Service : Refs(s) = IF s \in Boot THEN {<<None, "slot">>} ELSE {}
  <2> SUFFICES ASSUME NEW s \in Service
               PROVE  Refs(s) = IF s \in Boot THEN {<<None, "slot">>} ELSE {}
    OBVIOUS
  <2>1. /\ reg[s] <=> s \in Boot
        /\ \A t \in Thread : opc[t] = "none" /\ lpc[t] = "none"
        /\ \A w \in Worker : cur[w] # s
    BY ConstantAssumption DEF Init
  <2>2. Refs(s) = {r \in RefToken : r = <<None, "slot">> /\ s \in Boot}
    BY <2>1 DEF Refs
  <2>3. <<None, "slot">> \in RefToken
    BY DEF RefToken
  <2> QED BY <2>2, <2>3
<1>5. \A s \in Service : ctx[s] = "live" => ref[s] = Cardinality(Refs(s))
  BY <1>4, FS_Singleton DEF Init
<1>6. RefCount
  BY <1>4, <1>5, ConstantAssumption DEF Init, RefCount, Thread
<1> QED BY <1>1, <1>3, <1>6 DEF RefInv

LEMMA RefInvStep == RefInv /\ [Next]_vars => RefInv'
<1> SUFFICES ASSUME RefInv, [Next]_vars PROVE RefInv'
  OBVIOUS
<1>1. CASE Choice
  BY <1>1, SendKeeps, ContextEndlessKeeps, KillKeeps, LaunchKeeps DEF Choice
<1>2. CASE \E t \in Thread : OpStep(t)
  BY <1>2, SendGrabKeeps, MqPushKeeps, OpUnrefKeeps, DeleteContextKeeps DEF OpStep
<1>3. CASE \E w \in Worker : LaunchStep(w)
  BY <1>3, LaunchInitKeeps, LaunchSetInitKeeps, LaunchPublishKeeps, LaunchResultKeeps,
     LaunchRetireKeeps, LaunchMqReleaseKeeps, LaunchDropKeeps DEF LaunchStep
<1>4. CASE \E w \in Worker : DispatchStep(w)
  BY <1>4, GlobalMqPopKeeps, DispatchGrabKeeps, MqReleaseKeeps, MqDropKeeps, MqPopKeeps,
     MqLengthKeeps, CallReturnKeeps, YieldKeeps, PushBackKeeps, DispatchUnrefKeeps
     DEF DispatchStep
<1>5. CASE UNCHANGED vars
  <2>1. \A s \in Service : Refs(s)' = Refs(s)
    BY <1>5, RefsUnchanged DEF vars
  <2>2. RefCount'
    BY <1>5, <2>1, SameCounts DEF vars
  <2>3. TypeOK' /\ LocalOK'
    BY <1>5 DEF vars, RefInv, TypeOK, LocalOK
  <2> QED BY <2>2, <2>3 DEF RefInv
<1> QED BY <1>1, <1>2, <1>3, <1>4, <1>5 DEF Next

(* Every variable of the scheduler keeps its type; in particular the count *)
(* of a context never goes below zero and no step pops, pushes or sends    *)
(* through a NULL pointer.                                                 *)
THEOREM TypeCorrect == Spec => []TypeOK
<1>1. RefInv => TypeOK
  BY DEF RefInv
<1> QED BY RefInvInit, RefInvStep, <1>1, PTL DEF Spec

(* Contexts are counted exactly: ctx->ref is the number of references      *)
(* there are, no reference outlives its context, and a context is deleted  *)
(* by one thread only, when nobody else can reach it.                      *)
THEOREM RefCountCorrect == Spec => []RefCount
<1>1. RefInv => RefCount
  BY DEF RefInv
<1> QED BY RefInvInit, RefInvStep, <1>1, PTL DEF Spec

-----------------------------------------------------------------------------
(* Every message queue has one owner.                                      *)

InQ(s) == \E i \in 1 .. Len(Q) : Q[i] = s

(* No queue is linked twice into the global queue.                         *)
Once == \A i, j \in 1 .. Len(Q) : Q[i] = Q[j] => i = j

(* The owners of queue s besides a place in the global queue.              *)
HoldToken == {"held", "nq", "new"} \X Thread

Holds(s) == {r \in HoldToken :
    \/ r[1] = "held" /\ r[2] \in Worker /\ held[r[2]] = s
    \/ r[1] = "nq" /\ r[2] \in Worker /\ nq[r[2]] = s
    \/ r[1] = "new" /\ lsvc[r[2]] = s /\ lpc[r[2]] # "result"}

Owned(s) == InQ(s) \/ Holds(s) # {}

OwnOK(s) ==
    /\ \A a, b \in Holds(s) : a = b
    /\ InQ(s) => Holds(s) = {}
    /\ mq[s] = "live" => (Owned(s) <=> inGlobal[s] \/ release[s])
    /\ mq[s] # "live" => ~Owned(s)
    /\ queue[s] # << >> => Owned(s)

OwnsOK == Once /\ \A s \in Service : OwnOK(s)

(* The queue outlives the context, whose end marks it.                     *)
LifeOK == \A s \in Service :
    /\ release[s] <=> ctx[s] = "freed"
    /\ mq[s] = "none" <=> ctx[s] = "none"
    /\ mq[s] = "freed" => ctx[s] = "freed"

Launchers(s) == {t \in Thread : lsvc[t] = s /\ lpc[t] \in {"init", "setinit", "retire"}}

(* What the place of a thread says about its queue.                        *)
LinkOK ==
    /\ \A w \in Worker :
          /\ pc[w] = "idle" => held[w] = None
          /\ nq[w] # None => pc[w] = "pushback"
          /\ pc[w] \in {"pop", "length", "call", "yield", "pushback"} => held[w] = cur[w]
          /\ pc[w] = "drop" => release[held[w]]
          /\ cur[w] # None => inited[cur[w]]
    /\ \A t \in Thread :
          /\ lpc[t] = "none" => lsvc[t] = None
          /\ lpc[t] = "drop" => release[lsvc[t]]
          /\ lsvc[t] # None => ctx[lsvc[t]] # "none"
          /\ lpc[t] \in {"pushnull", "mqrelease", "drop"} => ~reg[lsvc[t]]
    /\ \A s \in Service : reg[s] /\ ~inited[s] => Launchers(s) # {}

(* The inductive invariant for SingleOwner and AssertionsHold.             *)
OwnInv == RefInv /\ OwnsOK /\ LifeOK /\ LinkOK

-----------------------------------------------------------------------------
(* The global queue.                                                       *)

LEMMA QPush ==
    ASSUME Q \in Seq(Service), NEW s \in Service, Once, ~InQ(s), Q' = Append(Q, s)
    PROVE  Once' /\ \A x : InQ(x)' <=> InQ(x) \/ x = s
<1>1. /\ Len(Q') = Len(Q) + 1 /\ Q'[Len(Q) + 1] = s
      /\ \A i \in 1 .. Len(Q) : Q'[i] = Q[i]
  OBVIOUS
<1>2. \A x : InQ(x)' <=> InQ(x) \/ x = s
  BY <1>1 DEF InQ
<1>3. Once'
  BY <1>1 DEF Once, InQ
<1> QED BY <1>2, <1>3

LEMMA QPop ==
    ASSUME Q \in Seq(Service), Once, Q # << >>, Q' = Tail(Q)
    PROVE  /\ Once' /\ Head(Q) \in Service /\ InQ(Head(Q))
           /\ \A x : InQ(x)' <=> InQ(x) /\ x # Head(Q)
<1>1. /\ Len(Q') = Len(Q) - 1 /\ Len(Q) \in Nat \ {0} /\ Head(Q) = Q[1]
      /\ \A i \in 1 .. Len(Q') : Q'[i] = Q[i + 1]
  OBVIOUS
<1>2. InQ(Head(Q)) /\ Head(Q) \in Service
  BY <1>1 DEF InQ
<1>3. Once'
  BY <1>1 DEF Once
<1>4. ASSUME NEW x PROVE InQ(x)' <=> InQ(x) /\ x # Head(Q)
  <2>1. ASSUME InQ(x)' PROVE InQ(x) /\ x # Head(Q)
    BY <1>1, <2>1 DEF InQ, Once
  <2>2. ASSUME InQ(x), x # Head(Q) PROVE InQ(x)'
    <3>1. PICK i \in 1 .. Len(Q) : Q[i] = x
      BY <2>2 DEF InQ
    <3>2. i - 1 \in 1 .. Len(Q') /\ Q'[i - 1] = x
      BY <1>1, <2>2, <3>1
    <3> QED BY <3>2 DEF InQ
  <2> QED BY <2>1, <2>2
<1> QED BY <1>2, <1>3, <1>4

-----------------------------------------------------------------------------
(* How ownership moves.                                                    *)

(* Nobody's queue changes hands.                                           *)
LEMMA OwnersSame ==
    ASSUME OwnsOK, UNCHANGED <<Q, mqVars>>, \A s \in Service : Holds(s)' = Holds(s)
    PROVE  OwnsOK'
BY DEF OwnsOK, Once, OwnOK, Owned, InQ

(* A thread pushes the queue it has.                                       *)
LEMMA GiveToQ ==
    ASSUME OwnsOK, Q \in Seq(Service), NEW s \in Service, NEW tok \in Holds(s),
           Q' = Append(Q, s), Holds(s)' = Holds(s) \ {tok},
           \A x \in Service \ {s} : Holds(x)' = Holds(x),
           UNCHANGED mqVars
    PROVE  OwnsOK'
<1>1. ~InQ(s) /\ Once
  BY DEF OwnsOK, OwnOK
<1>2. Once' /\ \A x : InQ(x)' <=> InQ(x) \/ x = s
  BY <1>1, QPush
<1>3. Holds(s)' = {}
  BY DEF OwnsOK, OwnOK
<1>4. ASSUME NEW x \in Service PROVE OwnOK(x)'
  <2>1. CASE x = s
    BY <1>2, <1>3, <2>1 DEF OwnsOK, OwnOK, Owned
  <2>2. CASE x # s
    BY <1>2, <2>2 DEF OwnsOK, OwnOK, Owned
  <2> QED BY <2>1, <2>2
<1> QED BY <1>2, <1>4 DEF OwnsOK

(* A worker takes the first queue.                                         *)
LEMMA TakeFromQ ==
    ASSUME OwnsOK, Q \in Seq(Service), Q # << >>, Q' = Tail(Q),
           NEW s \in Service, s = Head(Q), NEW tok,
           Holds(s)' = Holds(s) \cup {tok},
           \A x \in Service \ {s} : Holds(x)' = Holds(x),
           UNCHANGED mqVars
    PROVE  OwnsOK'
<1>1. /\ Once' /\ s \in Service /\ InQ(s)
      /\ \A x : InQ(x)' <=> InQ(x) /\ x # s
  BY QPop DEF OwnsOK
<1>2. Holds(s) = {}
  BY <1>1 DEF OwnsOK, OwnOK
<1>3. ASSUME NEW x \in Service PROVE OwnOK(x)'
  <2>1. CASE x = s
    BY <1>1, <1>2, <2>1 DEF OwnsOK, OwnOK, Owned
  <2>2. CASE x # s
    <3>1. (InQ(x)' <=> InQ(x)) /\ Holds(x)' = Holds(x)
      BY <1>1, <2>2
    <3> QED BY <3>1 DEF OwnsOK, OwnOK, Owned
  <2> QED BY <2>1, <2>2
<1> QED BY <1>1, <1>3 DEF OwnsOK

-----------------------------------------------------------------------------
(* Steps that move no queue.                                               *)

LEMMA HoldsSame ==
    ASSUME UNCHANGED <<held, nq>>,
           \A t \in Thread : lsvc'[t] = lsvc[t] /\ (lpc'[t] = "result" <=> lpc[t] = "result")
    PROVE  \A s \in Service : Holds(s)' = Holds(s)
BY DEF Holds, HoldToken

LEMMA QuietKeeps ==
    ASSUME OwnInv, RefInv', LinkOK', UNCHANGED <<Q, mqVars, ctx, held, nq>>,
           \A t \in Thread : lsvc'[t] = lsvc[t] /\ (lpc'[t] = "result" <=> lpc[t] = "result")
    PROVE  OwnInv'
<1>1. OwnsOK'
  BY HoldsSame, OwnersSame DEF OwnInv
<1>2. LifeOK'
  BY DEF OwnInv, LifeOK
<1> QED BY <1>1, <1>2 DEF OwnInv

(* The places of workers and launchers stay what they are.                 *)
LEMMA LinkSame ==
    ASSUME OwnInv, UNCHANGED <<inited, workerVars, launchVars>>,
           \A s \in Service : /\ reg'[s] => reg[s]
                              /\ release[s] => release'[s]
                              /\ ctx[s] # "none" => ctx'[s] # "none"
    PROVE  LinkOK'
<1>1. \A s \in Service : Launchers(s)' = Launchers(s)
  BY DEF Launchers
<1>2. \A w \in Worker : pc[w] = "drop" => held[w] \in Service
  <2>1. \A w \in Worker : pc[w] = "drop" => held[w] # None /\ held[w] \in Service \cup {None}
    BY DEF OwnInv, RefInv, TypeOK, LocalOK
  <2> QED BY <2>1
<1>3. \A t \in Thread : lpc[t] # "none" \/ lsvc[t] # None => lsvc[t] \in Service
  <2>1. \A t \in Thread : /\ lpc[t] # "none" => lsvc[t] # None
                          /\ lsvc[t] \in Service \cup {None}
    BY DEF OwnInv, RefInv, TypeOK, LocalOK
  <2> QED BY <2>1
<1> QED BY <1>1, <1>2, <1>3 DEF OwnInv, LinkOK

LEMMA NestedKeeps ==
    ASSUME OwnInv, RefInv',
           UNCHANGED <<Q, mqVars, ctx, inited, workerVars, launchVars>>,
           \A s \in Service : reg'[s] => reg[s]
    PROVE  OwnInv'
BY LinkSame, QuietKeeps

LEMMA OpOwns ==
    ASSUME OwnInv, RefInv', NEW t \in Thread, SendGrab(t) \/ OpUnref(t)
    PROVE  OwnInv'
BY NestedKeeps DEF SendGrab, OpUnref

LEMMA ChoiceOwns ==
    ASSUME OwnInv, RefInv', NEW t \in Thread, NEW d \in Service,
           \/ \E m \in Msg : Send(t, m, d)
           \/ ContextEndless(t, d) \/ Kill(t, d)
    PROVE  OwnInv'
<1>1. UNCHANGED <<Q, mqVars, ctx, inited, workerVars, launchVars>>
  BY DEF Send, ContextEndless, Kill, Retire
<1>2. reg' = reg \/ reg' = [reg EXCEPT ![d] = FALSE]
  BY DEF Send, ContextEndless, Kill, Retire
<1>3. \A s \in Service : reg'[s] => reg[s]
  BY <1>2 DEF OwnInv, RefInv, TypeOK
<1> QED BY <1>1, <1>3, NestedKeeps

(* Both the launcher and another owner cannot be.                          *)
LEMMA Launching ==
    ASSUME OwnInv, NEW w \in Worker, NEW s \in Service, held[w] = s
    PROVE  Launchers(s) = {}
<1> SUFFICES ASSUME NEW t \in Launchers(s) PROVE FALSE
  OBVIOUS
<1>1. <<"held", w>> \in Holds(s) /\ <<"new", t>> \in Holds(s)
  BY DEF Launchers, Holds, HoldToken, Thread
<1>2. <<"held", w>> # <<"new", t>>
  OBVIOUS
<1> QED BY <1>1, <1>2 DEF OwnInv, OwnsOK, OwnOK

LEMMA DispatchGrabOwns ==
    ASSUME OwnInv, RefInv', NEW w \in Worker, DispatchGrab(w)
    PROVE  OwnInv'
<1>0. pc[w] = "grab"
  BY DEF DispatchGrab, At
<1>1. held[w] \in Service /\ nq[w] = None
  <2>1. held[w] # None /\ held[w] \in Service \cup {None}
    BY <1>0 DEF OwnInv, RefInv, TypeOK, LocalOK
  <2>2. nq[w] = None
    BY <1>0 DEF OwnInv, LinkOK
  <2> QED BY <2>1, <2>2
<1>2. reg[held[w]] => inited[held[w]]
  BY <1>1, Launching DEF OwnInv, LinkOK
<1>3. LinkOK'
  <2>1. \A s \in Service : Launchers(s)' = Launchers(s)
    BY DEF Launchers, DispatchGrab
  <2> QED BY <1>1, <1>2, <2>1 DEF OwnInv, LinkOK, RefInv, TypeOK, DispatchGrab, At, Goto
<1> QED BY <1>3, QuietKeeps DEF DispatchGrab

LEMMA WorkerOwns ==
    ASSUME OwnInv, RefInv', NEW w \in Worker,
           MqLength(w) \/ CallReturn(w) \/ DispatchUnref(w)
    PROVE  OwnInv'
<1>1. \A s \in Service : Launchers(s)' = Launchers(s)
  BY DEF Launchers, MqLength, CallReturn, DispatchUnref
<1>2. CASE MqLength(w) \/ CallReturn(w)
  <2>1. LinkOK'
    BY <1>1, <1>2 DEF OwnInv, LinkOK, RefInv, TypeOK, MqLength, CallReturn, At, Goto
  <2> QED BY <1>2, <2>1, QuietKeeps DEF MqLength, CallReturn
<1>3. CASE DispatchUnref(w)
  <2>1. LinkOK'
    BY <1>1, <1>3 DEF OwnInv, LinkOK, RefInv, TypeOK, DispatchUnref, At, Goto
  <2> QED BY <1>3, <2>1, QuietKeeps DEF DispatchUnref
<1> QED BY <1>2, <1>3

(* The launcher gives up its reference: the context is registered, or it   *)
(* is this thread that deletes it.                                         *)
LEMMA LaunchInitOwns ==
    ASSUME OwnInv, RefInv', NEW w \in Worker, NEW ok \in BOOLEAN, LaunchInit(w, ok)
    PROVE  OwnInv'
<1>1. /\ w \in Thread /\ lsvc[w] \in Service
      /\ lpc[w] = "init"
      /\ UNCHANGED <<reg, ctx, inited, mqVars, Q, workerVars, lsvc>>
  BY DEF OwnInv, RefInv, TypeOK, LocalOK, LaunchInit, Thread
<1>2. PICK l \in {"retire", "pushnull", "setinit"} :
          /\ lpc' = [lpc EXCEPT ![w] = l]
          /\ l = "pushnull" => ref[lsvc[w]] = 1
  BY DEF LaunchInit
<1>3. l = "pushnull" => ~reg[lsvc[w]]
  <2> SUFFICES ASSUME l = "pushnull", reg[lsvc[w]] PROVE FALSE
    OBVIOUS
  <2>1. deleting'[w] = lsvc[w]
    BY <1>1, <1>2 DEF LaunchInit, skynet_context_release, OwnInv, RefInv, TypeOK
  <2> DEFINE s == lsvc[w]
  <2>2. <<None, "slot">> \in Refs(s)'
    BY <1>1, RefsMember DEF Refs, RefToken
  <2> QED BY <1>1, <2>1, <2>2 DEF RefInv, RefCount
<1>4. \A s \in Service : Launchers(s)' = Launchers(s) \/ s = lsvc[w]
  BY <1>1, <1>2 DEF Launchers, OwnInv, RefInv, TypeOK
<1>6. LinkOK'
  <2>1. \A t \in Thread :
            /\ lpc'[t] = "none" => lsvc'[t] = None
            /\ lpc'[t] = "drop" => release'[lsvc'[t]]
            /\ lsvc'[t] # None => ctx'[lsvc'[t]] # "none"
            /\ lpc'[t] \in {"pushnull", "mqrelease", "drop"} => ~reg'[lsvc'[t]]
    BY <1>1, <1>2, <1>3 DEF OwnInv, LinkOK, RefInv, TypeOK
  <2>2. \A s \in Service : reg'[s] /\ ~inited'[s] => Launchers(s)' # {}
    <3> SUFFICES ASSUME NEW s \in Service, reg[s], ~inited[s] PROVE Launchers(s)' # {}
      BY <1>1
    <3>1. CASE s = lsvc[w]
      <4>1. w \in Launchers(s)'
        BY <1>1, <1>2, <1>3, <3>1 DEF Launchers, OwnInv, RefInv, TypeOK
      <4> QED BY <4>1
    <3>2. CASE s # lsvc[w]
      BY <1>4, <3>2 DEF OwnInv, LinkOK
    <3> QED BY <3>1, <3>2
  <2> QED BY <1>1, <2>1, <2>2 DEF OwnInv, LinkOK
<1>7. \A t \in Thread : lsvc'[t] = lsvc[t] /\ (lpc'[t] = "result" <=> lpc[t] = "result")
  <2>1. w \in DOMAIN lpc /\ DOMAIN lpc = Thread
    BY <1>1 DEF OwnInv, RefInv, TypeOK
  <2>2. \A t \in Thread : lpc'[t] = IF t = w THEN l ELSE lpc[t]
    BY <1>2, <2>1
  <2> QED BY <1>1, <1>2, <2>2
<1> QED BY <1>1, <1>6, <1>7, QuietKeeps

LEMMA LaunchSetInitOwns ==
    ASSUME OwnInv, RefInv', NEW w \in Worker, LaunchSetInit(w)
    PROVE  OwnInv'
<1>1. /\ w \in Thread /\ lsvc[w] \in Service
      /\ lpc[w] = "setinit" /\ lpc' = [lpc EXCEPT ![w] = "publish"]
      /\ inited' = [inited EXCEPT ![lsvc[w]] = (ctx[lsvc[w]] = "live")]
      /\ UNCHANGED <<reg, ctx, mqVars, Q, workerVars, lsvc>>
  BY DEF OwnInv, RefInv, TypeOK, LocalOK, LaunchSetInit, Thread
<1>2. \A s \in Service : reg[s] \/ (\E v \in Worker : cur[v] = s) => ctx[s] = "live"
  BY RefsMember DEF OwnInv, RefInv, RefCount
<1>3. \A s \in Service \ {lsvc[w]} : Launchers(s)' = Launchers(s)
  BY <1>1 DEF Launchers, OwnInv, RefInv, TypeOK
<1>4. \A v \in Worker : cur[v] # None => inited'[cur[v]]
  BY <1>1, <1>2 DEF OwnInv, LinkOK, RefInv, TypeOK
<1>5. \A s \in Service : reg[s] /\ ~inited'[s] => Launchers(s)' # {}
  <2> SUFFICES ASSUME NEW s \in Service, reg[s], ~inited'[s] PROVE Launchers(s)' # {}
    OBVIOUS
  <2>1. s # lsvc[w]
    BY <1>1, <1>2 DEF OwnInv, RefInv, TypeOK
  <2>2. ~inited[s]
    BY <1>1, <2>1 DEF OwnInv, RefInv, TypeOK
  <2> QED BY <1>3, <2>1, <2>2 DEF OwnInv, LinkOK
<1>6. LinkOK'
  BY <1>1, <1>4, <1>5 DEF OwnInv, LinkOK, RefInv, TypeOK
<1>7. \A t \in Thread : lsvc'[t] = lsvc[t] /\ (lpc'[t] = "result" <=> lpc[t] = "result")
  BY <1>1 DEF OwnInv, RefInv, TypeOK
<1> QED BY <1>1, <1>6, <1>7, QuietKeeps

LEMMA LaunchRetireOwns ==
    ASSUME OwnInv, RefInv', NEW w \in Worker, LaunchRetire(w)
    PROVE  OwnInv'
<1>1. /\ w \in Thread /\ lsvc[w] \in Service
      /\ lpc[w] = "retire" /\ lpc' = [lpc EXCEPT ![w] = "mqrelease"]
      /\ reg' = [reg EXCEPT ![lsvc[w]] = FALSE]
      /\ UNCHANGED <<ctx, inited, mqVars, Q, workerVars, lsvc>>
  BY DEF OwnInv, RefInv, TypeOK, LocalOK, LaunchRetire, Retire, Thread
<1>2. \A s \in Service \ {lsvc[w]} : Launchers(s)' = Launchers(s)
  BY <1>1 DEF Launchers, OwnInv, RefInv, TypeOK
<1>3. LinkOK'
  BY <1>1, <1>2 DEF OwnInv, LinkOK, RefInv, TypeOK, LocalOK
<1>4. \A t \in Thread : lsvc'[t] = lsvc[t] /\ (lpc'[t] = "result" <=> lpc[t] = "result")
  BY <1>1 DEF OwnInv, RefInv, TypeOK
<1> QED BY <1>1, <1>3, <1>4, QuietKeeps

-----------------------------------------------------------------------------
(* Steps on a queue.                                                       *)

(* The queue of a live context exists and is not marked.                   *)
LEMMA LiveQueue ==
    ASSUME OwnInv, NEW s \in Service, ctx[s] = "live"
    PROVE  mq[s] = "live" /\ ~release[s] /\ (Owned(s) <=> inGlobal[s])
<1>1. mq[s] = "live" /\ ~release[s]
  BY DEF OwnInv, LifeOK, RefInv, TypeOK
<1> QED BY <1>1 DEF OwnInv, OwnsOK, OwnOK

(* A message is taken from a queue.                                        *)
LEMMA TakeMessage ==
    ASSUME OwnInv, NEW s \in Service, queue[s] # << >>,
           queue' = [queue EXCEPT ![s] = Tail(@)],
           UNCHANGED <<Q, mq, inGlobal, release>>,
           \A x \in Service : Holds(x)' = Holds(x)
    PROVE  OwnsOK'
<1>1. \A x \in Service : queue'[x] # << >> => queue[x] # << >>
  BY DEF OwnInv, RefInv, TypeOK
<1>2. \A x \in Service : Owned(x)' <=> Owned(x)
  BY DEF Owned, InQ
<1> QED BY <1>1, <1>2 DEF OwnInv, OwnsOK, Once, OwnOK, InQ

(* The owner of an empty queue lets it go or frees it.                     *)
LEMMA LetGo ==
    ASSUME OwnInv, NEW s \in Service, queue[s] = << >>, NEW tok \in Holds(s),
           Holds(s)' = Holds(s) \ {tok},
           \A x \in Service \ {s} : Holds(x)' = Holds(x),
           UNCHANGED <<Q, queue, release>>,
           inGlobal' = [inGlobal EXCEPT ![s] = FALSE],
           \/ mq' = [mq EXCEPT ![s] = "freed"]
           \/ mq' = mq /\ ~release[s]
    PROVE  OwnsOK'
<1>1. Holds(s)' = {} /\ ~InQ(s)
  BY DEF OwnInv, OwnsOK, OwnOK
<1>2. ASSUME NEW x \in Service PROVE OwnOK(x)'
  <2>1. CASE x = s
    BY <1>1, <2>1 DEF OwnInv, OwnOK, Owned, InQ, RefInv, TypeOK
  <2>2. CASE x # s
    <3>1. /\ inGlobal'[x] = inGlobal[x] /\ mq'[x] = mq[x] /\ Holds(x)' = Holds(x)
      BY <2>2 DEF OwnInv, RefInv, TypeOK
    <3> QED BY <3>1 DEF OwnInv, OwnsOK, OwnOK, Owned, InQ
  <2> QED BY <2>1, <2>2
<1> QED BY <1>2 DEF OwnInv, OwnsOK, Once

(* The queue is pushed if nobody has it: on the first message, and when    *)
(* its context is deleted.                                                 *)
LEMMA PushUnowned ==
    ASSUME OwnInv, NEW s \in Service, ctx[s] = "live", mq' = mq,
           IF inGlobal[s] THEN UNCHANGED Q ELSE skynet_globalmq_push(s),
           inGlobal'[s] \/ release'[s],
           \A x \in Service : Holds(x)' = Holds(x),
           \A x \in Service \ {s} :
               queue'[x] = queue[x] /\ inGlobal'[x] = inGlobal[x] /\ release'[x] = release[x]
    PROVE  OwnsOK'
<1>1. mq[s] = "live" /\ (Owned(s) <=> inGlobal[s])
  BY LiveQueue
<1>2. Q \in Seq(Service) /\ Once
  BY DEF OwnInv, RefInv, TypeOK, OwnsOK
<1>3. Once' /\ (\A x : InQ(x)' <=> InQ(x) \/ (x = s /\ ~inGlobal[s]))
  <2>1. CASE inGlobal[s]
    BY <1>2, <2>1 DEF InQ, Once
  <2>2. CASE ~inGlobal[s]
    BY <1>1, <1>2, <2>2, QPush DEF Owned, skynet_globalmq_push
  <2> QED BY <2>1, <2>2
<1>4. ASSUME NEW x \in Service PROVE OwnOK(x)'
  <2>1. CASE x = s
    <3>1. Owned(s)'
      BY <1>1, <1>3 DEF Owned
    <3>2. Holds(s)' = Holds(s) /\ (InQ(s)' => Holds(s) = {})
      BY <1>1, <1>3 DEF Owned, OwnInv, OwnsOK, OwnOK
    <3> QED BY <1>1, <2>1, <3>1, <3>2 DEF OwnInv, OwnsOK, OwnOK
  <2>2. CASE x # s
    <3>1. Owned(x)' <=> Owned(x)
      BY <1>3, <2>2 DEF Owned
    <3> QED BY <1>3, <2>2, <3>1 DEF OwnInv, OwnsOK, OwnOK
  <2> QED BY <2>1, <2>2
<1> QED BY <1>3, <1>4 DEF OwnsOK

LEMMA MqPushOwns ==
    ASSUME OwnInv, RefInv', NEW t \in Thread, MqPush(t)
    PROVE  OwnInv'
<1>1. PICK d \in Service : d = osvc[t]
  <2>1. osvc[t] # None /\ osvc[t] \in Service \cup {None}
    BY DEF OwnInv, RefInv, TypeOK, LocalOK, MqPush
  <2> QED BY <2>1
<1>2. ctx[d] = "live"
  BY <1>1, RefsMember DEF OwnInv, RefInv, RefCount, MqPush
<1>3. /\ queue' = [queue EXCEPT ![d] = Append(@, omsg[t])]
      /\ inGlobal' = [inGlobal EXCEPT ![d] = TRUE]
      /\ IF inGlobal[d] THEN UNCHANGED Q ELSE skynet_globalmq_push(d)
      /\ UNCHANGED <<ctxVars, mq, release, workerVars, launchVars>>
  BY <1>1 DEF MqPush, skynet_mq_push
<1>4. \A s \in Service : Holds(s)' = Holds(s)
  BY <1>3, HoldsSame
<1>5. OwnsOK'
  <2>1. /\ inGlobal'[d]
        /\ \A x \in Service \ {d} :
               queue'[x] = queue[x] /\ inGlobal'[x] = inGlobal[x] /\ release'[x] = release[x]
    BY <1>3 DEF OwnInv, RefInv, TypeOK
  <2> QED BY <1>2, <1>3, <1>4, <2>1, PushUnowned
<1>6. LifeOK'
  BY <1>3 DEF OwnInv, LifeOK
<1> QED BY <1>3, <1>5, <1>6, LinkSame DEF OwnInv

LEMMA DeleteContextOwns ==
    ASSUME OwnInv, RefInv', NEW t \in Thread, DeleteContext(t)
    PROVE  OwnInv'
<1>1. PICK d \in Service : d = deleting[t]
  BY DEF OwnInv, RefInv, TypeOK, DeleteContext
<1>2. ctx[d] = "live"
  BY <1>1 DEF OwnInv, RefInv, RefCount
<1>3. /\ ctx' = [ctx EXCEPT ![d] = "freed"]
      /\ release' = [release EXCEPT ![d] = TRUE]
      /\ IF inGlobal[d] THEN UNCHANGED Q ELSE skynet_globalmq_push(d)
      /\ UNCHANGED <<reg, inited, mq, queue, inGlobal, workerVars, launchVars>>
  BY <1>1 DEF DeleteContext, skynet_mq_mark_release
<1>4. \A s \in Service : Holds(s)' = Holds(s)
  BY <1>3, HoldsSame
<1>5. OwnsOK'
  <2>1. /\ release'[d]
        /\ \A x \in Service \ {d} :
               queue'[x] = queue[x] /\ inGlobal'[x] = inGlobal[x] /\ release'[x] = release[x]
    BY <1>3 DEF OwnInv, RefInv, TypeOK
  <2> QED BY <1>2, <1>3, <1>4, <2>1, PushUnowned
<1>6. LifeOK'
  BY <1>2, <1>3, LiveQueue DEF OwnInv, LifeOK, RefInv, TypeOK
<1>7. LinkOK'
  <2>1. \A s \in Service : /\ release[s] => release'[s]
                           /\ ctx[s] # "none" => ctx'[s] # "none"
    BY <1>3 DEF OwnInv, RefInv, TypeOK
  <2> QED BY <1>3, <2>1, LinkSame
<1> QED BY <1>5, <1>6, <1>7 DEF OwnInv

-----------------------------------------------------------------------------
(* Steps that hand a queue over.                                           *)

LEMMA HoldsHeld ==
    ASSUME OwnInv, NEW w \in Worker, NEW v \in Service \cup {None},
           held' = [held EXCEPT ![w] = v], UNCHANGED <<nq, lpc, lsvc>>
    PROVE  \A s \in Service :
               Holds(s)' = IF s = v THEN Holds(s) \cup {<<"held", w>>}
                           ELSE Holds(s) \ {<<"held", w>>}
BY DEF Holds, HoldToken, Thread, OwnInv, RefInv, TypeOK

(* The launch by w goes on to l, or ends.                                  *)
LauncherMoves(w, l) ==
    /\ lsvc' = [lsvc EXCEPT ![w] = IF l = "none" THEN None ELSE @]
    /\ lpc' = [lpc EXCEPT ![w] = l]

LEMMA HoldsGiven ==
    ASSUME OwnInv, NEW w \in Worker, NEW l \in {"none", "result"}, LauncherMoves(w, l),
           UNCHANGED <<held, nq>>
    PROVE  \A s \in Service : Holds(s)' = Holds(s) \ {<<"new", w>>}
<1>1. w \in Thread /\ \A s \in Service : (lsvc'[w] = s /\ lpc'[w] # "result") <=> FALSE
  BY ConstantAssumption DEF LauncherMoves, Thread, OwnInv, RefInv, TypeOK
<1>2. \A t \in Thread : t # w => lsvc'[t] = lsvc[t] /\ lpc'[t] = lpc[t]
  BY DEF LauncherMoves, OwnInv, RefInv, TypeOK
<1> QED BY <1>1, <1>2 DEF Holds, HoldToken

(* Local variables that are not NULL.                                      *)
LEMMA WorkerNotNull ==
    ASSUME OwnInv, NEW w \in Worker
    PROVE  /\ pc[w] \notin {"idle", "unref"} => held[w] \in Service
           /\ pc[w] \in CtxPc => cur[w] \in Service
           /\ pc[w] = "pushback" => nq[w] \in Service
<1>1. /\ held[w] \in Service \cup {None}
      /\ cur[w] \in Service \cup {None}
      /\ nq[w] \in Service \cup {None}
  BY DEF OwnInv, RefInv, TypeOK
<1>2. /\ pc[w] \notin {"idle", "unref"} => held[w] # None
      /\ pc[w] \in CtxPc => cur[w] # None
      /\ pc[w] = "pushback" => nq[w] # None
  BY DEF OwnInv, RefInv, LocalOK
<1> QED BY <1>1, <1>2

LEMMA LauncherNotNull ==
    ASSUME OwnInv, NEW t \in Thread
    PROVE  /\ lpc[t] # "none" => lsvc[t] \in Service
           /\ lsvc[t] # None => lpc[t] # "none" /\ lsvc[t] \in Service
           /\ lpc[t] # "none" => lsvc[t] # None
<1>1. lsvc[t] \in Service \cup {None} /\ (lpc[t] # "none" => lsvc[t] # None)
  BY DEF OwnInv, RefInv, TypeOK, LocalOK
<1>2. lpc[t] = "none" => lsvc[t] = None
  BY DEF OwnInv, LinkOK
<1> QED BY <1>1, <1>2

(* A launcher moves on or ends; everything else stays.                     *)
LEMMA LauncherLinks ==
    ASSUME OwnInv, NEW w \in Worker, NEW l \in {"none", "result", "drop"},
           LauncherMoves(w, l),
           UNCHANGED <<ctxVars, release, pc, held, nq, cur>>,
           lsvc[w] \in Service,
           reg[lsvc[w]] => inited[lsvc[w]] \/ lpc[w] \notin {"init", "setinit", "retire"},
           l = "drop" => release[lsvc[w]] /\ ~reg[lsvc[w]]
    PROVE  LinkOK'
<1>1. w \in Thread
  BY DEF Thread
<1>2. \A s \in Service : reg[s] /\ ~inited[s] => Launchers(s) \subseteq Launchers(s)'
  BY <1>1 DEF LauncherMoves, Launchers, OwnInv, RefInv, TypeOK
<1>3. \A s \in Service : reg[s] /\ ~inited[s] => Launchers(s)' # {}
  BY <1>2 DEF OwnInv, LinkOK
<1>4. ASSUME NEW t \in Thread
      PROVE  /\ lpc'[t] = "none" => lsvc'[t] = None
             /\ lpc'[t] = "drop" => release'[lsvc'[t]]
             /\ lsvc'[t] # None => ctx'[lsvc'[t]] # "none"
             /\ lpc'[t] \in {"pushnull", "mqrelease", "drop"} => ~reg'[lsvc'[t]]
  <2>1. CASE t = w
    <3>1. lpc'[w] = l /\ lsvc'[w] = IF l = "none" THEN None ELSE lsvc[w]
      BY <1>1 DEF LauncherMoves, OwnInv, RefInv, TypeOK
    <3>2. lsvc[w] # None /\ ctx[lsvc[w]] # "none"
      BY <1>1, ConstantAssumption DEF OwnInv, LinkOK
    <3> QED BY <2>1, <3>1, <3>2
  <2>2. CASE t # w
    <3>1. lpc'[t] = lpc[t] /\ lsvc'[t] = lsvc[t]
      BY <2>2 DEF LauncherMoves, OwnInv, RefInv, TypeOK
    <3> QED BY <3>1 DEF OwnInv, LinkOK
  <2> QED BY <2>1, <2>2
<1> QED BY <1>3, <1>4 DEF OwnInv, LinkOK

LEMMA LaunchOwns ==
    ASSUME OwnInv, RefInv', NEW w \in Worker, NEW s \in Service, Launch(w, s)
    PROVE  OwnInv'
<1>1. /\ ctx[s] = "none" /\ lpc[w] = "none" /\ w \in Thread
      /\ reg' = [reg EXCEPT ![s] = TRUE] /\ ctx' = [ctx EXCEPT ![s] = "live"]
      /\ mq' = [mq EXCEPT ![s] = "live"] /\ inGlobal' = [inGlobal EXCEPT ![s] = TRUE]
      /\ lpc' = [lpc EXCEPT ![w] = "init"] /\ lsvc' = [lsvc EXCEPT ![w] = s]
      /\ UNCHANGED <<inited, queue, release, Q, workerVars>>
  BY DEF Launch, skynet_mq_create, InCallback, At, Thread
<1>2. mq[s] = "none" /\ ~release[s] /\ ~Owned(s)
  BY <1>1 DEF OwnInv, OwnsOK, OwnOK, LifeOK
<1>3. \A t \in Thread : t # w => lsvc'[t] = lsvc[t] /\ lpc'[t] = lpc[t]
  BY <1>1 DEF OwnInv, RefInv, TypeOK
<1>4. lsvc[w] = None /\ lsvc'[w] = s /\ lpc'[w] = "init"
  BY <1>1 DEF OwnInv, LinkOK, RefInv, TypeOK
<1>5. ASSUME NEW x \in Service, x # s PROVE Holds(x)' = Holds(x)
  BY <1>1, <1>3, <1>4, <1>5, ConstantAssumption DEF Holds, HoldToken
<1>6. Holds(s)' = {<<"new", w>>}
  <2>1. Holds(s) = {}
    BY <1>2 DEF Owned
  <2>2. ASSUME NEW r \in HoldToken PROVE r \in Holds(s)' <=> r = <<"new", w>>
    <3>1. r \notin Holds(s)
      BY <2>1
    <3> QED BY <1>1, <1>3, <1>4, <3>1 DEF Holds, HoldToken
  <2>3. <<"new", w>> \in HoldToken /\ Holds(s)' \subseteq HoldToken
    BY <1>1 DEF Holds, HoldToken
  <2> QED BY <2>2, <2>3
<1>7. OwnsOK'
  <2>0. ASSUME NEW x PROVE InQ(x)' <=> InQ(x)
    BY <1>1 DEF InQ
  <2>1. ASSUME NEW x \in Service PROVE OwnOK(x)'
    <3>1. CASE x = s
      <4>1. ~InQ(s) /\ Owned(s)'
        BY <1>2, <1>6 DEF Owned
      <4>2. mq'[s] = "live" /\ inGlobal'[s]
        BY <1>1 DEF OwnInv, RefInv, TypeOK
      <4> QED BY <1>6, <2>0, <3>1, <4>1, <4>2 DEF OwnOK
    <3>2. CASE x # s
      <4>1. mq'[x] = mq[x] /\ inGlobal'[x] = inGlobal[x] /\ Holds(x)' = Holds(x)
        BY <1>1, <1>5, <3>2 DEF OwnInv, RefInv, TypeOK
      <4>2. Owned(x)' <=> Owned(x)
        BY <2>0, <4>1 DEF Owned
      <4> QED BY <1>1, <2>0, <4>1, <4>2 DEF OwnInv, OwnsOK, OwnOK
    <3> QED BY <3>1, <3>2
  <2> QED BY <1>1, <2>1 DEF OwnInv, OwnsOK, Once
<1>8. LifeOK'
  BY <1>1, <1>2 DEF OwnInv, LifeOK, RefInv, TypeOK
<1>9. LinkOK'
  <2>1. w \in Launchers(s)'
    BY <1>1 DEF Launchers, OwnInv, RefInv, TypeOK
  <2>2. \A x \in Service \ {s} : Launchers(x)' = Launchers(x)
    BY <1>1, <1>4 DEF Launchers, OwnInv, RefInv, TypeOK
  <2>3. \A x \in Service : reg'[x] /\ ~inited'[x] => Launchers(x)' # {}
    BY <1>1, <2>1, <2>2 DEF OwnInv, LinkOK, RefInv, TypeOK
  <2>4. ASSUME NEW t \in Thread
        PROVE  /\ lpc'[t] = "none" => lsvc'[t] = None
               /\ lpc'[t] = "drop" => release'[lsvc'[t]]
               /\ lsvc'[t] # None => ctx'[lsvc'[t]] # "none"
               /\ lpc'[t] \in {"pushnull", "mqrelease", "drop"} => ~reg'[lsvc'[t]]
    <3>1. CASE t = w
      <4>1. lpc'[t] = "init" /\ lsvc'[t] = s /\ ctx'[s] = "live"
        BY <1>1, <3>1 DEF OwnInv, RefInv, TypeOK
      <4> QED BY <4>1
    <3>2. CASE t # w
      <4>1. lpc'[t] = lpc[t] /\ lsvc'[t] = lsvc[t] /\ release' = release
        BY <1>1, <3>2 DEF OwnInv, RefInv, TypeOK
      <4>2. CASE lsvc[t] = None
        <5>1. lpc[t] = "none"
          BY <4>2, LauncherNotNull
        <5> QED BY <4>1, <4>2, <5>1
      <4>3. CASE lsvc[t] # None
        <5>1. lsvc[t] \in Service /\ ctx[lsvc[t]] # "none"
          BY <4>3, LauncherNotNull DEF OwnInv, LinkOK
        <5>2. lsvc[t] # s
          BY <1>1, <5>1
        <5>3. ctx'[lsvc[t]] = ctx[lsvc[t]] /\ reg'[lsvc[t]] = reg[lsvc[t]]
          BY <1>1, <5>1, <5>2 DEF OwnInv, RefInv, TypeOK
        <5> QED BY <4>1, <5>3 DEF OwnInv, LinkOK
      <4> QED BY <4>2, <4>3
    <3> QED BY <3>1, <3>2
  <2> QED BY <1>1, <2>3, <2>4 DEF OwnInv, LinkOK
<1> QED BY <1>7, <1>8, <1>9 DEF OwnInv

(* A launcher pushes the queue it has.                                     *)
LEMMA LauncherGives ==
    ASSUME OwnInv, RefInv', NEW w \in Worker, NEW s \in Service, lsvc[w] = s,
           lpc[w] \in {"publish", "pushnull", "mqrelease"},
           NEW l \in {"none", "result"}, LauncherMoves(w, l),
           Q' = Append(Q, s), UNCHANGED <<ctxVars, mqVars, workerVars>>
    PROVE  OwnInv'
<1>1. <<"new", w>> \in Holds(s) /\ \A x \in Service \ {s} : <<"new", w>> \notin Holds(x)
  BY DEF Holds, HoldToken, Thread
<1>3. \A x \in Service : Holds(x)' = Holds(x) \ {<<"new", w>>}
  BY HoldsGiven
<1>4. ASSUME NEW x \in Service \ {s} PROVE Holds(x)' = Holds(x)
  <2>1. Holds(x)' = Holds(x) \ {<<"new", w>>} /\ <<"new", w>> \notin Holds(x)
    BY <1>1, <1>3
  <2> QED BY <2>1
<1>5. OwnsOK'
  BY <1>1, <1>3, <1>4, GiveToQ DEF OwnInv, RefInv, TypeOK
<1>6. LifeOK'
  BY DEF OwnInv, LifeOK
<1>7. LinkOK'
  BY LauncherLinks
<1> QED BY <1>5, <1>6, <1>7 DEF OwnInv

LEMMA LaunchPublishOwns ==
    ASSUME OwnInv, RefInv', NEW w \in Worker, LaunchPublish(w)
    PROVE  OwnInv'
<1>1. lpc[w] \in {"publish", "pushnull"} /\ w \in Thread
  BY DEF LaunchPublish, Thread
<1>2. PICK s \in Service : s = lsvc[w]
  BY <1>1, LauncherNotNull
<1>3. Q' = Append(Q, s) /\ UNCHANGED <<ctxVars, mqVars, workerVars>>
  BY <1>2 DEF LaunchPublish, skynet_globalmq_push
<1>4. LauncherMoves(w, "result") \/ LauncherMoves(w, "none")
  <2>1. lsvc = [lsvc EXCEPT ![w] = lsvc[w]]
    BY DEF OwnInv, RefInv, TypeOK
  <2> QED BY <2>1 DEF LaunchPublish, LauncherMoves, EndLaunch
<1> QED BY <1>1, <1>2, <1>3, <1>4, LauncherGives

LEMMA LaunchResultOwns ==
    ASSUME OwnInv, RefInv', NEW w \in Worker, LaunchResult(w)
    PROVE  OwnInv'
<1>1. /\ lpc[w] = "result" /\ w \in Thread /\ LauncherMoves(w, "none")
      /\ UNCHANGED <<ctxVars, mqVars, Q, workerVars>>
  BY DEF LaunchResult, LauncherMoves, EndLaunch, Thread
<1>2. lsvc[w] \in Service
  BY <1>1, LauncherNotNull
<1>3. \A x \in Service : Holds(x)' = Holds(x) \ {<<"new", w>>}
  BY <1>1, HoldsGiven
<1>4. \A x \in Service : <<"new", w>> \notin Holds(x)
  BY <1>1 DEF Holds
<1>5. \A x \in Service : Holds(x)' = Holds(x)
  BY <1>3, <1>4
<1>6. OwnsOK'
  BY <1>1, <1>5, OwnersSame DEF OwnInv
<1>7. LifeOK'
  BY <1>1 DEF OwnInv, LifeOK
<1>8. LinkOK'
  BY <1>1, <1>2, LauncherLinks
<1> QED BY <1>6, <1>7, <1>8 DEF OwnInv

LEMMA LaunchMqReleaseOwns ==
    ASSUME OwnInv, RefInv', NEW w \in Worker, LaunchMqRelease(w)
    PROVE  OwnInv'
<1>1. lpc[w] = "mqrelease" /\ w \in Thread /\ UNCHANGED <<ctxVars, mqVars, workerVars>>
  BY DEF LaunchMqRelease, Thread
<1>2. PICK s \in Service : s = lsvc[w]
  BY <1>1, LauncherNotNull
<1>3. CASE release[s]
  <2>0. lsvc = [lsvc EXCEPT ![w] = lsvc[w]]
    BY DEF OwnInv, RefInv, TypeOK
  <2>1. LauncherMoves(w, "drop") /\ lsvc' = lsvc /\ Q' = Q
    BY <1>2, <1>3, <2>0 DEF LaunchMqRelease, LauncherMoves
  <2>2. ~reg[s]
    BY <1>1, <1>2 DEF OwnInv, LinkOK
  <2>3. LinkOK'
    BY <1>1, <1>2, <1>3, <2>1, <2>2, LauncherLinks
  <2>4. \A t \in Thread : lsvc'[t] = lsvc[t] /\ (lpc'[t] = "result" <=> lpc[t] = "result")
    BY <1>1, <2>1 DEF LauncherMoves, OwnInv, RefInv, TypeOK
  <2> QED BY <1>1, <2>1, <2>3, <2>4, QuietKeeps
<1>4. CASE ~release[s]
  <2>1. LauncherMoves(w, "none") /\ Q' = Append(Q, s)
    BY <1>2, <1>4 DEF LaunchMqRelease, LauncherMoves, EndLaunch, skynet_globalmq_push
  <2> QED BY <1>1, <1>2, <2>1, LauncherGives
<1> QED BY <1>3, <1>4

(* A message of a dead context is answered with an error.                  *)
LEMMA DropMessageOwns ==
    ASSUME OwnInv, RefInv', NEW t \in Thread, NEW s \in Service, DropMessage(t, s)
    PROVE  OwnInv'
<1>1. /\ queue[s] # << >> /\ queue' = [queue EXCEPT ![s] = Tail(@)]
      /\ UNCHANGED <<ctxVars, mq, inGlobal, release, Q, workerVars, launchVars>>
  BY DEF DropMessage
<1>2. \A x \in Service : Holds(x)' = Holds(x)
  BY <1>1, HoldsSame
<1>3. OwnsOK'
  BY <1>1, <1>2, TakeMessage
<1>4. LifeOK'
  BY <1>1 DEF OwnInv, LifeOK
<1>5. LinkOK'
  BY <1>1, LinkSame
<1> QED BY <1>3, <1>4, <1>5 DEF OwnInv

(* The queue of a dead context is freed.                                   *)
LEMMA FreedLife ==
    ASSUME OwnInv, NEW s \in Service, release[s], mq[s] # "none",
           mq' = [mq EXCEPT ![s] = "freed"], UNCHANGED <<ctx, release>>
    PROVE  LifeOK'
BY DEF OwnInv, LifeOK, RefInv, TypeOK

LEMMA LaunchDropOwns ==
    ASSUME OwnInv, RefInv', NEW w \in Worker, LaunchDrop(w)
    PROVE  OwnInv'
<1>1. lpc[w] = "drop" /\ w \in Thread
  BY DEF LaunchDrop, Thread
<1>2. PICK s \in Service : s = lsvc[w]
  BY <1>1, LauncherNotNull
<1>3. CASE DropMessage(w, s)
  BY <1>1, <1>3, DropMessageOwns
<1>4. CASE ~DropMessage(w, s)
  <2>1. /\ queue[s] = << >> /\ LauncherMoves(w, "none")
        /\ inGlobal' = [inGlobal EXCEPT ![s] = FALSE] /\ mq' = [mq EXCEPT ![s] = "freed"]
        /\ UNCHANGED <<ctxVars, queue, release, Q, workerVars>>
    BY <1>2, <1>4 DEF LaunchDrop, LauncherMoves, FreeQueue, EndLaunch
  <2>2. release[s]
    BY <1>1, <1>2 DEF OwnInv, LinkOK
  <2>3. <<"new", w>> \in Holds(s) /\ \A x \in Service \ {s} : <<"new", w>> \notin Holds(x)
    BY <1>1, <1>2 DEF Holds, HoldToken
  <2>4. mq[s] # "none"
    BY <2>3 DEF OwnInv, OwnsOK, OwnOK, Owned
  <2>5. \A x \in Service : Holds(x)' = Holds(x) \ {<<"new", w>>}
    BY <2>1, HoldsGiven
  <2>6. ASSUME NEW x \in Service \ {s} PROVE Holds(x)' = Holds(x)
    <3>1. Holds(x)' = Holds(x) \ {<<"new", w>>} /\ <<"new", w>> \notin Holds(x)
      BY <2>3, <2>5
    <3> QED BY <3>1
  <2>7. OwnsOK'
    BY <2>1, <2>3, <2>5, <2>6, LetGo
  <2>8. LifeOK'
    BY <2>1, <2>2, <2>4, FreedLife
  <2>9. LinkOK'
    BY <1>1, <1>2, <2>1, LauncherLinks
  <2> QED BY <2>7, <2>8, <2>9 DEF OwnInv
<1> QED BY <1>3, <1>4

-----------------------------------------------------------------------------
(* Steps of a worker that has or takes a queue.                            *)

(* Worker w goes to l and now has v and n in q and nq.                     *)
WorkerMoves(w, l, v, n) ==
    /\ pc' = [pc EXCEPT ![w] = l]
    /\ held' = [held EXCEPT ![w] = v]
    /\ nq' = [nq EXCEPT ![w] = n]

(* A local variable that keeps its value.                                  *)
LEMMA SameLocals ==
    ASSUME OwnInv, NEW w \in Worker
    PROVE  /\ held = [held EXCEPT ![w] = held[w]]
           /\ nq = [nq EXCEPT ![w] = nq[w]]
BY DEF OwnInv, RefInv, TypeOK

LEMMA HoldsMoved ==
    ASSUME OwnInv, NEW w \in Worker, NEW l, NEW v, NEW n, WorkerMoves(w, l, v, n),
           UNCHANGED launchVars
    PROVE  \A s \in Service, r \in HoldToken :
               r \in Holds(s)' <=> \/ r = <<"held", w>> /\ v = s
                                   \/ r = <<"nq", w>> /\ n = s
                                   \/ r \notin {<<"held", w>>, <<"nq", w>>} /\ r \in Holds(s)
<1>1. /\ held'[w] = v /\ nq'[w] = n
      /\ \A u \in Worker : u # w => held'[u] = held[u] /\ nq'[u] = nq[u]
  BY DEF WorkerMoves, OwnInv, RefInv, TypeOK
<1> QED BY <1>1 DEF Holds, HoldToken

LEMMA WorkerLinks ==
    ASSUME OwnInv, NEW w \in Worker, NEW l, NEW v, NEW n, WorkerMoves(w, l, v, n),
           UNCHANGED <<ctxVars, release, cur, launchVars>>,
           l = "idle" => v = None,
           n # None => l = "pushback",
           l \in {"pop", "length", "call", "yield", "pushback"} => v = cur[w],
           l = "drop" => release[v]
    PROVE  LinkOK'
<1>1. \A s \in Service : Launchers(s)' = Launchers(s)
  BY DEF Launchers
<1>2. ASSUME NEW u \in Worker
      PROVE  /\ pc'[u] = "idle" => held'[u] = None
             /\ nq'[u] # None => pc'[u] = "pushback"
             /\ pc'[u] \in {"pop", "length", "call", "yield", "pushback"} => held'[u] = cur'[u]
             /\ pc'[u] = "drop" => release'[held'[u]]
  <2>1. CASE u = w
    <3>1. pc'[w] = l /\ held'[w] = v /\ nq'[w] = n
      BY DEF WorkerMoves, OwnInv, RefInv, TypeOK
    <3> QED BY <2>1, <3>1
  <2>2. CASE u # w
    <3>1. pc'[u] = pc[u] /\ held'[u] = held[u] /\ nq'[u] = nq[u]
      BY <2>2 DEF WorkerMoves, OwnInv, RefInv, TypeOK
    <3> QED BY <3>1 DEF OwnInv, LinkOK
  <2> QED BY <2>1, <2>2
<1> QED BY <1>1, <1>2 DEF OwnInv, LinkOK

LEMMA GlobalMqPopOwns ==
    ASSUME OwnInv, RefInv', NEW w \in Worker, GlobalMqPop(w)
    PROVE  OwnInv'
<1>1. pc[w] = "idle" /\ Q # << >> /\ Q' = Tail(Q) /\ UNCHANGED <<ctxVars, mqVars, cur, launchVars>>
  BY DEF GlobalMqPop, At
<1>2. PICK s \in Service : s = Head(Q)
  BY <1>1, PopTyped DEF OwnInv, RefInv
<1>3. held[w] = None /\ nq[w] = None
  BY <1>1 DEF OwnInv, LinkOK
<1>4. WorkerMoves(w, "grab", s, None)
  BY <1>2, <1>3, SameLocals DEF GlobalMqPop, Goto, WorkerMoves
<1>5. \A x \in Service, r \in HoldToken :
          r \in Holds(x)' <=> \/ r = <<"held", w>> /\ s = x
                              \/ r \notin {<<"held", w>>, <<"nq", w>>} /\ r \in Holds(x)
  BY <1>1, <1>4, HoldsMoved, ConstantAssumption
<1>6. <<"held", w>> \in HoldToken
      /\ \A x \in Service : <<"held", w>> \notin Holds(x) /\ <<"nq", w>> \notin Holds(x)
  BY <1>3, ConstantAssumption DEF Holds, HoldToken, Thread
<1>7. \A x \in Service : Holds(x) \subseteq HoldToken /\ Holds(x)' \subseteq HoldToken
  BY DEF Holds
<1>8. Holds(s)' = Holds(s) \cup {<<"held", w>>}
  BY <1>5, <1>6, <1>7
<1>9. ASSUME NEW x \in Service \ {s} PROVE Holds(x)' = Holds(x)
  BY <1>5, <1>6, <1>7
<1>10. OwnsOK'
  BY <1>1, <1>2, <1>8, <1>9, TakeFromQ DEF OwnInv, RefInv, TypeOK
<1>11. LifeOK'
  BY <1>1 DEF OwnInv, LifeOK
<1>12. LinkOK'
  BY <1>1, <1>4, WorkerLinks
<1> QED BY <1>10, <1>11, <1>12 DEF OwnInv

(* A worker gives up the queue it serves.                                  *)
LEMMA HeldGone ==
    ASSUME OwnInv, NEW w \in Worker, NEW s \in Service, held[w] = s, nq[w] = None,
           NEW l, WorkerMoves(w, l, None, None), UNCHANGED launchVars
    PROVE  /\ <<"held", w>> \in Holds(s)
           /\ Holds(s)' = Holds(s) \ {<<"held", w>>}
           /\ \A x \in Service \ {s} : Holds(x)' = Holds(x)
<1>1. \A x \in Service, r \in HoldToken :
          r \in Holds(x)' <=> r \notin {<<"held", w>>, <<"nq", w>>} /\ r \in Holds(x)
  BY HoldsMoved, ConstantAssumption
<1>2. /\ <<"held", w>> \in Holds(s)
      /\ \A x \in Service : /\ <<"nq", w>> \notin Holds(x)
                            /\ x # s => <<"held", w>> \notin Holds(x)
  BY ConstantAssumption DEF Holds, HoldToken, Thread
<1>3. \A x \in Service : Holds(x) \subseteq HoldToken /\ Holds(x)' \subseteq HoldToken
  BY DEF Holds
<1>4. ASSUME NEW x \in Service \ {s} PROVE Holds(x)' = Holds(x)
  BY <1>1, <1>2, <1>3
<1> QED BY <1>1, <1>2, <1>3, <1>4

LEMMA MqReleaseOwns ==
    ASSUME OwnInv, RefInv', NEW w \in Worker, MqRelease(w)
    PROVE  OwnInv'
<1>1. /\ pc[w] = "release" /\ w \in Thread
      /\ UNCHANGED <<ctxVars, mqVars, nq, cur, launchVars>>
  BY DEF MqRelease, At, Thread
<1>2. PICK s \in Service : s = held[w]
  BY <1>1, WorkerNotNull
<1>3. nq[w] = None
  BY <1>1 DEF OwnInv, LinkOK
<1>4. CASE release[s]
  <2>1. WorkerMoves(w, "drop", s, None) /\ held' = held /\ Q' = Q
    BY <1>1, <1>2, <1>3, <1>4, SameLocals DEF MqRelease, Goto, WorkerMoves
  <2>2. LinkOK'
    BY <1>1, <1>4, <2>1, WorkerLinks
  <2> QED BY <1>1, <2>1, <2>2, QuietKeeps
<1>5. CASE ~release[s]
  <2>1. WorkerMoves(w, "idle", None, None) /\ Q' = Append(Q, s)
    BY <1>1, <1>2, <1>3, <1>5, SameLocals DEF MqRelease, Goto, WorkerMoves, skynet_globalmq_push
  <2>2. /\ <<"held", w>> \in Holds(s)
        /\ Holds(s)' = Holds(s) \ {<<"held", w>>}
        /\ \A x \in Service \ {s} : Holds(x)' = Holds(x)
    BY <1>1, <1>2, <1>3, <2>1, HeldGone
  <2>3. OwnsOK'
    BY <1>1, <2>1, <2>2, GiveToQ DEF OwnInv, RefInv, TypeOK
  <2>4. LifeOK'
    BY <1>1 DEF OwnInv, LifeOK
  <2>5. LinkOK'
    BY <1>1, <2>1, WorkerLinks
  <2> QED BY <2>3, <2>4, <2>5 DEF OwnInv
<1> QED BY <1>4, <1>5

LEMMA MqDropOwns ==
    ASSUME OwnInv, RefInv', NEW w \in Worker, MqDrop(w)
    PROVE  OwnInv'
<1>1. pc[w] = "drop" /\ w \in Thread
  BY DEF MqDrop, At, Thread
<1>2. PICK s \in Service : s = held[w]
  BY <1>1, WorkerNotNull
<1>3. CASE DropMessage(w, s)
  BY <1>1, <1>3, DropMessageOwns
<1>4. CASE ~DropMessage(w, s)
  <2>1. /\ queue[s] = << >> /\ inGlobal' = [inGlobal EXCEPT ![s] = FALSE]
        /\ mq' = [mq EXCEPT ![s] = "freed"]
        /\ UNCHANGED <<ctxVars, queue, release, Q, nq, cur, launchVars>>
    BY <1>2, <1>4 DEF MqDrop, FreeQueue
  <2>2. nq[w] = None /\ release[s]
    BY <1>1, <1>2 DEF OwnInv, LinkOK
  <2>3. WorkerMoves(w, "idle", None, None)
    BY <1>2, <1>4, <2>2, SameLocals DEF MqDrop, Goto, WorkerMoves
  <2>4. /\ <<"held", w>> \in Holds(s)
        /\ Holds(s)' = Holds(s) \ {<<"held", w>>}
        /\ \A x \in Service \ {s} : Holds(x)' = Holds(x)
    BY <1>2, <2>1, <2>2, <2>3, HeldGone
  <2>5. OwnsOK'
    BY <2>1, <2>4, LetGo
  <2>6. mq[s] # "none"
    BY <2>4 DEF OwnInv, OwnsOK, OwnOK, Owned
  <2>7. LifeOK'
    BY <2>1, <2>2, <2>6, FreedLife
  <2>8. LinkOK'
    BY <2>1, <2>3, WorkerLinks
  <2> QED BY <2>5, <2>7, <2>8 DEF OwnInv
<1> QED BY <1>3, <1>4

(* A worker's reference keeps the context, so the queue is not marked.     *)
LEMMA MqPopOwns ==
    ASSUME OwnInv, RefInv', NEW w \in Worker, MqPop(w)
    PROVE  OwnInv'
<1>1. /\ pc[w] = "pop" /\ w \in Thread
      /\ UNCHANGED <<ctxVars, mq, release, Q, nq, cur, launchVars>>
  BY DEF MqPop, At, Thread
<1>2. PICK s \in Service : s = held[w]
  BY <1>1, WorkerNotNull
<1>3. nq[w] = None /\ cur[w] = s
  BY <1>1, <1>2 DEF OwnInv, LinkOK
<1>4. LifeOK'
  BY <1>1 DEF OwnInv, LifeOK
<1>5. CASE queue[s] # << >>
  <2>1. queue' = [queue EXCEPT ![s] = Tail(@)] /\ UNCHANGED <<inGlobal, held>>
    BY <1>2, <1>5 DEF MqPop
  <2>2. PICK l \in {"length", "call"} : WorkerMoves(w, l, s, None)
    BY <1>1, <1>2, <1>3, <1>5, SameLocals DEF MqPop, Goto, WorkerMoves
  <2>3. \A x \in Service : Holds(x)' = Holds(x)
    BY <1>1, <2>1, HoldsSame
  <2>4. OwnsOK'
    BY <1>1, <1>5, <2>1, <2>3, TakeMessage
  <2>5. LinkOK'
    BY <1>1, <1>3, <2>2, WorkerLinks
  <2> QED BY <1>4, <2>4, <2>5 DEF OwnInv
<1>6. CASE queue[s] = << >>
  <2>1. inGlobal' = [inGlobal EXCEPT ![s] = FALSE] /\ UNCHANGED queue
    BY <1>2, <1>6 DEF MqPop
  <2>2. WorkerMoves(w, "unref", None, None)
    BY <1>1, <1>2, <1>3, <1>6, SameLocals DEF MqPop, Goto, WorkerMoves
  <2>3. /\ <<"held", w>> \in Holds(s)
        /\ Holds(s)' = Holds(s) \ {<<"held", w>>}
        /\ \A x \in Service \ {s} : Holds(x)' = Holds(x)
    BY <1>1, <1>2, <1>3, <2>2, HeldGone
  <2>4. ctx[s] = "live"
    BY <1>3, RefsMember DEF OwnInv, RefInv, RefCount
  <2>5. ~release[s]
    BY <2>4, LiveQueue
  <2>6. OwnsOK'
    BY <1>1, <1>6, <2>1, <2>3, <2>5, LetGo
  <2>7. LinkOK'
    BY <1>1, <2>2, WorkerLinks
  <2> QED BY <1>4, <2>6, <2>7 DEF OwnInv
<1> QED BY <1>5, <1>6

LEMMA YieldOwns ==
    ASSUME OwnInv, RefInv', NEW w \in Worker, Yield(w)
    PROVE  OwnInv'
<1>1. /\ pc[w] = "yield" /\ w \in Thread
      /\ UNCHANGED <<ctxVars, mqVars, held, cur, launchVars>>
  BY DEF Yield, At, Thread
<1>2. PICK h \in Service : h = held[w]
  BY <1>1, WorkerNotNull
<1>3. nq[w] = None /\ cur[w] = h
  BY <1>1, <1>2 DEF OwnInv, LinkOK
<1>4. CASE Q = << >>
  <2>1. WorkerMoves(w, "unref", h, None) /\ UNCHANGED <<Q, nq>>
    BY <1>1, <1>2, <1>3, <1>4, SameLocals DEF Yield, Goto, WorkerMoves
  <2>2. LinkOK'
    BY <1>1, <2>1, WorkerLinks
  <2> QED BY <1>1, <2>1, <2>2, QuietKeeps
<1>5. CASE Q # << >>
  <2>1. PICK s \in Service : s = Head(Q)
    BY <1>5, PopTyped DEF OwnInv, RefInv
  <2>2. WorkerMoves(w, "pushback", h, s) /\ Q' = Tail(Q)
    BY <1>1, <1>2, <1>5, <2>1, SameLocals DEF Yield, Goto, WorkerMoves
  <2>3. \A x \in Service, r \in HoldToken :
            r \in Holds(x)' <=> \/ r = <<"held", w>> /\ h = x
                                \/ r = <<"nq", w>> /\ s = x
                                \/ r \notin {<<"held", w>>, <<"nq", w>>} /\ r \in Holds(x)
    BY <1>1, <2>2, HoldsMoved
  <2>4. /\ <<"held", w>> \in HoldToken /\ <<"nq", w>> \in HoldToken
        /\ \A x \in Service : /\ <<"held", w>> \in Holds(x) <=> h = x
                              /\ <<"nq", w>> \notin Holds(x)
    BY <1>2, <1>3, ConstantAssumption DEF Holds, HoldToken, Thread
  <2>5. \A x \in Service : Holds(x) \subseteq HoldToken /\ Holds(x)' \subseteq HoldToken
    BY DEF Holds
  <2>6. Holds(s)' = Holds(s) \cup {<<"nq", w>>}
    BY <2>3, <2>4, <2>5
  <2>7. ASSUME NEW x \in Service \ {s} PROVE Holds(x)' = Holds(x)
    BY <2>3, <2>4, <2>5
  <2>8. OwnsOK'
    BY <1>1, <1>5, <2>1, <2>2, <2>6, <2>7, TakeFromQ DEF OwnInv, RefInv, TypeOK
  <2>9. LifeOK'
    BY <1>1 DEF OwnInv, LifeOK
  <2>10. LinkOK'
    BY <1>1, <1>3, <2>2, WorkerLinks
  <2> QED BY <2>8, <2>9, <2>10 DEF OwnInv
<1> QED BY <1>4, <1>5

(* The queue served goes to the global queue, the queue taken is now the   *)
(* worker's: two services, since one service never has two owners.         *)
LEMMA PushBackOwns ==
    ASSUME OwnInv, RefInv', NEW w \in Worker, PushBack(w)
    PROVE  OwnInv'
<1>1. /\ pc[w] = "pushback" /\ w \in Thread
      /\ UNCHANGED <<ctxVars, mqVars, cur, launchVars>>
  BY DEF PushBack, At, Thread
<1>2. PICK s \in Service : s = held[w]
  BY <1>1, WorkerNotNull
<1>3. PICK n \in Service : n = nq[w]
  BY <1>1, WorkerNotNull
<1>4. WorkerMoves(w, "unref", n, None) /\ Q' = Append(Q, s)
  BY <1>1, <1>2, <1>3 DEF PushBack, Goto, WorkerMoves, skynet_globalmq_push
<1>5. /\ <<"held", w>> \in Holds(s) /\ <<"nq", w>> \in Holds(n)
      /\ <<"held", w>> # <<"nq", w>>
  BY <1>1, <1>2, <1>3 DEF Holds, HoldToken
<1>6. /\ Holds(s) = {<<"held", w>>} /\ Holds(n) = {<<"nq", w>>} /\ s # n
      /\ ~InQ(s) /\ ~InQ(n)
  BY <1>5 DEF OwnInv, OwnsOK, OwnOK
<1>7. Once' /\ \A x : InQ(x)' <=> InQ(x) \/ x = s
  BY <1>4, <1>6, QPush DEF OwnInv, OwnsOK, RefInv, TypeOK
<1>8. \A x \in Service, r \in HoldToken :
          r \in Holds(x)' <=> \/ r = <<"held", w>> /\ n = x
                              \/ r \notin {<<"held", w>>, <<"nq", w>>} /\ r \in Holds(x)
  BY <1>1, <1>4, HoldsMoved, ConstantAssumption
<1>9. \A x \in Service : Holds(x) \subseteq HoldToken /\ Holds(x)' \subseteq HoldToken
  BY DEF Holds
<1>10. Holds(s)' = {} /\ Holds(n)' = {<<"held", w>>}
  BY <1>5, <1>6, <1>8, <1>9
<1>11. ASSUME NEW x \in Service, x # s, x # n PROVE Holds(x)' = Holds(x)
  <2>1. <<"held", w>> \notin Holds(x) /\ <<"nq", w>> \notin Holds(x)
    BY <1>2, <1>3, <1>11 DEF Holds
  <2> QED BY <1>8, <1>9, <1>11, <2>1
<1>12. ASSUME NEW x \in Service PROVE OwnOK(x)'
  <2>1. CASE x = s
    BY <1>1, <1>5, <1>7, <1>10, <2>1 DEF OwnInv, OwnsOK, OwnOK, Owned
  <2>2. CASE x = n
    <3>1. Owned(n) /\ Owned(n)' /\ ~InQ(n)'
      BY <1>5, <1>6, <1>7, <1>10 DEF Owned
    <3> QED BY <1>1, <1>10, <2>2, <3>1 DEF OwnInv, OwnsOK, OwnOK
  <2>3. CASE x # s /\ x # n
    <3>1. Holds(x)' = Holds(x) /\ (InQ(x)' <=> InQ(x))
      BY <1>7, <1>11, <2>3
    <3> QED BY <1>1, <3>1 DEF OwnInv, OwnsOK, OwnOK, Owned
  <2> QED BY <2>1, <2>2, <2>3
<1>13. LifeOK'
  BY <1>1 DEF OwnInv, LifeOK
<1>14. LinkOK'
  BY <1>1, <1>4, WorkerLinks
<1> QED BY <1>7, <1>12, <1>13, <1>14 DEF OwnInv, OwnsOK

-----------------------------------------------------------------------------
(* The invariant, and what follows from it.                                *)

LEMMA OwnInvInit == Init => OwnInv
<1> SUFFICES ASSUME Init PROVE OwnInv
  OBVIOUS
<1> DEFINE n == Cardinality(Boot)
<1>1. /\ n \in Nat /\ IsFiniteSet(1 .. n) /\ Cardinality(1 .. n) = n
  <2>1. n \in Nat
    BY ConstantAssumption, FS_CardinalityType
  <2>2. IsFiniteSet(1 .. n) /\ Cardinality(1 .. n) = IF 1 > n THEN 0 ELSE n - 1 + 1
    BY <2>1, FS_Interval
  <2> QED BY <2>1, <2>2
<1>2. Q \in [1 .. n -> Boot] /\ \A i, j \in 1 .. n : Q[i] = Q[j] => i = j
  BY DEF Init
<1>3. Q \in Injection(1 .. n, Boot)
  BY <1>2 DEF Injection, IsInjective
<1>4. Q \in Surjection(1 .. n, Boot)
  BY <1>1, <1>3, ConstantAssumption, FS_Injection
<1>5. Len(Q) = n
  BY <1>1, <1>2
<1>6. Once
  BY <1>2, <1>5 DEF Once
<1>7. \A s \in Service : InQ(s) <=> s \in Boot
  BY <1>2, <1>4, <1>5 DEF InQ, Surjection
<1>8. \A s \in Service : Holds(s) = {}
  <2>1. /\ \A w \in Worker : held[w] = None /\ nq[w] = None
        /\ \A t \in Thread : lsvc[t] = None
    BY DEF Init
  <2> QED BY <2>1, ConstantAssumption DEF Holds, HoldToken
<1>9. OwnsOK
  BY <1>6, <1>7, <1>8 DEF Init, OwnsOK, OwnOK, Owned
<1>10. LifeOK
  BY DEF Init, LifeOK
<1>11. LinkOK
  BY DEF Init, LinkOK
<1> QED BY <1>9, <1>10, <1>11, RefInvInit DEF OwnInv

LEMMA OwnInvStep == OwnInv /\ [Next]_vars => OwnInv'
<1> SUFFICES ASSUME OwnInv, [Next]_vars PROVE OwnInv'
  OBVIOUS
<1>0. RefInv'
  BY RefInvStep DEF OwnInv
<1>1. CASE Choice
  <2>1. Worker \subseteq Thread /\ Monitor \subseteq Thread
    BY DEF Thread
  <2> QED BY <1>0, <1>1, <2>1, ChoiceOwns, LaunchOwns DEF Choice
<1>2. CASE \E t \in Thread : OpStep(t)
  BY <1>0, <1>2, OpOwns, MqPushOwns, DeleteContextOwns DEF OpStep
<1>3. CASE \E w \in Worker : LaunchStep(w)
  BY <1>0, <1>3, LaunchInitOwns, LaunchSetInitOwns, LaunchPublishOwns, LaunchResultOwns,
     LaunchRetireOwns, LaunchMqReleaseOwns, LaunchDropOwns DEF LaunchStep
<1>4. CASE \E w \in Worker : DispatchStep(w)
  BY <1>0, <1>4, GlobalMqPopOwns, DispatchGrabOwns, MqReleaseOwns, MqDropOwns, MqPopOwns,
     WorkerOwns, YieldOwns, PushBackOwns DEF DispatchStep
<1>5. CASE UNCHANGED vars
  <2>1. \A s \in Service : Launchers(s)' = Launchers(s)
    BY <1>5 DEF vars, Launchers
  <2>2. LinkOK'
    BY <1>5, <2>1 DEF vars, OwnInv, LinkOK
  <2> QED BY <1>0, <1>5, <2>2, QuietKeeps DEF vars
<1> QED BY <1>1, <1>2, <1>3, <1>4, <1>5 DEF Next

LEMMA OwnersAre ==
    ASSUME NEW s \in Service, Q \in Seq(Service)
    PROVE  Owners(s) = {<<"Q", i>> : i \in {j \in 1 .. Len(Q) : Q[j] = s}} \cup Holds(s)
<1>1. DOMAIN Q = 1 .. Len(Q)
  OBVIOUS
<1>2. Holds(s) = {<<"held", w>> : w \in {v \in Worker : held[v] = s}}
                 \cup {<<"nq", w>> : w \in {v \in Worker : nq[v] = s}}
                 \cup {<<"new", t>> : t \in {u \in Thread : lsvc[u] = s /\ lpc[u] # "result"}}
  BY DEF Holds, HoldToken, Thread
<1> QED BY <1>1, <1>2 DEF Owners

LEMMA OneOwner ==
    ASSUME OwnInv, NEW s \in Service
    PROVE  /\ \A a, b \in Owners(s) : a = b
           /\ Owners(s) # {} <=> Owned(s)
<1>1. Q \in Seq(Service) /\ Once /\ OwnOK(s)
  BY DEF OwnInv, RefInv, TypeOK, OwnsOK
<1> DEFINE Places == {<<"Q", i>> : i \in {j \in 1 .. Len(Q) : Q[j] = s}}
<1>2. Owners(s) = Places \cup Holds(s)
  BY <1>1, OwnersAre
<1>3. Places # {} <=> InQ(s)
  BY DEF InQ
<1>4. \A a, b \in Places : a = b
  BY <1>1 DEF Once
<1>5. \A a, b \in Holds(s) : a = b
  BY <1>1 DEF OwnOK
<1>6. Places = {} \/ Holds(s) = {}
  BY <1>1, <1>3 DEF OwnOK
<1> HIDE DEF Places
<1> QED BY <1>2, <1>3, <1>4, <1>5, <1>6 DEF Owned

(* Whoever runs the code of a service has its queue.                       *)
LEMMA OneRuns ==
    ASSUME OwnInv, NEW s \in Service
    PROVE  Cardinality(Running(s)) <= 1
<1> DEFINE Called == {w \in Worker : pc[w] = "call" /\ cur[w] = s}
           Inits  == {t \in Thread : lpc[t] = "init" /\ lsvc[t] = s}
<1>1. \A w \in Called : w \in Worker /\ <<"held", w>> \in Holds(s)
  BY DEF OwnInv, LinkOK, Holds, HoldToken, Thread
<1>2. \A t \in Inits : <<"new", t>> \in Holds(s)
  BY DEF Holds, HoldToken
<1>3. \A a, b \in Holds(s) : a = b
  BY DEF OwnInv, OwnsOK, OwnOK
<1>4. \A w, v \in Called : w = v
  <2> SUFFICES ASSUME NEW w \in Called, NEW v \in Called PROVE w = v
    OBVIOUS
  <2>1. <<"held", w>> = <<"held", v>>
    BY <1>1, <1>3
  <2> QED BY <2>1
<1>5. \A t, u \in Inits : t = u
  <2> SUFFICES ASSUME NEW t \in Inits, NEW u \in Inits PROVE t = u
    OBVIOUS
  <2>1. <<"new", t>> = <<"new", u>>
    BY <1>2, <1>3
  <2> QED BY <2>1
<1>6. Called = {} \/ Inits = {}
  <2> SUFFICES ASSUME NEW w \in Called, NEW t \in Inits PROVE FALSE
    OBVIOUS
  <2>1. <<"held", w>> = <<"new", t>>
    BY <1>1, <1>2, <1>3
  <2> QED BY <2>1
<1>7. Running(s) = Called \cup Inits
  BY DEF Running
<1> HIDE DEF Called, Inits
<1>8. \A a, b \in Running(s) : a = b
  BY <1>4, <1>5, <1>6, <1>7
<1>9. CASE Running(s) = {}
  BY <1>9, FS_EmptySet
<1>10. ASSUME NEW a \in Running(s) PROVE Cardinality(Running(s)) <= 1
  <2>1. Running(s) = {a}
    BY <1>8, <1>10
  <2>2. Cardinality({a}) = 1
    BY FS_Singleton
  <2> QED BY <2>1, <2>2
<1> QED BY <1>9, <1>10

(* A queue has one owner exactly when in_global or release says so and     *)
(* never two, so no queue is lost, linked twice or served by two workers,  *)
(* and no service runs on two threads.                                     *)
THEOREM OneOwnerOnly == Spec => []SingleOwner
<1>1. OwnInv => SingleOwner
  <2> SUFFICES ASSUME OwnInv, NEW s \in Service
               PROVE  /\ \A a, b \in Owners(s) : a = b
                      /\ mq[s] = "live" => (Owners(s) # {} <=> inGlobal[s] \/ release[s])
                      /\ mq[s] # "live" => Owners(s) = {}
                      /\ queue[s] # << >> => Owners(s) # {}
                      /\ Cardinality(Running(s)) <= 1
    BY DEF SingleOwner
  <2>1. OwnOK(s)
    BY DEF OwnInv, OwnsOK
  <2>2. (\A a, b \in Owners(s) : a = b) /\ (Owners(s) # {} <=> Owned(s))
    BY OneOwner
  <2>3. Cardinality(Running(s)) <= 1
    BY OneRuns
  <2> QED BY <2>1, <2>2, <2>3 DEF OwnOK
<1> QED BY OwnInvInit, OwnInvStep, <1>1, PTL DEF Spec

(* dispatch_message never finds an uninitialised context, a worker always  *)
(* serves the queue of the context it holds, and skynet_mq_push and        *)
(* skynet_mq_mark_release get a queue that is not freed nor marked.        *)
THEOREM DispatchAsserts == Spec => []AssertionsHold
<1>1. OwnInv => AssertionsHold
  <2> SUFFICES ASSUME OwnInv PROVE AssertionsHold
    OBVIOUS
  <2>1. ASSUME NEW w \in Worker
        PROVE  /\ pc[w] = "call" => inited[cur[w]]
               /\ pc[w] \in {"pop", "length", "call", "yield", "pushback"} => held[w] = cur[w]
    <3>1. pc[w] = "call" => cur[w] # None
      BY DEF OwnInv, RefInv, LocalOK, CtxPc
    <3> QED BY <3>1 DEF OwnInv, LinkOK
  <2>2. ASSUME NEW t \in Thread, deleting[t] # None
        PROVE  mq[deleting[t]] = "live" /\ ~release[deleting[t]]
    <3>1. PICK s \in Service : s = deleting[t]
      BY <2>2 DEF OwnInv, RefInv, TypeOK
    <3>2. ctx[s] = "live"
      BY <3>1 DEF OwnInv, RefInv, RefCount
    <3> QED BY <3>1, <3>2, LiveQueue
  <2>3. ASSUME NEW t \in Thread, opc[t] = "push" PROVE mq[osvc[t]] = "live"
    <3>1. osvc[t] \in Service \cup {None} /\ osvc[t] # None
      BY <2>3 DEF OwnInv, RefInv, TypeOK, LocalOK
    <3>2. PICK s \in Service : s = osvc[t]
      BY <3>1
    <3>3. ctx[s] = "live"
      BY <2>3, <3>2, RefsMember DEF OwnInv, RefInv, RefCount
    <3> QED BY <3>2, <3>3, LiveQueue
  <2> QED BY <2>1, <2>2, <2>3 DEF AssertionsHold
<1> QED BY OwnInvInit, OwnInvStep, <1>1, PTL DEF Spec
=============================================================================
