------------------------------- MODULE Timer -------------------------------
(***************************************************************************)
(* The timing wheel of skynet-src/skynet_timer.c.  Worker threads call     *)
(* skynet_timeout, which links a node into the wheel under the spinlock    *)
(* of struct timer; the timer thread calls skynet_updatetime, which runs   *)
(* timer_update once for every centisecond that has passed.                *)
(*                                                                         *)
(* The wheel has TIME_NEAR lists for the ticks of the current near block   *)
(* (level NEAR here) and four levels of TIME_LEVEL lists, t[0] .. t[3],    *)
(* for ever larger blocks.  The tick counter is a uint32_t; here it wraps  *)
(* at Period, which the code's sizes 2^8 and 2^6 make 2^32, so the wrap is *)
(* part of every behaviour.  A delay is a positive int, hence less than    *)
(* Period / 2.                                                             *)
(*                                                                         *)
(* wait and order are history variables: the ticks each pending node still *)
(* has to wait, and the pending nodes in the order they were added.        *)
(***************************************************************************)
EXTENDS Integers, SequencesExt, FiniteSets

CONSTANTS Node,         \* timer nodes that may be pending at once
          TIME_NEAR,    \* 1 << 8 in the code
          TIME_LEVEL,   \* 1 << 6 in the code
          MaxTicks      \* bound: ticks one skynet_updatetime catches up

ASSUME TimerAssumption ==
    /\ IsFiniteSet(Node)
    /\ TIME_NEAR \in Nat \ {0, 1}
    /\ TIME_LEVEL \in Nat \ {0, 1}
    /\ MaxTicks \in Nat \ {0}

VARIABLES
    time,     \* T->time, the tick counter
    wheel,    \* T->near and T->t: slot -> sequence of nodes
    expire,   \* node->expire
    lock,     \* the timer thread holds T->lock
    pc,       \* timer thread: "loop", or in timer_execute "before" or "after"
              \* timer_shift
    todo,     \* iterations left of the loop of skynet_updatetime
    running,  \* the list timer_execute has taken and dispatch_list walks
    wait,     \* history: ticks a pending node has to wait, -1 when overdue
    order     \* history: pending nodes in the order of timer_add

vars == <<time, wheel, expire, lock, pc, todo, running, wait, order>>

NEAR == -1

\* The ticks one list of level i stands for: the level below, TIME_LEVEL times.
Span(i) ==
    LET span[k \in 0 .. 4] == IF k = 0 THEN TIME_NEAR ELSE span[k - 1] * TIME_LEVEL
    IN span[i]
Period == Span(4)
MaxDelay == (Period \div 2) - 1

Slot == ({NEAR} \X (0 .. TIME_NEAR - 1)) \cup ((0 .. 3) \X (0 .. TIME_LEVEL - 1))

Pending == Range(order)

----------------------------------------------------------------------------
\* mutant: the near lists are used for the block of a level-0 list
SlotTooLow(e, now) ==
    IF e \div Span(1) = now \div Span(1)
    THEN <<NEAR, e % TIME_NEAR>>
    ELSE LET i == CHOOSE i \in 0 .. 3 :
                    /\ i = 3 \/ e \div Span(i + 1) = now \div Span(i + 1)
                    /\ \A j \in 0 .. i - 1 :
                         e \div Span(j + 1) # now \div Span(j + 1)
         IN <<i, (e \div Span(i)) % TIME_LEVEL>>

\* add_node: the near list when e is in the current near block, otherwise
\* the first level whose enclosing block holds both e and now.
SlotFor(e, now) ==
    IF e \div TIME_NEAR = now \div TIME_NEAR
    THEN <<NEAR, e % TIME_NEAR>>
    ELSE LET i == CHOOSE i \in 0 .. 3 :
                    /\ i = 3 \/ e \div Span(i + 1) = now \div Span(i + 1)
                    /\ \A j \in 0 .. i - 1 :
                         e \div Span(j + 1) # now \div Span(j + 1)
         IN <<i, (e \div Span(i)) % TIME_LEVEL>>

\* mutant: the node goes to the head of the list
LinkFront(w, s, n) == [w EXCEPT ![s] = <<n>> \o @]

link(w, s, n) == [w EXCEPT ![s] = Append(@, n)]

add_node(w, n, e, now) == link(w, SlotFor(e, now), n)

\* The wheel when the first k nodes of the list s have been linked into it again.
Relinked(w, s, now, cleared) ==
    LET moved[k \in 0 .. Len(w[s])] ==
          IF k = 0 THEN cleared
          ELSE add_node(moved[k - 1], w[s][k], expire[w[s][k]], now)
    IN moved[Len(w[s])]

\* mutant: the list is not cleared
MoveUncleared(w, s, now) == Relinked(w, s, now, w)

\* Redistribute the list s at tick now, first node first.
move_list(w, s, now) == Relinked(w, s, now, [w EXCEPT ![s] = <<>>])

\* mutant: no branch for a counter that has wrapped to 0
ShiftedNoWrap(ct) ==
    {s \in Slot : /\ ct # 0
                  /\ s[1] # NEAR
                  /\ ct % Span(s[1]) = 0
                  /\ s[2] = (ct \div Span(s[1])) % TIME_LEVEL
                  /\ s[2] # 0}

\* timer_shift: the one list to redistribute when the counter becomes ct, if
\* any: the lowest level whose digit of ct is not 0, all lower digits being 0.
ShiftedLists(ct) ==
    IF ct = 0
    THEN {<<3, 0>>}
    ELSE {s \in Slot : /\ s[1] # NEAR
                       /\ ct % Span(s[1]) = 0
                       /\ s[2] = (ct \div Span(s[1])) % TIME_LEVEL
                       /\ s[2] # 0}

\* The tick d from now.
TickAfter(d) == (time + d) % Period

NearNow == <<NEAR, time % TIME_NEAR>>

----------------------------------------------------------------------------
\* timer_create_timer
Init ==
    /\ time = 0
    /\ wheel = [s \in Slot |-> <<>>]
    /\ expire = [n \in Node |-> 0]
    /\ lock = FALSE
    /\ pc = "loop"
    /\ todo = 0
    /\ running = <<>>
    /\ wait = [n \in Node |-> 0]
    /\ order = <<>>

\* A worker's skynet_timeout with a positive delay: timer_add, one critical
\* section of T->lock.
timer_add(n, delay) ==
    /\ ~lock
    /\ n \notin Pending
    /\ LET e == TickAfter(delay)
       IN /\ expire' = [expire EXCEPT ![n] = e]
          /\ wheel' = add_node(wheel, n, e, time)
    /\ wait' = [wait EXCEPT ![n] = delay]
    /\ order' = Append(order, n)
    /\ UNCHANGED <<time, lock, pc, todo, running>>

\* The timer thread finds that the clock has moved on by diff centiseconds.
\* A clock that stands still or goes back runs no timer_update.
skynet_updatetime(diff) ==
    /\ pc = "loop" /\ todo = 0
    /\ todo' = diff
    /\ UNCHANGED <<time, wheel, expire, lock, pc, running, wait, order>>

\* timer_update takes the lock.
BeginUpdate ==
    /\ pc = "loop" /\ todo > 0
    /\ pc' = "before"
    /\ lock' = TRUE
    /\ todo' = todo - 1
    /\ UNCHANGED <<time, wheel, expire, running, wait, order>>

\* timer_execute finds the list of this tick non-empty: it takes the whole
\* list and gives up the lock.
Execute ==
    /\ lock
    /\ wheel[NearNow] # <<>>
    /\ running' = wheel[NearNow]
    /\ wheel' = [wheel EXCEPT ![NearNow] = <<>>]
    /\ lock' = FALSE
    /\ UNCHANGED <<time, expire, pc, todo, wait, order>>

\* dispatch_list sends the response for its first node and frees the node;
\* the lock is not held.
dispatch_list ==
    /\ running # <<>>
    /\ running' = Tail(running)
    /\ order' = RemoveFirst(order, Head(running))
    /\ expire' = [expire EXCEPT ![Head(running)] = 0]
    /\ wait' = [wait EXCEPT ![Head(running)] = 0]
    /\ UNCHANGED <<time, wheel, lock, pc, todo>>

\* Timer thread: the list is done, take the lock again.
Relock ==
    /\ pc # "loop" /\ ~lock /\ running = <<>>
    /\ lock' = TRUE
    /\ UNCHANGED <<time, wheel, expire, pc, todo, running, wait, order>>

\* The first timer_execute has nothing (more) to do: timer_shift.
timer_shift ==
    /\ pc = "before" /\ lock
    /\ wheel[NearNow] = <<>>
    /\ LET ct == TickAfter(1)
           lists == ShiftedLists(ct)
       IN /\ time' = ct
          /\ wheel' = IF lists = {} THEN wheel
                      ELSE move_list(wheel, CHOOSE s \in lists : TRUE, ct)
    /\ wait' = [n \in Node |-> IF n \in Pending /\ wait[n] >= 0 THEN wait[n] - 1
                            ELSE wait[n]]
    /\ pc' = "after"
    /\ UNCHANGED <<expire, lock, todo, running, order>>

\* The second timer_execute has nothing (more) to do: timer_update returns.
EndUpdate ==
    /\ pc = "after" /\ lock
    /\ wheel[NearNow] = <<>>
    /\ pc' = "loop"
    /\ lock' = FALSE
    /\ UNCHANGED <<time, wheel, expire, todo, running, wait, order>>

TimerThread ==
    \/ \E diff \in 1 .. MaxTicks : skynet_updatetime(diff)
    \/ BeginUpdate
    \/ Execute
    \/ dispatch_list
    \/ Relock
    \/ timer_shift
    \/ EndUpdate

Next ==
    \/ \E n \in Node, delay \in 1 .. MaxDelay : timer_add(n, delay)
    \/ TimerThread

\* The timer thread keeps running and the clock keeps advancing.
FairSpec == Init /\ [][Next]_vars /\ WF_vars(TimerThread)

----------------------------------------------------------------------------
TypeOK ==
    /\ time \in 0 .. Period - 1
    /\ DOMAIN wheel = Slot
    /\ \A s \in Slot : Range(wheel[s]) \subseteq Node
    /\ expire \in [Node -> 0 .. Period - 1]
    /\ lock \in BOOLEAN
    /\ pc \in {"loop", "before", "after"}
    /\ todo \in 0 .. MaxTicks
    /\ Range(running) \subseteq Node
    /\ wait \in [Node -> Int]
    /\ Range(order) \subseteq Node

\* The times node n stands in a list of the wheel or in the running list.
Places(n) ==
    Cardinality({p \in Slot \X (1 .. Cardinality(Node)) :
                    p[2] \in DOMAIN wheel[p[1]] /\ wheel[p[1]][p[2]] = n})
    + Cardinality({k \in DOMAIN running : running[k] = n})

(***************************************************************************)
(* The wheel neither loses nor doubles a timer: a node that was added and  *)
(* not yet dispatched is linked into exactly one list, any other node into *)
(* none (add_node, move_list, and the list that timer_execute takes while  *)
(* workers add to the same slot).  With it the types of the variables.     *)
(***************************************************************************)
LinkedOnce == TypeOK /\ \A n \in Node : Places(n) = IF n \in Pending THEN 1 ELSE 0

(***************************************************************************)
(* A timer fires at the tick it was set for, across every redistribution   *)
(* and the wrap of the counter: it is dispatched exactly after delay runs  *)
(* of timer_shift, and no timer_update ends with a due node left behind.   *)
(***************************************************************************)
OnTime ==
    \A n \in Pending : /\ wait[n] >= 0
                       /\ n \in Range(running) => wait[n] = 0
                       /\ wait[n] = 0 => pc = "after"

(***************************************************************************)
(* Two timers due at the same tick are dispatched in the order they were   *)
(* added, even when the wheel held them in different levels (the lists are *)
(* linked at the tail and move_list keeps their order).                    *)
(***************************************************************************)
FifoWhenTied ==
    [][running # <<>> /\ running' = Tail(running) =>
         \A m \in Pending \ {Head(running)} :
            wait[m] = wait[Head(running)] =>
              \E i, j \in DOMAIN order :
                 i < j /\ order[i] = Head(running) /\ order[j] = m]_vars

(***************************************************************************)
(* A timer is not forgotten: skynet_updatetime catches up with the clock,  *)
(* and dispatch_list reaches every node, whatever workers add meanwhile.   *)
(***************************************************************************)
Fires == \A n \in Node : n \in Pending ~> n \notin Pending
=============================================================================
