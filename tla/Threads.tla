------------------------------ MODULE Threads ------------------------------
(***************************************************************************)
(* The threads of skynet-src/skynet_start.c: workers that sleep on a       *)
(* condition variable when the global queue is empty, the timer and socket *)
(* threads that wake them, and the shutdown that starts when the last      *)
(* context is gone.  What a worker does with a queue is module Dispatch;   *)
(* here a turn takes a queue, may push others, and may put its own back.   *)
(*                                                                         *)
(* m->sleep is read without the mutex by wakeup, and wakeup signals        *)
(* without it, so each access is a step of its own.  pthread_cond_wait     *)
(* releases the mutex and starts waiting in one step; a waiter may wake    *)
(* without a signal.                                                       *)
(***************************************************************************)
EXTENDS Integers, FiniteSets, SequencesExt

CONSTANTS
    Worker,
    Looping,    \* workers whose callback may never return
    Queue,      \* message queues
    None

ASSUME ThreadAssumption ==
    /\ IsFiniteSet(Worker)
    /\ Looping \subseteq Worker
    /\ Looping # Worker
    /\ None \notin Worker

VARIABLES
    global,     \* the global queue
    total,      \* skynet_context_total() # 0
    mutex,      \* m->mutex: its holder
    waiters,    \* workers blocked in pthread_cond_wait, not yet woken
    sleep,      \* m->sleep
    quit,       \* m->quit
    pc,         \* worker -> where it is
    turn,       \* worker -> the queue it runs
    timer, socket, monitor, \* where the other threads are
    exitcmd     \* skynet_socket_exit has been called

thread_vars == <<global, total, mutex, waiters, sleep, quit, pc, turn, timer,
                 socket, monitor, exitcmd>>

count == Cardinality(Worker)
Owned == Range(global) \cup {turn[w] : w \in Worker}

start ==
    /\ global = <<>>
    /\ total = TRUE
    /\ mutex = None
    /\ waiters = {}
    /\ sleep = 0
    /\ quit = FALSE
    /\ pc = [w \in Worker |-> "loop"]
    /\ turn = [w \in Worker |-> None]
    /\ timer = "update"
    /\ socket = "poll"
    /\ monitor = "check"
    /\ exitcmd = FALSE

\* A message for a queue that is neither global nor being run makes it global.
Push ==
    /\ total
    /\ \E q \in Queue \ Owned : global' = Append(global, q)

----------------------------------------------------------------------------
\* thread_worker: while (!m->quit)
Loop(w) ==
    /\ pc[w] = "loop"
    /\ pc' = [pc EXCEPT ![w] = IF quit THEN "done" ELSE "dispatch"]
    /\ UNCHANGED <<global, total, mutex, waiters, sleep, quit, turn, timer,
                   socket, monitor, exitcmd>>

\* skynet_context_message_dispatch gets a queue, or none.
Dispatch(w) ==
    /\ pc[w] = "dispatch"
    /\ \/ /\ global # <<>>
          /\ global' = Tail(global)
          /\ turn' = [turn EXCEPT ![w] = Head(global)]
          /\ pc' = [pc EXCEPT ![w] = "run"]
       \/ /\ global = <<>>
          /\ pc' = [pc EXCEPT ![w] = "lock"]
          /\ UNCHANGED <<global, turn>>
    /\ UNCHANGED <<total, mutex, waiters, sleep, quit, timer, socket, monitor,
                   exitcmd>>

\* A callback sends to another service.
CallbackSend(w) ==
    /\ pc[w] = "run"
    /\ Push
    /\ UNCHANGED <<total, mutex, waiters, sleep, quit, pc, turn, timer, socket,
                   monitor, exitcmd>>

\* The turn ends: the queue goes back when it is not empty, or its service
\* was the last one.  A context that runs a callback is counted in total.
EndTurn(w) ==
    /\ pc[w] = "run"
    /\ pc' = [pc EXCEPT ![w] = "loop"]
    /\ turn' = [turn EXCEPT ![w] = None]
    /\ \/ total /\ global' = Append(global, turn[w]) /\ UNCHANGED total
       \/ UNCHANGED <<global, total>>
       \/ /\ total /\ \A v \in Worker \ {w} : pc[v] # "run"
          /\ total' = FALSE
          /\ UNCHANGED global
    /\ UNCHANGED <<mutex, waiters, sleep, quit, timer, socket, monitor, exitcmd>>

\* pthread_mutex_lock and ++m->sleep
SleepLock(w) ==
    /\ pc[w] = "lock" /\ mutex = None
    /\ mutex' = w
    /\ sleep' = sleep + 1
    /\ pc' = [pc EXCEPT ![w] = "test"]
    /\ UNCHANGED <<global, total, waiters, quit, turn, timer, socket, monitor,
                   exitcmd>>

\* if (!m->quit)
SleepTest(w) ==
    /\ pc[w] = "test"
    /\ pc' = [pc EXCEPT ![w] = IF quit THEN "awake" ELSE "wait"]
    /\ UNCHANGED <<global, total, mutex, waiters, sleep, quit, turn, timer,
                   socket, monitor, exitcmd>>

\* pthread_cond_wait gives up the mutex
CondWait(w) ==
    /\ pc[w] = "wait"
    /\ waiters' = waiters \cup {w}
    /\ mutex' = None
    /\ pc' = [pc EXCEPT ![w] = "waiting"]
    /\ UNCHANGED <<global, total, sleep, quit, turn, timer, socket, monitor,
                   exitcmd>>

SpuriousWakeup(w) ==
    /\ w \in waiters
    /\ waiters' = waiters \ {w}
    /\ UNCHANGED <<global, total, mutex, sleep, quit, pc, turn, timer, socket,
                   monitor, exitcmd>>

\* pthread_cond_wait returns with the mutex
CondReturn(w) ==
    /\ pc[w] = "waiting" /\ w \notin waiters /\ mutex = None
    /\ mutex' = w
    /\ pc' = [pc EXCEPT ![w] = "awake"]
    /\ UNCHANGED <<global, total, waiters, sleep, quit, turn, timer, socket,
                   monitor, exitcmd>>

\* mutant: a woken worker is still counted as asleep
StillAsleep(w) ==
    /\ pc[w] = "awake"
    /\ mutex' = None
    /\ pc' = [pc EXCEPT ![w] = "loop"]
    /\ UNCHANGED <<global, total, waiters, sleep, quit, turn, timer, socket,
                   monitor, exitcmd>>

\* --m->sleep and pthread_mutex_unlock
Awake(w) ==
    /\ pc[w] = "awake"
    /\ sleep' = sleep - 1
    /\ mutex' = None
    /\ pc' = [pc EXCEPT ![w] = "loop"]
    /\ UNCHANGED <<global, total, waiters, quit, turn, timer, socket, monitor,
                   exitcmd>>

----------------------------------------------------------------------------
\* mutant: one sleeper too many is asked for
WakeWhenMore(busy) == sleep > count - busy

\* wakeup: the test of m->sleep
WakeNeeded(busy) == sleep >= count - busy

\* pthread_cond_signal wakes one waiter, if there is any.
Signal == IF waiters = {} THEN UNCHANGED waiters
          ELSE \E w \in waiters : waiters' = waiters \ {w}

\* thread_timer: skynet_updatetime, which may push expired timers.
TimerUpdate ==
    /\ timer = "update"
    /\ timer' = "check"
    /\ Push \/ UNCHANGED global
    /\ UNCHANGED <<total, mutex, waiters, sleep, quit, pc, turn, socket,
                   monitor, exitcmd>>

\* CHECK_ABORT, then the test of wakeup(m, m->count - 1)
TimerCheck ==
    /\ timer = "check"
    /\ timer' = IF ~total THEN "socket_exit"
                ELSE IF WakeNeeded(count - 1) THEN "signal" ELSE "update"
    /\ UNCHANGED <<global, total, mutex, waiters, sleep, quit, pc, turn, socket,
                   monitor, exitcmd>>

TimerSignal ==
    /\ timer = "signal"
    /\ timer' = "update"
    /\ Signal
    /\ UNCHANGED <<global, total, mutex, sleep, quit, pc, turn, socket,
                   monitor, exitcmd>>

TimerSocketExit ==
    /\ timer = "socket_exit"
    /\ timer' = "quit"
    /\ exitcmd' = TRUE
    /\ UNCHANGED <<global, total, mutex, waiters, sleep, quit, pc, turn, socket,
                   monitor>>

\* mutant: m->quit is set and broadcast without the mutex
QuitUnlocked ==
    /\ timer = "quit"
    /\ timer' = "done"
    /\ quit' = TRUE
    /\ waiters' = {}
    /\ UNCHANGED <<global, total, mutex, sleep, pc, turn, socket, monitor, exitcmd>>

\* The section that sets m->quit and broadcasts.
TimerQuit ==
    /\ timer = "quit" /\ mutex = None
    /\ timer' = "done"
    /\ quit' = TRUE
    /\ waiters' = {}
    /\ UNCHANGED <<global, total, mutex, sleep, pc, turn, socket, monitor, exitcmd>>

\* thread_socket: skynet_socket_poll returned 1 (an event was forwarded), -1
\* (there are more), or 0 (the exit command).
SocketEvent ==
    /\ socket = "poll"
    /\ Push \/ UNCHANGED global
    /\ socket' = IF WakeNeeded(0) THEN "signal" ELSE "poll"
    /\ UNCHANGED <<total, mutex, waiters, sleep, quit, pc, turn, timer,
                   monitor, exitcmd>>

SocketMore ==
    /\ socket = "poll"
    /\ Push \/ UNCHANGED global
    /\ socket' = IF total THEN "poll" ELSE "done"
    /\ UNCHANGED <<total, mutex, waiters, sleep, quit, pc, turn, timer,
                   monitor, exitcmd>>

SocketSignal ==
    /\ socket = "signal"
    /\ socket' = "poll"
    /\ Signal
    /\ UNCHANGED <<global, total, mutex, sleep, quit, pc, turn, timer,
                   monitor, exitcmd>>

SocketExit ==
    /\ socket = "poll" /\ exitcmd
    /\ socket' = "done"
    /\ UNCHANGED <<global, total, mutex, waiters, sleep, quit, pc, turn, timer,
                   monitor, exitcmd>>

\* thread_monitor: CHECK_ABORT
MonitorAbort ==
    /\ monitor = "check" /\ ~total
    /\ monitor' = "done"
    /\ UNCHANGED <<global, total, mutex, waiters, sleep, quit, pc, turn, timer,
                   socket, exitcmd>>

\* start: pthread_join returned for every thread.
AllDone ==
    /\ \A w \in Worker : pc[w] = "done"
    /\ timer = "done" /\ socket = "done" /\ monitor = "done"

Joined == AllDone /\ UNCHANGED thread_vars

----------------------------------------------------------------------------
WorkerStep(w) ==
    \/ Loop(w) \/ Dispatch(w) \/ SleepTest(w) \/ CondWait(w) \/ Awake(w)

TimerStep == TimerUpdate \/ TimerCheck \/ TimerSignal \/ TimerSocketExit

ThreadsNext ==
    \/ \E w \in Worker :
         \/ WorkerStep(w) \/ CallbackSend(w) \/ EndTurn(w)
         \/ SleepLock(w) \/ SpuriousWakeup(w) \/ CondReturn(w)
    \/ TimerStep \/ TimerQuit
    \/ SocketEvent \/ SocketMore \/ SocketSignal \/ SocketExit
    \/ MonitorAbort
    \/ Joined

(***************************************************************************)
(* Threads run, and a mutex that is released again and again is granted in *)
(* the end.  The callbacks of Looping workers need not return (when total  *)
(* is FALSE there is no context left and so no callback), sockets need not *)
(* have events, and the exit command is read though there are events.      *)
(***************************************************************************)
FairSpec ==
    /\ start /\ [][ThreadsNext]_thread_vars
    /\ \A w \in Worker : /\ WF_thread_vars(WorkerStep(w))
                         /\ SF_thread_vars(SleepLock(w))
                         /\ SF_thread_vars(CondReturn(w))
    /\ \A w \in Worker \ Looping : WF_thread_vars(EndTurn(w))
    /\ \A w \in Looping : WF_thread_vars(~total /\ EndTurn(w))
    /\ WF_thread_vars(TimerStep) /\ SF_thread_vars(TimerQuit)
    /\ WF_thread_vars(SocketSignal) /\ SF_thread_vars(SocketExit)
    /\ WF_thread_vars(MonitorAbort)

----------------------------------------------------------------------------
ThreadsTypeOK ==
    /\ Range(global) \subseteq Queue
    /\ total \in BOOLEAN
    /\ mutex \in Worker \cup {None}
    /\ waiters \subseteq Worker
    /\ sleep \in 0 .. count
    /\ quit \in BOOLEAN
    /\ pc \in [Worker -> {"loop", "dispatch", "run", "lock", "test", "wait",
                          "waiting", "awake", "done"}]
    /\ turn \in [Worker -> Queue \cup {None}]
    /\ timer \in {"update", "check", "signal", "socket_exit", "quit", "done"}
    /\ socket \in {"poll", "signal", "done"}
    /\ monitor \in {"check", "done"}
    /\ exitcmd \in BOOLEAN

Asleep == {w \in Worker : pc[w] \in {"test", "wait", "waiting", "awake"}}

(***************************************************************************)
(* What wakeup and the broadcast rely on: m->sleep is the number of the    *)
(* workers between ++m->sleep and --m->sleep, whichever of them were woken *)
(* by a signal, for no reason, or not at all; and once m->quit is set no   *)
(* worker waits on the condition or is about to, for its test of m->quit   *)
(* and its wait are in one section of m->mutex with nobody else in it.     *)
(* With it the types of the variables.                                     *)
(***************************************************************************)
SleepersCounted ==
    /\ ThreadsTypeOK
    /\ sleep = Cardinality(Asleep)
    /\ \A w \in Worker : pc[w] \in {"test", "wait", "awake"} => mutex = w
    /\ quit => waiters = {} /\ \A w \in Worker : pc[w] # "wait"

(***************************************************************************)
(* Signals sent before a worker waits are lost and a worker that pushes    *)
(* wakes nobody; still, no queue stays in the global queue for ever, even  *)
(* when some workers are caught in endless callbacks (the periodic wakeup  *)
(* of thread_timer).                                                       *)
(***************************************************************************)
NoLostWork == \A q \in Queue : q \in Range(global) /\ total ~> q \notin Range(global) \/ ~total

(***************************************************************************)
(* When the last context is gone every thread ends and start returns: no   *)
(* worker goes to sleep past the broadcast of thread_timer, and the socket *)
(* thread leaves its poll.                                                 *)
(***************************************************************************)
ShutsDown == ~total ~> AllDone
=============================================================================
