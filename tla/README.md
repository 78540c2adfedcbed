# skynet and its eureka example: specifications

The repository holds `skynet/`, a fork of the actor framework skynet (a C core
that schedules *services*, Lua services on top), and `eureka/`, a program on it:
a TCP gateway, an HTTP server, and a client of a Netflix Eureka registry.
Here are TLA+ models of the parts in which interleaving, ordering or failure
decide whether the program is right, the TLC configurations that check them,
and proofs about ten of them: the dispatch of services, the message queue, the
handle table, the reader-writer lock, the timer, the sleeping threads, the socket
server, the Lua runtime, the gateway and the Eureka client.

Paths: `core` is `src/skynet/skynet-src`, `lualib` and `service` are under
`src/skynet`, `eureka` is `src/eureka/src`.

## 1. The system

| part | state it keeps | operations | properties that make it right |
|---|---|---|---|
| contexts and dispatch, `core/skynet_server.c` | per service: module instance, callback, reference count, flags; the number of live contexts | launch, send, dispatch a batch, kill, kill all, report to the sender of a dropped message | a service runs on one thread at a time; a context is freed when its last reference goes and not before; no message and no caller is forgotten |
| message queues, `core/skynet_mq.c` | per service a ring buffer, `in_global`, `release`, the overload mark; one global list | push, pop, length, mark, release | FIFO through wrap and growth; a queue has one owner: a place in the list, a worker, or a launcher |
| handle table, `core/skynet_handle.c` | slot array, next handle, sorted names | register, grab, retire, retire all, name, find | a handle leads to its context and to no other; none is given again before all others; the search finds what is there |
| reader-writer lock, `core/rwlock.h` | a flag and a count | take and give for reading and writing | a writer is alone; somebody gets in |
| timer, `core/skynet_timer.c` | a wheel of five levels, a 32-bit tick | add, advance, dispatch | every timer fires once, at its tick, in order |
| threads, `core/skynet_start.c` | sleeping workers, `quit` | sleep, wake, shut down | no work waits while all sleep; the process ends |
| monitor, `core/skynet_monitor.c` | version, last version, destination per worker | trigger, check | not modelled: it compares two counters and logs |
| socket server, `core/socket_server.c` | slots, two lists of unsent buffers and a buffer of a direct write per slot, a pipe of requests | listen, accept, start, send, send directly, close, half close | a socket reports its end; messages are sent whole, in order and to their own socket; what waits is sent |
| Lua runtime, `lualib/skynet.lua`, `lualib/skynet/queue.lua` | coroutines by session, sleepers, watched calls, queues of wakeups, errors and forks; critical sections | call, return, sleep, wakeup, fork, timeout, exit; enter and leave | each request is answered once; what is due runs before the next message; a section holds one coroutine and is handed on |
| gateway, `eureka/net/tcpserver.lua`, `service/tcpservice.lua`, `watchdog.lua`, `agent.lua` | tables of connections in three services, client count | open, data, close, error, forward, kick, disconnect | the tables agree; the count is exact; a closed client leaves nothing |
| package framing, `lualib-src/lua-netpackext.c` | a record of an unfinished package per connection | take a fragment, hand on packages | packages come out whole and in order, wherever the stream is cut |
| Eureka client, `eureka/eureka/service.lua`, `client.lua` | a timeout for registration or heartbeat, the coroutines on their way | register, heartbeat, fetch the instances of remote services | one chain of heartbeats, which goes on |
| ribbon and webclient, `eureka/eureka/ribbon.lua`, `service/webclient.lua`, `invoke.lua` | per remote service its instances and their webclients; per webclient the open requests | update, pick a webclient, request, poll, answer | a webclient for each instance and none lost; a request is answered |
| libraries and optional services (cluster, harbor, data center, multicast, shared data, snax, database drivers, HTTP) | their own tables | | not modelled, see section 8 |

**How they interact.** A worker thread takes a message queue from the global
list, grabs the context through the handle table, pops a message and runs the
callback under the eye of the monitor. The callback sends (another grab, a
push, perhaps a push to the global list), sets timers, or retires services. The
timer and the socket thread push messages in the same way and wake sleeping
workers. Lua services see only one message at a time, but a coroutine that waits
for a reply lets the next message in, so state read before `skynet.call` may be
old after it. The gateway is three such services that tell one another about
clients, over mailboxes, while the socket thread reports to the first of them.

**What is hard.** Memory that is freed by whoever is last; flags that stand for
ownership; values read outside the lock that guards them; a shutdown and
wakeups that may be missed; messages in the queue of a service that dies;
counters that wrap; reports that come twice; handlers that yield. `PROJECT.json`
lists these hazards at their lines, each with the properties that watch it.

## 2. The modules

| module | models | extended or used by |
|---|---|---|
| `Dispatch` | contexts, ownership of message queues, the worker's turn, launch and kill | `MCDispatch`, `DispatchProofs` |
| `MessageFifo` | what a queue promises: a FIFO | `MessageQueue` (refinement) |
| `MessageQueue` | the ring buffer | `MCMessageQueue`, `MessageQueueProofs` |
| `RWLock` | the spinning lock | `MCRWLock`, `HandleProofs` |
| `Timer` | the timing wheel | `MCTimer`, `TimerProofs` |
| `Handle` | the handle table and the names | `MCHandle`, `HandleProofs` |
| `Threads` | sleep, wakeup and shutdown | `MCThreads`, `MessageQueueProofs` |
| `Session` | the runtime of a Lua service with a critical section | `MCSession`, `SessionProofs` |
| `SocketServer` | one slot of the socket table, through the sockets that use it | `MCSocketServer`, `SocketServerProofs` |
| `Gateway` | tcpservice, watchdog, agents, and the socket thread as they see it | `MCGateway`, `GatewayProofs` |
| `WebClient` | the requests of webclients | `EurekaService` (instance) |
| `EurekaService` | the chain of heartbeats, a ribbon and its webclients, their callers | `MCEurekaService`, `EurekaProofs` |
| `Framing` | packages out of fragments | `MCFraming` |

The modules are layers rather than copies of one another. `Dispatch` takes a
queue as a sequence, which `MessageQueue` justifies by refinement; both take
the handle table as a set of registered services, which `Handle` justifies;
`Handle` takes the lock's sections as steps, which `RWLock` justifies; `Threads`
takes the turn of a worker as a step, which `Dispatch` opens; `Gateway` has of
the socket thread what `SocketServer` opens: a close is reported
(`CloseReported`), and not always at once.

### Dispatch
Contexts are named by the services they belong to; a name is used once, since a
handle comes again only after all others (`Handle`, `NotReissued`). The step
`Launch` goes from the registration past `skynet_mq_create`: no message can bear
the new handle in between, and when ABORT retires the context there the launcher
goes on with its reference as it does a moment later. (A sender with a handle that
2^24 launches have made valid again could find a context without a queue there;
this is not modelled.) `ref`, `inited`, `queue`, `inGlobal`,
`release` and `Q` are the fields of the structs; `ctx` and `mq` say whether the
struct exists; `reg` is the slot of the handle table. Every access to an
atomic, and every critical section, is a step. Worker `w` walks through
`skynet_context_message_dispatch` with `pc[w]`; its nested `skynet_send`,
`skynet_handle_retire`, `skynet_context_new` and `delete_context` have program
counters of their own (`opc`, `lpc`, `deleting`), since they can start in the
middle of a callback and of each other. Timer and socket thread are in `Extern`
and only send; the monitor thread grabs and releases. `Share[w]` is
2^weight, 0 for the weight -1: how much of the queue a turn takes.
`outcome[m]` is a history variable: what became of message m.

### MessageQueue and MessageFifo
The buffer with `head`, `tail` and `cap`, grown when it is full. `FifoSpec` says
that with `fifo <- Contents` every behaviour is one of `MessageFifo`.

### RWLock
Each load and each builtin is a step. A spin that goes round changes nothing and
is left out.

### Timer
`wheel` maps the slots of `near` and `t[0..3]` to lists. `TIME_NEAR` and
`TIME_LEVEL` are constants, 256 and 64 in the code; the tick wraps at the
product of the levels, as 2^32 does. `timer_execute` takes the list and gives
up the lock; `pc` and `running` model what happens meanwhile. `wait` and `order`
are history variables against which punctuality and order are stated.

### Handle
One step per critical section, except that registration keeps the lock over a
scan and a growth (`writer`). `launch` keeps the two moments of
`skynet_context_new` apart: the slot is filled, and later `ctx->handle` is set.
`retireall` walks with the lock released: it tests `slot_size` without it, reads a
slot in one section and retires what it read in another. `fault` is an assertion
that failed, or a NULL that was followed; nothing happens after it. Names are
numbers in the order of `strcmp`; the search, the insertion and the doubling of
the room (`name_cap`) are the code's. Histories: `position` counts the handles that
the scans have tried, `given[h]` is where in this order `h` was given last; `early`,
that a growth has met a context whose launcher had not stored its handle;
`targets`, what a running `skynet_handle_retireall` has to retire.

### Threads
`waiters` are the threads inside `pthread_cond_wait`; entering is atomic with
the release of the mutex, and a waiter may wake for no reason. `sleep` is read by
`wakeup` without the mutex. `total` is `skynet_context_total() # 0`.

### Session
One service. `session_id_coroutine`, `session_coroutine_id`, `unresponse`,
`sleep_session`, `wakeup_queue`, `watching_session`, `error_queue` and
`fork_queue` are the tables of `skynet.lua`; `current_thread`, `ref` and
`thread_queue` are the upvalues of one `skynet.queue()`. `at[c]` and `waits[c]`
are what a coroutine knows: where it yielded, and on which session. `suspend`
calls `dispatch_wakeup` and `dispatch_error_queue`, which resume a coroutine and
call `suspend` again; as these are tail calls but for the first, the Lua stack
comes down to `pc` and a number, `frames`. A running coroutine does any
operation next, in any order, or fails. Peers send a request, answer or refuse
a call, and exit; timers answer in any order. An exiting peer is not tidy: it can be
called between its error for session 0 (line 312) and its EXIT (line 314), and after
an error for a session its handler may run on in the rest of the batch and respond
to the same session. `refused` holds the sessions for which that can happen,
`unknown` those whose response found nobody. Messages of the batch that
follow `skynet.exit` are still handled, since the worker goes on with its batch
(`skynet_server.c`, and `Dispatch`). `stray` records that a wakeup did not
mean the sleep it will end: the coroutine has a token in the queue already,
or waits for the section. `requests`, `late`, `replies` and `forgotten` are
history variables for what the callers see.

### Gateway
A handler up to its first yield is one step; what follows the yield is the step
on the reply. Mailboxes are sequences: `sq` of tcpservice, `wq` of the
watchdog, `aq[fd]` of the agent of fd; `request` is the pipe to the socket
thread. `connection` is the table of `tcpserver.lua` with its three values,
`client` the table of `tcpservice.lua`, `wagent` the one of `watchdog.lua`.
From `socket_server.c` come three facts that the properties rest on: an accepted
socket is silent until it is started, a close of a closed socket is reported
again (lines 936-944), and a close with unsent data is put off.

### SocketServer
One slot, since slots share nothing but the pipe and the counter of ids; the ids
modelled all hash to it, so that it is used again while requests for the last
owner are on their way. A worker's `socket_server_send` is walked through with
`pc[w]`: the look at the lists without the lock, the second look with it, the
write, the count (`sending`, a tag of the id and a number, in one word as in the
code), and the request into `pipe`. The socket thread takes one request, or
sends what is in the lists, or finds the socket broken. `high`, `low` and `dw`
are the two lists and the rest of a direct write, as sequences of bytes; a byte
is the message it belongs to, `[from, to, prio, n]`. `send_buffer` needs
`dw_lock` and gives up without it. `force_close` is two steps, since it throws
the lists away before it waits for the lock. `wire[i]` is a history of what the
kernel took, `ended` of the reports.

### WebClient and EurekaService
`service.lua` is a chain of coroutines: `timers[f]` counts the timeouts set for a
function, `at[c]` is where coroutine c waits, `todo[c]` the rest of its loop over
remote services. `ribbon.lua` is `feignclients` with the updates in progress,
`upd[u]`: `newservice` yields, and a second update may run meanwhile. An update is
handled when it is sent, as messages to the ribbon keep their order and nothing
waits for one. `WebClient` has the table `requests` of each webclient and its
coroutine `query`; `EurekaService` takes it as an instance for the webclient of
the service itself (`Own`) and those of the ribbon. An update may also end in an
error at any of its turns (`Dies`: data it cannot read, a launch that fails).
libcurl has a timeout for the connection only (`webclient.c:214`), so the server
of a request may leave it open for ever: `stalled`. `broken`, `last`, `dirty`,
`overlapped`, `failed` are histories: the chain ended in an error, what the last
update named, whether it met another one or ended in an error, whether updates
ever met, and which coroutines `query` have died.

### Framing
`filter_data_` with its record `uc`, and `push_more`, over one stream that is cut
anywhere. A byte is its place in the stream, so that a package is right when it
is the run of places it was sent as; `Lost` is a body byte that line 439 copies over
the pointer to the body. A step that goes outside of its buffers (through that
pointer, or beyond the end of a fragment) sets `corrupt`: the model then stops, and
hands on nothing that memory might have held. `toprotocolhead` gives any length for
bytes that are no header.

## 3. The runs

| run | question | distinct states |
|---|---|---|
| `dispatch` | do counts, ownership and assertions hold under every interleaving of two workers, an outside thread and the monitor, is every queued message dispatched or reported, every dead service reclaimed? | 154 000 |
| `dispatch_launch_pointer` | may the launcher use the new context after giving up its reference? (no) | |
| `message_queue` | is the ring buffer a FIFO, and are overload warnings rare? | 389 000 |
| `rwlock` | does the lock exclude, and let somebody in? | 600 |
| `timer` | does every timer fire once, in time and in order? | 146 000 |
| `handle_table` | do handles and names lead to their contexts through growth, retirement, ABORT and the wrap of the handles? | 1 304 000 |
| `threads` | is work found by sleeping workers, does the process end? | 7 000 |
| `session` | do the tables of sessions stay consistent, is each request answered once, is nothing due left over, does the section go from one to the next? | 3 645 000 |
| `gateway` | are the tables and the count right, is the agent told once and last, is a closed client forgotten and an accepted one served? | 148 000 |
| `socket_server` | is what the kernel takes a sequence of whole messages in order, is all of it sent, is each close reported? | 194 000 |
| `eureka` | is there one chain of heartbeats and does it go on, is the ribbon in step with the last update, does a caller get its answer? | 242 000 |
| `framing` | are packages handed on as they were sent? (no) | |

Every property of a passing run has a mutant in `PROJECT.json`: a change of one
definition, as a slip in that code would make it, that the run then refutes.
The mutated forms stand before the definitions they replace and are used
nowhere else.

**Bounds.** The constants are small sets; nothing is symmetric that the code
can tell apart (handles and names are numbers, services in `Dispatch` have
roles).
- `MCDispatch`: two workers are what it takes for two owners, the outside
  thread adds a sender that no turn delays, and the monitor thread holds a
  reference that can be the last. Of the two services one is not launched yet
  and has no callback, so that launch, failure in init and kill meet sends. Two
  messages make one wait behind another.
- `MCMessageQueue`: a buffer that starts with 2 places and holds up to 6
  messages wraps at several offsets and grows twice; the limit of the mark is 1,
  so it doubles.
- `MCRWLock`: a writer against a reader and a third thread that is either.
- `MCTimer`: levels of 2 lists give a wrap at 32 ticks; two
  nodes with every delay from 1 to 15, added at any tick. Every level, every
  redistribution and the wrap are reached many times. Catching up two ticks in
  one call stands for any number.
- `MCHandle`: two launchers, of which one can be between the lock and its store
  while the other grows the table; a table of one slot that grows to 4, as far
  as handles of two bits allow; four launches by three contexts, so that
  handles come round and one is given again; three names, the fewest for a
  search with two turns, and room for two that doubles.
- `MCThreads`: two workers, one of which may never come back from a callback.
- `MCSession`: three coroutines are one in the section and two that wait for it,
  or a waker and two sleepers; three sessions let each of them yield once or
  one of them three times; one peer is enough for a request, for several calls
  and for its end, as peers share no table entry.
- `MCGateway`: two clients at a gateway for one, so that the second is turned
  away; two inputs (`MaxInput`), each a package, a malformed one or a close
  command, at any moment. Clients interact only through the count and the
  order of the mailboxes, and neither package nor command leaves state behind
  that a third would meet.
- `MCSocketServer`: two services are a direct writer and another sender; messages
  of 2 bytes can be cut in the middle; two sockets use the slot in turn, and two
  messages meet the end of either, with both priorities.
- `MCEurekaService`: two coroutines let a fetch outlast the time between two
  heartbeats, two updates can overlap, two remote services give the loop a second
  turn. One instance and two webclients are the fewest for a webclient to be
  lost. One caller, as callers share nothing.
- `MCFraming`: three bodies of 1, 0 and 2 bytes behind headers of 2, cut
  everywhere.

**Deadlock.** `MCDispatch*`, `MCMessageQueue`, `MCHandle`, `MCSession`,
`MCGateway`, `MCSocketServer`, `MCEurekaService` and `MCFraming` set
`CHECK_DEADLOCK FALSE`: their messages, launches, sessions, sockets and bytes are
used up, and the system may then be idle for good, workers asleep; a failed
assertion ends the process, and the Eureka service stops when its chain has
ended in an error. The other runs check it.

**Fairness.** No operation of a peer, a caller or a callback is assumed to
happen. Assumed are:
- `Dispatch`: every thread goes on, and every callback returns. It is what
  "dispatched" means; what happens when one does not return is in `Threads`.
- `RWLock`: a thread inside the lock's functions runs, and a critical section
  ends: they are short and do not block.
- `Timer`: the timer thread runs (`WF` on its steps); workers may add for ever.
- `Threads`: weak fairness for running threads, strong fairness for taking the
  mutex (a thread that keeps asking gets it) and for being the one that a signal
  wakes: the timer thread signals every 2.5 ms for ever. A looping worker is
  assumed to return only once all contexts are gone.
- `Gateway`: each service handles what its mailbox holds (`Dispatch`,
  `NoHungCaller`), the socket thread reads its pipe, the launcher answers. A
  half closed socket may stay so for ever; no property depends on it.
- `SocketServer`: a worker goes on in its call and the socket thread executes its
  requests (`WF`); the steps of the socket thread that need `dw_lock` get it when
  they keep trying (`SF`), as direct writes are short; the peer keeps reading or
  the connection fails.
- `EurekaService`: timeouts come, the launch of the service's webclient ends in
  success or failure, messages are delivered, and a request ends that its server
  does not leave open (`stalled`): libcurl gives up a connection that is not made or
  breaks, and polls on otherwise. Nothing is assumed of callers and servers.

## 4. What the passing runs show

- A message queue has exactly one owner while `in_global` or `release` says so,
  and none after it was freed; one that holds messages has an owner, and a
  service runs on one thread at a time (`SingleOwner`), through launch, failed
  launch, kill and the release of a dead service's queue.
- A context's count is exact (`RefCount`), and a dead service is reclaimed
  (`Reclaim`); a message lost with it is reported to its sender
  (`NoHungCaller`), unless the sender is gone or there is none.
- The ring buffer is a FIFO (`FifoSpec`), and a flood is reported a logarithmic number
  of times: the i-th warning before the queue runs empty needs more than the limit
  doubled i - 1 times, and every second one more than double (`OverloadMark`). The
  next warning may come one message later, though: with the limit 1024, 2049 follows
  2047.
- Timers fire once, at their tick, in order (`LinkedOnce`, `OnTime`,
  `FifoWhenTied`, `Fires`), though lists are dispatched without the lock.
- The table leads handles to contexts (`Reachable`) through growth, retirement and
  the wrap of `handle_index`, ABORT misses nobody that ran when it began
  (`RetireAllComplete`), and a handle is given again only when all others have been
  tried (`NotReissued`). The first two make one exception: a growth that meets a
  context whose handle is not stored yet (`early`), for which two threads must
  launch at once. Growth reads NULL or fails its assertions in the cases that
  `AssertionsHold` names and in no other (section 5).
- `m->sleep` counts the workers that sleep, and none waits on the condition once
  `m->quit` is set (`SleepersCounted`). Lost signals do no lasting harm because the
  timer thread signals periodically (`NoLostWork`); the broadcast of the shutdown is
  not missed (`ShutsDown`).
- In a Lua service every resumption finds the coroutine that waits for it, and
  `unknown_response` is met only for a call that an exiting peer had ended by an
  error before it answered (`ResumesWaiter`); a request is answered once and by somebody
  (`AnsweredOnce`), and a coroutine that fails does not keep others from being
  told that their call has ended: between two messages each call that waits has an
  answer to come (`NothingLeftOver`; it is what the empty function forked in
  `suspend` is for). Two limits show in the exceptions the properties
  make. A coroutine that is woken twice before it runs leaves a token behind;
  `dispatch_wakeup` takes one token per turn, so that token can hold up the wakeup of
  another until the next message, or end a later wait of the same coroutine. In
  `skynet.queue` that makes the assertion of `queue.lua:29` fail and leaves the
  section with a dead coroutine (`SectionHandedOver`). And a service that has
  exited may answer once more, or not at all, in the rest of its batch.
- The gateway's count equals its table and keeps to `maxclient` although a
  closed client is reported at least twice (`CountsClients`); packages never
  meet a dropped record, and the assertion of `CMD.forward`
  (`tcpservice.lua:83`) can fail only for a client named in a close command
  (`FindsClient`): a command between the launch of an agent and its `forward`
  kicks the client first. Nothing follows an agent's disconnect (`LastWord`); a
  closed client leaves no trace (`Settles`). An accepted client is started or
  closed, unless its agent cannot be launched (`Served`): then `watchdog.lua`
  leaves it paused and counted.
- What the kernel takes from a socket are whole messages of that socket, in the
  order of the calls for each service and priority (`StreamIntact`), through the
  direct write, its rest and the lists, and the assertions of the socket thread
  hold when the slot changes hands (`AssertionsHold`). What waits is sent
  (`Drains`), a close is reported (`CloseReported`). Two limits: `force_close`
  throws the lists away before it takes `dw_lock` (lines 420-425), and a direct
  write in between leaves a gap in what the peer gets last (`torn`); a close
  that meets a send counted but not in the pipe yet leaves the socket half
  closed until the peer leaves (`Orphan`).
- The Eureka service has one chain of heartbeats and never two (`OneChain`),
  which goes on (`Beats`) until a call raises an error: the launch of its
  webclient, or a request that libcurl refuses. Then nothing sets the next
  timeout, and the registry drops the instance. The same happens when the registry
  accepts a registration or a heartbeat and stays silent: neither libcurl nor
  `skynet.call` has a timeout for that, so the heartbeat has not failed and the
  registration that `service.lua:27` means for this case ("心跳失败，重新注册", heartbeat
  failed, register again) is never made. `Beats` makes the exception, and shows that
  fetches left open do not stop the chain. When a polling coroutine dies
  of a `curl_multi_perform` error, its webclient takes requests for ever and
  answers none.
- An update of a ribbon leaves a webclient for exactly the instances it named
  (`InStep`) unless it met another update, or ended in an error. Two updates that
  meet at `newservice` launch two webclients for one instance, and one of them
  is lost (`NoneLost` makes the exception); a later update that runs alone
  brings the table back in step. A caller gets its answer even from a webclient
  that was removed meanwhile (`Served`), because the "close" that ribbon sends
  does nothing (section 5), and while other requests to the same webclient stay
  open. One that its own instance leaves open keeps the caller waiting for good.

## 5. What the violation runs show, and other findings

- `dispatch_launch_pointer`: `skynet_context_new` gives up its reference
  (`skynet_server.c:164`) and goes on using the context. A service that exits in
  its first message is freed before the launcher has read its handle.
- `framing`: `filter_data_` loses bytes of a package, or takes bytes of the next,
  when a fragment holds more than the rest of an unfinished package, does not
  finish it either, or is a first fragment that ends inside the body. In the
  counterexample, half a header and then the rest with the next header, all copies
  stay inside of their buffers; with other cuts they do not (`corrupt`), and then
  nothing can be said of what is handed on.

Two findings about `Handle` are the exceptions in its `AssertionsHold`, which says
that there are no others. The run `handle_table` reaches the second: take `Crosses`
out of the property and TLC shows it. For the first take out `early` and set
`MaxLaunch = 5`.

- A context is in its slot before its `handle` field is set; a growth by another
  launch in between hashes it by 0. The assertion of line 64 fails, or the context
  is left where its handle does not lead.
- When the scan comes past `HANDLE_MASK` it tries handle 1 twice instead of a handle
  for slot 0; a table whose only free slot is 0 is taken to be full and the copy
  loop reads a NULL context. It needs 2^24 launches.

Three more were met while modelling and are part of what the modules do:
`webclient.lua:112` refuses the "close" that `ribbon.lua:46` sends, so that a
removed webclient lives on; `getwebclient` names the same instance each time
(`ribbon.lua:54`), so that nothing is balanced; and the half closed socket of
section 4. `PROJECT.json` quotes the lines under "findings".

## 6. What is proved

The proofs hold for every value of the constants, from the assumptions
`ConstantAssumption` and `NoneAssumption` of `Dispatch`, `ThreadAssumption` of
`RWLock` and that of `Threads`, `SizeAssumption` of `MessageQueue`, `SlotAssumption` of
`Handle`, `TimerAssumption` of `Timer`, `SocketAssumption` of `SocketServer`,
`SessionAssumption`, `GatewayAssumption` and `EurekaAssumption` (finite sets of threads,
timers, clients or coroutines, sizes that are positive, levels of the wheel of at
least two lists, one worker that comes back from its callbacks, a first table size
that divides `HANDLE_MASK + 1`, `None` outside of the sets) and `MaskAssumption` of
`Handle`: `HANDLE_MASK + 1` is a power of two. TLC evaluates them in the runs. There is
no assumption on how many threads launch, how often, or how far `handle_index`
has gone.

| theorem | states |
|---|---|
| `DispatchProofs!TypeCorrect` | `Spec => []TypeOK`: more than typing, as counts stay natural numbers, and no worker pops, pushes or sends through `None` |
| `DispatchProofs!RefCountCorrect` | `Spec => []RefCount` |
| `DispatchProofs!OneOwnerOnly` | `Spec => []SingleOwner` |
| `DispatchProofs!DispatchAsserts` | `Spec => []AssertionsHold` |
| `MessageQueueProofs!RingIsFifo` | `Spec => FifoSpec`: the ring buffer implements `MessageFifo` |
| `MessageQueueProofs!MarkIsRight` | `Spec => []OverloadMark` |
| `HandleProofs!HandlesLead` | `Spec => []Reachable` |
| `HandleProofs!GrowthIsCalm` | `Spec => []AssertionsHold` |
| `HandleProofs!HandlesAreFresh` | `Spec => NotReissued` |
| `HandleProofs!SweepIsComplete` | `Spec => RetireAllComplete` |
| `HandleProofs!NamesAreFound` | `Spec => []SearchFinds` |
| `TimerProofs!EveryTimerLinked` | `FairSpec => []LinkedOnce` |
| `TimerProofs!TimersOnTime` | `FairSpec => []OnTime` |
| `TimerProofs!TiesInOrder` | `FairSpec => FifoWhenTied` |
| `MessageQueueProofs!NobodySleepsOn` | `FairSpec => []SleepersCounted` of `Threads` |
| `SocketServerProofs!CountedSends` | `Spec => []AssertionsHold` |
| `SocketServerProofs!StreamIsIntact` | `Spec => []StreamIntact` |
| `SessionProofs!WaiterIsResumed` | `Spec => []ResumesWaiter` |
| `SessionProofs!TurnIsFinished` | `Spec => []NothingLeftOver` |
| `SessionProofs!EveryAnswerOnce` | `Spec => []AnsweredOnce` |
| `SessionProofs!SectionIsHandedOver` | `Spec => []SectionHandedOver` |
| `HandleProofs!LockExclusion` | `LockSpec => []Exclusion` |
| `HandleProofs!LockCount` | `LockSpec => []CountIsReaders` |
| `GatewayProofs!CountIsRight` | `Spec => []CountsClients` |
| `GatewayProofs!ClientIsFound` | `Spec => []FindsClient` |
| `GatewayProofs!DisconnectIsLast` | `Spec => []LastWord` |
| `EurekaProofs!ChainIsOne` | `Spec => []OneChain` |
| `EurekaProofs!RibbonInStep` | `Spec => []InStep` |
| `EurekaProofs!RibbonNoneLost` | `Spec => []NoneLost` |

*Reference counts of Dispatch.* `TypeOK` is not inductive: that a count never goes
below zero depends on who holds references, and that a local variable is not
`None` on where its thread is. `RefInv == TypeOK /\ LocalOK /\ RefCount` is.
`LocalOK` ties the program counters to the local variables. In `RefCount` the
references to a context are a set of tokens, `Refs(s)`: the table's slot, a
pending operation, a worker's turn, a launcher. Four lemmas say how a step
changes them: `GrabCounts` (a new token and a count one higher), `ReleaseCounts`
(one token less, and deletion for the one who reaches 0), `RetireCounts` (the
slot's token becomes an operation's), `SameCounts`. Then there is one lemma per
action, and `RefInvStep` collects them.

*Owners of queues.* `OwnInv == RefInv /\ OwnsOK /\ LifeOK /\ LinkOK`. The owners of a
queue other than a place in the global queue are tokens again, `Holds(s)`: a
worker's current and next queue, a launcher. `OwnsOK` says that a queue has at
most one owner, and has one exactly when `in_global` or `release` is set;
`LifeOK` that the queue outlives the context, whose end marks it; `LinkOK` what a
thread's place says about its queue, among it that a registered service without
a callback still has its launcher. `GiveToQ` and `TakeFromQ` are the two ways over
the global queue, `LetGo` the release of a dead queue, `PushUnowned` the push
that finds `in_global` clear, `TakeMessage` the pop that clears it. That a worker
runs the service whose queue it holds then makes `SingleOwner` say one callback at a
time.

*The ring buffer.* `RingOK` types the indices; `ContentsPlace` says which place of
the buffer holds the i-th message. With it a push that stores (`PushStores`), a
push that grows (`PushGrows`: the copy turns the buffer so that it starts at 0)
and a pop (`PopTakes`) are steps of the FIFO. The overload threshold needs
that it stays above the limit doubled once for each mark of the spell, the last mark
and twice the one before it (`MarkInv`), and `Doubling` (2 ^ k = 2 * 2 ^ (k - 1), by
counting subsets): a mark at least doubles the threshold (`MarkDoubles`).

*The lock.* `Exclusion` needs that the flag belongs to one writer
and that a writer past its drain has seen a count of 0, which in turn needs that
the count is the number of readers inside: `LockInv == TypeOK /\ FlagOwned /\
CountIsReaders /\ Exclusion`.

*The handle table.* `TableInv == Table /\ Reachable /\ LaunchInv`. `LaunchInv` is
about the window of `skynet_context_new`: a context without a handle of its own
that stands in the table belongs to a launcher that was given the handle.
`ExpandStep` follows every context to the slot its handle hashes to, unless it has
none, which makes `early` true and needs a launcher besides the one that grows.
`PlaceInv` numbers the tries of the scans: `handle_index` and `position` have the same
remainder by the mask, and so have a handle and the place where it was given
(`TriedPlace`, with `SameShift` about sums); two places of one handle are then the
mask or more apart (`CloseDiffer`). `SweepInv` says that what `retireall` has passed
holds no target but the one it has just read; in the doubled table a context keeps
its slot or moves up by the old size (`Doubled`), so that none comes behind the scan.
`CalmInv` adds that the size divides `HANDLE_MASK + 1`. A scan that does not come
past the mask looks at every slot (`TurnOf`), one that does looks at every slot but 0
(`PassedBy`); and two contexts meet in the doubled table only if one is not where
its handle leads (`ClashIsEarly`).

*The names.* `NamesInv` says that the table of names is strictly sorted, that its
entries are names with handles, and that there is room for them. The compaction and
the search are recursive functions (`Compacted`, `Search`); tlapm knows of such a
function that it satisfies its equation, and `Inductive`, the principle that a set
of numbers which holds 0 and the successor of each of its members holds them all, is
proved (`Least`, from the well-foundedness of the numbers) and takes the place of an
induction over a formula: `CompactedSorted` and the lemma on the search apply it to
the set of the numbers for which they hold.

*The timing wheel.* `TimerInv` has six parts. `Typed`; `Placed`, that a node stands
in the list that `add_node` would choose for it now; `Lined`, that a node stands
once and nodes of equal expiry stand in the order they were added; `Linked`, that
the nodes of the lists are the pending ones; `Due`, that the ticks a node still
waits are what is left until its expiry, modulo the wrap; `Phase`, what the two
sections without the lock leave true. `Placed` is the hard one. It is kept because a
level is chosen by the first block that the tick and the expiry share: blocks are
quotients (`Quotient` to `SpanIs`, about division, which the provers know little
of), `SlotForIs` states the choice in blocks, and `ShiftKeeps` follows: when the
tick goes on by one, a node that is in no list the shift opens is already where it
should be. `OneShifted` says that a shift opens one list at most (where a level
turns, those below it stand at 0: `LowerStandAtZero`), and `MoveKeeps`, by induction
over the list, that moving its nodes gives each its place and keeps the order among
ties: those that are tied share an expiry, so by `Placed` they stood in the moved
list together, and one by one they go to the same list. `DueStands` then says that
the list of the present tick and the one being dispatched hold exactly the nodes
whose wait is over, and `OneLess` and `NotDue` that a delay below the largest one
never comes back to the tick it started from: the three theorems.

*The sleepers.* `SleepInv` is `SleepersCounted` with the types of the global queue and
of the queue in a worker's hands. `SleepersCounted` is inductive as it holds where
each of the sleeping workers is: counted from its increment to its decrement,
holding the mutex at the test, at the wait and after it, so that the timer thread
can set `quit` only while nobody is between test and wait.

*The socket's count.* `Inv` says that `sending` counts the set `Owed` of messages
for the present id that are in the pipe or past `inc_sending_ref` (`CountInv`),
that a message is in one of these places and once (`PipeInv`, `CallInv`), that
two messages differ (`SentInv`: a message's place among its kin is below their
number), and that the lists are empty whenever the slot is free or being closed
(`ListInv`). So a send that is executed is counted, one for an earlier id of the
slot is not, and the count never passes the number of messages. `FlushesOK`, with
`WholeMessages` about remainders, is why `raise_uncomplete` leaves whole messages in
the low list.

*The socket's stream.* The stream of a socket is what the kernel took, then the
rest of a direct write and the high list, then the low list. `Good` says of a
stream that each message on it is one block of `Size` bytes at a multiple of
`Size`, is there once, is for this socket, and stands behind all its kin with a
smaller number. An insertion of a new message between two blocks keeps it
(`GoodInsert`), and so does cutting the stream off anywhere (`GoodPrefix`): the first
is what `send_socket` does in front of the low list or at the end, and what a
direct write does behind what the kernel has, the second is what the kernel's
part of the stream is. `Flow` collects what is needed beside `Good`: what the
kernel took for any id is good (`WireInv`), the boundary before the low list is
between messages, and a message of the id is on the stream or on its way, never
both (`StreamInv`); who is about to write directly has nothing in front of it but
what the kernel took (`LockInv`); the pipe keeps the order of the calls (`OrderInv`);
and a start request is ahead of the sends (`StartInv`). That a flush only moves the
border inside the stream is `FlushKeeps`, about `send_buffer`'s three lists and
`raise_uncomplete`. `CountOnStream` turns the order into the count that `StreamIntact`
states: the kin in front of a message are as many as its number says, by a
bijection.

*The Lua runtime.* `Inv` has four layers. `Basics` holds always: the tables of
sessions, of sleepers and of watched calls agree (`TablesOK`, `SleepersOK`, `WatchOK`),
a session that has not been drawn is in none of them (`UndrawnOK`), and the depths
of the section add up (`SectionCount`). `CallsOK` holds until `skynet.exit`, which
throws the tables away: a session that the timer, a peer or the error queue will
answer is waited for, and only by one of them unless an exiting peer has ended it
(`TimersOK`, `AskedOK`, `ErrorQueueOK`), a watched call has an answer to come or is in
the error queue (`EndingOK`), and a queue that is
not empty will still be worked off in this turn (`TurnOK`). `HandedOK` holds as long
as no wakeup was `stray`: a token in `wakeup_queue` sleeps, and once (`WokenOK`); the
section is free, occupied, or its heir is about to run (`HandOverOK`); the others wait
in the order of their sessions (`ThreadQueueOK`). `AnswersOK` follows a request from
the coroutine that handles it to a response closure or an answer.

*The gateway.* A client passes through stages that are spread over three
mailboxes and the tables of two services: reported, launching, launched, known,
kicked, told to go, gone. `GateInv` says of each client (`Way`) that it is at one
of them at a time (`OneStage`) and that no message of a stage is there twice
(`SentOnce`); that the door of tcpserver is opened once and shut before the agent
is told (`Doors`); that until it is forwarded its socket is silent and nobody
drops it (`Comes`, a close command apart). The three theorems follow: `Doors` is
why the count rises once per client, `Comes` why `forward` finds it, and `OneStage`
with `Doors` why nothing follows the disconnect. `OthersAlone` lets the lemma of
an action speak of one client only.

*The Eureka service.* `ChainInv` adds to `OneChain` that a coroutine of the service
has one request at a time, so that an answer moves the chain once. `RibbonInv`
describes an update that runs alone (`UpdateAlone`: what it named is known, still
to be done, or being launched for) and updates that have never met (`NeverMet`);
`ProceedEffect` says what the rest of an update does to the table.

Every safety invariant and every action property that a passing run checks is
proved, and so is the refinement of `MessageFifo`. Only model-checked are the
liveness properties (`NoHungCaller`, `Reclaim`, `WriterEnters`, `Fires`, `NoLostWork`,
`ShutsDown`, `Settles`, `Drains`, `CloseReported`, `Beats` and the two `Served`), as
fairness and ENABLED are out of the prover's reach. About `Framing` there is nothing
to prove: what it was to promise is violated (section 5). It has the only
RECURSIVE operator left, the cutting of a fragment into packages.

## 7. Plan

Done: the core of the scheduler, the Lua runtime of a service, the socket
server's sending side, the gateway, the Eureka client with ribbon and
webclients, and the framing (section 2), with the proofs of section 6. Left, in
this order:

1. `Session` with two services in place of one service and its peers, so that
   what one promises its callers (`AnsweredOnce`) is what the other assumes of
   them.
2. `SocketServer` with connect and incoming data, and `Gateway` on top of it
   instead of on its own picture of the socket thread.
3. `SocketChannel`: one connection shared by coroutines, reconnected on failure;
   `ServiceMgr`: a unique service launched once for many who ask; `Harbor`:
   global names and messages for nodes that are not connected yet.

Proofs: the safety properties of these modules are proved. Worth proving next is
what the layers take from each other (section 2): that a FIFO may stand for the
ring buffer inside `Dispatch`, and that the sections of `Handle` may be taken as steps
under the lock of `RWLock`.

## 8. Not modelled, and why

- Text commands of `skynet_server.c` that touch one field; sends by name and to
  other nodes, which become sends or drops here.
- `skynet_timeout` with 0, which is a send. The reading of clocks.
- Of the socket server: connect, listen, bind, UDP, incoming data and its
  buffers, warnings and options. Of the framing: the ring of packages, `pack`,
  messages other than data.
- Of the Eureka client: operations that `service.lua` does not call, the
  description of the instance, what requests and answers contain.
- The endless loop monitor, which compares two counters and logs; the spinlock, a
  test and set loop; allocation, loading of modules, environment,
  logging, daemon, statistics.
- The HTTP server of the example and its start: one request per message, and
  straight-line code.
- Codecs (`lua-seri.c`, `sproto`, `pb`, `crypt`) and wire protocols of
  databases and HTTP: data, not control.
- Cluster, harbor, data center, multicast, shared data, snax, gate: services the
  example does not start; some are in the plan.
- Vendored code (curl, Lua, jemalloc, cjson, lpeg and others under `3rd` and
  `lualib-src`), which is most of the lines of the repository, `examples` and
  `test`.

Memory is taken as sequentially consistent; the code uses `__sync` builtins,
which are full barriers, or pthread locks, except for flags that are read
unlocked on purpose, where each read is a step.
