# Verification of pilight

This directory holds TLA+ models of the pilight daemon (`src/`), the TLC
configurations that check them on small instances, and TLAPS proofs of the most
important invariants for every size. `PROJECT.json` lists the parts of the
system, every run, the lines each definition models, the hazards the work starts
from, the disagreements it met and the theorems.

## The system

pilight switches radio-controlled devices. One process, `pilight-daemon`, runs
a libuv main loop and about ten POSIX threads:

| part | state | operations | talks to |
|---|---|---|---|
| event pool (`core/eventpool.c`) | list of listeners, counters per reason, event queue | `eventpool_callback`, `eventpool_callback_remove`, `eventpool_trigger`, `eventpool_execute`, `fib`, `eventpool_gc` | everyone; libuv's thread pool |
| custom poll (`core/eventpool.c`) | send and receive buffers, wanted poll action | `uv_custom_poll_cb`, `uv_custom_read`, `uv_custom_write`, `uv_custom_close` | web server, http, mail, Lua network |
| daemon queues (`daemon.c`) | three lists with a mutex and a condition each | `send_queue`, `receive_queue`, `broadcast_queue` and the threads `send_code`, `receive_parse_code`, `broadcast` | hardware, protocols, socket clients, event pool |
| client protocol (`daemon.c`) | list of clients and their rights | `socket_parse_data`, `control_device` | socket server, queues |
| ad hoc node (`daemon.c`) | connection to a master daemon | `clientize` | socket client, configuration, threads |
| log (`core/log.c`) | list of lines, mutex, condition | `logprintf`, `logloop`, `log_file_set`, `log_gc` | everyone |
| threads (`core/threads.c`) | list of thread nodes | `threads_register`, `threads_loop`, `thread_stop`, `threads_gc` | everyone who runs a thread |
| events (`events/*.c`) | queue of messages, rules | `events_clientize`, `events_queue`, `events_loop`, `event_parse_rule`, `events_gc` | sockets, rules, devices |
| action scripts (`events/actions/*.lua`) | user data of an action, execution id of a device | `run`, `thread`, `timer_after`, `timer_in`, `timer_for` | Lua, event pool, devices |
| configuration and devices (`config/*.c`) | settings, devices, rules, gui | `config_read`, `config_write`, `devices_update`, `devices_gc` | daemon, Lua |
| protocols (`protocols/`) | one descriptor each, polling threads | encode, decode, `protocol_thread_wait` | daemon queues, threads |
| sockets (`core/socket.c`) | server and client descriptors | `socket_start`, `socket_wait`, `socket_read`, `socket_write` | daemon, events |
| HTTP and mail clients (`core/http.c`, `core/mail.c`) | one request each, a timer | `http_get_content`, `sendmail`, their read, write and close callbacks | custom poll, Lua |
| web server (`core/webserver.c`) | connections | request handling, websockets | custom poll, daemon |
| Lua (`lua_c/`) | four states, shared tables, async objects | `plua_get_free_state`, `plua_clear_state`, timers, threads | event pool, configuration |

What is hard in it: work is handed over between threads in six hand-made
queues; most conditions are signalled outside their mutex; the mutexes are
recursive and worker threads keep them from item to item; data of an event is
freed by whoever comes last; and the shutdown (`main_gc`) clears flags and frees
lists that threads are still using. The properties below are about these.

## Modules

| module | models | size of the idea |
|---|---|---|
| `Eventpool` | listeners, event queue and dispatch of `core/eventpool.c` | the main thread's `eventpool_execute` as steps (drain, walk, dispatch, count), any thread's `eventpool_trigger` as append and send, workers that run `fib` |
| `EventBus` | what the event pool promises | an event is delivered once to each listener it found, then it is done |
| `EventpoolRefinement` | `Eventpool` implements `EventBus` | a refinement mapping over `INSTANCE` |
| `EventpoolInv` | the inductive invariant of `Eventpool`, in layers | where every task of every event is |
| `LuaActionsInv` | the inductive invariant behind the stages of `LuaActions` | where every script and every object is, and what has been sent by then |
| `DaemonQueues` | the three work queues of `daemon.c`, `pilight_stats`, and the part of `main_gc` that stops them | one worker per queue; an item leads to further items |
| `LogQueue` | `core/log.c` | writers, the log thread, and `log_gc` flushing without the mutex |
| `Threads` | `core/threads.c` | the actions of the library: callers, `threads_loop`, and `threads_gc` walking without the mutex |
| `ProtocolThreads` | the threads of a polling protocol (`protocols/protocol.c`, `protocols/network/ping.c`) and `devices_gc` | `Threads` in the hands of main and of the ad hoc node |
| `EventsQueue` | the queue of `events/events.c` | `events_queue`, `events_loop`, `events_gc` |
| `Sockets` | `socket_write` and `socket_read` of `core/socket.c` | a message as a run of cells, sent and received in parts |
| `EventsClient` | `events_clientize`, the socket thread and the broadcasts it gets | `Sockets` and `EventsQueue` composed: the way of a broadcast to the rules |
| `LuaStates` | the pool of Lua states of `lua_c/lua.c` | try every lock, then sleep on a semaphore |
| `LuaActions` | the action scripts and the asynchronous objects of `lua_c/async.c` | scripts on the states of `LuaStates`, timers and thread objects that share a counted table |
| `PollData`, `PollHandle`, `CustomPoll` | the custom poll of `core/eventpool.c` | every C function is an operator from a client to a client |
| `HttpClient`, `MailClient` | `core/http.c`, `core/mail.c` and their Lua objects | callbacks of the custom poll, the same way |
| `NetClients` | a script, the main loop, the network and a server | the actions, on one `HttpClient` or `MailClient` |
| `RfPulses`, `RfProtocols`, `RfSwitches` | `core/binary.c` and 29 protocols of `protocols/433.92` | pulse trains as functions; `createCode`, `validate` and `parseCode` of each protocol as operators |
| `RadioLink` | one protocol object in the hands of `send_queue` and `receive_parse_code` | what one call leaves in the object the next one finds |
| `EventpoolProofs`, `EventpoolTheorems` | theorems about `Eventpool` and its refinement | every step keeps the invariant; what follows from it |
| `DaemonQueuesProofs`, `LogQueueProofs`, `EventsQueueProofs`, `ProtocolThreadsProofs` | theorems about the queues and the threads library | see Proofs |
| `LuaActionsProofs`, `LuaStageProofs` | theorems about the Lua states and the action scripts | see Proofs |
| `MC*` | instances for TLC | constants and symmetry |

Variables keep the names of the source where it has them (`eventqueue`,
`nrlisteners`, `threadqueue_number`, `running`, ...). Program counters of
threads are `mpc` (main thread), `lpc` or `wpc` (loop or worker threads) and
`cpc` (a thread inside a call). A condition variable is modelled by the states
`towait` (the tests are done, the mutex still held), `waiting` and `lock` (woken,
waiting for the mutex); a signal wakes only a thread that is `waiting`.
Spurious wake-ups are left out: every waiting loop of the code tests its
condition again, so they add stuttering only. `pthread_mutex_unlock` by a thread
that does not own the (recursive) mutex fails, as POSIX says, and changes
nothing; the shutdown functions rely on it. Flags are 0 or 1 as in the source.
Definitions marked "Mutant" change one action the way a plausible slip would;
each property is shown to notice one of them.

Abstractions of data: an event is its number and reason; a queued item is its
kind (what `broadcast` distinguishes: messages of origin "core" and others); a
log line and a message are numbers; a thread is the state none, live, ended or
joined. What a listener or a rule computes is left out.

### Eventpool

`TriggerAppend` and `TriggerSend` are the two halves of `eventpool_trigger`, with
the assertion on the queue length (`QueueLimit`) as an abort. `Drain`, the walk
over the listeners, `Dispatch` and the count of the inline mode follow
`eventpool_execute`; the mutex is held for the walk only. Workers take tasks
from a FIFO queue (libuv's thread pool, external) and end with `uv_sem_trywait`:
the one that fails calls `done`. `GcClear` is `eventpool_gc`.

### DaemonQueues

The threads of the queues hold their mutex while they handle an item and may
call a later queue's function meanwhile, so mutexes nest. `FollowUps` lists what
an item leads to, from the branches of `send_code`, `receive_parse_code` and
`broadcast`. `Limit` is the 1024 of the source (whose test is `<=`, so one more
fits), `EventLimit` the 50 of `eventpool_trigger`'s assertion.

### LogQueue, Threads, EventsQueue

Each has the same shape: producers, a loop thread, and a garbage collector that
does not take the mutex. The collector's steps are split at every read of shared
state. `calm` records whether the collector found the loop thread waiting with
nothing to do: the cases in which the shutdown provably works are told apart
from those in which it need not. `Threads` and `EventsQueue` have no
specification of their own; the two modules below compose their actions.

### ProtocolThreads

Main reads the devices (`initDev` registers a thread for each), starts the
threads, and at the end runs `devices_gc`, `protocol_gc` and `threads_gc`; the
ad hoc node runs `devices_gc` and `initDev` again while the threads run. A
polling thread counts itself in `threads`, a plain `unsigned short`, so the
increment is a load (`PollStart`) and a store (`PollCount`). `ThreadGcStop`,
`ThreadGcSpin` and `ThreadGcFree` are `threadGC`: signal without the mutex, wait
until `threads` is 0, free the nodes. `broken` counts uses of freed memory, after
which a behaviour is not followed; `raced` records the lost updates of `threads`.

A poll asks the device under the protocol's mutex (`PollDevice`) and hands the
answer to `pilight.broadcast`, which tests `main_loop` and then takes
`bcqueue_lock` (`PollBroadcast`). The thread of `broadcast`, the constant
`Broadcaster`, returns with that mutex locked, so a poll that has passed the test
may wait for ever, and with it every thread of its protocol. `MainGc` clears
`main_loop`, upon which the daemon's own threads may end; it is not `calm` when it
finds a thread between the test and the mutex.

### Sockets, EventsClient

A message is `Length` cells; the last one holds the delimiter. `Send` is one turn
of the loop of `socket_write`; `RecvStream` and `Copy` are the two halves of a turn
of `socket_read`, between which another thread may use the static `recvBuff`.
`Complete` is its test for the end of a stream. The socket thread accepts a
connection, reads the request of the events client or of another client, puts
the events client into the list and then answers it; `events_clientize` gives a
connection up unless its first read returns exactly that answer, so a
broadcast that slips in between makes it connect again. `trouble` records what
`socket_read` cannot cope with: two readers between `recv` and the copy, a `recv`
that returns less than there is, a part that comes later than the second a read
waits, a connection without room. With `raced` (`events_loop` created the mutex in
the middle of an `events_queue`) these are the exceptions of the properties, and
a behaviour is followed up to the first of them. Other clients may send
requests without bound.

### LuaStates, LuaActions

The events thread runs the operator and the action of a rule, each in a state of
its own. `RunObject` to `RunUnreg` are the script's `run`: a timer or thread
object, its user data, the execution id, the start. A thread object goes
through the list of `uv_queue_work_s`, the main loop (`safe_thread_loop`) and
libuv's pool to a worker; a timer fires in the main loop. `Callback*` are the
callbacks of the scripts: read the user data, compare the ids, send, start the
next object. `table` counts the holders of the user data the way the semaphore
of `plua_metatable_t` does. `main_gc`, `eventpool_gc` and `Gc*` are the end of the
daemon as far as it touches these objects. Values are abstracted to what a
dimming step and the value put back tell apart.

### PollData to NetClients

Everything inside one callback of the main loop runs without interruption and
calls back and forth between the poll, the client and the Lua object; so each C
function maps the record of a client to a record, and an action of `NetClients`
is one callback with all it calls. `io` is what the socket and mbedtls return
during it. A record notes every use of freed poll data (`uaf`), every close of
the descriptor, and every call of the script's callback with the state of its
object. The answers of web servers are sequences of tokens: the header's lines,
ends of line, digits of a chunk size and data. They arrive in up to `MaxCuts` + 1
pieces, which end between any two tokens: behind the header's lines, in a chunk
size or between two ends of line too.
`Header` is `http_parse_request` on what has arrived; when that lacks the first
line, `read_cb` reads a `connection_t` that was never filled in, and `Stack` is what
may then be found there. `Cut` records the pieces at which the client loses its
place in the answer; it is no part of the code. A mail server answers a command
with any code. A connection may be refused, silent, closed or reset at any point.

### RfPulses, RfProtocols, RfSwitches, RadioLink

Code that writes pulses (`createLow(s, e)` and its relatives, `clearCode`,
`createId`, `createFooter`) is a sequence of runs of cells, of which the last one
that covers a pulse counts; code that reads them is `Digits` with `binToDec` or
`binToDecRev`. Pulse lengths, indices and thresholds are those of the source. A
request is a record of the members the protocol looks for; the number of repeats
(`txrpt`) is left out.

`RadioLink` is one protocol object. `SendBegin`, `SendCreate` and `SendQueue` are
`send_queue`, split where the object is shared; `RecvBind`, `RecvParse` and
`RecvMessage` are one turn of `receive_parse_code`. `raw` may point to the sender's
or to the receiver's pulses; `rawlen` and `message` keep what the last user left.
The two actors hold different mutexes, so the model lets their steps mix and
records it in `overlap`. The properties speak of histories without overlap: with
it they fail, since the receiver then moves `protocol->raw` between `createCode`
and the copy into the queue (`daemon.c:639`). The air garbles at most one of two
trains that follow each other. `CheckedPulses` names the pulses that a check of
`parseCode` or `validate` covers; a garbled pulse elsewhere may be heard as another
message, since most protocols check nothing but the length of the footer.

Requests stay within what the options of a protocol admit and leave out: the
letter J and the number 0 of `x10` and codes counted from 0 of `rsl366` and `conrad_rsl_switch`
(indices outside their tables and buffers), "all" together with a unit of
`quigg_*` and with a unit above 1 of `conrad_rsl_switch`, system codes of
`elro_800_switch` with both digits of a cell set, and of `daycom` above 16383,
where two requests share one code; system codes of `logilink_switch` above 1048575,
which `createCode` accepts although their last digit is written in front of the
pulses (`logilink_switch.c:178`); a unit of `quigg_gt9000` above 15 or a request
without a state, which index outside its tables (`quigg_gt9000.c:327`). Other requests are in the run, and
the properties name them as exceptions (`Ambiguous` in `RadioLink`): short
ids of `eurodomest_switch`, requests of `rc101` for all and those it takes for all,
letters of `clarus` whose cell counts as a digit of the number, short system codes of
`elro_300_switch`, and requests that `rc101` and `elro_300_switch` accept without
making a code: `send_queue` then queues cleared pulses with whatever message was
left in the object, which is why the properties ask for a code of its `own`. `techlico_switch` and `beamish_switch` carry no state with a unit. `Deviating`
names four protocols that `RoundTrip` does not hold for: `mumbi`, `daycom` and
`logilink_switch` read the state digit the other way round than they write it
(the last one also leaves `rawlen` as it finds it), and `rsl366` writes a footer
(480) outside the range it accepts (375 to 395).

## Runs

| run | instance | shows |
|---|---|---|
| `eventpool` | 3 events, 2 reasons, 2 listeners, 2 workers or none, queue limit 1, one `eventpool_gc` | each event reaches each of its listeners once and in order; `done` once, after them; data and semaphore are alive while used; counters match the list; no queued event is left without a wake-up; the invariant `DeliveryInv` |
| `eventpool_refines_bus` | 2 events, 1 reason, 2 listeners, 2 workers, queue limit 1 | `Eventpool` implements `EventBus`, and every accepted event is done |
| `queues_shutdown` | 1 call of any queue, statistics, limit 0, `main_gc` at any moment | no lost wake-up; one order of mutexes; what is queued is handled; at most one code is sent after the wait; a calm shutdown ends |
| `queues_event_burst` | violation, limits scaled to 4 and 3 | a burst of broadcasts fails the assertion |
| `log_queue` | main and 2 writers, 4 lines, limit 2, one `log_gc` | lines leave in order, each once; nothing queued before `log_gc` is left behind; lines are written; a calm `log_gc` returns |
| `log_shutdown_hangs` | violation | `log_gc` waits for a thread that has left |
| `threads_running` | 2 devices that poll and a thread of the daemon; main and the ad hoc node; one new configuration and one shutdown | threads are started once and tracked; every thread starts; a calm shutdown uses nothing that was freed, joins all and returns |
| `events_queue` | messages of 4, 3 and 1 cells, a buffer of 3, room for 5, a queue of 2, 2 connections, `main_gc` at any moment | what reaches the rules is whole, in order and not repeated; nothing promised is lost; a calm `events_gc` frees nothing in use and returns, and the client ends |
| `lua_actions` | 2 actions (toggle, dim FROM TO IN FOR, switch AFTER FOR) on one device, 2 states, 1 worker, the daemon stopped at any moment | no state lies idle while a thread waits; the shared tables are freed by their last holder, and all are freed; stages are sent in order; every action is carried out; a stop at rest ends |
| `net_clients` | one HTTP request or one mail, plain or TLS, requests of 2 units, answers with a length, chunks or neither in up to 3 pieces, 1 call to be tried again | no use of freed poll data, and a handle is closed together with its timer and its descriptor; the script is told once, and of success only when it was one; the content is whole unless a piece ended at one of the places `Cut` names; the handle polls for what the client waits for; requests end |
| `http_answered_twice` | violation | the callback of a request that was not connected in time runs twice |
| `radio_link` | 29 protocols, requests at the bounds of the members, 2 sends (3 of `rc101` and `elro_300_switch`), 2 trains received, limit 0 | a queued code has no gap; it is decoded to the message announced for it, whatever was sent or received before; one garbled pulse of a checked digit never makes another message |

Bounds. Queue limits of 1 or 2 make a full, an empty and a partly filled queue
happen within a few items (a limit of 0 lets one item in, since `daemon.c` tests
with `<=`); the code treats every other length alike. Two workers give every
pairwise race; in `DaemonQueues` one outside caller,
`pilight_stats` and three workers that call each other do. One shutdown is
enough: the code runs it once. In `ProtocolThreads` two devices of one protocol
share a name and a counter, which is what `devices_gc` and `threadGC` can get
wrong. In `EventsClient` the lengths stand for a message that needs two parts,
one exactly as long as the buffer and one shorter; the second connection is the
one after an answer that came together with a broadcast. In `LuaActions` two
states and three threads make a thread wait, and `UsecPerSec` is 2, so that two
actions can get the same execution id. In `NetClients` a request or command of
two units can be sent in part, and `MaxCuts` 2 gives an answer in three pieces, of
which each end may fall anywhere. In `RadioLink`
`BufferLength` 150 holds the longest code (148 pulses); a foreign train has 50
pulses, as several protocols' trains have, or 512, more than any; the second
request is always the same, and a third one is made only of the two protocols
that may accept it without making a code; and the constraint `Apart` stops at an overlap, of
which no property speaks. Deadlock
checking is off because the models stop: calls are bounded and the shutdown ends.

Fairness. Threads are scheduled by the kernel, so each thread's next step is
weakly fair. Where a thread contends for a mutex that others take and release
again and again, acquiring it is strongly fair; the safety properties do not
use it. Nothing makes a caller call, a message arrive or a shutdown begin. The
functions run by registered threads are assumed to return once `main_loop` is
cleared; the timed wait of a polling thread ends, and its broadcast gets
`bcqueue_lock` as long as the thread of `broadcast` has not returned with it. In `NetClients` the
main loop serves a handle that stays ready and a timer that stays expired
(`PollFair` and `TimerFair` are weak fairness written out, since a step that
changes nothing must not count), the kernel gives up a connection it cannot
make, and a mail server answers every command and closes a session it has
ended; nothing is asked of a web server. Symmetry is used in the run `eventpool`
only, which checks invariants.

## Findings

Three runs show the code doing what a comment, a document or an assertion of it
says it does not; `PROJECT.json` quotes the lines.

1. A burst of broadcasts fails `assert(eventqueue_size < 50)` (`eventpool.c:307`).
2. `log_gc` waits for ever for lines the log thread no longer writes (`log.c:136`).
3. An HTTP request that is not connected in time is answered twice, the second
   time with a freed object (`http.c:548`).

More behaviours are in the models and are the reason why a property is stated
for the calm case, with an inequality or with an exception.

Shutdown. `main_gc` can lose the signal that ends a queue's thread
(`daemon.c:2357`); `events_gc` waits for ever when it interrupts a rule, as nobody
clears `running` (`events.c:245`); `events_loop` ends with its mutex locked, so that
an events client that gets one more message never ends; a client that waits for
its answer on a connection that was not accepted yet is not woken by `socket_gc`;
`threads_gc` can pass a thread that is just being started (`threads.c:276`), and
`thread_stop` of a thread not started yet leaves `threadqueue_number` one too high
(`threads.c:214`; `ThreadsTracked` says "at least").

Protocol threads. A lost update of `threads` (`ping.c:66` and `130`) keeps
`threadGC` waiting or makes it free a node in use (`raced`), and so does a thread
that has not counted itself when `threadGC` looks (not `calm`). `pilight.broadcast`
tests `main_loop` before it waits for `bcqueue_lock` (`daemon.c:271`), which the
thread of `broadcast` keeps when it returns (`daemon.c:514`): a poll in between
never ends, nor does `threadGC` (not `calm`).

Sockets. The static `recvBuff`, a short `recv`, a late part and a full connection
garble a message (`trouble`).

Scripts. An overridden action may still send, since the comparison of the ids and
the send are separate, since two actions may get the same id, and since some
callbacks do not compare.

Network. A mail is stuck after a failed call of the socket, a refused STARTTLS,
or when mbedtls wants to write again (`MailStuck`); a server that hangs up on a
request leaves the script without an answer (`HungUp`), and a redirection leaves
the socket open (`Redirected`). The HTTP client loses its place when a piece ends
inside the header, right behind it, inside a chunk size or in front of a chunk's
end of line (`Cut`): it then gives a part of the content, or, when that was the
first chunk size, closes without a word (`FirstSizeCut`).

## Proofs

The theorems hold for every value of the constants that satisfies the modules'
assumptions (`EventpoolConstants` and so on: sets are disjoint, bounds are
natural numbers).

* `EventpoolTheorems`, on the lemmas of `EventpoolProofs`. `TypeControl`, that is
  `TypeOK` with `ControlInv` (who holds the mutex, and what the program counters
  imply about the lists), and `ListInv` (no listener is in the list twice, and the
  counters count it) give `TypeCorrect` and `CountersMatchList`: removing the k-th element changes the
  counter by one only if the element occurs once. `NoEventStranded` is inductive
  relative to `TypeOK`, since the last step of `eventpool_execute` looks at the
  queue again.
  `TasksAccounted` adds `DeliveryInv`, which the run `eventpool` checks too. It
  says of every task which one place it is in (`UniqueInv`), that the semaphore
  of an event is one less than the tasks that have not tried it (`SemInv`), that
  a listener of the snapshot has run once unless its call is still ahead
  (`RunInv`), and for the mode without threads what `nrlisteners1` counts (`SyncInv`).
  `DeliveredThenDone`, `WorkersFindAllocated` and `DeliveredInOrder` follow from
  it. `ImplementsBusSafety` and `ThreadedImplementsBus` show the refinement of
  `EventBus`, step by step: every step of the pool is one of the bus or leaves its
  variables alone. The listeners of an event are fixed when its walk over the
  list begins; an event without listeners goes from pending straight to done.
  The lemmas assume what they need of cardinalities (`CardinalityLaws`), which
  `LawsHold` derives from the finiteness of `Listeners` and `Events`.
* `DaemonQueuesProofs`: `QueuesTypeCorrect`, `WakeupsNeverLost`,
  `MutexesOrdered` from `Invariant`, and `WaitForSending`.
  `LockInv` ties each worker's program counter to the owner and the depth of its
  mutex; `CallInv` says that a worker calls only later queues (or its own,
  through the recursive mutex). A worker that tests an empty queue holds the
  mutex until it waits, so an item that arrives later has its signal still to come.
  `SendingInv` says that `sending` is set exactly while `send_code` handles an item, and
  that a code it starts on after `main_gc` has waited is its last one.
* `LogQueueProofs`: `LogTypeCorrect`, `LinesKeepOrder`, `LoopDequeuesSafely`,
  `LogWakeupsNeverLost`, `NothingLeftAtEnd`. `CountInv` relates `logqueue_number` to the length of the
  list, which differ while `log_gc` flushes without the mutex; the order of lines
  is a statement about the lines taken off followed by those still queued.
* `EventsQueueProofs`, about the queue as `EventsClient` runs it: `CalmGcIsSafe`, from the program counters a calm
  `events_gc` leaves to `events_loop`; and `RulesSeeQueueInOrder`, from `LockInv`
  (who holds the mutex, once it exists) and, while `events_loop` did not begin in
  the middle of an `events_queue`, `ListInv` (the messages handled followed by
  those in the list are those queued, and the counter counts the list).
* `ProtocolThreadsProofs`: `StartedOnceAndTracked`, from `ThreadsInv`, which holds
  until `threads_gc` clears `thread_loop`. `NodeInv` says where the thread of a
  node is by what the list says of the node, `CountInv` that
  `thread_running` counts the started nodes and `threadqueue_number` is no less
  than the number of those still to start.
* `LuaActionsProofs`: `NoThreadSleepsForFreeState`. `Covered` strengthens
  `NoIdleState`: the states that are free behind the back of a thread that has
  tried them are no more than the posts in the semaphore, the posts to come and
  the threads that are still in front of them.
* `LuaStageProofs`: `StagesKeepOrder`, from `ActionInv`. The stages of one
  action come from several callbacks, so the invariant says which of its
  objects have still to come to their end (`Pending`), that they do so one after
  the other, and how much has been sent by then (`FirstStage`, `DimStage`,
  `ForStage`); that in turn needs that an object is in one place at a time
  (`WorkOnce`, `TimerOnce`) and where the script of each thread is (`Control`).

`TypeCorrect`, `QueuesTypeCorrect`, `LogTypeCorrect`, `LoopDequeuesSafely`,
`LogWakeupsNeverLost` and `RulesSeeQueueInOrder` state invariants that no run
lists: they are steps of the other proofs or have stronger statements beside
them in the runs.

Only model-checked:

* liveness, the fair part of the refinement of `EventBus` included: out of the
  prover's reach;
* `CalmGcJoinsAll`: it speaks of what comes after `threads_gc` began, where
  `ThreadsInv` says nothing, and needs an invariant of its own;
* `MessagesInOrder`: the part about the queue is `RulesSeeQueueInOrder`; the part
  about the stream needs an invariant on the connection and the buffers that read
  it, which has not been worked out;
* `SharedTableSafe` and `NothingLeaked` of `LuaActions`: they rest on the
  number of holders of a table and on who may free an object, of which `ActionInv`
  says nothing; the proof has not been carried out;
* `NetClients` (`MemorySafe`, `AnsweredOnce`, `MailTaken`, `WholeContent`,
  `WantedWatched`) and `RadioLink` (`RoundTrip`, `GarbleNoticed`, `CodeComplete`):
  statements about what functions compute over concrete records and tables of
  pulses, which TLC evaluates; no proof has been attempted.

## Plan

What comes next, in this order.

1. Proofs: `SharedTableSafe` on top of `ActionInv`; `CalmGcJoinsAll`.
2. The client protocol (`socket_parse_data` beyond `identify`), lost connections
   and the list of clients, the ad hoc node (`clientize`) with the HEART/BEAT
   shutdown, on top of `Sockets`.
3. `devices_update`; the configuration file and a crash during `config_write`.
4. A composition of the shutdown: `main_gc` over all modules, in its order.
5. The server side and the datagrams of the custom poll; the web server.
6. The sensors and the weather stations, the number of repeats; rule evaluation.

## Not modelled

libuv, mbedtls, avrdude and the Lua interpreter are vendored libraries, most of
the lines under `src/`, and appear only as their users see them. Hardware, GPIO
and API protocols are I/O with devices and services. The command line tools are
single-threaded clients. Memory exhaustion ends the program (`exit`) everywhere
and is not modelled.

Left out of modelled parts:

* event pool: the server side, `uv_custom_recv` and datagrams of the custom poll;
  a receive that fails on a TLS connection, after which `read_cb` gets a length
  and no buffer;
* HTTP client: POST, the parsing of URLs, `http_gc`, chunked content that is empty,
  a TLS library that could not be initialised (`http.c:251`);
* mail client: the end of a TLS session before any reply; a TLS library that could
  not be initialised, when `sendmail` calls `abort_cb` with a handle that libuv does
  not know yet (`mail.c:656`);
* Lua network objects: that a script lets go of an object (`plua_gc_unreg`) which
  a failed request has freed is recorded (`misuse`) but asserted by no property;
* sockets: connections that are lost, a full table of clients, `socket_connect`;
* events: the search for the daemon (`ssdp_seek`), what a rule computes;
* Lua: `uv_timer_start` outside the main loop (`async.c:592`), where libuv gives no
  guarantee;
* radio protocols: `quigg_gt1000`, sensors and weather stations; `txrpt`.

`PROJECT.json` gives the reason for each component.
