# TLA+ models of tcp-learn

tcp-learn is a small C/C++ program for learning how data are read from TCP: an
event loop (the `ae` library of Redis, over epoll), a pool of byte buffers taken
from Corvus, two servers written on the event loop, one written directly on
edge-triggered epoll, and two clients.  This directory holds TLA+ models of its
core, the TLC configurations that check them, and TLAPS proofs that extend the
main results to every size of table, list, buffer and clock.

`PROJECT.json` lists the components, the runs, the theorems, the source lines
behind every definition (`map`), the hazards of the code, and for every checked
property a mutant: a plausible mistake in the code under which TLC finds the
property violated.

## 1. The system

| Part | Source | State it keeps | Operations |
|---|---|---|---|
| ae, file events | `net/ae.c`, `net/ae_epoll.c` | table `events` (mask and two callbacks per descriptor), `maxfd`, the kernel's epoll set, the `fired` array | `aeCreateFileEvent`, `aeDeleteFileEvent`, the poll and dispatch part of `aeProcessEvents` |
| ae, time events | `net/ae.c` | list of timers, next id, last time seen | `aeCreateTimeEvent`, `aeDeleteTimeEvent`, the timeout computation of `aeProcessEvents`, `processTimeEvents` |
| ae, main loop | `net/ae.c` | `stop`, before-sleep hook | `aeMain`, `aeStop`, `aeDeleteEventLoop`, `aeWait` |
| mbuf pool | `base/mbuf.c` | free list, statistics; content and markers of each mbuf | `mbuf_get`, `mbuf_recycle`, `mbuf_destroy`, reads and writes of one mbuf |
| connection buffers | `base/corvus.c` | per connection a queue of mbufs and `data_size`; caches of connections and infos | `con_buf_write`, `con_buf_read`, `con_buf_peek`, creation, recycling, destruction |
| ae servers | `net/echo_server.c`, `tcp_bbr_server.cc` | listening and client descriptors | accept, read and close handlers, a periodic timer, SIGINT |
| edge-triggered server | `server.cc` | map of clients, epoll set, `running_` | a thread with an accept/read loop; a client collects bytes in a connection buffer and announces a message |
| message client | `client.cc` | none | connect, send, close |
| bbr client | `tcp_bbr_client.cc` | `running_` (twice), a descriptor, sampling time | a sender and a thread that samples `tcp_info` |
| threads | `base/my_thread.*`, `base/platform_linux.c` | stop flag; pthread handles | start, stop, join, mutexes and conditions |
| sockets | `net/anet.c`, `base/platform_linux.c` | none | wrappers of system calls, loops around short reads and writes |
| clock | `base/base_time.*` | none | milliseconds, cut to 32 bits |
| queues | `base/queue.h` | none | the BSD list macros |
| allocation, logging | `base/alloc.c`, `base/logging.c` | none | malloc that aborts, printing |

How they interact: the ae servers register callbacks with the event loop, which
calls them from inside `aeProcessEvents`; those callbacks call back into the
loop (register, delete, create timers) while it is walking its own data.  The
edge-triggered server and `mbuf_test.c` own a context of connection buffers, and
all connections of a context share its pool.  Threads occur in `server.cc` and
`tcp_bbr_client.cc` only; the event loop and the buffers are single-threaded.

What is hard: re-entrant callbacks (both walks of the event loop), descriptors
that are closed and reused while an event for them is pending, a wall clock that
moves in both directions while timers are kept in two fields, buffers whose
partial fills and partial reads have many shapes, memory that moves between
connections and a pool with a limit, and flags shared by threads without
synchronisation.

What makes each part correct:

- *File events.* `maxfd` is the highest registered descriptor; epoll watches what
  the table says; no callback is called that was not set; no callback is called
  for a registration that ended.
- *Time events.* Times are normalised; the loop sleeps until the nearest timer,
  no longer and no shorter; a pass over the list misses no due timer, whatever
  its callbacks do, and ends; timers survive a clock that is set back; a due timer
  fires in the end.
- *Buffers.* A connection is a byte stream; an mbuf has one owner; the counts
  that other code relies on (`data_size`, the statistics) are right.
- *Edge-triggered server.* Nothing that arrived is left unreported; every byte is
  stored once; an announced message is there; every peer is served to its end;
  stopping works whenever it is requested, and the destructor deletes the clients.
- *ae servers.* The handlers keep the conventions under which the event loop
  delivers no stale event; descriptors are not leaked one after the other; every
  client is served while the server listens; a SIGINT stops the server.
- *bbr client.* The sampling thread has ended before main closes and destroys what
  it uses; samples and the data main sends are not mixed in a trace; main sends for its whole
  time; the program ends.

## 2. Modules

| Module | Models | Lines of source |
|---|---|---|
| `AeFileEvents` | file-event half of the event loop | `ae.c` 33-145 and 380-480, `ae_epoll.c` |
| `AeTimers` | time-event half of the event loop | `ae.c` 33-68 and 150-455, `ae_epoll.c` 73-96 |
| `ByteStream` | abstract: what a connection buffer promises | specification only |
| `ConnBuffer` | `corvus.c` over `mbuf.c` | both files |
| `MCConnBuffer` | `ConnBuffer` with a symmetry set for TLC | |
| `TcpServer` | the edge-triggered server, its main thread, its peers | `server.cc`, `client.cc`, parts of `platform_linux.c` |
| `MCTcpServer` | `TcpServer` with a symmetry set for TLC | |
| `AeServer` | the two servers on the event loop, their clients and SIGINT; EXTENDS `AeFileEvents` | `echo_server.c`, `tcp_bbr_server.cc`, `ae.c` 73-85 and 403-525, parts of `anet.c` |
| `BbrClient` | the sender and its sampling thread | `tcp_bbr_client.cc`, `my_thread.cc`, parts of `base_time.cc` and `anet.c` |
| `BoundedSets` | lemmas on maxima of finite sets of integers | |
| `AeFileEventsProofs`, `AeTimersProofs`, `ConnBufferProofs`, `ConnBufferStreamProofs`, `TcpServerProofs`, `AeServerProofs`, `BbrClientProofs` | theorems about the modules above | |

The exact lines of every definition are in `PROJECT.json`.  In every module the
definitions whose comment begins "Mutant" are mistakes the code could have had;
no specification uses them.

### AeFileEvents

Variables and code: `mask`, `rproc`, `wproc` are `events[fd].mask`,
`.rfileProc` and `.wfileProc`; `maxfd` is the field of the same name; `openFds`
and `interest` are the kernel's side (which descriptors are open, what epoll
watches for them); `fired` is what is left of the fired array.  `phase` and `cur`
say where control is inside `aeProcessEvents`.  `ended` and `closed` are history
variables: the descriptors whose registration has ended, by deletion or close, and
those that have been closed, since the last poll.

Actions and code: `Register` and `Deregister` are `aeCreateFileEvent` and
`aeDeleteFileEvent` with the epoll calls they make; `Open` and `Close` are the
system calls user code makes; `Poll` is `aeApiPoll`; `StartEvent`, `ReadReturns`,
`CallWrite`, `FinishEvent` and `FinishDispatch` are the loop over the fired array.

The loop has one thread, and its interleavings are those of callbacks: whenever
it is idle or inside a callback, user code may make any number of calls for any
descriptor.  The kernel may report any non-empty subset of what it watches, plus
an unasked error or hang-up (which `ae_epoll.c` turns into WRITABLE), in any
order.  Registering may fail because the slot does not exist, because the
descriptor is closed, because epoll and the table disagree, or for no reason the
program can see.  A descriptor is taken to be non-negative.

`OwnDescriptorOnly` selects what callbacks do.  FALSE: anything.  TRUE: what the
handlers of `echo_server.c` and `tcp_bbr_server.cc` do, namely end only the
descriptor they were called for, register only descriptors nobody has registered,
and do nothing further once they have ended their own.  `FreshDelivery` is what
holds then: a callback is entered only for a registration that has lived since the
poll.  `StillValid` is what the comment at `ae.c:463` claims for callbacks of any
kind, and only where table and epoll agree about the number: no event of a file
that an earlier entry's callback has closed is found valid.

The comment at `ae.c:468` says `rfired` makes sure that only one of a read and a
write event runs.  The test that follows is `!rfired || fe->wfileProc !=
fe->rfileProc`: both run when the two callbacks differ, and the model has it that
way.

### AeTimers

New timers go to the head of the list with the next id and nothing moves a node,
so the list is the set `live` of ids in descending order, and `te->next` is the
largest smaller id.  `clock` is what `aeGetTime` returns, in seconds and
milliseconds; `Tick` lets it run on in every state, callbacks included, and
`SetBack` sets it back.  `GoToSleep` is `aeSearchNearestTimer`, the computation of
`tv` and the conversion to the `int` that `epoll_wait` takes (modulo its range;
negative waits forever).  `Wake` is the return of `epoll_wait`, by timeout or by a
file event.  `StartPass`, `SkipTimer`, `CallTimer`, `ReturnPeriod`,
`ReturnNoMore`, `FinalizerReturns` and `EndPass` are `processTimeEvents`.

`aeCreateTimeEvent` and `aeDeleteTimeEvent` may be called whenever user code runs,
and creation may fail for want of memory, which still uses up an id
(`CreateFails`).
When a callback deletes its own timer the node is freed while `processTimeEvents`
still points to it: `heir` is the timer that malloc may then have put in the same
memory.  `RearmAfterDelete` says whether callbacks may return a period after
that.  `floor` is a history variable: the earliest clock reading since the pass
began.

### ConnBuffer and ByteStream

A connection has a life (unborn, open, cached), an info or none, `size` for
`data_size`, and a `queue` of mbufs; an mbuf has its content, `pos` and `last`.
`freeq` and `allocated` are the pool and what malloc has given out; the record
`mstats` is `ctx->mstats` with the field names of the code.  The n-th byte ever
written to connection `c` is the pair `<<c, n>>`, so a byte that is lost,
duplicated, reordered or taken from another connection is recognised.  An mbuf
that is handed out contains nobody's byte (`NoByte`), because the code leaves the
memory as it was and nothing may depend on it.

Every iteration of the loops of `con_buf_write`, `con_buf_read` and
`connection_buf_free` is a step of its own (`AppendMbuf`, `FillMbuf`, `ReadMbuf`,
`ReadReturns`, `FreeMbuf`, `CacheConnection`); `pc` keeps other calls out until
the call has returned.  `con_buf_peek` changes nothing and is an operator.
Two early exits are as in the code: `con_buf_write` returns from inside its loop
when the data end exactly at the end of an mbuf, before `data_size` is updated,
and `con_buf_read` ends at the first mbuf it cannot recycle.  Two calls
dereference NULL and lead to `pc = "crashed"`: creating a connection when a
recycled one is cached (`corvus.c:107`) and reading a connection that was never
written (`corvus.c:198`).  The destination of a read is taken to be large enough
for what is copied; whether `len` is large enough is the property `ReadFits`.

`ByteStream` has only `written` and `delivered`: writing adds to the first, reading
moves the next bytes of the stream to the second.  `ConnBuffer` implements it under
the mapping `written <- sent, delivered <- out`, its history variables; mbufs,
queues, the pool and the steps inside a call are hidden.

### TcpServer

Two threads, the peers and the kernel take steps.  `Process` is the server's
thread: test of `running_`, `epoll_wait`, then for each event either one accept
(`AcceptClient`) or the handler of a descriptor (`FirstRecv`, `Drain`, `HangUp`).
`Main` is the main thread after it has started the other: it sees the signal,
stops the server, joins and destroys it.  Peers connect, their bytes arrive in
pieces of any size and they end, also before their message is complete.

The kernel's side is the model's own: `edge` is epoll's ready list, on which a
descriptor is put when something happens to it and from which epoll_wait takes
it after looking at it once.  A new descriptor is the lowest free number; accept
returns -1 when there is none, and the server then goes on with -1 as the code
does.  A reset connection is not modelled; it differs from an end only by the
bytes it discards.  `clients_` is never shortened: the TcpClient of a number that
is used again is the first one that had it, and the new one is lost, as with
`std::map::insert`.  `seen` is a history variable, the numbers accept has returned
(-1 for its failures): `ClientsDeleted` says that the destructor leaves exactly
the clients of the accepts that returned a number of `seen` again.

`con_buf_write` is used here through its effect on `data_size` when nothing is
read: a write that ends at a multiple of the mbuf size is not counted
(`CountedSize`).  `ConnBuffer` models the same function in full.  A header that is
put together from two peers' bytes may say any size, also one that wraps to less than
the header's own when that is added (`server.cc:46`).

The flags `running_` and `m_running` are plain bools.  The build sets its compiler
flags to `-fPIC` alone (`CMakeLists.txt:8`), so nothing is optimised and each test
reads memory; the model reads and writes them atomically.  An optimised build may
never see the change, and the model does not cover it.

### AeServer

`echo` says which program runs: `echo_server.c` writes back what it read,
`tcp_bbr_server.cc` does not; otherwise they are the same.  `pc` is where main is
(setting up, in the loop of `aeMain`, cleaning up), `h` where the callback under
way is; `lfd` and `cfd` are the variables `fd` of main and `cfd` of
`AcceptTcpHandler`.  Every call a callback makes (`accept`, `aeCreateFileEvent`,
`read`, `write`, `aeDeleteFileEvent`, `close`) is a step, so that clients act and
the signal arrives between any two of them.  `peer`, `backlog`, `peerOf` and
`unread` are the network, and `Fires` is what level-triggered epoll makes of it.
Sockets are blocking, and a step that has to wait is not enabled.

What the code does where calls fail is kept:

- a listening socket that could not be made is -1, is registered all the same, and
  epoll refuses it; the server then runs without one;
- `accept` that fails also returns -1, which is registered; when registering fails,
  for that or any other reason, `AcceptTcpHandler` closes the *listening* socket
  (`ShutListener`) and leaves the new one open.  From then on nobody is accepted;
- a SIGINT before `aeCreateEventLoop` writes through a NULL pointer, one after
  `aeDeleteEventLoop` to freed memory; one between the two and before `aeMain` has
  cleared `stop` is lost; one between the test of `stop` and `epoll_wait` is seen
  only because `PrintTimer` ends the wait;
- `aeCreateTimeEvent` that fails for want of memory is ignored: the loop then has no
  timer, `epoll_wait` no timeout, and the signal of the last case is lost until a
  client does something;
- a write to a broken connection fails, or kills the process by SIGPIPE.

The echo always writes the whole of its buffer, whatever the length of what was
read; contents are not modelled, since no property is about them.  Sockets that
are open at the end are left to the end of the process.

### BbrClient

`Main` and `Run` are the two threads; `Tick` is time passing, `signal_exit_handler`
may run at any time and `PeerResets` breaks the connection.  Each read of the
clock or of a shared flag is a step.  `clock` counts milliseconds since boot
without bound; what the program sees of it is `AsInt(clock)`, modulo `Modulus`
(2^32 in the code) and signed.  `fd` says what main's descriptor number stands for:
when connect fails `anetTcpConnectWithFd` has closed it, main goes on, and
`trace.txt`, opened next, gets the same number.

Results the program does not look at are choices without consequence on control:
that of `anetTcpConnectWithFd`, which has no return statement after success
(`anet.c:161`; main only prints when the value is -1), of `Start` and of
`anetWrite`.  If `pthread_create` failed, `pthread_join` is called with a handle
that was never set, which may crash.  The flag `running_` that `MyThread::Stop`
clears is another one than the loop reads; `TcpClient::Stop` clears both.

When the int wraps during a run, main either stops at once or does not stop before
the clock comes round, and once the clock is negative nothing is sampled because
`last_record_` starts at 0.  The properties about the time say so by assuming
`NoWrap`; the runs have such starts, and all other properties hold there too.

As with `TcpServer`, flags are read from memory each time, which the build without
optimisation guarantees.

## 3. Runs

| Run | Expected | Properties and what the result shows |
|---|---|---|
| `fe_any` | pass | `TypeOK`, `MaxfdExact`, `InterestAgrees`, `CallsSetHandler`, `LostOnlyByClose`. Whatever callbacks do, `maxfd`, the epoll set and the callback fields agree with the table; only closing a registered descriptor separates table and kernel. |
| `fe_stale` | violation | `StillValid` for arbitrary callbacks, one of them enough: of two ready descriptors the first one's callback removes and closes the second and registers a new file under its number. |
| `timers_loop` | pass | `TypeOK`, `ForcedTimersRun`, `NoDueTimerSkipped`, `TimerKeepsItsTime`, `SleepsUntilNearest`, `DueTimersFire` (liveness). Callbacks may return 0, creation may fail, the clock may be set back once at any moment. |
| `timers_oversleep` | violation | `OverdueTimerDoesNotWait`. |
| `timers_rearm` | violation | `TimerKeepsItsTime` when a callback may delete its own timer and return a period. |
| `conn_streams` | pass | `TypeOK`, `QueueHoldsStream`, `UnreadIsReadable`, `NoMbufShared`, `StatsExact`, `DataSizeNeverAhead`, `PeekSeesNext`, `DeliversStreams` (refinement of `ByteStream`), `ReadDelivers`. |
| `conn_short` | violation | `ShortReadMeansEmpty`. |
| `conn_fits` | violation | `ReadFits`. |
| `server_any` | pass | `TypeOK`, `NothingStranded`, `ReceivedOnce`, `AnnouncedIsStored`, `ClientsDeleted`. Peers connect, send and end in any order and at any point of a round. |
| `server_served` | pass | `FinishedPeersServed`, `SignalStops` (liveness), for peers that connect one at a time. |
| `ae_server` | pass | `ServerTypeOK`, `LeaksOneAtMost`, `KeepsConventions` (every step is one of `AeFileEvents` with `OwnDescriptorOnly`), `FreshDelivery`, `ClientsServed`, `SignalStops` (liveness). Both servers, with failures of the loop's creation, of socket and listen, of every registration, of the timer and of accept, writes to a broken connection, and a SIGINT between any two steps. |
| `bbr_client` | pass | `TypeOK`, `ThreadEndsFirst`, `TraceIsClean`, `SendsFullTime`, `Ends` (liveness). Failing connect, short and failing writes, a reset, signals, and clocks before, across and after the wrap of the int. |

`KeepsConventions` ties the servers to the event loop: `AeFileEvents` under
`OwnDescriptorOnly` is the abstract specification of a well-behaved user of the
loop, and `AeServer` is shown to implement it, so that what holds of the former
holds of the servers.

`OneAtATime` is needed in `server_served`: with two connections in one event the
server accepts one of them and is not told of the other until a third arrives.
With `OneAtATime = FALSE` TLC shows that peer waiting for ever.  Nothing in the
repository says otherwise, so this is a limit of the server and not a finding.

The five violations are places where the code does something else than a comment
or a test of the repository says:

- `fe_stale`, `ae.c:466`. The comment above the test of `fe->mask` says that it
  catches events removed by an event handled earlier.  It compares numbers only:
  if a callback removes and closes another ready descriptor and registers a new file
  that got the same number, the old event is delivered to the new registration.
- `timers_oversleep`, `ae.c:432`. The comment says that a negative difference
  means do not block.  Seconds and microseconds are clamped one by one after a
  borrow, so a timer overdue by less than a second is slept on for the rest of
  that second.
- `timers_rearm`, `ae.c:345`. The period returned by a callback is stored through
  `te` before the walk restarts from the head; if the callback deleted its timer
  that is a write to freed memory, and it can change the time of a timer created
  since.
- `conn_short`, `corvus.c:176`. A write that exactly fills an mbuf is not added to
  `data_size`; a later read with enough room returns less than is there.
- `conn_fits`, `corvus.c:202`. Each mbuf is read with the whole `len`; a read that
  begins in a partly read mbuf returns more than `len` bytes.

Two limits of the timers are part of the passing run's properties instead.  A timer
more than 2^31-1 ms (24.8 days) ahead gives a timeout that an int cannot hold: the
sleep is shorter or, when the cut value is negative, endless (`SleepsUntilNearest`,
second conjunct; `ae_epoll.c:78`).  A callback that is due again at once, with a
period of 0 or one shorter than it runs, keeps its id, so that the newest id a pass
may call (`ae.c:330`) does not stop the pass: it never ends, and neither the timers
behind it nor file events are served (`DueTimersFire`, its exceptions; `ae.c:353`).

### Bounds

| Constant | Values | Why this is enough |
|---|---|---|
| `SetSize`, `FdLimit` of `AeFileEvents` | 2 and 3 (2 and 2 for `fe_stale`) | two slots give a highest and a next descriptor, a close in one callback and a pending event of the other; the third descriptor is beyond the table. |
| `Procs` | 2 (1 for `fe_stale`) | same and different callbacks for the two directions. |
| `MsPerSec` | 2 | a second with a carry; the code's 1000 is covered by the proofs. |
| `IntMax` | 7 | the last period does not fit, all other waits do. |
| `Periods` | {0, 1, 3, 9} ({1, 3} for violations) | due again at once, shorter and longer than a second, one that carries, one that no int can hold. |
| `MaxId` | 3 (2 for violations) | two old timers and one created during the pass. |
| `MaxTime` | 5 (8 for violations) ms | two to four seconds from 2 ms on; timers of every period but the last become due. |
| `MaxSetBacks` | 1 (0 for violations) | one skew, at any moment of a pass or a sleep. |
| `Conn`, `Mbuf` | 2 and 6 | five bytes of two connections need three mbufs each. |
| `Cap` | 2 | an mbuf may be empty, half full, full; half read, read out. |
| `RecycleLength` | 0 (code: 10) | the free list keeps one mbuf; further ones are freed, so that both branches of `mbuf_recycle` are taken. |
| `Lens`, `MaxSent` | {1, 2, 3}, 5 | lengths below, at and beyond an mbuf; several writes. |
| `Peer`, `NumFd` | 3 and 2 (2 and 2 for liveness) | numbers are used again, accept fails; a listener and two clients are ready at once. |
| `MaxEvents` | 2 (code: 20) | fewer than can be ready. |
| `Hdr`, `Total`, `RecvMax`, `Cap` | 2, 3, 2, 2 (code: 4, 2504, 1500, 1024 less the mbuf's own size) | a torn header, a message of two reads, writes that end inside and at the end of an mbuf. |
| `SetSize`, `FdLimit`, `Peer` of `AeServer` | 3, 3 and 2 | the listening socket and two clients, all ready in one round; a leaked descriptor makes the next accept fail. |
| `MaxUnread`, `MaxSignals` | 1 and 1 | data wait or do not, and more may arrive after every read; the first signal already ends the program or is lost. |
| `Modulus`, `Starts` | 32, {0, 12, 18} | a run before the wrap of the int (at 16), one across it and one in the negative half; the code's 2^32 is covered by the proofs. |
| `Duration`, `Interval`, `MaxRun` | 3, 1, 5 | the clock passes the end of the run and goes on. |
| `Count` | 2 | a write may be cut short and be continued. |

The wall clock stops at `MaxTime`; the timeout of `epoll_wait` goes on running, so
that no loop gets stuck because of the bound.  Does the stopped clock make
`DueTimersFire` true?  A clock that runs on makes timers due again after every
period, and the walk that restarts from the head then starves those behind.  Here
a callback that returns 0 is due again at once, also after the clock has stopped,
so the starvation happens within the bound, and the property names it: it excepts
the behaviours in which newer timers are called for ever and those in which a pass
that began before the timer was created never ends.  Such passes are behaviours of
the run.  What `DueTimersFire` does not speak of is a timer beyond `MaxTime`, such as
one whose wait no int can hold; of that `SleepsUntilNearest` says what the int makes
of it: a sleep that is too short, or an endless one.

Connections are symmetric in `conn_streams`, peers in `server_any`.  Deadlock is
checked in the runs of the event loop, which never stops.  It is not checked for
`ConnBuffer`, where a destroyed context and a crash are final states, nor for
`TcpServer`, `AeServer` and `BbrClient`, which exit.

### Fairness

`AeTimers`: only `DueTimersFire` needs it.  `FairSpec` assumes weak fairness of: time passing;
the loop's own steps (`GoToSleep`, `StartPass`, the steps of the scan), which the
thread simply executes; `epoll_wait` returning once its timeout is over; callbacks
and finalizers returning.  Nothing is assumed about user code creating or deleting
timers, about file events or about the clock being set back.  Callbacks may return
periods for ever, 0 included, so that a pass need not end.

`TcpServer`: `FairSpec` assumes weak fairness of `Process` and of `Main`: both
threads run, `epoll_wait` returns after its 500 ms at the latest, and nothing else
in the loop blocks, since all sockets are non-blocking.  Nothing is assumed of
peers, and none has to finish for `SignalStops`: a peer has a bounded message, so
the loop of reads ends.

`AeServer`: `ServerSpec` assumes weak fairness of `Process`: the thread is
scheduled, `epoll_wait` returns when something is ready or when `PrintTimer`, if main could
create it, is due, and a client that is written to reads or leaves, so that the blocking write
returns.  Nothing is assumed of clients otherwise, nor of signals.

`BbrClient`: `Spec` assumes weak fairness of `Main`, `Run` and `Tick`: both threads
are scheduled, the peer reads what is sent or leaves, so that the blocking write
returns, and time passes.  `Tick` stops at `MaxRun`, after the end of the run.

## 4. Proofs

All theorems hold for every value of the constants that satisfies the named
assumptions (`FileEventsAssumption`, `TimersAssumption`, `ConnBufferAssumption`,
`TcpServerAssumption`, `ServerAssumption`, `BbrAssumption`: sizes are naturals, positive where the code needs it, and the "none" values are
none of the others; an int holds the milliseconds of a second).  In particular the 1000 milliseconds of a second, any set
size, any mbuf size, any recycle limit and any number of connections and timers
are covered.

| Theorem | Property | Inductive invariant |
|---|---|---|
| `AeFileEventsProofs!TypeCorrect` | `TypeOK` | with `CurIsSlot`: inside an entry of the fired array `cur` is a slot |
| `MaxfdCorrect` | `MaxfdExact` | `MaxfdInv`: `maxfd` is registered or -1 and nothing above it is registered |
| `InterestCorrect`, `OnlyCloseLoses` | `InterestAgrees`, `LostOnlyByClose` | itself |
| `HandlersCorrect` | `CallsSetHandler` | `HandlersSet`: a direction in a mask has its callback set |
| `FreshDeliveryCorrect` (assumes `OwnDescriptorOnly`) | `FreshDelivery` | `FreshInv`: an entry still to be handled belongs to a registration that has not ended |
| `AeTimersProofs!TypeCorrect` | `TypeOK` | itself: the carry keeps milliseconds below a second |
| `ForcedTimersRunCorrect`, `NoDueTimerSkippedCorrect` | `ForcedTimersRun`, `NoDueTimerSkipped` | `PassInv`: every old timer already passed by the scan waits for a time later than `floor` |
| `TimerKeepsItsTimeCorrect` (assumes `~RearmAfterDelete`) | `TimerKeepsItsTime` | `TypeOK` |
| `SleepsUntilNearestCorrect` | `SleepsUntilNearest` | `TypeOK`; the argument is the arithmetic of borrow, clamp and conversion to an int, and that the search finds the minimum: exact from 0 to the largest int, shorter or endless beyond, not negative and below a second when overdue |
| `ConnBufferProofs!TypeCorrect` | `TypeOK` | with `CallInv` (what a call under way has done so far) and `MarkerInv` (`pos <= last <= Cap`) |
| `MbufsNotShared` | `NoMbufShared` | `ShareInv`: also, only open connections hold mbufs and `mstats.conns` counts them, which is what `context_destroy` tests |
| `QueueCorrect`, `ReadableCorrect` | `QueueHoldsStream`, `UnreadIsReadable` | `StreamInv`: also, a full mbuf that has been read out does not stay in a queue |
| `StreamsRefined` | `DeliversStreams` | `StreamInv`: initial states map to initial states, each step to a step or a stutter of `ByteStream` |
| `StatsExactCorrect` | `StatsExact` | `StatsInv`: the counters one by one, `conn_info` counted off early while a connection is recycled; with `ShareInv`, which makes the free list and the queues disjoint |
| `PeekCorrect` | `PeekSeesNext` | `StreamInv`; the loop over the queue is a recursive function, see below |
| `DataSizeCorrect`, `ReadsDeliver` | `DataSizeNeverAhead`, `ReadDelivers` | `CountInv`: `data_size` plus what the running call has not yet counted never exceeds what is unread |
| `NothingStrandedCorrect` | `NothingStranded` | `StrandInv`: also, between rounds no event is in hand, and an event of the listening socket has a connection behind it |
| `TcpServerProofs!TypeCorrect` | `TypeOK` | `TypeInv`: with `AcceptInv` (clients made, plus one each for the listening socket being on the ready list and in hand, are no more than the connections) and `TableInv` (entries of `clients_` are different objects, an open descriptor has one) |
| `ReceivedOnceCorrect`, `AnnouncedIsStoredCorrect` | `ReceivedOnce`, `AnnouncedIsStored` | `StoreInv`: the buffer of an open descriptor ends with all that was read of its peer (`TailInv`), a peer that waits has not been read (`PeerInv`), `data_size` is not ahead of the buffer (`SizeInv`) |
| `ClientsDeletedCorrect` | `ClientsDeleted` | `LossInv`: until the destructor runs, `clients_` has an entry for exactly the numbers in `seen`; with `TableInv`, by which as many clients are counted as were made |
| `AeServerProofs!ServerTypeCorrect` | `ServerTypeOK` | `ServerInv`: with `ProgramInv`, which says where main and the callbacks are when the loop is in each phase, that nobody registers for writing and only the listening socket has `AcceptTcpHandler`, and that a descriptor that fired and was not ended is open |
| `ConventionsKept` | `KeepsConventions` | `ServerInv`: each step maps to a step of `AeFileEvents` or a stutter |
| `ServersDeliverFresh` | `FreshDelivery` | follows from `ConventionsKept` and `FreshDeliveryCorrect` |
| `LeakBounded` | `LeaksOneAtMost` | `ServerInv`: its part `HeldInv` says that an open descriptor nobody holds is the only one, and that the listening socket is then closed |
| `BbrClientProofs!TypeCorrect` | `TypeOK` | itself: `AsInt` stays in the range of the int |
| `ThreadEndsFirstCorrect`, `TraceIsCleanCorrect` | `ThreadEndsFirst`, `TraceIsClean` | `SharingInv`: after the join a started thread is done; a descriptor that is the trace never was a connection |
| `SendsFullTimeCorrect` | `SendsFullTime` | `TimeInv`: without a wrap `now` and `stop` are the true times shifted by one multiple of the modulus |

`BoundedSets` proves from the well-foundedness of `<` that the sets of numbers met here have
a maximum and a minimum, which the scan for the next `maxfd`, the walk along the
timer list and the search for the nearest timer rest on.  The lemmas at the head of
`ConnBufferProofs` say what TAILQ insertions and removals do to the elements of a
list without duplicates, and those at the head of `BbrClientProofs` what the
conversion to an int does to sums and comparisons.

`PeekCorrect` is about a recursive function, `dst[k]`, the bytes copied from the
first `k` mbufs.  Its value for every `k` is given in closed form (`Upcoming`); the
closed form satisfies the recursion, so a function that does exists, and two that do
cannot differ at a least `k` (`PeekIs`, with `LeastNat` of `BoundedSets` in place of
an induction).

`ClientsDeletedCorrect` covers every run, with peers that close and numbers that are
used again: it says how many clients the destructor leaves behind, so that none is
left if and only if every accept returned a new number.

Only model-checked: `DueTimersFire` of `AeTimers`, `FinishedPeersServed` and
`SignalStops` of `TcpServer`, `ClientsServed` and `SignalStops` of `AeServer`, `Ends`
of `BbrClient`.  They are liveness under fairness, which is outside the prover's
logic here.  Every invariant and every action property that a passing run checks is
proved.

## 5. Not modelled

- `base/queue.h` is the BSD header, taken over unchanged.  `ConnBuffer` uses the
  sequences its TAILQ and STAILQ stand for; the other macros have no user.
- The `su_*` wrappers of threads, mutexes and conditions in `platform_linux.c`, the
  UDP and option wrappers there, most of `anet.c`, `ThreadManager` and the thread
  names, and the settable global clock: no program of the repository calls them, so
  there is no state they could be checked against.  `su_cond_wait` waits without a
  predicate and would need one from its caller.
- `aeWait` and the before-sleep hook: nothing uses them.
- Conversions of addresses: pure functions of strings around one library call.
- Allocation (abort on failure) and logging: no state of their own.
- The tests and `print_tcp_info.cc`: programs that print.  `mbuf_test.c` is quoted
  where it says what the buffers are to do.
- An optimised build, in which the plain flags shared by threads may be read once;
  the failure of `pthread_create` in `server.cc`; a connection that is reset under
  `server.cc`.
