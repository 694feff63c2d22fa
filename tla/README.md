# A formal model of System-Call-Learn

The repository is a collection of programs written to learn the Linux system call
interface: network servers on `select`, `poll` and `epoll`, thread synchronisation
with mutexes, condition variables and semaphores, and small demonstrations of
signals, sockets and I/O. This directory holds TLA+ modules of the parts that
have a protocol, TLC configurations that check them on small instances, and
proofs that the TLA+ proof system checks for every value of the constants.

`tlc -config X.cfg M` checks one run; `tlapm M.tla` checks the proofs of a module.

## 1. Inventory

| Component | State it keeps | Operations | Interaction | What is hard | Modules |
|---|---|---|---|---|---|
| Reactor server (`Reactor/`: `Reactor.hpp`, `Accepter.hpp`, `Service.hpp`, `Util.hpp`, `epoll_server.cc`, `Sock.hpp`) | map fd -> `Event` with two buffers, the epoll instance, the descriptor table, the batch `revs[]` | `Dispatcher`, `Accepter`, `Recver`, `Sender`, `Errorer`, `InsertEvent`, `DeleteEvent`, `EnableRW` | callbacks from the event loop; clients over TCP | edge triggering, stale events of a batch, reuse of descriptor numbers, partial send, requests split over reads, client aborts | `Reactor`, `ReactorProofs`, `ReactorEdgeProofs` |
| Level-triggered servers (`Reactor/select_server.cc`, `IO/select_server/`, `IO/poll_server.cc`, `IO/epoll_server(完善版).cc`) | array of descriptors (or the epoll instance), the set the last wait reported | wait, accept, recv, close | clients over TCP | a full array, reuse of numbers within a round, a failing recv | `LevelServers`, `LevelServersProofs` |
| Ring buffer, one producer and one consumer (`pthread/生产者消费者模型/ring_queue(基于信号量).cc`) | vector, two indices, two semaphores | `Push`, `Pop` | shared memory, no lock | all interleavings of two unlocked threads | `RingQueue`, `BoundedFifo`, `RingQueueProofs` |
| Ring buffer, many threads (`MultiThreadVersion.cc`) | the same and two mutexes | `Push`, `Pop` | shared memory | posts come in another order than the writes | `RingQueueMT`, `BoundedFifo`, `RingQueueMTProofs` |
| Blocking queue (`BlockQueue.hpp`, `CpTest.cc`) | `std::queue`, mutex, two condition variables | `Push`, `Pop` | shared memory, signals | `if` instead of `while`, half-full thresholds, lost signals | `BlockQueue`, `BoundedFifo`, `BlockQueueProofs` |
| Singleton thread pool (`pthread/线程池/单例模式线程池/`) | pointer `ins`, task queue, mutex, condition variable | `GetInstance`, `InitThreadPool`, `PushTask`, `Rountine` | shared memory, signals | double-checked creation, signal outside the mutex | `ThreadPool`, `ThreadPoolProofs` |
| Simple thread pool (`pthread/线程池/简单线程池/`) | task queue, mutex, condition variable | `PushTask`, `Rountine` | shared memory | does not compile | - |
| Ticket sellers (`pthread/抢票问题*.c`) | the counter `tickets`, a mutex in one of them | `ThreadRun`, `GetTicket` | shared memory | test, print and decrement without a lock; stores that come late | `Tickets`, `DemoProofs` |
| Condition variable demonstration (`pthread/thread_cond.c`) | mutex, condition variable | `ctrl`, `work` | signals | waits without holding the mutex | `CondDemo`, `DemoProofs` |
| Thread demonstrations (`thread_create.c`, `thread_join.c`, `pthread_detach.c`) | none | create, join, detach | - | undefined behaviour at the first join | - |
| UDP client and server (`net/udp_*.cc`) | a buffer each | send, receive | datagrams | loss, duplication, reordering; a buffer that is reused | `UdpEcho`, `DemoProofs` |
| Signal mask and flag (`signal/信号屏蔽.c`, `volatile.c`) | a signal mask, a flag | handlers, `sigprocmask` | asynchronous handlers | a flag that is not volatile, signals that merge while blocked | `Signals`, `DemoProofs` |
| Readers (`IO/fcntl.cc`, `阻塞IO.c`, `非阻塞IO.c`) | a buffer, `errno`, the flags of the file | `SetNonBlock`, a round of read, write, print | the terminal that 0 and 1 share | a non-blocking input makes the output non-blocking; a stale `errno` | `Readers`, `DemoProofs` |
| `IO/epoll_server.cc`, the other files of `signal/`, `net/socket.cc` | none | one wait per round | - | nothing is kept between rounds | - |

What makes each modelled part correct:

* **Reactor.** The map and the epoll instance agree; a callback never runs on a
  deleted event or a reused number; no read or write edge is lost, and no accept edge
  but by a failed accept; while the process lives only a client that ended its
  connection is dropped; every complete request is answered once and in order, given
  room for the answers; every end is noticed.
* **Level-triggered servers.** No accept or recv blocks; what is watched is open
  and watched once; every end is noticed.
* **Queues.** Each is a bounded first-in first-out buffer; nobody waits for ever.
* **Thread pool.** One pool; a task is run exactly once; no worker sleeps while a
  task waits.
* **Ticket sellers.** With the mutex each ticket is sold once, in order; without it
  no ticket disappears that nobody announced; all threads end sold out.
* **Condition variable.** Workers overlap only as far as first waits have stolen the
  mutex; work goes on.
* **UDP.** A client at its prompt has been served, but for datagrams the network made
  up; it waits for ever only after a loss.
* **Readers.** The echo is the input, except where a full terminal refuses it; a failure
  is only reported of a read that failed or found the end.
* **Signals.** No signal is lost by the mask, and a caught one ends the loop if the loop
  still looks.

## 2. Modules

**`Reactor`** models the epoll server of `Reactor/` with its clients and the kernel
around it. A step of the server is one system call and the thread-local code
up to the next one; clients and kernel act between any two steps. `EpollWait`,
`DispatchRead` and `DispatchWrite` are the loop of `Dispatcher`; `AcceptOne`,
`AcceptDone`, `AcceptError` and `InsertEvent` are `Accepter`; `RecvChunk`, `RecvDrained`,
`RecvEnd` and `Process` are `Recver` with the framing of `Util.hpp`;
`SendAll`, `SendShort`, `SendFull`, `SendError` and `SendKilled` are `Sender`.
`events`, `inbuf` and `outbuf` are the map and the buffers of its `Event`s,
`batch` what is left of `revs[]`, `epoll` and `ready` the interest masks and the
ready list of an edge-triggered instance, `owner` the descriptor table. A request
is two bytes, its text and the separator, and so is an answer (`Reply`): a recv cuts a
request and a send cuts an answer anywhere. `SendKilled`, SIGPIPE, takes the whole
process with it: its descriptors, its epoll instance and its memory. `missed` is history
for a property: an accept has failed with a connection waiting.

`NonBlocking = FALSE` is the program as built: `Accepter` never calls
`SetNonBlock` on the descriptor it accepts. `NonBlocking = TRUE` is the program
its comments describe, with that one call added; the passing runs use it, since
as built the loop stops in the first read (run `reactor_blocking`). The two findings
about `SenderCore` are of that program too (section 4). The theorems hold for both
values.

**`LevelServers`** models the four level-triggered servers in one module, because
they differ in few actions: `program` says which one runs, and `SelectServer`,
`SelectIOServer`, `PollServer` and `EpollServer` list the actions of each. `slot`
is the array of descriptors, `found` what the wait reported, `at` the place the
scan has reached. The four agree on accepting into the first unused place and on
one recv per readable descriptor; they differ on a full array (close or leak), on
a failing recv (close or ignore) and on the scan (array or `revs[]`).

**`BoundedFifo`** is the abstract specification of the three queues: atomic `Put`
and `Take` on a buffer of at most `Cap` values.

**`RingQueue`** and **`RingQueueMT`** model `Push` and `Pop` with one step per
semaphore operation, mutex operation or access to shared memory. They implement
`BoundedFifo` under the refinement mapping `Fifo`: the values between the oldest
unread slot and the last written one (`Contents`) are the abstract buffer.

**`BlockQueue`** models `Push` and `Pop` with the condition variables: a signal to
nobody is lost, a wait gives up the mutex and takes it again, and a wait may end
without a signal where `use.spurious` says so. `Uses` chooses the programs, and with
them the capacity.

**`ThreadPool`** models `GetInstance` with its double check, the creation of the
workers, `PushTask` and the loop of the workers.

**`Tickets`** models both ticket programs, `locked` says which. `sales` and `sold` record
the lines printed, which is what a user sees of a sale; the store that belongs to the
line may come much later.

**`CondDemo`** models `thread_cond.c`. A wait releases the mutex whoever holds it, as a
normal mutex of glibc allows; `strays` counts the first waits that did so to another
worker.

**`UdpEcho`** models the UDP server, its clients and the network, a bag of datagrams
in each direction that loses and duplicates. A message is a short sequence of
letters, because the server prints what its buffer holds up to the first zero.

**`Signals`** models the programs with the signal mask and with the flag. `build` says
whether the compiler loads the flag in each turn of the loop or once before it.

**`Readers`** models the three readers of the standard input with a user and a screen.
`terminal` says whether descriptors 0 and 1 are one open file, as in a shell; then
`SetNonBlock(0)` changes both. `errno` is `"again"` or `"other"`: successful calls may leave it
or change it. A read can fail at any time with another errno (`ReadFails`). The bytes typed are numbered, `cut` holds those that a write left out.

**`MCDemos`** lets one of `Tickets`, `CondDemo`, `UdpEcho`, `Signals` and `Readers` run per behaviour (`program`); they share nothing.

The `MC*` modules give the constants the small values the configurations use.
A definition marked "Mutation" in a module is a wrong variant of the one that
follows it and belongs to no specification: each shows what mistake in the code
a property catches.

## 3. Runs

| Run | Result | What it shows |
|---|---|---|
| `reactor_safety` | holds | agreement of map and epoll, no stale event, leaks only from a failed `EPOLL_CTL_ADD`, write events on demand, no lost read or write edge, no connection left waiting but by a failed accept, healthy clients kept unless SIGPIPE ends the process; short sends repeat bytes, but each comes after those before it and none is lost |
| `reactor_stream` | holds | conservation of the answers, which includes their order, every request answered, every end, FIN or RST, noticed |
| `reactor_blocking` | violated | as built, a read round never ends |
| `reactor_resend` | violated | with the accepted descriptor made non-blocking, a partial send is sent again from the start |
| `reactor_sigpipe` | violated | with the same call added, a send on an aborted connection kills the server |
| `ring_queue` | holds | the ring implements `BoundedFifo`, no slot is shared, nobody waits for ever |
| `ring_queue_mt` | holds | the same with two producers and two consumers, who never all wait for each other |
| `block_queue_uses` | holds | with one producer and one consumer the `if` is enough: the queue is a bounded queue of its capacity, a thread left waiting has left at most (at least) half of it, and with capacity 2 or more every call returns; in every program with capacity 2 or more somebody is awake |
| `thread_pool` | holds | one pool, a task in one place, no idle worker while tasks wait, every pushed task runs |
| `level_servers` | holds | no blocking accept or recv, the array and the open descriptors agree, every end noticed, for all four servers |
| `demos` | holds | the sales add up, workers overlap no more than stolen mutexes allow, a prompt means the server has printed, the report means no signal came, the echo is in order, lines about a read without data are justified; sellers end, work goes on, answers come, signals take effect |
| `udp_print` | violated | a short datagram is printed with the tail of an older one |

### Bounds

* `reactor_safety`: two clients with two descriptors, so a number can be reused
  within a batch of two events; two requests of one client and one of the other in
  chunks of three bytes, so a request is split over reads and two can come in one; a
  send queue of three bytes, so a send can be partial, with its cut inside an answer, or
  refused; clients that read up to three bytes; accept calls that may fail (`AcceptFails`)
  and one failing `EPOLL_CTL_ADD`; both clients may close and the second may reset, so
  SIGPIPE can meet a process that serves a healthy client. `reactor_stream`
  has one client with three requests, the middle one malformed, that may close, and one
  with a single request (`Quota`) that may reset; one event per `epoll_wait`, so a ready
  descriptor waits while another is served; and a send queue of four bytes, which holds
  both answers of the first client, because with a partial send the answers are wrong
  (that is `reactor_resend`). There accept does not fail: a connection it left behind
  would never be answered.
* `ring_queue`: three slots and two values, so the indices wrap around apart from
  each other. `ring_queue_mt`: two slots, so two threads of a kind are inside at once.
* `block_queue_uses`: the capacities 1 to 5 (`CpTest.cc` has 5), so that half of it is
  rounded and not; `MaxOver` = 1 lets a queue grow one beyond its capacity where a
  program makes it. One of the programs has two producers and two consumers
  (`ManyThreads`), so that signals meet sleepers of both kinds; `NeverAllAsleep` speaks of
  every program with `Cap > 1`. The others speak of the program of `CpTest.cc` (`OneEach`).
  With spurious wake-ups or a second consumer the same operations do pop an empty
  queue, and with capacity 1 the condition of `BlockQueue.hpp:102` is `0 < 0`, the
  producer is never woken and both wait for ever: hence the conditions `OneEach` and
  `Cap > 1`.
* `thread_pool`: two clients that race to create the pool, two workers, three tasks
  and a few waits that end without a signal (`MaxSpurious`).
* `level_servers`: three clients for two descriptors, so accept runs out of them;
  arrays of two and three places, so the array fills up; `MaxSends` = 2 units of data.
* `demos`: three sellers and two tickets, so two threads are past the test while a third
  holds an old value; four workers, so that up to three mutexes can be stolen; two UDP
  clients with two requests each and one loss and one duplicate of either kind each
  (`MaxSent`, `MaxLost`, `MaxDup`), so an answer can belong to the request before; three
  rounds for twenty (`Rounds`), of which only the last one differs; five bytes in reads of
  up to two and room for three (`Length`, `Chunk`, `Room`), so a write to a terminal that is
  behind is whole, partial or refused.
* `udp_print`: messages of one to three letters and room for two (`Size`), a network
  without faults, and the friendliest of the uninitialised buffers, one of zeros.
* `Peer*`, `MaxReads`, `MaxSends`, `MaxOver` and `MaxSpurious` bound what the environment
  does, never what the code does.

Deadlock is checked in `reactor_stream`, `ring_queue` and `ring_queue_mt`, not in the runs whose clients and threads may simply have
finished: a server with no client left waits for ever, and that is right.

### Fairness

The servers are single threads that the kernel schedules: `WF(Server)`. In
`reactor_stream` clients also read what has arrived, because an answer cannot reach
a client that does not read. Nothing else is assumed of clients: they may never
connect, send or close. For the queues a thread inside a call is scheduled. A
consumer of `BlockQueue` keeps calling `Pop` since its loop in `CpTest.cc` is endless. The
repository has no program that uses the rings: that their consumers keep calling
`Pop` is an assumption about whoever does, without which a full ring keeps its producers. In
`ring_queue_mt` only the producers together and the consumers together are
scheduled fairly, because neither `sem_wait` nor a mutex is fair to a particular
thread; `SlotsRecycled` speaks of the consumers together accordingly. The
`ThreadPool` clients and workers are each scheduled, a client need not call.
In `demos` each thread and process is scheduled and the boss of `thread_cond.c` keeps
signalling; the UDP server comes to each client's datagrams since a socket is a
queue, the network owes nothing, nobody has to type or to send a signal. No wait has
to end without a signal.

## 4. What the runs disagree with

* **Accepted descriptors block** (`Accepter.hpp:22`, run `reactor_blocking`).
  Only the listening socket is made non-blocking. `RecverCore` loops until `EAGAIN`,
  which a blocking descriptor never returns, so the whole event loop waits for one
  client; `Service.hpp:35` describes the return that cannot happen.

The next two are of `SenderCore`, which the program as built never reaches
(`AsBuiltNothingAnswered`). Their runs set `NonBlocking = TRUE`: they show what the
program does once `SetNonBlock` of the accepted descriptor is added, for which its
`EAGAIN` branches (`Service.hpp:33` and `:133`) are written.

* **A partial send is repeated** (`Service.hpp:111`, run `reactor_resend`).
  `total`, the amount sent in this round, is declared inside the loop. A client whose send
  queue takes only a part of the buffer reads that part again; if it ended inside an
  answer, its beginning and the repeated text run into one, which may read as another
  answer.
* **SIGPIPE** (`Service.hpp:114`, run `reactor_sigpipe`). `Reactor.hpp:142` leaves all
  errors to the I/O functions; this one ends the process, and with it the connections
  of all clients.

The last is of a program as it is built:

* **A datagram is printed with the tail of an older one** (`udp_server.cc:57`, run
  `udp_print`). `recvfrom` ends no string and its result is not used. The client prints its
  buffer in the same way; since every answer is the same text, what follows there is
  whatever the array held at the start.

Without a run of its own: `fcntl.cc:33` looks at `errno` also where `read` returned 0, which
leaves `errno` alone, so the end of the input may be reported as data that is not
ready. `LinesJustified` shows how far this goes: only after a call that did fail with
`EAGAIN`, hence never for a file, where a first trial would look.

## 5. Proofs

Every theorem holds for all values of the constants that satisfy the assumptions of
its module; a hypothesis of its own stands in its statement. So the proofs about
`Reactor` hold for any number of clients, descriptors, requests and events per wait,
any room in the send queues and both values of `NonBlocking` and `AcceptFails`; those about the queues
for every capacity above 0 and any set of values; those about the pool and the
level-triggered servers for any number of clients, workers, tasks and places.

**Reactor** (`ReactorProofs`, `ReactorEdgeProofs`)

* `ReactorProofs` first derives induction over a set (`NatInductionSet`) from the
  well-foundedness of `<` on `Nat`, because the library's induction theorem takes an
  operator as a parameter, and proves what the operators return (`AnswersType`,
  `RestType`, `LevelType`, `SeqFacts`) and what the loop over the requests makes of a stream:
  by induction over its second part, `AnswersConcat` says that a stream may be cut anywhere
  if what `SplitSegment` left of the first part is put before the second.
* `Safe == TypeOK /\ MapMatchesEpoll /\ HandlerEventLive /\ BatchFresh /\ Shape` is inductive.
  None of the conjuncts is inductive alone: that a callback works on a live event
  needs that the batch holds one entry per descriptor and none for the current one
  (`Shape`), which needs that removing an event removes it from the epoll instance
  (`MapMatchesEpoll`). `Shape` says where the thread is: which values `cur` and `newfd`
  have at each step of the loop. Results: `TypeCorrect`, `MapAndEpollAgree`,
  `EventsNeverStale`. With it `LeakInv` (outside the insertion
  nothing is in `newfd`) is inductive and gives `LeaksAreFailedAdds`.
* `ReactorEdgeProofs` proves from `Safe` that no read edge is lost
  (`NoReadEdgeLost`) and that healthy connections are kept
  (`HealthyConnectionsKept`): a step that drops one is the SIGPIPE of another client that
  closed and then reset, which ends the process. `WritesOnDemand` needs the strengthening `Demand`: a write
  event in the batch, or on the event in hand, was reported because the interest
  was on. `NoWriteEdgeLost` needs `Demand` and `QueueBounded`, that the send queue never
  exceeds its room. `NoConnectionLeftWaiting` needs no number of descriptors:
  `Accepter` leaves a connection behind only where an accept fails, which `missed` records
  until another client connects and makes a new edge. `AsBuiltNothingAnswered` says what the missing `SetNonBlock`
  costs: with `NonBlocking = FALSE`, no answer is ever sent to anyone.
* `NoAnswerLostOrRepeated` (`Conservation`) and `AnswersComeInOrder` (`AnswersInOrder`) are
  false where `send` takes a part of the buffer (`reactor_resend`). Their hypothesis
  `QueueHoldsAll` is a send queue with room for all the answers a client asks for, as
  in `reactor_stream`; `StreamBounds` shows that then no send is short.
  `StreamInv` says for each accepted connection that is not aborted that its
  answers are conserved and that the bytes on their way are the last ones written and start
  after a request (`Stream`); for a client still to be accepted that nothing of its
  requests was touched (`Fresh`); and for every client that what it has read and
  can read comes first among its answers (`ReadsAnswers`), which an abort keeps although it
  ends conservation. Each step that moves bytes or answers is one lemma about
  sequences (`StreamWrite`, `StreamReceive`, `StreamProcess`, `StreamSend`), and `OnePlace`
  keeps it from touching another connection.
* `AnswersAreInTurn` (`AnswersInTurn`) has no hypothesis: it says what is left of the two
  for a send queue of any length, and of bytes: each is read only after all that come
  before it, none is lost. Whole answers are not claimed, since the repeated part may run
  into the one that was cut. The bytes that have left the output buffer are no longer
  what was sent, only contained in it, so `Carries` states `Stream` of a sequence
  `p` whose elements were all sent, and which is what was sent if `QueueHoldsAll`. `InTurnSend` is
  the step that matters: any part of the front of the buffer, sent once more, comes
  after all that precedes it. `StreamInv` carries both cases in one induction.

**Level-triggered servers** (`LevelServersProofs`)

* `IInv == TypeOK /\ Connections /\ Places /\ LostCounted /\ Reported /\ RecvNeverBlocks` is
  inductive. That no recv blocks rests on a report older than the accepts and closes
  of the same round. `Reported` says that what was reported was watched and still is when
  the scan reaches the listening descriptor, which has the first place: an accept, the
  only call that reuses numbers, cannot take the number of one that was reported.
  `Places` (no descriptor in two places, each one open) and `Connections` (no connection
  behind two descriptors) keep a recv or a close from changing what another place will
  find; `LostCounted` counts what the poll server accepts into a full array. Results:
  `NoCallBlocks`, `WatchedIsOpen`.

**Queues** (`RingQueueProofs`, `RingQueueMTProofs`, `BlockQueueProofs`)

* `RingQueueProofs`: the semaphores alone say how many slots are taken, not which.
  `SlotExclusive` and the refinement need `Distance`, that the two indices are as far apart
  as there are values, up to whole rounds of the ring.
  `IInv == TypeOK /\ SlotsAccountedFor /\ Distance /\ InputGiven` is inductive. From it
  `NoSlotShared`, and `RingIsBoundedFifo`: the write of `Push` is the `Put` of `BoundedFifo`
  (`PushWriteIsPut`: the slot written is the one after the last value and none of the
  others), the read of `Pop` its `Take` (`PopReadIsTake`), every other step stutters
  (`OtherStepsStutter`).
* `RingQueueMTProofs` follows the same line for any finite sets of producers and
  consumers. The semaphores are now counted against the cardinalities of the sets of
  threads at each step (`SlotsAccountedFor`), since posts come in another order than
  the writes; `MutexHeld` says that one producer and one consumer at most is at its index,
  which makes `Distance` a statement about the two of them. Results: `NoSlotGivenTwice`,
  `NoSlotShared` and the refinement `RingIsBoundedFifo`.
* `BlockQueueProofs`: `OneInside` holds in any use of the class, with any set of threads.
  `TheIfIsEnough`, `HalfIsLeftOver` and `QueueIsBoundedFifo` speak of one producer and one
  consumer without wake-ups out of nowhere, as the properties do. What makes the `if`
  enough there is `Found`: with one thread on each side nobody but the thread itself can
  undo what it found, or what it was woken for.
  `IInv == TypeOK /\ MutualExclusion /\ InUse /\ Found /\ IfIsEnough /\ FewLeftOver`.
* `NotAllAsleep` holds for any set of threads, with wake-ups out of nowhere or without, and
  any capacity above 1. `SomebodyAwake` is inductive beside `IInv`: in a queue that is more
  than half full some consumer is awake, in one that is less than half full some
  producer. A thread that falls asleep found the queue full or empty, so one of the
  other side is awake (`SleepKeepsAwake`); a call that takes the queue past half of
  the capacity has signalled (`PushKeepsAwake`, `PopKeepsAwake`).
* `NotAllBlocked` (`RingQueueMTProofs`): who waits for a mutex waits for a thread inside it,
  which does not wait. So all would wait for semaphores, both of which are 0, and no
  slot would be anywhere, against `SlotsAccountedFor`.

**Thread pool** (`ThreadPoolProofs`)

* `IInv == TypeOK /\ MutualExclusion /\ ArgGiven /\ PoolBuilt /\ OnePlace /\
  NoIdleWorkerWhileTasksWait`. `PoolBuilt` says that `ins` is set exactly when a pool was built,
  and that no client is past the double check before that.
  `OnePlace` is `TaskInOnePlace` without counting: every two places of a task are the
  same one. From it `TaskHeldOnce` follows by cardinalities of sets with at most one
  element, with no induction along the queue. That no worker oversleeps is inductive with
  mutual exclusion: a worker that begins to wait has seen the queue empty under the mutex,
  and every task pushed comes with a client still to signal or a worker it has woken.

**Small programs** (`DemoProofs`)

Each result about `CondDemo`, `UdpEcho`, `Signals` and `Readers` is stated for the program
alone and for `MCSpec`, where it is one of several (`EachProgramAlone`).

* `TheSalesAddUp`:
  `IInv == TypeOK /\ Exclusion /\ NothingSoldSilently /\ StoresCovered /\ SalesInOrder /\ ReadsCurrent`
  is inductive. A store writes a number read long ago, so the count of
  announced tickets must be compared with what each thread is about to store
  (`StoresCovered`) and not only with `tickets`; with the mutex, `Exclusion` says who is
  inside, hence that what was read is still there (`ReadsCurrent`).
* `OverlapIsBounded`: inductive with the types; a worker gets in only when `lock` is 0, and
  only a first wait makes it 0 while another works.
* `ThePromptMeansPrinted`: `AnswersCounted` and `RequestsCounted` balance each client's
  datagrams. The requests on their way are a bag, counted as the cardinality of a set
  with one element per datagram (`OnTheWay`).
* `LiftedMeansQuiet`, for any number of rounds above 0: `MaskInv` says that a signal that
  came while it was blocked stays pending until the mask is put back, which is in round
  `Rounds` and kills the process.
* `TheLinesAreJustified`: `ErrnoInv` says that `errno` is `EAGAIN` only after a call that
  failed with it, is `EAGAIN` from a read that found nothing until its line is printed, and
  is not from a read that failed in another way until then.
* `TheEchoIsInOrder`, for any room of the terminal (`Room \in Nat`), any length of the input
  and any chunk: `EchoInv` says that the screen, the text read and not yet echoed and the
  waiting input follow each other (`Increasing`, `Below`) and are together all that was typed
  but for the bytes cut. A write that takes a part of the text is the lemma `CutInTwo`.

The type invariants are proved and part of the inductive invariants; no run repeats them.

Only model-checked: the liveness properties, since fairness and `ENABLED` are out of the
prover's reach. Every invariant and every action property of the passing runs is a theorem.

## 6. Abstractions

* Failures at start-up (`Socket`, `Bind`, `Listen`) exit the process and are left out;
  so are `EINTR` (no handler is installed), the text of messages, what is printed,
  and the return values nobody looks at.
* `Reactor`: bytes are positions in the stream of a client's requests. The byte written
  past the receive buffer when `recv` fills it, and the zero byte that would
  cut a chunk short, are not modelled. A connection may be aborted while it waits in
  the queue. An accept that fails leaves the connection in the
  queue. A kernel that takes a part of a buffer takes as much as there is room for.
* `LevelServers`: received data is only printed, so a unit is what one recv returns. A
  time-out changes nothing and has no action. The 64 events per `epoll_wait` are
  not a limit in the model; the last byte that `poll_server.cc:85` overwrites is not seen.
  `IO/select_server/select.cc` passes `Accept` an argument
  that `Sock.hpp` does not take, and the `Sock.hpp` of `poll_server.cc` is not in its
  directory; both are modelled with the accept of the `Sock.hpp` that is there.
* `Tickets`, `CondDemo` and `Signals`: sleeps and the text of the lines are left out. The
  thread function of the ticket programs ends without a `return`; the model follows
  builds that go on to the end of the thread, as the makefiles of the repository (no
  optimisation) make them. A signal that meets `printf` is not modelled.
* `UdpEcho`: of the client's buffer and of the answers only their number is kept. At
  the end of its input a client sends empty datagrams, which is a message here.
* `Readers`: a read fails at any time, for whatever reason; the text holds no zero byte (`strlen` would cut the echo there), `printf`
  succeeds, and the flags of descriptor 0 can be read.
* Destructors of queues and pools are left out: no program destroys one in use.
* `ThreadPool`: what a task computes is left out. The unlocked read of `ins` sees its
  current value.

Not modelled: see the inventory; `PROJECT.json` gives the reason for each part.

## 7. Plan

Order: first the server that has the richest behaviour, then the queues, then
the pool, then the level-triggered servers, then the small programs (all done), then
the proofs of section 5. What is left are the liveness properties, which stay with TLC.
