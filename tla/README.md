# Specifications of C-basic

TLA+ modules, TLC configurations and TLAPS proofs for the programs of this repository that
keep state: the thread managers, the semaphore, the ring buffer and the event queue built on
it, two programs around one condition variable, a kernel driver, two pairs of socket programs,
and the bit-counting program.
Paths below are relative to `src/`.

`PROJECT.json` lists components, runs, proofs and hazards, and maps each definition to the
lines it models.

## 1. The system

The repository is a collection of independent programs. The ones with a protocol of their own:

| component | state | operations | interaction | hard because |
|---|---|---|---|---|
| `08_Thread/semaphore` | counter, mutex, condition variable | `Post`, `Wait`, `TryWait` | threads share one object | `Post` notifies after it unlocks; spurious wakeups; the highest value |
| `manager_worker/05_..._sem` | per worker: flags `to_run_`, `to_quit_`, `state_`, two semaphores; manager: last request | `NewWorker`, `RunWorker`, `StopWorker`, `QuitWorker`, `DeleteWorker`; `ThreadFunction` | the manager raises a flag, then posts; the worker posts when it has stopped | flags are read without a lock; requests arrive during `Init` |
| `manager_worker/04_..._cv` | the same flags, four states, two mutexes and two condition variables per worker | the same | the mutexes are handed from one to the other | which mutex is held depends on the path; one wait without a predicate |
| `manager_worker/03_better_...` | three flags and two states per worker, mutexes and condition variables as in 04 | the same, with `InitWorker(s)`, `DeinitWorker` | empty lock-and-unlock sections order notifications | all waits without a predicate |
| `manager_worker/02_..._ptr` | `is_init`, `is_running` per worker; one pair of mutexes and condition variables for all | `attach/detach/init/start/stop/deinitWorker`; `newThread` | shared condition variables | `notify_one` may wake another worker; a flag written under the wrong mutex |
| `09_ringbuffer` | slots, two indices, free space | `write`, `read`, `read_nopop` | used by 13 | wrap-around, full and empty |
| `13_EventQ` | the ring buffer, a mutex, two condition variables; a flag and a menu | `Put`, `Get`, menu choices | producers wake consumers and vice versa | one `notify_one` per transfer; one flag for two kinds of request |
| `08_Thread/04_condition.cpp` | queue of codes, `g_notified`, `g_done` | workers push, logger prints, main joins | one mutex, one condition variable | the end is not notified |
| `08_Thread/player.cpp` | four request flags, two state flags | six menu choices, `play_animation` | two mutexes, two condition variables | request and response use different mutexes |
| `14_parrot_driver` | byte FIFO, table of message lengths, device mutex | `open`, `read`, `close`, `fifo` and `reset` of sysfs, insmod, rmmod | sysfs writes against device reads, both against insmod and rmmod | FIFO and table change in two steps; the device is visible before it is initialised |
| `04_Socket/.../uptime_...` | descriptor tables of server and children | accept, fork, `dup2`, `execl`, wait; client: connect with retries, receive | a connection is inherited, duplicated and closed | who closes it last; a child that cannot exec goes on serving |
| `04_Socket/.../foobar_...` | one connection at a time | accept, receive packets; client: connect with retries, send | a stream of bytes taken for packets | partial `send` and `recv` |
| `05_bit_counting` | loop variables | eight counting functions, `verify_bitcounts` | none | word width, masks, remainders |
| `03_BST` | a tree | construction, traversal, search | none | duplicates, balance |

Correct means, per component:

- **semaphore**: it behaves as an atomic counter whose `Wait` returns when it can take a unit;
- **thread managers**: a call returns when, and only when, what it waits for has happened; a
  request made at any time, during `Init` included, takes effect; a worker only runs
  initialised; its object outlives its thread;
- **ring buffer, event queue**: items come out once, in order; nobody sleeps whose turn it is;
- **logger, player**: no notification is lost; what was asked for happens; the program ends;
- **driver**: a read returns one whole message, the oldest;
- **sockets**: one process serves at a time; a client gets all of its answer, in whatever pieces,
  and ends; packets are printed whole and in order, never shifted;
- **sequential code**: the answers agree with their definitions.

## 2. Modules

| module | models | note |
|---|---|---|
| `Semaphore` | `pub/IUnNamedSemaphore.h` | abstract: `Post`, `Wait`, `TryWait` are atomic |
| `CvSemaphore` | `src/CvSemaphore.cpp` | a step per lock, section under the mutex, notification; implements `Semaphore` |
| `WorkerLifecycle` | the diagram of 05's `README.md` | abstract: one step per transition or request |
| `ThreadManagerSem` | `manager_worker/05` | implements `WorkerLifecycle`; semaphores as in `Semaphore` |
| `ObedientWorkers` | what the managers of 02, 03 and 04 promise | abstract: what each worker is, what it has been told, whom the call waits for |
| `ThreadManagerCv` | `manager_worker/04` | one worker (workers of 04 share nothing); implements `ObedientWorkers` unless one wait wakes up by itself |
| `ThreadManagerHandshake` | `manager_worker/03` | several workers, for `InitWorkers`; implements `ObedientWorkers` until a wait wakes up by itself |
| `ManagerWorkerShared` | `manager_worker/02` | several workers on shared condition variables; implements `ObedientWorkers` |
| `BoundedFifo` | the interface of `RingBuffer.h` | abstract |
| `RingBuffer` | `09_ringbuffer` | implements `BoundedFifo` |
| `EventQueue` | `13_EventQ/ProducerConsumer.cpp` | extends `RingBuffer`; its steps still implement `BoundedFifo` |
| `EventQMain` | `13_EventQ/main.cpp` | the menu and the threads that serve it, composed with `EventQueue` |
| `ConditionLogger`, `Player`, `ParrotDriver` | `04_condition.cpp`, `player.cpp`, `parrot_driver.c` | |
| `SocketHost` | `04_Socket/01_internet` | what both servers and both clients have line for line: start, accept, connect with retries; descriptor tables |
| `UptimeServer`, `FoobarServer` | `uptime_server_client`, `foobar_server_client` | extend `SocketHost` by `serve` and the client's part |
| `SocketPrograms` | | the two of them as one specification that runs either program |
| `BitLoops` | the loops, the tables and `verify_bitcounts` of `05_bit_counting/reference.cpp` | sequential; a word is the set of the positions of its ones, in any width |
| `BitCounting` | its three functions that calculate with the word as a number | extends `BitLoops`; uses `Bitwise`, so no theorems |
| `CvSemaphoreProofs`, `ThreadManagerSemProofs`, `ThreadManagerCvProofs`, `ThreadManagerHandshakeProofs`, `ManagerWorkerSharedProofs` | | the theorems about the component of that name (section 5) |
| `EventQMainProofs` | | about `RingBuffer`, `EventQueue` and `EventQMain` |
| `ProgramsProofs` | | about `ConditionLogger`, `Player`, `ParrotDriver` and `BitLoops` |
| `SocketProgramsProofs` | | about the socket modules |
| `MCBitCounting` | | the words TLC takes for the arguments |

### Conventions

A thread has a program counter whose labels are the points between two of its steps. What a
thread does while it holds a mutex, up to where it unlocks or blocks, is one step when no other
thread can see it half done; where the code reads or writes shared state without the mutex that
protects it elsewhere, each access is a step of its own (`RunWorker` and `RunPost` in
`ThreadManagerSem`, `SetDone` in `ConditionLogger`, `AddIn` and `AddLen` in `ParrotDriver`).

`condition_variable::wait(lock, predicate)` is a test under the mutex, a set of blocked threads
and a return to the test; `wait(lock)` has no test. `notify_one` picks any blocked thread, and
does nothing if there is none. `SpuriousWakeup` lets a blocked thread go on by itself. Where
the code relies on there being none (the waits without a predicate) a variable `spurious` says
whether they may happen (`ThreadManagerCv`, chosen in the initial state) or how many have
happened (`ThreadManagerHandshake`), so that one run shows what holds without them and what holds
with them.

Names, output, sleeping and the work done by user callbacks are left out; a callback is a step
that takes some time. The objects' methods that only return a flag are folded into their
callers. Operators preceded by the comment *Seeded bug* are no part of any specification: each
is a definition as a plausible mistake would have it, with which a property fails.

### How state corresponds

- `CvSemaphore`: `counter` is `counter_`, `mutex` the owner of `mutex_`; the threads at `"blocked"`
  are the ones inside `cv_.wait`. `Lock`, `PostFull`, `PostIncrement`, `NotifyOne`, `WaitTake`,
  `WaitBlock`, `TryTake`, `TryFail` are the lines 24 to 54 in order.
- `ThreadManagerSem`: `to_run`, `to_quit`, `state` are the worker's fields, `sem_op` and `sem_stop`
  the counts of its two semaphores, `req` is `ThreadWorkerInfo::req` (`"absent"`: no entry in
  `named_workers_`). `mpc` says where the manager is inside the call for worker `cur`, `wpc` where
  each `ThreadFunction` is.
- `ThreadManagerCv`: `req` and `resp` are the owners of the two mutexes. `mpc` labels ending in
  `_wait` are waits on the response condition variable, `"blocked"` is the worker's wait.
- `ThreadManagerHandshake`: `req[w]`, `resp[w]` are the mutexes; `todo` are the workers a call still
  has to notify, `pending` the ones whose answers it still has to collect (one lock of a response
  mutex each).
- `ManagerWorkerShared`: `lock_req_` and `lock_resp_` are the manager's mutexes.
- `RingBuffer`: the fields; `out` is the offset and the values of the last reading call. `skip` is
  `read` with a null output.
- `EventQueue`: `pc` of each thread inside `Put` or `Get`, `left` the calls it still makes.
- `EventQMain`: `at` of each thread in its own loop, `menu` of main; a thread at `"transfer"` is
  inside `Put` or `Get`, where `pc` says where. Main's mutex is held for sections without a wait,
  which are one step each. What the user chose is kept in `chosen`; how many transfers the threads
  set out for is `Calls - left`.
- `ConditionLogger`, `Player`: the globals under their own names. `missed`, here and in
  `ManagerWorkerShared`, is a history variable: the notification of the current call came when the
  one it was meant for did not sleep yet, or went to another.
- `ParrotDriver`: `fifo` holds one number of a message per byte; `locked` is the device mutex and
  `open` the readers with the device open, which are two things once `mutex_init` has run late;
  `rpc` and `wpc` are the reads and sysfs calls under way; `module` is how far insmod or rmmod has
  come. `sent`, `got` and `torn` are history: `torn` is raised by the overlaps that may do harm
  (below), and a reset with no call inside, or rmmod, lowers it.
- `SocketHost`: `fds[p]` is the descriptor table of process `p`, whose entries are the listening
  socket, a connection (named by its client) or something else. A connection is open as long as any
  table has it. `backlog` are the connections the kernel has completed. Each call that may fail
  does so in an action of its own (`ListenFails`, `SocketFails`, `RecvFails`, `WriteFails`, ...),
  or in a disjunct of one (`ConnectFails`), and takes one of the `MaxFaults` faults. `failed`,
  `unserved` and `split` are history: whose connection a fault, or a `recv` that split a packet,
  befell.
- `BitLoops`: `argument` is x of `verify_bitcounts`, `word` and `ones` are `n` and `count` of the
  loop that runs, `returned` what the loops returned. Shifts, masks, `n & (n - 1)` and the decrement
  are operations on sets. `arithmetic` stands for what the other three functions return;
  `BitCounting` says what that is. Its assumption, which TLC evaluates, is that the set operations
  do to a word what the operators of C do to the number.
- What a worker is and has been told, for `ObedientWorkers`: `Life` and `Wish` of the three
  managers. 04 has been told what its two flags say, or what the manager is about to raise; 03 what
  the call that names the worker asks for; 02 what `is_init` and `is_running` say.

## 3. Runs

A run checks its properties on all reachable states.

| run (configuration) | instance | shows |
|---|---|---|
| `semaphore` (`MCCvSemaphore`) | 4 threads; highest value 2, initial 1 | an atomic semaphore (`ImplementsSemaphore`); a unit a blocked thread could take always has a thread on its way to it (`NoLostWakeup`); a `Wait` returns unless the counter keeps coming back to zero |
| `manager_sem` (`MCThreadManagerSem`) | 2 workers | joint states of manager, flags and semaphores; no stale stop unit; flags raised unobserved; the life cycle; calls return; run and quit take effect |
| `manager_cv` (`MCThreadManagerCv`) | both kinds of condition variable | ownership of mutexes; no lost wakeup; without spurious wakeups of `RunWorker`'s wait also obedience (`ObeysUnlessSpurious`): requests are followed one after the other, none is lost or left over, a call that waits returns when the worker is what it was told; and calls return |
| `handshake` (`MCThreadManagerHandshake`) | 2 workers, at most one spurious wakeup | the handshake orders notification after wait; obedience until the first spurious wakeup (`ObeysUntilSpurious`), of all workers of a call; calls to a worker that waits return |
| `shared` (`MCManagerWorkerShared`) | 3 workers | answers find the manager waiting; obedience whichever worker a notification wakes (`WorkersObey`), the join of a deinited thread included; a call hangs only if its notification was missed |
| `ring_buffer` (`MCRingBuffer`) | 3 slots, 2 values, counts 0 to 4 | indices and free space agree; a bounded FIFO |
| `event_queue` (`MCEventQMain`) | 1 producer, 2 consumers, 2 slots, 3 choices | a request is served at most once and taken by somebody; nothing refused, nobody stranded |
| `condition_logger` (`MCConditionLogger`) | 3 workers | no code in the queue of a sleeping logger; the program ends or prints every code once |
| `player` (`MCPlayer`) | all choices | no lost request; a command the thread looks at returns unless its answer was missed; end ends |
| `parrot` (`MCParrotDriver`) | FIFO of 4 bytes, table of 3, 4 messages of 1 to 3 bytes, 2 readers, 2 sysfs processes | whole messages in order; the table describes the FIFO; all overlaps but the ones listed below |
| `bit_counting` (`MCBitCounting`) | about 900 words of 16 bits, all bytes among them | loops descend (`LoopsDescend`); all functions agree, and on the number of ones (`AllAgree`) |
| `sockets` (`MCSocketPrograms`) | 2 clients, backlog 1, 2 attempts, 2 addresses, 2 faults, 2 packets, a text in 2 pieces | one server; whole answers, unless a call failed on the client's own connection, in server or client; clients end; whole packets in order; all printed unless split |

What raises `torn` in the driver, so that the two properties of `parrot` say nothing until it is
mended: a read that finds bytes whose length is not in the table yet; two sysfs writes at once;
a reset during a read or a write; a call before `INIT_KFIFO` and the indices' assignment, or a
device opened before `mutex_init`; a fault in the reader's memory. The first three are what the
comment at `parrot_driver.c:158` knows of, or close to it; the run shows that the other overlaps
(a read and a write at different messages, opens and closes at any time, a write refused while
a read makes room) do no harm, and that a later quiet reset, or rmmod and insmod, mends all of
them. A torn driver is not called again before it is mended: the mending leaves nothing of what
such calls do.

The `TypeOK` of each module states the ranges of its variables. It is a conjunct of the inductive
invariant of the component. In `EventQueue` it is `QueueTypeOK`, in `EventQMain` `MainTypeOK`, in
`Player` and `ParrotDriver` `PlayerTypeOK` and `ParrotTypeOK`, in `BitLoops` `BitsTypeOK`, in the
socket modules `HostTypeOK`, `UptimeTypeOK` and `FoobarTypeOK`.

### Why the bounds are enough

Four threads on a semaphore allow a poster that has not yet notified, another poster, a blocked
waiter and one that has been woken at once; a highest value of 2 meets `PostFull`. Two workers are
enough for managers whose workers interact only through the manager, which serves one call at a time
(05, 03); a wrong wakeup takes two (02), and with the third one it can go to either of the others.
Workers of 04 share nothing, so there is one. One spurious wakeup (03) can strike either side at
every wait; what it does to the rest of the run is explored without limit. Three slots with counts
up to four meet every relation of the two indices, wraps inside a transfer, and refusals. Two
consumers can both be blocked when a value comes, in `Get` or at the menu, and a third request is
what it takes to wake one of them and strand the other; the producer's side is the same code with
the roles exchanged. `MCEventQueue` has two threads a side that call without a menu and move batches
of two through five slots, so that one slot is left over that is of no use to anybody. In the
driver, three table slots of which one stays free and a FIFO of four bytes make each limit bind
before the other for some lengths, and the fourth message reuses a slot. Two readers are what it
takes to see the mutex fail, two sysfs processes to see a reset in a write. Two socket clients with
a backlog of one fill it while the first is served; two faults let a child that could not exec fail
again, in any call. Sixteen bits are the widest words TLC can hold whose width is a power of two;
there the octal digits of `mit_bitcount` are cut off by the word, as at 32, and `nifty_bitcount` has
two bytes to add.

Bounded by a guard: `Calls` (calls of each thread in `EventQueue`, menu choices in `EventQMain`),
`MaxMessages` (messages added to the driver since it was last mended) and `~torn` in its reads
and writes, `MaxSpurious` (spurious wakeups in `ThreadManagerHandshake`), `MaxFaults`
(system calls that fail), `Addresses` and `Packets` in the socket modules.

### Fairness

The threads are scheduled by the operating system, which leaves no thread out for good; the
environment (user calls, menu choices, spurious wakeups) is never fair.

- `CvSemaphore` (`FairSpec`), `EventQueue` (`QueueSpec`): weak fairness of each thread's steps,
  strong fairness of what locks the mutex, which other threads take and give back again and
  again. Nobody has to call a method. `EventQMain` adds weak fairness of main's notifications;
  nobody has to choose from the menu.
- `SocketPrograms`: weak fairness of the server's processes taken together, and of each client,
  in both without the calls that take a fault: no client ends because a call had to fail. The
  users of foobar clients quit in the end.
- `ThreadManagerSem`: weak fairness of the manager's steps and of each thread.
- `ThreadManagerCv`, `ThreadManagerHandshake`, `ManagerWorkerShared`: strong fairness of the
  manager's steps and of each worker's thread, since both contend for mutexes that the other
  takes in turn. A worker's `Run` and `Stop` callbacks are assumed to return.
- `Player`: strong fairness of main's own steps and of `play_animation`; what the user chooses is
  not fair. `ConditionLogger`: strong fairness of the workers and the logger, weak fairness of
  main.

A mutex that is free again and again is eventually taken: this is stronger than what C++
promises, and what any scheduler that is not adversarial does. The hangs found
under this assumption are therefore not a matter of scheduling.

### Deadlock

TLC checks for deadlock except in `ConditionLogger`, `Player`, `ThreadManagerHandshake`,
`ManagerWorkerShared` and `SocketPrograms`: the first two are programs that end, all but the last
can hang, which is what configurations of section 4 show, and socket servers rest in `accept`
when their clients are gone. What must not hang there is stated as a liveness property. Programs
that end in other modules have a stuttering `Done`.

## 4. Disagreements between comments and code

Each has a configuration of its own that asks TLC one question of a module whose run passes.
They are kept beside the runs, and `PROJECT.json` quotes the comments; all but the last end
in a counterexample.

| configuration | module | property it refutes | what the code does |
|---|---|---|---|
| `MCQuitWorkerIsAsync` | `ThreadManagerSem` | `QuitWorkerIsAsync` | 05: the README says "Only `StopWorker()` is sync"; `QuitWorker` waits for a running worker |
| `MCThreadManagerCvRunIsSync` | `ThreadManagerCv` | `RunIsSync` | 04: the wait of `RunWorker` has no predicate; after a spurious wakeup the call returns early, and a `DeleteWorker` that follows may hang |
| `MCStopReturns` | `ThreadManagerHandshake` | `StopReturns` | 03: a running worker may answer before the manager waits, and `StopWorker` hangs |
| `MCAnswerMeansDone` | `ThreadManagerHandshake` | `AnswerMeansDone` | 03: a spurious wakeup passes for an answer |
| `MCStartReturns` | `ManagerWorkerShared` | `StartReturns` | 02: with two workers the `notify_one` of `startWorker` may wake the wrong one, and the manager hangs; with one worker (the same configuration with one) the call returns |
| `MCDeinitReturns` | `ManagerWorkerShared` | `DeinitReturns` | 02: `is_init` is cleared under the wrong mutex, the notification is lost and `deinitWorker` hangs |
| `MCEventQQuit` | `EventQMain` | `QuitWaitsForThreads` | 13: main returns while threads it started still run, without joining them |
| `MCEveryErrorIsLogged` | `ConditionLogger` | `EveryErrorIsLogged` | the logger tests `g_done` before the queue and may leave codes in it |
| `MCLoggerFinishes` | `ConditionLogger` | `LoggerFinishes` | `g_done` is neither notified nor waited for: the logger may sleep for good |
| `MCPlayerInitReturns` | `Player` | `InitReturns` | the response is notified under another mutex than the one main waits with, and Init may hang |
| `MCPlayerDeinitTakesEffect` | `Player` | `DeinitTakesEffect` | a Deinit chosen while the animation plays hangs the menu |
| `MCEventQServesItsKind` | `EventQMain` | `ServesItsKind` | 13: producers and consumers share the flag `new_request`; a consumer may serve a put request |
| `MCParrotOneReader` | `ParrotDriver` | `OneReader` | the device can be opened before `mutex_init` unlocks its mutex |
| `MCParrotNobodyCutOff` | `ParrotDriver` | `NobodyCutOff` | `fops` has no owner: rmmod removes the module under an open device (no comment says otherwise) |
| `MCUptimeHasOutput` | `SocketPrograms` | `UptimeHasOutput` | the child closes the connection even when it is descriptor 1; the uptime of a server started without standard output has none either |
| `MCEventQueue` | `EventQueue` | none: `NothingLost`, `NobodyStranded`, `ImplementsFifo`, `Termination` hold | `Put` and `Get` called by two threads a side without the menu, two items at a time: still a FIFO, and every call returns |

As it stands, `return;` in `int main` at line 238 of `player.cpp` needs `-fpermissive`; the model
takes it as the end of main.

## 5. Proofs

Each proof module extends its component. All theorems hold for every value of the constants
that satisfies the named assumption of the component, which TLC evaluates on its instances.

**`CvSemaphoreProofs`** (`CvSemaphoreAssumption`: a finite set of threads, an initial value not
above the highest). The inductive invariant is `TypeOK /\ MutexOK /\ NoLostWakeup`; `MutexOK` is the
mutual exclusion the other two rest on. `NoLostWakeup` bounds a count of threads by another, so the
proof first shows what one move of one thread does to the set of threads at some labels and to its
cardinality (`AtAfterMove`, `CardinalityAfterMove`, `CountsAfterMove`). The mutex is needed: only
its holder changes the counter, and a waiter blocks knowing the counter is zero. `NoWakeupIsLost` is
the consequence, and `Refinement` maps each step to a step of `Semaphore` or a stutter: the unit is
taken where the waiter decrements the counter, not where it is notified.

**`ThreadManagerSemProofs`** (no assumption: any set of workers). `IInv` is `TypeOK /\
JointStates`. `JointStates` lists, for each worker, the four kinds of joint state of worker,
manager call, flags and semaphores: not created, waiting for an operation, busy, leaving. It is
inductive because a semaphore's count is a function of that state, which is the argument for why the
code needs no mutex. From it follow `StopCreditIsFresh`, `RaisesAreSafe` (an action property)
and `Refinement`, the simulation of `WorkerLifecycle`, split into manager and worker steps.

**`EventQMainProofs`**, from the ring buffer up. (`RingBufferAssumption`: a positive size, a zero
among the values, counts that are naturals.) For the buffer alone `IInv` is `TypeOK /\
IndicesAgree`; the lemmas are about addition modulo the size (`Wrap`, `WrapRound`, `StepTwice`,
`Distance`). `Refinement` maps the buffer to the window of `busySpace` slots from the read index;
`WriteAppends`, `WindowIsSubSeq` and `PopTakes` say what the three kinds of step do to it.

For the queue (`EventQueueAssumption`: finitely many threads, producers and consumers apart) `QInv`
adds `HeldWhileUsed`, that the mutex is held from the test of the predicate to the end of the
transfer, to `NothingLost` and `NobodyStranded`. Producers and consumers are each other's mirror, so
`NobodyStranded` is proved for one side (`SideServed`) and its stock, free slots or values: a step
may lower a stock only together with the number of threads awake on that side, and raise it only
with the number of those about to notify it. `CountsAfterMove` says what one thread's move does to
those numbers, as in the semaphore. All calls move the same number of values, any number (`Batch`;
both threads of `main.cpp` move one): the stock is counted in batches (`SeenTo`), and what is left
over after the last whole one serves nobody. `ServedAfter` is the arithmetic: the stock and the
number of threads that see to it change together, or the stock is less than a batch. As every step
of the queue is a step of the buffer or leaves it alone (`QueueStepIsBufferStep`), `QueueRefinement`
and `MainRefinement` follow from `Refinement`'s lemmas.

Under the menu, `MInv` is `QInv /\ MainTypeOK /\ ServedOnce`, for any number of choices:
`ServedOnce` counts, besides the transfers set out for, the threads that have taken the flag and not
yet called (`Leaving`) and the flag itself, and is inductive because main raises the flag and counts
the choice in one locked section.

**`ThreadManagerCvProofs`** (a choice of condition variables). `OwnershipOK` and `NoLostWakeup` are
not inductive: which mutex the worker holds depends on its state, and its path on flags the manager
may change. `WorkerOK` says which states go with which labels and which flags the worker may rely on
from its test to its use of them, since the manager holds the response mutex when it changes them;
`ManagerOK` says the same of what the manager has read; `RunOK` follows a `RunWorker` from request
to answer, which is what `RunReturnsOnceRunning` needs. `ObeyOK` adds what `WorkerIsObedient` needs,
that a worker is only as long not what its flags say as the manager is in the call that raised them;
the theorem maps each step to a step of `ObedientWorkers` or a stutter. That `IInv` is inductive TLC
has confirmed first, from every state of the right types.

**`ThreadManagerHandshakeProofs`** (`HandshakeAssumption`: finitely many workers). A call may name
any number of workers. `Shape` says how the lists `todo` and `pending` go with the manager's
place; it holds whatever wakes up by itself. As long as nothing has, `Local` says of each worker,
from its role in the call (`Listed`, `Raised`, `Called`, `Notified`, `Awaited`, `Answered`,
`Joined`), how far it can be with the request: one path per call (`InitPath`, `StopPath` ...) from
request to answer, and at rest when no call is about it. `Handshake` is what the empty critical
sections are for: the manager notifies whom it has seen release the request mutex, and a worker
answers the init or run call it has released the response mutex for. `StopPath`, `DeinitPath` and
`DeletePath` do without it: a running worker sees the flag before it is notified and may answer
too early (`MCStopReturns`); that answers are true all the same is `AnswersMeanDone`. A step
concerns one worker and the manager; `Untouched` and `Unnamed` dispose of all the others.
`WorkersAreObedient` follows: a worker changes only to the goal of the call that names it
(`BecomesGoal`), and the manager strikes it off when it has (`HeardObeys`).

**`ManagerWorkerSharedProofs`** (`ManagerWorkerAssumption`: no worker is called `None`). As in 05,
the invariant lists joint states: a worker no call is about rests (`Resting`), the one a call is
about (`Called`) is in a place that depends on the call and on how far the manager is in it. The
empty section of the response mutex is what keeps a worker from its `_tell` labels until the manager
waits. A stray wakeup moves a resting worker from `"asleep"` to `"test"`, both of which are at rest:
hence the theorems hold although calls may hang. `MutexOK` is needed for `startWorker`, which raises
its flag when no worker is between test and sleep. `WorkersAreObedient` says what that comes to: 02
keeps the promise of its successors without a condition on wakeups of its workers (its manager's
wait is taken to return only when notified, as in the module). What may happen to a call is that it
does not return (`MCStartReturns`, `MCDeinitReturns`), not that it returns too early, and the worker
woken in error does nothing. `ThreadsJoined` says what becomes of the thread objects: between calls
exactly the inited workers have one.

**`ProgramsProofs`**: logger, player, driver and bit counting, each on its own. `NoSleepOnACode`
(`ConditionLoggerAssumption`: names are different) and `NoLostRequest` are inductive with the
types, the first also with the logger's holding of the mutex (`MutexOK`).

For the driver (`ParrotDriverAssumption`: finitely many readers and writers, a FIFO and a table of
at least one slot, lengths that are positive) the invariant `DInv` says, while the driver is not
torn:

- `Alone`: at most one process has the device open and at most one sysfs call is under way, none
  while the driver is not initialised, and a reset alone;
- `Content`: the messages read are the first ones sent, each whole; the bytes in the FIFO are those
  of the others, each message's together and the messages in order;
- `Inside`: what a call has found out before its next step is still so, above all that a write still
  has room for its bytes, as reads only make more;
- `Table`: the indices are `Entered - Passed` slots apart, and the slots from the read index on have
  the lengths of the messages not yet passed. `Passed`, `Entered` and `Recorded` count the messages
  as the table does at that moment: a read has taken its bytes out before it advances its index, a
  write puts its bytes in first, then the length, then advances. So the distance may be -1 for a
  moment, when a read is through with a message whose write has not ended.

A step that raises `torn` needs only the types; one that mends leaves nothing of what was before.
The others are proved one by one: `TakeKeepsContent` and `AddKeepsContent` say what taking or adding a
message does to the bytes, `TracksAfterRead`, `TracksAfterAppend` and `TracksAfterAdvance` what the
steps do to the table, which is arithmetic modulo its size (`OneFurther`). `MessagesWhole` and
`TableAndFifoAgree` follow for any number of messages: `MaxMessages` is any natural.

For bit counting (`BitLoopsAssumption`: a width that is a multiple of four) the invariant of the
loops is that what is counted and the ones still in the word add up to those of the argument, or
differ by them in the loop that counts down (`Counted`); the tables are right because the parts of a
word have its ones between them. So the five of them return the number of ones, without any
hypothesis, and the verdict on the other three is exact: `verify_bitcounts` prints an ERROR if and
only if one of them is wrong (`VerdictIsExact`); both are `LoopsAndTablesAreRight`. Whether they are
right is not proved. TLC evaluates it on the words of the run: what `Bitwise` computes is recursive,
and that masks and remainders add up bits is an induction over the bits of a word, for which there
is no prover here. `EveryLoopDescends` needs the types only.

**`SocketProgramsProofs`** (`SocketHostAssumption`: clients are told from other descriptors, at
least one attempt to connect; `UptimeAssumption`, `FoobarAssumption`). `Chain` says that every
process with a number below that of a living one is a parent that waits, or is about to. `fork` adds
a last process, `waitpid` takes it away, every other step moves one process (`Moves`); `OneServer`
follows for any number of clients and failing calls, in both programs.

What clients receive rests on `HInv`. `Room`: no process runs out of descriptors, which is what the
table's size in the model is for. `Output`: a server started with a standard output keeps it, so
that `accept` never returns 1. `Places`: a connection is in the backlog, or with the one process
that serves it, or gone (`Pending`). A step of the server is `Orderly` for the processes it
concerns, and `HandsOn` if no connection is dropped without a fault; the programs' invariants are
then proved from these two, and not once per step of the host. For uptime (`Answer`): nothing is
written for a client as long as its connection is pending, and then the whole text; what a failing
`recv` or `write` of the client loses of it puts the client in `failed`. For foobar (`Aligned`): the
stream starts at the first part of the packet after the last one printed and has no gap; how much
`recv` returns does not matter, as a split ends the connection.

### Only model-checked

Liveness (fairness and `ENABLED` are outside the prover): `WaitersAreServed`, `CallsReturn`,
`RunTakesEffect`, `QuitTakesEffect`, `RequestIsTaken`, `QuietCallReturns`,
`CallReturnsUnlessMissed`, `EndsOrPrintsAll`, `HeededCommandReturns`, `EndReturns`, `ClientsReturn`
and `PacketsArePrinted`. `AllAgree`, that is: that `parallel_bitcount`, `nifty_bitcount` and
`mit_bitcount` return the number of ones. All other properties of the runs are theorems.

## 6. Not modelled

- `PosixSemaphore` and the factory: a wrapper of `sem_t`, taken to be the abstract `Semaphore`.
- `manager_worker/01_..._ERROR`: the protocol of 02 line for line. It differs in that workers are
  moved and sliced instead of pointed to, so that callbacks of the base class run: a matter of
  C++ object lifetimes.
- The data races on plain `bool` flags (05, 04 in `IsQuit`, 02, 13, `player.cpp`,
  `04_condition.cpp`): a read sees the old or the new value, as on the usual compilers; that a
  compiler might hoist the read out of a loop is not modelled.
- Negative counts and offsets of the ring buffer; `InitWorkers` with a name twice; API calls by
  several threads at once (the managers are used by one).
- The two test programs of the semaphore: their calls are among the ones `CvSemaphore` makes.
- `03_BST`: sequential and recursive, with no actor but its caller; unit tests reach what can go
  wrong in it, an empty container (whose middle element is read) and `std::sort` with `<=` on equal
  values (`BST.tpp:15`) included.
- Ini parser and option parsing: what they compute is a matter of characters.
- `getaddrinfo`, `getnameinfo` and `connect` demonstrations, `shared_ptr`, thread basics and the
  single-file language demonstrations: no state that outlives a call.
- What a torn driver returns to further reads (section 3). Two threads that share one open file
  of the driver.

## 7. Plan

Done, in order of importance: semaphore; manager on semaphores, its abstract life cycle and proofs;
ring buffer and proofs; event queue on top of it, composed with its menu; the older managers;
logger, player; driver with insmod and rmmod; the socket programs; bit counting, for words of any
width; an abstract manager that 02, 03 and 04 implement, each under a condition of its own; the
event queue with batches of any one size.

Next:

1. `EventQueue` with batches of several sizes at once, where one `notify_one` may be too few.
2. The limits of the driver with `one_shot` off.
3. 05 against `ObedientWorkers` too, beside the life cycle of its own README, `WorkerLifecycle`:
   most of its calls do not wait for the worker.
