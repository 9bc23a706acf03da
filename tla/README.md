# A specification of mjber

mjber is a small C++ framework for network servers: stackful coroutines
("fibers") that run on a thread pool and are woken by an epoll thread, with an
HTTP server, an asynchronous logger, a timer, a ring buffer on a reader-writer
mutex and a MySQL connection pool around them. Almost everything that can go
wrong in it is concurrency: fibers migrate between threads, `m_state` and
`m_ctx` have no lock, and the registry that ties fibers to sockets is read by
one thread that does not take its mutex.

Paths below are relative to `src/mjber/`. "Proved" means by TLAPS, for every
value of the constants; "checked" means by TLC, on the instance a `.cfg` gives.

## 1. Inventory

| Part | State | Operations | Hard behaviour | What makes it correct |
|---|---|---|---|---|
| Thread pool, `thread_pool.h` | queue, `stop`, condition variable | `enqueue`, worker loop, `stopWork`, destructor | notify outside the mutex, tasks that enqueue tasks, shutdown during both | no task lost, doubled, stranded or abandoned; the destructor returns |
| Fiber, `fiber.h` | `m_state`, `m_task`, `m_ctx`, thread-local current and main fiber | `Create`, `reuse`, `start`, `resume`, `yield`, `mainFunc` | unlocked state, a fiber moves between threads, exceptions inside a fiber | one thread per stack; a fiber continues where it left; a job is entered once |
| Context switch, `context.h` | saved registers, `firstIn` | `ctx_swap` | first entry against continuation | the saved context is the one last left |
| I/O scheduler, `scheduler.h` 58-157 | `Registry`, `freeFibers`, the pool | `addTask`, `exit`, `checkFiber` | reuse of fibers, call-back on the fiber's own stack | every fiber in exactly one place |
| Event loop, `scheduler.h` 241-337 and `socket_wrapper.h` | `EpollRegitry`, the kernel's epoll set, `FiberDes::type_` | `addEvent`, `rmEvent`, `run`, `accept`, `read`, `write`, destructor | events that race `yield`, descriptor numbers used again, `&` against `!=` | a fiber that waits is woken; an event finds its fiber |
| HTTP server, `http_server.h`, `http_socket.h` | listening socket, the bytes of each request, the pool's threads | `setup`, `accepter`, `worker`, `readRequest` | blocking client sockets on a pool of N threads, requests cut anywhere by the reads | a connection is served while fewer than N idle; a request is answered when it is complete |
| Route table, `http_server.h` 52-135 | a tree of maps | constructor, `find` | order of insertion, intermediate nodes | the documented matching rule |
| Logger, `logger.h` | ring buffer, writer thread, one shared `stringstream` | `log`, `push`, `pop`, `asyncWrite`, `LogStream` | notify without the mutex, overwriting when full | entries written in order, only overwritten ones lost, none left at exit |
| Reader-writer mutex, `rw_mutex.h` | two counters, two flags, three condition variables | six lock operations | which condition variable is notified | exclusion, no thread waits for ever |
| Ring buffer, `buffer.h` | vector, two positions, the mutex above | `read`, `write`, `ensureWritable` | nested locking | FIFO bytes, no self-deadlock |
| Timer, `timer.h` | map from due time to task | `addTask`, `myFunc`, destructor | equal due times, clock readings cut down to milliseconds, a thread that is never joined | each task runs once, not early |
| MySQL pool, `tools/mysql_poll.h` | idle queue, `activeConnections_`, `initialized_` | `init`, `getConnection`, release, `shutdown` | timeouts, broken connections, shutdown with connections out | at most `maxConnections_`; the counter is the number in use |
| Windows scheduler, TLS, codecs, `main`, tests | | | | not modelled, see section 7 |

How the parts interact: the HTTP server submits its accepter and one job per
connection with `addTask`; `addTask` puts a fiber into `Registry` and a start
task into the pool; a pool worker starts the fiber; inside it a socket that
would block calls `addEvent` and yields; the epoll thread sees the event, finds
the fiber and puts a resume task into the same pool; when the job returns, the
fiber's call-back `exit` moves it from `Registry` to `freeFibers`. Everybody
logs.

## 2. Modules

| Module | Models | Proofs |
|---|---|---|
| `TaskPool` | what a thread pool promises: accepted, taken in order, done; no locks | |
| `ThreadPool` | `thread_pool.h` in full | `ThreadPoolProofs` |
| `FiberScheduler` | `fiber.h`, `ctx_swap`, `addTask`, `exit`, and the fiber side of the epoll thread | `FiberSchedulerProofs` |
| `EventLoop` | `accept`, `read`, `write`, the destructor, `addEvent`, `rmEvent`, the socket side of the epoll thread, and the kernel's epoll set as they use it | `EventLoopProofs` |
| `HttpSocket` | `readRequest` on each connection, and the client at the other end | `HttpServerProofs` |
| `HttpServer` | `accepter`, `worker` and the accepted connections on the pool's threads; EXTENDS `HttpSocket` | `HttpServerProofs` |
| `RouteTable` | `RouteTree`, `setRoute`, `setDefaultHandler`, `find` | `HttpServerProofs` |
| `BoundedLog` | what the ring buffer promises: a queue that forgets its oldest entry | |
| `RingBuffer` | `RingBuffer` of `logger.h` | `LoggerProofs` |
| `Logger` | `Logger::log`, the writer thread and `~LoggerImpl`; EXTENDS `RingBuffer` | `LoggerProofs` |
| `RWMutex` | `rw_mutex.h` in full | `RWMutexProofs` |
| `MySQLPool` | `tools/mysql_poll.h`; the database is external | `MySQLPoolProofs` |
| `Timer` | `timer.h` in full | `TimerProofs` |

The `MC` modules name the instances for TLC: symmetry sets, which fiber accepts,
reads or writes, the requests and the URLs.
Operators called "Mutant" are wrong variants of the definition that follows
them: each property is known to fail when the variant replaces the definition.

### ThreadPool

A critical section of `queue_mutex` is one action, what follows it another.
`pc` says where each thread is: a worker in `check` is about to take the mutex
and evaluate the predicate of `condition.wait`, in `wait` it sleeps, in
`notify` it (or an outside client) has released the mutex in `enqueue` and has
not called `notify_one` yet. `NotifyOne` wakes any one sleeper, or nobody;
sleepers also wake spuriously. `Enqueue` is enabled for clients and for a
worker in the middle of a task, before and after `StopWork`; after it
`EnqueueThrow` is the only outcome. The pool may be destroyed at any time, and
is, while clients still call it, up to the moment the join has ended (to call
it later is to use a destroyed object).

`done`, `accepted` and `refused` are history. Task n is the n-th accepted one,
so "first in, first out" is a statement about numbers.

`ImplementsTaskPool` maps `queue` to `tasks`, `running` to `cur`, `open` to
`~stop` and `live` to the workers that have not returned; all synchronisation
becomes stuttering.

### FiberScheduler

The pool is used through the promise of `TaskPool`: append and take are atomic.
Each section under `registryMutex` is one action. The fields of a fiber have no
lock, so each access is an action of its own: `resume` is `ResumeTest`,
`ResumeClaim` and `SwitchIn`; `yield` is `YieldTest`, `YieldHold` and
`YieldSwitch`; the end of `mainFunc` is `Exit`, `Terminate` and `Leave`, and
after an exception `Throw` and `Leave`. The exception is `Reuse`: the only thread
that can be in the fiber's fields during `reuse` is the one leaving it, which
reads none of them and makes one write, so before or after all of `reuse` are the
only outcomes.

A context is abstracted to `firstIn` and `saved`: whether the next switch enters
`mainFunc` from the top, and otherwise whether the saved context continues
inside `yield` or past the end of `mainFunc`. A switch to a stack another
thread is on, or to a context with nothing to continue, is undefined behaviour:
`BadSwitch` sets `fault` and the behaviour ends there. `EpollThrow` (an
exception leaves the thread's function) and `EpollStale` (the end iterator is
dereferenced) end it in the same way. Every property is about behaviours up to
the first fault.

Two windows are closed by no lock. `addTask` may take a fiber that a worker has
freed in `exit` and whose stack it has still to leave (`TakesUnleft`); `resume` may
find HOLD on a fiber that has still to save its context, or that another `resume`
has found on HOLD already (`FindsUnsettled`). Both lead to two threads on one stack,
on two workers and more. `raced` is history: whether a step was taken inside
either window. `OneThreadPerStack` and `StateMatchesStack` say that these
two are the ONLY ways: whatever resume tasks the earlier life of a fiber has left
in the queue, however often it is reused, and in whatever order `resume`, `yield`,
`start` and `exit` come, nothing else puts two threads on a stack or makes
`m_state` lie.

`failed` is history too: the jobs that threw. Their fibers stay in `Registry` for
ever, and `FiberAccounted` says that exactly theirs do.

Sockets appear as `watched`, the fibers an epoll entry names: a job in
`Watching` may register its socket at any time, any job may close one, and the
closure that `m_task` keeps closes it when the fiber is reused. `Endless` jobs
never return (the accepter of the HTTP server); they may throw. `epoll_wait`
returns a `batch`; each of its events is looked up when its turn comes
(`EpollCheck`), when the entry may be gone. That an event wakes its fiber or not is
left open here, so the model has every event pattern the kernel could produce,
`EPOLLHUP` and `EPOLLERR` included.

### EventLoop

Each fiber runs jobs that open one socket, use it through one of the three
calls, and close it. `pc` is the place in the loop of the call: `call` (the
system call), `add` (EAGAIN was returned, `addEvent` comes next), `yield`,
`held`, then `close` and `rm`, the two halves of the destructor. A fiber that is
in one of these, except `held`, keeps one of the `Workers`.

The kernel is `interest` (the epoll set: descriptor, flags, and the fiber id in
`data.ptr`), `edge` (descriptors with news, which an edge-triggered entry needs
to be reported), `avail` and `peer`. Closing a descriptor drops its entry and
frees its number, and the next socket gets the lowest free number. `Arrive` is a
connection, data or room in the send buffer; `Hangup` ends the peer's half or
resets the connection, the latter reported as EPOLLHUP and EPOLLERR.

`Recorded` and `Wakes` are the expressions as they are compiled: `!=` binds
tighter than `&`, so each looks at bit 0, EPOLLIN. A reader is recorded as
WRITE, which still works because `run` tests EPOLLIN for WRITE; a writer is
recorded as nothing.

`yield` and `resume` are one step each here, and a fiber an event names is taken
to be registered: both are the subject of `FiberScheduler`, which in turn leaves
open which events occur. `refused` is a job that ended because `addEvent` threw,
`failed` one whose `accept` did.

Three variables are history, one for each thing the code does not prevent on two
workers: `early`, the fibers whose socket got its number before the number's last
user had called `rmEvent`; `dropped`, those whose resume task was taken before they
were on HOLD; and `hung`, that a connection was reset. A property that needs one of
them says so, and says it of that fiber and not of the whole run.

### HttpSocket and HttpServer

A request is its lengths and what decides about its body: `head` bytes, the last
`Delim` of them the empty line, `body` bytes, whether its method is POST, and
whether its Content-Length is absent, sound or no number (`stoi` throws). Any
request may have a body. `sent` and `got` are what is on the wire and what has been
read; a read takes what is there, up to `Buf`. `HeadFoundIn` is
`m.find("\r\n\r\n", totol)`: because the search starts where the last read began,
the empty line must have come whole in one read. `AfterHead` is the decision of
lines 262-280: only a POST with a Content-Length has its body read. What of another
body is not read stays in the socket, and `NextRequest` puts it before the next
request, whose head it makes longer and whose method it spoils. `content` is
`content_len`, unsigned, counted down by every read of the body loop and by nothing
else. `phase` says where `readRequest` is or how it returned. `ragged` is history:
the reads did not fall on the ends of the parts.

`HttpServer` puts these connections on `Worker`, the pool's threads: accepted
sockets are blocking, so a connection job has its thread until its client
closes, its handler throws or its write fails. The accepter is a fiber in the loop
of `accept`: `call`, then on EAGAIN `add`, `yield` and `hold`, three steps with the
epoll thread free to act between them. `type` is its `type_`, `edge` whether the
kernel has news of the listening socket, `event` what `epoll_wait` has returned and
`run` not yet looked at. `EpollRun` goes by `type` alone, as the code does: it
discards the event while `type` is NONE, otherwise clears it and queues a resume
task, wherever the accepter is; `Resumes` does nothing unless it is on HOLD.
`missed` is history: the report of the connections that are pending was discarded
before `addEvent`, or the resume task came before HOLD. `AcceptFails` is any error
other than EAGAIN: `accept` throws and the accepter is over. `Silent` clients
connect and do nothing. That a stack may be entered twice is left to
`FiberScheduler`.

### RouteTable

A URL is the sequence of its fields, the tree a function from paths to handlers.
`setRoute` is three kinds of step, a new table, one per rule, and the default
handler. `Round` is one turn of the loop in `find`, `Rounds` the results of all
of them, up to the one that returns. `Documented` is what the comment at
`http_server.h:26-36` says, without a tree: the nearest `/*` to the root, else the
rule for exactly this URL, else the deepest `/`, else the default.
`FindFollowsComment` asks that of every request, and the code does not keep it
(section 5): a node that an earlier, longer rule has made keeps that rule's handler.
`FindFollowsRules` asks it of every request none of whose paths (its own, and those
of the `/` and `/*` on its way, `Consulted`) was made a node in that way.

### RingBuffer, Logger

The ring's operations hold its mutex and are one step. `Log` and `Notify` are
two, since `log` notifies without the mutex of the wait; the worker holds that
mutex from its predicate (`test`) to its block (`block`), and `Notify` in between
wakes nobody. `SetStop` needs the mutex. Entries are numbered by their push;
`missed` and `atStop` are history. `BoundedLog` sees `Contents`, the slots from
`head` on.

### RWMutex

Every operation holds `mtx_` to its end, so it is one step, and a waiting thread
is `Retry` each time it evaluates its predicate again. `asleep` are the waiters no
notification has reached; each `notify_one` wakes any sleeper of its condition
variable, and any sleeper may wake spuriously. The threads in `Nesting` may call
`Lock` with a lock held (`LockInside`), as `Buffer` does under the guards of `read`
and `ensureWritable`; such a thread waits for itself.

### MySQLPool

`initialized_` is tested before the lock (`InitCheck`, `GetCheck`), the locked
part is one step, `wait_for` is `Wake` and `Timeout`. `Take` replaces a broken
front, or loses it when that fails. `ReleaseBroken` does not decrement the
counter, which is what the code does: `uncounted` counts those connections, `dropped`
the ones whose replacement in `Take` failed, and `Lost`, their sum, is by how much
the pool's maximum has shrunk. `disturbed` becomes true when `init` or
`shutdown` run beside other calls, or `init` runs on what an earlier `init` that
threw has left in the queue; `OneOwner` and `CallsReturn` hold even then.

### Timer

The clock has milliseconds (`now`) and steps below them (`part`); both readings are
`duration_cast` to milliseconds, so only `now` is read. `addTask` reads the clock
and then takes the mutex: two steps. So does the thread: `ReadClock`, then `Look`,
which moves what is due to `temp`; `Run` runs one, `Sleep` is `sleep_for(v)`, which
is measured on the fine clock. The map has one place per due time, `replaced` is
history: tasks that were overwritten. `Destroy` is `~Timer`: the member `worker` is
joinable, so its destructor calls `std::terminate`; it may come at any time.

## 3. Runs

| Run | Instance | Shows |
|---|---|---|
| `pool` | 3 workers, 2 clients, 3 tasks | `Accounted`, `NoStrandedTask`, `AllDoneWhenJoined`, `EveryTaskRuns`, `ShutdownCompletes`, `ImplementsTaskPool` |
| `fiber_server` | 2 workers, 1 caller, 3 jobs; job 2 watches and is endless | `FiberAccounted`, `JobEnteredOnce`, `EventsFindTheirFiber`, `OneThreadPerStack`, `StateMatchesStack`, `EveryJobStarts` |
| `event` | 2 workers, an accepter and a reader, 3 sockets on 2 numbers, 2 arrivals, hang-ups | `AddEventSucceeds`, `HeldIsWatched`, `OneWakePerWait`, `ReadersServed` |
| `http_server` | 2 threads, 2 connections of which 1 is silent, requests of four kinds, 1 failing `accept` | `OneTaskEach`, `AnswersWholeRequests`, `WholeRequestsAnswered`, `EveryConnectionServed` |
| `route_table` | every list of up to 3 rules over 8 URLs, 2 handlers | `FindFollowsRules` |
| `logger` | a ring of 2, 2 callers, 5 entries | `DeliveredInOrder`, `DrainedAtExit`, `SleepsOnlyByLostWake`, `DestroyReturns`, `ImplementsBoundedLog` |
| `rw_mutex` | 4 threads, any lock, 1 thread that nests | `Exclusion`, `NoStranded`, `WritersProgress` |
| `mysql_pool` | 3 clients, 2 connections at most, 1 at least, 1 breakage, 1 shutdown | `OneOwner`, `AtMostMax`, `WaitOnlyAtReducedMax`, `CallsReturn`, `TypeOK` |
| `timer` | 2 callers, 2 tasks, interval 2, delays 1, 2 and 4, clock to 6 in half milliseconds | `NeverEarly`, `TasksAccounted`, `EveryTaskRuns`, `TypeOK` |
| `event_edge_lost` | an accepter on 1 worker | violated: section 5 |
| `event_reuse` | two readers on 2 workers | violated: section 5 |
| `route_docs` | rules over `/a`, `/b` and `/a/b` | violated: section 5 |

Every module's type invariant is a theorem (`TypeCorrect`, section 6); a run checks
it where a bug in the code would show in a type.

Bounds. `MaxTask` and `MaxJob` bound the history and nothing else: three tasks
on three workers include a full pool and one that drains while another task is
in flight to it; three jobs include a fiber that is used a second time while another is new.
Two workers are enough for every race between two accesses to one fiber; the
repository's programs use four. Job 2 is the one that watches, so that it may come
to a fiber that another job has used, and one beside it is reused in the meantime.
`MaxWake` bounds the length of the pool's queue at which an event is still
turned into a resume task: 2 allows two resume tasks of one fiber at once, and
a start task behind them. In `EventLoop`, `MaxOpen` of three lets the reader use
a descriptor number again while the other is in use, also between the two halves of
a destructor, and `MaxArrive` of two gives a fiber a second wait on one socket,
where `addEvent` takes the path of a registered descriptor. A resume task beyond
`MaxWake` is not counted: two are as many as a fiber with one wait can tell apart.

In `http_server` the buffer has 4 bytes and the empty line 2, so that a head may
end inside, at the end of and beyond a read, and a body may begin in the same
read; `SizeMax` of 7 lets an unsigned difference wrap. The requests are a GET, a PUT
with a body, a POST with one, and a POST whose Content-Length is no number. Two
threads and one silent client leave one thread for the other and the accepter, who
then takes turns with it. `MaxAnswer` ends a connection's requests and `MaxError` the
failures; two answers let the unread body of one request spoil the next. `logger`'s
ring wraps twice with 5 entries in 2 slots. Three rules are enough for two of them
to share a node the third made. In `rw_mutex` the fourth thread lets two sleep on
one condition variable while two others pass the lock between them; nothing else
is bounded. `Conn` in `mysql_pool` is one more than the maximum, so that exceeding
it is possible; `SizeMax` of 4 lets the counter wrap below zero. In `timer` the
clock runs over three intervals, and the delays 1, 2 and 4 (below v, v, and a
multiple of it) are rounded to 2, 2 and 6: tasks asked for at different times fall
due together, and two steps to a millisecond are enough for one reading to be cut
down and the other not. The proofs of section 6 have no bounds.

Deadlock checking is on in every run. `Terminated` and `Quiet` are the states in
which the program really rests: the pool is joined; no task, no thread inside a
call (the epoll thread waits in the kernel). In `EventLoop`, `Quiet` asks that
nobody runs and that no report or resume task is on its way; a fiber may be held
in it, and whether it should be is the question of `Served`. It is off where the
program comes to rest by design: a logger that was destroyed, a clock at its
bound (`timer`), a server whose clients have all gone or are silent, and a
connection pool after its process was terminated.

## 4. Fairness

`ThreadPool`: weak fairness for each worker's own steps, for `NotifyOne` of each
thread, `NotifyAll` and `JoinWorkers`: the operating system schedules runnable
threads, and a task ends. Nothing obliges anyone to call `enqueue` or the
destructor, and spurious wake-ups are not fair, so no property rests on them.

`FiberScheduler`: weak fairness for each thread inside `addTask` and each
worker between two jobs; and a job that executes sooner or later returns,
throws or begins a `yield`. Watching, closing a socket, events and further
calls of `addTask` are never forced. Fairness stops with a fault (`Sound`), and
`EveryJobStarts` asks nothing after one.

`EventLoop`: weak fairness for a job inside its call and for the epoll thread;
strong fairness for the resume tasks of each fiber, because a worker is free
only from time to time and the pool's queue is first in, first out
(`EveryTaskRuns`). Arrivals, hang-ups, opening and finishing are not forced.

`HttpServer`: weak fairness for each thread's work, for a read that can return,
for `epoll_wait` and the body of its loop, and for a client that is not silent to
close in the end. That the accepter is resumed is NOT assumed: it follows from the
epoll thread's steps where it is so, and `EveryConnectionServed` names the rest
(`missed`, or an accepter that a failing `accept` has ended). That clients send,
handlers throw or writes fail is not forced, but a write to a client that has gone
does fail. `Logger`: weak fairness for the
writer, for a caller inside `log`, and for the destructor once begun.
`RWMutex`: weak fairness for the unlock of a lock that is held (its guard goes out
of scope) and for a woken waiter; nobody is obliged to lock. `MySQLPool`: weak
fairness for a client's next step inside a call, and for `Timeout` of its own,
because the deadline of `wait_for` passes however often the client is woken.
`Timer`: the clock, the thread, and a caller inside `addTask`, until `Destroy` ends
the process, which nothing forces. Spurious wake-ups
and failures are fair nowhere.

## 5. What the code does not keep

Three of these are runs TLC must find violated; `PROJECT.json` quotes the comments
that say otherwise.

* `event_edge_lost` (`MCEventEdge.cfg`, `Served`): a connection that arrives
  between EAGAIN and `addEvent` is reported while `type_` is NONE, which discards
  it; the entry is edge triggered and says it once. The accepter waits until
  another connection arrives.
* `event_reuse` (`MCEventReuse.cfg`, `NeverAddedTwice`): the destructor closes the
  descriptor and then calls `rmEvent`; a socket another worker opens in between has
  the same number, loses its entry in `EpollRegitry`, and its next `addEvent` fails.
  `src/README.md:38` lists that very error as open.
* `route_docs` (`MCRouteComment.cfg`, `FindFollowsComment`): with the one rule `/a/b`
  the request `/a` gets its handler, since the node on the way was made with it; and
  a rule whose URL is a prefix of an earlier one has no effect.

For four more a `.cfg` gives the smallest instance with a counterexample, checked by
hand with `tlc -config <file>` and `MCFiberScheduler`, `MCEventLoop` or `MCMySQLPool`.

* `MCFiberEnded.cfg`, `EventsFindTheirFiber`: the socket of a job that has
  returned stays open in the closure, and its next event terminates the process.
  The jobs of the HTTP server do not both wait on a non-blocking socket and return
  (sockets from `accept` are blocking); clients made with `SocketWrapper::Create` do.
* `MCEventYield.cfg`, `Served`: the resume task of an event may run before the
  fiber is on HOLD, and is dropped; `type_` is NONE by then, so even the
  level-triggered reports that follow are discarded.
* `MCEventWriter.cfg`, `Served`: EPOLLOUT wakes nobody (the precedence of `&`),
  and the epoll thread spins on the entry.
* `MCMySQLRetry.cfg`, `WithinMax`: an `init` that throws in its loop leaves the
  connections it has opened in the queue; called again it opens
  `minConnections_` more and counts only those, so that the pool may hold more
  than `maxConnections_`. This came out of the proof of `AtMostMax`, whose
  induction failed at `InitCreate`.

Two further configurations pass and widen a run's instance: `MCFiberStacks.cfg`
(`OneThreadPerStack`, `StateMatchesStack` and `EveryJobStarts` where the jobs that
wait for sockets may return) and `MCEventWriters.cfg` (the event loop's invariants
with a reader and a writer).

The following are in the definitions as the code has them. Where a property is
about them, it names the exception and shows that there is no other.

* Fibers (`raced`): `exit` runs on the fiber's own stack and pushes the fiber to
  `freeFibers`; `addTask` reuses it and a second worker enters the stack the first
  is still on, or `Terminate` writes TERM over the EXEC of the next job, whose
  `yield` then does not wait. And two resume tasks of one fiber (every EPOLLHUP and
  EPOLLERR queues one) may both read HOLD, or one read it before the context is
  saved. These are statements about two windows, so `OneThreadPerStack` and
  `StateMatchesStack` do not say that fibers are safe on several workers: they say
  which two places make them unsafe, and that there is no third.
* Fibers (`failed`): the entry of a job that threw stays in `Registry` and its fiber
  is never used again. `src/README.md:22` has clean-up after an error as done; what
  it means by it is not said, so no run is about it.
* Sockets: a writer, which registers without EPOLLIN, adds its descriptor a second
  time when a resume task left by a reset wakes it early.
* `readRequest`: the comment at `http_socket.h:230` promises a complete request, and
  only POST requests are: the body of any other is left in the socket and taken for
  the beginning of the next request. An empty line cut by two reads is not found
  (`:253`), and body bytes that came with the head are waited for again (`:263`);
  both are `ragged`. `stoi` throws on a Content-Length that is no number. The buffer
  of 1024 bytes is freed on one way out only.
* `HttpServer`: an error of `::accept` other than EAGAIN ends the accepter and no
  connection is accepted again (`errors > 0` in `EveryConnectionServed`); a wake-up
  between EAGAIN and HOLD is lost (`missed`, the two cases of `event_edge_lost` and
  `MCEventYield.cfg`); as many silent clients as threads stop the server. Without a
  scheduler `Fiber::GetThis()` at `http_server.h:210` has no fiber to return.
* `Logger` (`missed`): a notification in the window between predicate and block
  leaves an entry in the ring until the next one comes.
* `RWMutex`: `Lock` waits on `cond_unique_`, which only `Unlock` notifies: one
  that waits for a reader or a writer sleeps until a spurious wake-up, and one whose
  thread holds a read or write lock (`buffer.h:49` and `149`, `112` and `176`) waits
  for itself. `NoStranded` is about readers and writers only. A writer does not look
  at `in_critical_section_`, and two threads may be in `Lock`.
* `MySQLPool` (`uncounted`, `dropped`, `disturbed`, `aborted`): a broken
  connection stays in `activeConnections_` for ever, and one whose replacement
  fails is lost, so the maximum shrinks. The comment at line 289 says the connection
  is put back, and the line that would do it, 290, is commented out; `dropped`
  counts these, and `WaitOnlyAtReducedMax` bounds both losses by the breakages. A
  replacement that fails in the deleter ends the process; `shutdown` with
  connections out lets the unsigned counter wrap below zero; two `init` may both
  fill the queue.
* `Timer`: of two tasks due in the same millisecond one is lost and its future
  broken (`replaced`). A delay of v is not rounded up, and both readings are cut
  down, so that its task may run up to a millisecond early; every other delay is
  made longer by a millisecond at least. A `Timer` that is destroyed, as
  `globalTimer` is at the end of the program, terminates the process (`aborted`).

## 6. Proofs

`ThreadPoolProofs`, from `PoolAssumption` only (finite, disjoint sets of
threads): `TypeCorrect`, `TasksAccounted`, `NoLostWakeup`,
`PoolDrainedBeforeExit`, `DestructorLosesNoTask` and the safety half of the
refinement, `PoolImplementsTaskPool`. `Accounted` is inductive together with
the type invariant; `NoStrandedTask` counts: a task added to the queue comes
with a thread that will notify, a notification turns into an awake worker or
meets no sleeper, and a worker that leaves the awake set takes a task or has
seen the queue empty. `DrainedBeforeExit` is inductive because a stopped pool
accepts nothing.

`FiberSchedulerProofs`, from `SchedulerAssumption`, for any number of workers.
`TypeCorrect`, `FibersAccounted`, `JobsEnteredOnce` and `EventsFindFibers` also
assume `WatchersEndless`, that jobs which wait for non-blocking sockets never return
(they may throw): without it they fail, by `MCFiberEnded.cfg` and by a resume that
comes to a fiber's next job. `OneThreadPerStackAlways` and `StateMatchesStackAlways`
assume nothing else. `Core` is what both need:

* `Placed`: hands, workers and queued tasks name fibers that exist;
* `Jobs`: a job is stored in at most one fiber and `firstIn` holds exactly
  while the stored job has not been entered;
* `Tokens`: a fiber to be entered is named by exactly one start task, `addTask`
  or worker. This is `JobEnteredOnce` without cardinalities;
* `Stacks`: a worker inside a job is on a registered fiber, no two on one;
* `Failures`: the fiber of a failed job stays registered and is past its end, the
  other registered fibers are alive.

`JobEnteredOnce` alone is not inductive: a resume of a fiber that was meanwhile
reused would enter its next job a second time. `Orderly` says what must be ruled
out for that, and `Core` is proved inductive wherever `Orderly` holds. With
`WatchersEndless` it follows from `Resumes`: what an event, a batch, a resume task or a
resuming worker names is inside a job that watches, hence registered as long as
such jobs do not return (`SchedulerInv`). Without it the queue may be full
of resume tasks for fibers that have ended or been reused; there it follows, as long
as `raced` is false, from `Truth`, that `m_state` says where the fiber's context is,
and `Exclusive`, that one worker at a time uses a fiber, from `resume`'s test to the
end of `mainFunc` (`CalmInv`): a fiber with a job not yet entered is never on HOLD,
so that `resume` refuses. The two windows are exactly the steps at which `Exclusive`
is not kept. `FiberAccounted` needs `Stacks`: `Exit` frees the fiber it is on,
which must be registered, and by one thread only. The proof is by kind of step:
`StepKinds` reduces the actions to eleven kinds, those that touch neither the
queue, the tables nor `firstIn` (`PlainStep`) being treated as one.

`EventLoopProofs`, from `EventLoopAssumption`, for any number of workers:
`TypeCorrect`, `WaitsAnsweredOnce`, `AddEventSeldomRefused` and `HeldFibersWatched`.
The second needs `Calm`, that no report names a reset while `hung` is false, and
follows fiber by fiber: only an event that finds `type_` set queues a resume task,
and it clears `type_`. The other two rest on `AgreeInv`: an open descriptor has one
holder, and unless its number came early nobody else has still to call `rmEvent`
for it (`Unshared`); then what is registered is watched until it is closed
(`Tables`). `HeldIsWatched` alone is not inductive: the entry a later `addEvent`
relies on is that of a fiber that is not waiting at the moment.

`LoggerProofs`, from `RingAssumption` and `LoggerAssumption`: `TypeCorrect`,
`RingIsNewest`, `LogIsDelivered`, `ExitDrains`, `SleepIsLostWake` and the whole
refinement, `RingIsBoundedLog` (`BoundedLog` has no fairness). The lemmas `Wrap` and
`PositionsWrap` replace `%` by a case distinction once, after which `push` and
`pop` are lemmas about `Contents`. The invariant adds to the properties `Numbered`
(the ring is the last `count` pushes), `Older` (the writer's entry and what is
written are older than the ring) and `AwakeOrMissed`: a worker asleep beside an
entry has a caller between push and notify, or has missed one. `DrainedAtExit` is
inductive because the worker passes `check` with an empty ring only after stop,
and everything logged until then is older than what is pushed later.

`RWMutexProofs`, from `ThreadAssumption`: `TypeCorrect`, `CountersAreExact`,
`ReadersOrOneWriter` and `NobodyIsStranded`, for any finite number of threads, any of
which may nest. The
properties are inductive together: `Exclusion` needs the exact counters, the
predicates being about counters and not about threads; the exact counters need
`Exclusion`, since the writer that leaves clears `in_write` and must be the only
one; `NoStrandedWriter` needs both to know that the reader or writer that leaves is
the last. `WaitersApart` says that who waits to read or write holds nothing.

`HttpServerProofs`, from `SocketAssumption` and `ServerAssumption`: `TypeCorrect`,
`NoPartialRequest`, `NoNeedlessRead` and `OneTaskEachAlways`, for any requests, with
or without bodies, any buffer and any cut into reads. `Counted` is the inductive
part for a connection: in the body loop `content_len` is at least what is missing,
and exactly that unless the reads were ragged; before it, the end of the head is
still to come unless it was cut. A read brings no more than is missing, so the
unsigned count does not wrap: `content >= Unread`, a part of
`AnswersWholeRequests`, would fail if it did. That is also why a ragged request hangs
and is never answered short. `TaskInv` is the part for the pool: no task is queued
twice or queued and running (`Separate`), and accepter, `type` and jobs say where
their tasks are (`Recorded`): a resume task is queued only while the accepter waits
and `type` is NONE. That there is never a second one, although `run` decides on `type_`
alone, is because `addEvent` sets `type_` only in a running accepter, who has used up
the resume task of the wait before.

The same module, from `RouteAssumption`: `TableTypeCorrect` and
`EveryRequestFollowsRules`. The invariant of the tree names, for each node, the
first rule that begins with its path, which makes the `CHOOSE` of `FirstFor` unique;
inserting a rule keeps the first rule of the nodes that exist and is the first
rule of those it makes. For `find` the loop invariant is `LoopInv`: while the loop
goes on, the path so far is a node, no `/*` was met, and the answer is that of the
deepest `/` (`Candidate`); when it has stopped, the answer is what the tree's first
rules say (`Expected`). Each `Round` keeps it. That all rounds do is shown by the least counterexample
(`LeastNat`), the library's induction theorems being out of reach because they take
an operator; it is the one induction over data among the proofs. `ExpectedDocumented`
then leads from what the tree says to what the comment says, for a request whose
paths were named by their own rules first.

`MySQLPoolProofs`, from `PoolAssumption`: `TypeCorrect`, `OneOwnerAlways`,
`AtMostMaxAlways` and `WaitOnlyAtReducedMaxAlways`, for any clients, minimum and maximum
and any number of breakages and shutdowns. The assumption asks that
`minConnections_` is not above `maxConnections_` (the defaults are 5 and 20; nothing in
the code tests it, and a pool with more would open them all), and that `size_t` can
count the maximum and the breakages. `Owners` (queued once or used by
one client) is inductive with the types and `Breakages` (each breakage explains one
connection uncounted, dropped or still broken), without regard to
`initialized_`: every locked part takes a connection out before it hands it on.
The rest, `Undisturbed`, holds until the pool is disturbed: the counter is the
connections in use and the broken ones that were never discounted (`Counts`), and
`Sleepers`: while somebody waits, the connections counted, lost or queued make up the
maximum; and while somebody sleeps, the queue holds no more connections than there
are waiters awake. The second is why the single `notify_one` of a release is enough.

`TimerProofs`, from `TimerAssumption`: `TypeCorrect`, `NeverEarlyAlways` and
`TasksAccountedAlways`, for any callers, delays and interval. `OneKind` is
`OnePlaceEach` without cardinalities: being added, mapped, taken, run and
overwritten exclude each other; `OnceThere` says once in each place, and for the
map that follows from `MappedDue`, a task stands under its own due time. `Dues`
also carries the time from the map to the run, in whole milliseconds; with `RoundedUp`
(a delay other than v gains a millisecond at least, which pays for the cut reading)
it is `NeverEarly`. For `Look` the lemma `InOrderLists` shows that a finite set of times
is listed with nothing left out or doubled. What `Insert` overwrites falls due with
the task that takes its place, which is how `OneOfEachDueLeft` is kept.

So every invariant of the passing runs is a theorem.
Only checked by TLC: everything under fairness (liveness is out of the prover's
reach), and with it the fairness half of `ImplementsTaskPool`; and that the
violations of section 5 are reachable.

## 7. Plan, and what is left out

Next: what the liveness properties rest on, as invariants: who is to run next
while a property's goal is not reached (a measure for `EveryTaskRuns` of `Timer`, the
accepter of `HttpServer`); and that `FiberScheduler`'s queue is used as `TaskPool`
promises.

Not modelled.

* The Windows scheduler overrides `addEvent` with a signature the sockets do not
  call. The TLS socket wraps OpenSSL and no server uses it. The HTTP codecs and
  `utils.h` are string functions without state.
* `buffer.h`: `readFixSize` has no definition (it is in a comment), so nothing that
  writes links; and `read` waits in `commitRead` for the read lock it holds.
* In modelled parts: the branch of `setup` without a scheduler, and the server
  that is destroyed at the end of standard input under its accepter;
  `LogStream`'s one `stringstream` for all threads and a late `addAppender` (data
  races); bytes of a second request that arrive with the first, which `readRequest`
  drops; the method a request has after the unread body of another, taken not to be
  POST; a system clock that is set back; the bytes of a partial write to a non-blocking socket, which
  `SocketWrapper::write` sends again from the start; `asyncConnect`, `bind` and
  `listen`; `yield` to another fiber, which has no caller; an exception that is not
  a `std::exception`, which ends the process.
* Registers and stack memory are below the model, and so is the effect of a data
  race inside `std::unordered_map` (`run` reads `Registry` without the mutex):
  lookups are atomic here.
* `rw_mutex.h`, `timer.h`, `buffer.h` and `tools/mysql_poll.h` are used by tests or
  by nothing in the repository; their callers here are any that keep to the
  guards and the calls of the tests.
