# TLA+ models of the HTTPS server

The repository is a multi-threaded HTTPS/1.1 server in C++20: one thread accepts
connections and shakes hands, a pool of workers serves them, one worker per connection for
as long as it lasts. This directory holds TLA+ modules of its parts, the TLC runs that check
them on small instances, and TLAPS proofs for every instance. Paths below are relative to
the repository.

## 1. The system and what is hard about it

| Component | State | Operations | Interacts with | What makes it correct |
|---|---|---|---|---|
| **ThreadPool** `src/thread/thread_pool.cpp`, `include/thread/thread_pool.hpp` | `tasks_`, `accepting_`, `stopping_` under `mutex_`; `condition_`; `workers_` | `submit()`, `shutdown()`, `wait()`, destructor, `worker_loop()` | `Server` submits one task per connection | no accepted task lost, doubled, reordered or left to sleeping workers; shutdown never hangs |
| **Server** `src/server/server.cpp` | atomics `running_`, `stopping_`, `active_connections_`; listener, pool, router | `run()`, `stop()`, `handle_connection()`, `shutdown()`, destructor | everything | `stop()` at any time ends `run()`; nothing accepted is forgotten; the count is exact but for connections an exception ended; members outlive their users |
| **TcpListener, Socket** `src/net/` | `running_`, the handle | `open()`, `accept()`, `stop()`; `bind`, `listen`, `receive`, `send`, `close` | used by `run()` and, from other threads, by `stop()` | a descriptor is closed once, by its owner; none leaks; `accept()` neither blocks for ever nor uses a handle that was closed |
| **Connection** `src/server/connection.cpp` | `read_buffer_`, `open_`, the socket, the TLS session | `handshake()`, `run()`, `read_request()`, `send_response()`, `should_keep_alive()`, `close()` | the parser, the handler, the socket | each request handled once, whole, in order; one at a time, answered before the next; bounded buffer |
| **HttpParser, HttpRequest, Headers** `src/http/parser.cpp`, `request.cpp` | none; limits | `parse()`, `keep_alive()` | called on all that is buffered, again and again | what a prefix of the bytes parses to never contradicts the whole |
| **Router** `src/http/router.cpp` | `routes_` under `mutex_` (shared) | `add_route()`, `clear()`, `route()`, `contains()` | called by all workers at once, edited through `Server::router()` | the first route of method and path; 405 or 404 otherwise; edits do not disturb calls |
| **HttpResponse** `src/http/response.cpp` | a value | constructor, factories, setters, `serialize()` | built by handlers, sent by `Connection` | its framing fields are written once and say how long the body is |
| **TlsConnection, TlsContext** `src/tls/` | `SSL*`, `open_` | `handshake()`, `read()`, `write()`, `close()` | between `Connection` and the socket | a blocked or failing handshake does no harm to others |
| **ServerConfig** | configuration values | `validate()` | read by `Server` | - |
| **Config** `src/utils/config.cpp` | a map from joined names to values | `load()`, `load_from_string()`, `set()`, `clear()`, getters | nothing in the server | a getter gives what was assigned last, also after a load that failed |
| **Logger** `src/utils/logger.cpp` | `minimum_level_`, `file_`, `mutex_` | `log()`, `set_level()` | any threads; nothing in the server | both outputs agree; a level that is set holds, soon |
| **Address** | a value | - | - | - |
| **main, examples, benchmark, scripts** | - | handlers as pure functions | users of the library | - |

The hard behaviours, each with its line in `PROJECT.json` under `hazards`:

* *Interleavings.* Notifications sent after the lock is released; `stop()`'s three writes
  against `run()`'s start, loop and end; `shutdown()` against `submit()`; route edits
  against `route()`, which looks twice and keeps a pointer.
* *Order and lifetime.* Increments and decrements of the counter far apart; members
  destroyed in an order; tasks accepted just before a shutdown.
* *Partial failure.* Exceptions out of the task, the TLS constructor, `open()`, `submit()`.
* *Numbers used again.* The kernel gives out a descriptor as soon as it is free, and
  `Socket::close()` tests, closes and forgets a plain `int` that `run()`, `stop()` and
  `shutdown()` share without a lock; a `Connection` is closed by `run()` and again by its
  destructor, on whichever of two threads drops it last.
* *A stream cut anywhere.* The head, its line ends and the body arrive in pieces; what is
  left over belongs to the next request.
* *Waiting without limit.* `accept()`, `SSL_accept()` and `read()` block; no timeout is
  applied anywhere in the code.

## 2. Modules

| Module | Models | State and actions |
|---|---|---|
| `TaskExecutor` | what the pool promises, with no worker or lock in sight | accepted, started in order, at most `Capacity` at once, drained only when empty |
| `ThreadPool` | `thread::ThreadPool` | each critical section of `mutex_` is one step (`Enqueue`/`Reject`, `TakeTask`/`Exit`/`Block`, `RaiseFlags`), each notification another (`SubmitNotifies`, `ShutdownNotifies`, `OwnerNotifies`); spurious wake-ups (`WakeSpuriously`); the constructor (`Spawn`) and each `join` (`Join`, `OwnerReturns`) |
| `Server` | `server::Server`, the listener and the kernel's backlog, and each connection's task, over an instance of `TaskExecutor` | `main.at` is the line of `run()`, `handle_connection()`, `shutdown()` or the destructor the accepting thread is at; `stopper[s]` the line of `stop()`; `conn[c]` where a connection is. Every read and write of an atomic and of the listener is a step: `StopMarks`/`ShutdownListener` clear the listener's flag, then `Socket::close()` tests the handle (`StopTests`/`ShutdownTests`), closes (`StopCloses`/`MainCloses`) and forgets it (`StopForgets`/`MainForgets`); `OpenSocket`, `AssignHandle`, `Bind`, `Listen`, `MarkRunning` are `open()` |
| `Sockets` | who closes which descriptor: `TcpListener`, `Socket`, and the making and ending of `Connection` and `TlsConnection`, over the kernel's table of open files | `closing[t]` is how far thread `t` is in `stop()` or `shutdown()`: `RaiseFlag`, `MarkStopped`, then `Socket::close()` in the three steps `TestValid`, `CloseHandle`, `ForgetHandle`; `main` is the line of `open()`, of the loop, or of `handle_connection()`; `conn[c]` has the socket's handle, the SSL object and the threads that hold a `shared_ptr` |
| `Session` | what `Connection::run()` promises, without bytes or parser | `Serve`, `Answer`, `End`: one request at a time, each answered before the next |
| `HttpParser` | `HttpParser::parse()` as an operator | bytes are *units*: the pieces of text the parser tells apart (see below) |
| `Connection` | `Connection::run()` and what it calls, and a client | `Extract`/`Reject`/`NeedMore` are the outcomes of `parse()`, `Read(n)` a read of any size, `Handle`, `SendResponse`, `Decide` the rest of the loop |
| `HttpResponse` | `http::HttpResponse` as operators | factories and setters on a record, `Serialize` |
| `Router` | `http::Router`, and a handler building its response | `AddRoute`, `Clear`, `FindRoute`, `LookForPath` are the critical sections; `storage` is the edit that last moved or destroyed the elements of `routes_`, so a pointer is stale when it remembers another |
| `Config` | `utils::Config` | `LoadFromString` takes a text of `Texts` through `ParseLine`, line by line (`Parsed`); `SetValue`, `Clear`. `writes` is what a reader of the text expects, said without a loop (`Assigned`) |
| `Logger` | `utils::Logger` | `Log` is the test of the level, `LockMutex`, `Format`, `WriteConsole`, `WriteFile` the steps of `write()`; either stream may fail for good |
| `..._proof` | theorems, each about the module it is named after (`Utils_proof`: `Config` and `Logger`) | section 5 |
| `NumberSets` | lemmas on sets of natural numbers | a least and a greatest element; induction, said of a set |
| `MC...` | bounds, scripts, symmetry for TLC | |

`Server` composes the connections with the pool's specification, not with its code:
`ThreadPool` is shown to implement `TaskExecutor` (runs `pool_safety`, `pool_liveness`,
theorem `PoolImplementsExecutor`), under the refinement mapping `Executor` in `ThreadPool`.
`Connection` and `Router` refine what `Server` shows of a task as "reading" and "routing";
they share no state with other connections but `routes_`. `Connection` in turn implements
`Session`, under the mapping `Abstract` (a session is over where `at` is in `Over`).
`Sockets` looks at the same accept loop as `Server` for other things. Both take `stop()`
access by access. `Server` has the pool, the counter, the members and the backlog, and of
the listener only whether its socket listens, has a handle, and whether an earlier one was
left listening; `Sockets` has the numbers and whose they are. What a `close()` by a stale
number does to a connection is therefore `Sockets`' matter; `Server` sees it as a client that
leaves, or as a `bind()` that fails. `Config` and `Logger` stand alone.

Two devices recur. Operators named `Variant` in their comments are the model with a
plausible mistake in it; no specification uses them, and `PROJECT.json` names the property
that each must break. *History* variables (`late`, `served`, `answered`, `due`, `overlap`,
`straddled`, `writes`, `order`) decide no step, except that `Logger` and `Config` bound
themselves by the length of theirs.

**Units.** A request line, a header field, `Connection: close`, `Content-Length: n`, a
malformed field, a word of a body, CR and LF are one element each of the sequence
`read_buffer_`, and count as one byte. So a piece of text never arrives in halves, except
that CR and LF do. The limits are counted in units too. The text inside a unit (targets,
names, values) is not modelled, and the three ways to refuse a request line are one error.

## 3. Runs

| Run | Question | Bounds |
|---|---|---|
| `pool_safety` | Is a task ever lost, run twice, left to sleeping workers; does the pool behave as the executor? | 3 workers, 3 submits, 2 threads that call `shutdown()` repeatedly, `wait()` and the destructor, spurious wake-ups; symmetry of tasks and stoppers |
| `pool_liveness` | Do accepted tasks complete, do `wait()` and the destructor return, under fairness? | 2 workers by default (`WorkerCount = 0`), 2 tasks, 1 stopper |
| `server_safety` | Is the count exact; is the pool open for an accepted connection; what comes in after `stop()`; is the port closed when `run()` returns, wherever the threads meet in `Socket::close()`; does the destructor serve all? | 3 TLS connections, 2 workers, 2 stoppers, Linux semantics of `close()` |
| `server_liveness` | Does `stop()` end `run()`, the destructor end, every accepted connection get served? | 2 connections, 1 worker, 1 stopper, no TLS, `close()` wakes `accept()` |
| `server_stop_linux` | The same on Linux: violated | as above |
| `server_router` | Does the router outlive the tasks in it: violated | as above, TLS |
| `connection_framing` | Is each request served once, whole, in order, answered before waiting, none after a closing one; is a client within the limits ever turned away, and has it had all its due answers, no more, in the end; does the connection implement `Session`, liveness included? | every sequence of 3 requests of 6 kinds (no fields, HTTP/1.0, closing, with a body, with a body that holds a CRLF, that begins with one); every cut that does not tear a head |
| `connection_limits` | Is what is buffered bounded, does the connection end, and is it still a `Session` (its safety part), for arbitrary bytes and torn heads? | sequences of 3 pieces of 8 kinds after 4 beginnings, one of which closes; every cut; limits of 1, 3 and 1 units, so that every error of the parser occurs |
| `connection_split` | A read that ends inside a head: violated | one request with a body |
| `router` | When is an answer of `route()` one that no single look at the routes gives; what frames a response on the wire? | 4 edits, 2 methods and 2 paths, one caller, handlers of 3 statements; symmetry of methods and paths |
| `sockets` | Is a descriptor ever closed by another than its owner, or lost; is a client in the backlog served though descriptors run out? | 2 calls of `run()`, 1 `stop()` thread besides the destructor and `shutdown()`, 2 TLS connections, 2 descriptors |
| `utils` | Does a getter give what was assigned last; do the log's outputs agree; how many late lines? | texts of 3 lines of 9 kinds over every configuration of 3 assignments; 2 threads, 3 levels, 3 lines, 2 changes of the level. The two modules share nothing, so `MCUtils` explores one while the other stays as it began |

Why the bounds are enough. *Pool*: a lost wake-up needs a sleeper, a busy worker and a
second notification; three of each leave one to spare. *Server*: one connection in hand, one
queued and one running exhaust the places that matter; two stoppers put one `stop()` inside
another, and with the accepting thread three threads into one `close()`; `run()` may be called
any number of times. *Connection*: what is left over of one request meets the next; a third shows that
the second left things in order. A buffer of 8 units cuts every script at every place; of
20, it also returns all three requests in one read. *Router*: `push_back()` moves the
storage at the first, second and third route and not at the fourth, so four edits are the
least that contain an edit that disturbs nobody. Callers only read what they share, so one
stands for all. *Sockets*: two descriptors are one less than the listener and both
clients need, so that accepting meets the limit, and any number freed is given out next;
a second `run()` finds what the first left. Larger instances pass too, out of the five
minutes a run is meant to take on small machines: 3 connections (344 000 states), 2
stoppers (635 000), 3 descriptors (170 000). *Config*: one section line and two pairs are
the least text with an assignment that is overwritten, a third line the least with a bad
one after it. *Logger*: two threads between test and mutex while the level changes twice.

What the violations show is listed under `findings` with the sentence of the repository
each contradicts. In short:

* `stop()` closes the listening socket, which does not wake a Linux thread in `accept()`:
  `run()` returns only after one more client connects (and is served).
* `~Server()` destroys `router_` before the pool joins the workers that use it.
* `parse()` takes the end of what has arrived for the end of the head when the last header
  line is unfinished: a request cut there is handled without its other fields and its body.
  `connection_framing` therefore assumes reads that do not tear a head (`SplitHeads =
  FALSE`, a named assumption on the network); `connection_split` is what happens without it.

Where the code is right but for a known case, the property says so exactly, instead of a
second run that only shows the case:

* `CountExact`: an exception in a task skips its `--active_connections_`, one in the
  `TlsConnection` constructor leaves the increment; these and no others stay counted.
* `FramingExact`: `parse()` skips one CRLF too many before a body, so that a body that
  begins with one loses it (`PlainBodies`), and with it the place where the next begins.
* `OwnDescriptor`: two threads that are in `Socket::close()` of the listener at once
  (`overlap`) may close a client's descriptor. One `stop()` is enough: it has closed and not
  yet forgotten, the number is given out again, to an `accept()` on its way, and `shutdown()`
  closes by the stale handle. Linux reserves the number of the new connection after it has
  looked the listener up and before it waits, so the `close()` must fall between the two;
  `Sockets` picks the number when `accept()` returns, which allows that and more.
* `NothingLeaks`: a `stop()` still in `close()` when a later `run()` assigns the new handle
  (`straddled`) forgets that one, and the new listener is never closed.
* `RunReturnsStopped` and `DestroyedServesAll`: the same `stop()`, seen from `run()`. The
  later `run()` returns with its port listening, and clients connect to nobody, even when the
  server has been destroyed. Without a `stop()` that spans two calls of `run()` there is no
  such case, whoever else is in `close()`.
* `LengthIsBody`: a factory stores the length of its body, and a `set_body()` that follows
  does not correct it; a handler may also store a length of its own. No document or test says
  otherwise, so this is no finding, but the client sees the next response begin too early or
  too late.
* `ReadsLastWrite`: `[a] b.c` and `[a.b] c` are one entry.

`router` has no violation run of its own: `UndueAnswersAreRaces` states exactly which
undue answers there are. Removing either of its two exceptions makes TLC find one: a 405
where 404 was due before, and the route's own answer after, an `add_route()` between the two
looks; and whatever comes of a handler whose route was moved or destroyed while it ran.
This program registers its routes before `run()`, so it meets neither; an application
that edits routes while serving does.

## 4. Fairness

Threads that can run do (weak fairness of each thread's steps), and nothing else is
assumed unless it says so:

* Pool: `TasksEnd`, the tasks return or throw. Not needed for any safety property.
* Server: no one need call `run()`, `stop()` or the destructor; no client need connect,
  send, or shake hands; `accept()` need not fail; a handler returns or throws. The accepting
  thread is fair as a whole (`MainProceeds`), each `stop()` (`StopReturning`) and each task
  (`TaskProceeds`) by itself. So some completed connection is accepted, not a particular one.
  `ClientsLeave` (strong fairness of `PeerLeaves`: a client that is waited for again and
  again leaves in the end) is needed because the server has no timeout; it is the
  environment's, and `server_liveness` says so by using `Spec`. TLS is off there, because
  `SSL_accept()` has no limit either and would need a like assumption.
* Connection: the worker runs, and what was sent arrives. `Parsing` is a step from
  "parsing" to anywhere, so that its enabledness does not evaluate the parser.
* Sockets: the steps of `open()`, the loop, `close()` and `handle_connection()`, and of
  the workers: clients answer the handshake and leave in the end, as in `Spec` of `Server`
  with `ClientsLeave`. `AcceptReturns` is strongly fair: `accept()` may fail again and again,
  for want of descriptors or otherwise, but not for ever while it could succeed.
  `BacklogServed` needs it, and that connections give their descriptors back.
* `Session` itself is fair only to a request in hand and to a session that is to end.
* Router, Config, Logger: no liveness property; every step returns.

Deadlock is checked in every run but `utils`, whose callers simply stop calling; the states where the program has ended stutter
explicitly (`Gone`, `Dead`, `Ended`).

## 5. What is proved

Every safety invariant that a passing run checks, and both safety refinements, are theorems:
for all numbers of tasks, workers, stoppers, connections, descriptors, callers, edits, lines
and requests, and for all bytes. What a module's theorems assume of its constants is the
named ASSUME it declares (`PoolAssumption`, `ServerAssumption`, `SocketsAssumption`,
`ConnectionAssumption`, `LimitsAssumption`, `RouterAssumption`, `LoggerAssumption`,
`ConfigAssumption`): counts and limits are natural numbers, `NoTask` is no task, the
connections are finitely many. The four theorems on framing assume `WellBehaved` besides.
The theorems speak of `SafeSpec` where there is one: the specification without its fairness.

* **`ThreadPool_proof`**. `Invariance`: `IInv` holds in every reachable state. It is the
  conjunction of the type invariant, `Lifecycle` (nobody uses the pool before it is built;
  it is stopping before it is joined), `JoinedExited`, `ExitsEmpty`, `TaskAccounting`,
  `ShutdownWakesAll`, `WorkConserving`, and finiteness of the submits in progress (so that
  cardinalities can be counted). There is one lemma per conjunct, with one step per action.
  `WorkConserving` is the argument against a lost wake-up: while someone sleeps, there are
  at most as many queued tasks as notifications to come plus workers about to look. A
  notification wakes a sleeper, who becomes one about to look; a worker that takes a task
  removes one on each side; a worker falls asleep only when the queue is empty. From `IInv`
  follow `TypeCorrect`, `TasksAccountedFor`, `NoLostWakeup`, `ShutdownReachesAll`,
  `WorkersLeaveEmptyQueue`, `WaitingDrains`, and `PoolImplementsExecutor`: every step of the
  pool is a step of the executor or a stutter.
* **`Server_proof`** has three layers, each needing the one before.
  `StopInv` says that `stopping_` is never taken back, that a late connection or a closed
  pool means the accepting thread is past the loop's test for good, and that it has at most
  one connection in hand. Hence `StopAcceptsAtMostOne`, for any number of clients, of
  threads that call `stop()`, and of calls of `run()`, and `AcceptedFindPoolOpen`
  (`submit()` never throws in the accept loop).
  `CountInv` adds to `CountExact` what the counting needs: the pool's queue holds each queued
  connection once, so that taking its head moves one connection and no other. `Counted` is
  finite because `Conns` is, and `CountUp`, `CountDown` and `CountKept` are the three ways a
  step can move a connection in or out of it. `CounterIsExact` follows.
  `ShutdownInv` says where the calls can be and which part of `shutdown()` stays done until
  when (`ControlInv`), that a handle is forgotten only when its socket is closed
  (`HandleInv`), that the backlog has a socket (`BacklogInv`: on Linux a blocked
  `accept()` holds it), that the thread in `handle_connection()` has a connection in hand
  (`HandInv`), and that `active` is who is in a task (`ServeInv`). `HandleInv` is the argument
  for closing one handle from several threads: whoever finds no handle, and so closes nothing,
  may rely on the thread that forgot it, since a handle is forgotten after a close and any
  thread about to forget has closed. An `open()` that assigns a new handle under such a thread
  ends that; `straddled` records it, and `HandleInv` speaks of the time before (`SocketStep`).
  `ServerTypeCorrect`, `RunLeavesNothing` (the flags, the pool and the thread's hands always,
  the port and its backlog but for `straddled`) and `DestructorServesAll` follow.
  `Server` builds on an executor whose guards could hold a caller back where the code goes
  on; `PoolUsedAsPromised` says that they never do: a connection about to be submitted is
  new to the pool, and a task about to end was started (`GoneInv`: what has left the pool is
  over).
* **`Router_proof`**. `UndueAnswersAreRaces` speaks of answers; `RInv` adds what makes it
  inductive: for each call under way the answer that is right *now* is in `due` (an edit
  records it, `EditStep`), a call that missed has seen a moment when 404 or 405 was right,
  and one in a handler has found the route that was right (`FirstRouteIsRight`: handlers are
  numbered in the order of the vector, so the least match has the least handler). The case
  that decides is the second look (`LookStep`): if no route matches, its answer is right;
  if one does, it was added since the first look, the path exists and the answer is 405,
  which is due, or 404 was. `AnswersAreDueOrRaced` follows.
  Of responses, `ResponsesInv` relates each to the statements that have built it. The lemmas
  of **`HttpResponse_proof`** say what every factory, setter and `Serialize` does to the
  three framing fields; `ResponsesFramedOnce` and `ResponsesLengthIsBody` follow from them,
  for handlers of any length. `RouterTypeCorrect` needs `PlacesInv`: as long as the routes
  have not moved, the route a handler runs on is one of them.
* **`Sockets_proof`**. `OwnInv` has two halves, each good as long as its exception has not
  happened. `Exclusive` (no `overlap`): the one thread in `close()` closes what `handle_`
  names, and that is a listening socket until it is closed; when it is closed and not
  forgotten, a second thread may not have passed the test, which is what `overlap` records.
  `Held` (not `straddled`): a listening socket is named by `handle_` or is about to be
  assigned, and who is about to forget the handle has closed its file. `Known` and `Types`
  are common. There is a lemma per step of `close()`, of `open()`, and per way a connection
  comes or goes; `DescriptorsAreOwn`, `NoDescriptorLeaks` and `SocketsTypeCorrect` follow.
* **`Connection_proof`**, whatever the bytes. `SessionInv` says for each place of `run()`
  what is owed: nothing while parsing, reading and handling, one answer while sending, none
  again when deciding, and that the request served last left the connection open if the loop
  went on. With it each step is a step of `Session` or a stutter, whatever the parser makes
  of the bytes: `ConnectionIsSession`. `BufferInv` says that `read_buffer_` is the end of
  what was read. It needs `ParseOutcome`: what `Parse` consumes is there, and a request and
  its body are pieces of the data. `IncompleteIsBounded` bounds data that the parser finds
  incomplete by its limits. `ConnectionTypeCorrect` and `BufferIsBounded` follow.
* **`Connection_proof`, of well-behaved clients.** `WellBehaved` is `~SplitHeads` (no read
  ends inside a head: section 3 has what happens otherwise) and that every message of every
  script is `WellWritten`: a request line, header fields each with its CRLF, of which those
  that give a length give the body's, an empty line, the body. `MCConnection` has TLC
  evaluate that its messages are. `FramingInv` says that the requests taken out of the
  buffer are the client's first ones and what is consumed ends where the last of them does,
  as long as no body begins with a CRLF; the first request with such a body has still arrived
  as a whole when it is taken. The step is: what is left in the buffer begins where the next
  message does, so its head is there as a whole (`HeadArrived`); the places of its line ends
  are then known (`Head3`, `HeadEnds`, `HeadHeaders`), hence the header stop, the fields and
  the size that `Parse` computes from them (`HeadMeans`), hence the request and the bytes
  consumed (`MessageDelivered`, `MessageConsumed`). `FramingIsExact`, `NoAnswerIsOwed` and
  `CloseIsLast` follow. `WholeHeadAccepted`: within the limits such a head is never refused.
  With `EndInv` that gives `DueIsAnswered`: `run()` ends only after the last due answer,
  unless the client reset the connection or a handler threw.
* **`Utils_proof`**. `LogInv`: at most one thread is in `write()`; a good stream has all of
  `order` but for the line its writer still owes it, every stream a beginning of it; and a
  thread whose message has come to be below the level has not been late yet. Hence
  `SinksAgree` and `LateLinesBounded`. `ConfigInv`: the map `Describes` the assignments in
  `writes` by their joined names: of each name it has the last. `After` is the invariant of
  the loop over the lines of a text, and what `Assigned` expects of its first n lines grows
  by one exactly when the next is a good pair (`AfterNext`); an assignment put on the map
  that describes those before describes one more (`PutDescribes`). `GettersReadLastWrite`
  follows; two pairs with one joined name are its exception, as in the run.

Inductions. A theorem of induction with an operator parameter cannot be used by the provers,
so `NumberSets` states induction of a set (`Inductive`: one that has 0 and with each number
the next has all) from the least element of a set of natural numbers (`LeastNatural`), and
the inductions over lines, pieces and messages define the set of the numbers for which the
claim holds.

Only model-checked: liveness (`AcceptedTasksComplete`, `OwnerCallsReturn`, `StopEndsRun`,
`DestructorEnds`, `AcceptedServed`, `EveryRequestAnswered`, `EndsAfterClient`,
`BacklogServed`) and the liveness parts of the refinements (`ImplementsExecutor`,
`ImplementsSession`), which are out of the prover's reach; and that `parse()` refuses what it
should: what it makes of arbitrary bytes is proved only as far as sizes and limits go.

## 6. What is not modelled, and assumptions

* A task that submits to, waits for or destroys its own pool; two threads in `wait()` at
  once (both would join the same threads). This program does neither.
* In `Server`, descriptors have no numbers: a `close()` by a stale one that hits a connection
  shows as its client leaving, one that hits the socket `open()` is about to assign as a
  `bind()` that fails. `Sockets` has both as they are.
* Of `HttpResponse`: `set_status()`, which touches no header, and what a handler may do through
  the reference that the mutable `headers()` returns, where it is not `set_header()`: `clear()`.
* `Sockets`: `running_` of the server is left out where `stopping_` decides; reads and
  writes of the racing `handle_` and `running_` are whole, and `close()` may read the
  handle once or twice, as the compiler likes. `start()`, called by nobody, is `open()` and
  the last step again.
* Sends are whole: a short or interrupted `send()` is counted as sent by the code, and
  needs a signal handler or a socket timeout, which this program has not. `SIGPIPE` ends
  the process on Linux and is outside the model.
* Between the accepting thread and the clients, the kernel: a backlog that a client enters
  by connecting, that `accept()` takes from in any order, and that is reset with the
  listening socket; on Linux a blocked `accept()` keeps the socket alive.
* OpenSSL beyond success, failure, exception or silence; loading keys.
* `Address` is a value. `main()`'s text functions (form decoding, HTML escaping) and the
  typed getters of `Config` (`std::stoi` and the words for true and false) are conversions
  of single strings without state; `Config` takes values as they are.
* Examples, benchmark, scripts and build files: users of the library and tools around it.
* Of clients, for `FramingExact`, `NoAnswerOwedWhileReading`, `NothingServedAfterClose` and
  `AllDueAnswered`: requests as `WellWritten` has them, and reads that do not tear a head.
  Not for `BufferBounded`, `EndsAfterClient` or the types, which are about any bytes.
* `ServerConfig::validate()`: independent tests, called by `main()` only.

## 7. Plan

Done: `TaskExecutor`, `ThreadPool`; `Server`; `HttpParser`, `Connection`, `Session`;
`HttpResponse`, `Router`; `Sockets`; `Config`, `Logger`; and the proofs of section 5, which
leave no safety property of a passing run without a theorem.

What could follow:

1. What a client makes of the responses, read by their Content-Length, which joins
   `HttpResponse` to `Connection`; a handler that gives a length of its own decides there
   where the client sees the next response begin.
2. `Server` with `Router` in the place of "routing", to reach the destructor's order of
   members from both sides.
3. The form decoder of `main()` against a reference encoding.
