------------------------------- MODULE Server -------------------------------
(***************************************************************************)
(* server::Server with its listener, its thread pool and its clients: one  *)
(* thread constructs the server, calls run() and destroys it; others call  *)
(* stop() at any time; each accepted connection is shaken hands with on    *)
(* the accepting thread and served by a task of the pool.  The pool is the *)
(* abstract executor that ThreadPool implements.                           *)
(*                                                                         *)
(* The atomics running_ and stopping_, the listener's flag and handle and  *)
(* the counter are read and written one at a time, in the code's order:    *)
(* TcpListener::stop() clears the flag, and Socket::close() tests the      *)
(* handle, closes and forgets it.  Sockets has the descriptors' numbers;   *)
(* here a close() that hits a connection's shows as the client's leaving,  *)
(* and one that hits the socket open() is about to assign as a bind() that *)
(* fails.                                                                  *)
(***************************************************************************)
EXTENDS Naturals, Sequences, FiniteSets

CONSTANTS Conns,              \* client connections
          Capacity,           \* the pool's workers
          Stoppers,           \* threads that call stop()
          TlsEnabled,         \* config_.tls_enabled
          KeepAlive,          \* config_.keep_alive_timeout_seconds > 0
          CloseWakesAccept    \* does closing a listening socket abort a blocked
                              \* accept()?  It does with Winsock, not on Linux.

ASSUME ServerAssumption == /\ IsFiniteSet(Conns)
                           /\ Capacity \in Nat \ {0}
                           /\ TlsEnabled \in BOOLEAN
                           /\ KeepAlive \in BOOLEAN
                           /\ CloseWakesAccept \in BOOLEAN

VARIABLES
  running_,             \* Server::running_
  stopping_,            \* Server::stopping_
  active_connections_,  \* Server::active_connections_
  listener,             \* TcpListener: is it running, has its socket a handle, what the
                        \* kernel makes of that socket, is an earlier one left listening
  main,                 \* the thread that runs and destroys the server
  stopper,              \* how far each stop() call has come
  conn,                 \* where each connection is
  late,                 \* history: connections accepted after stopping_ was set
  straddled,            \* history: open() assigned the handle with a stop() in close()
  open, pending, active, finished, refused, drained   \* the pool

\* The groups of variables a step may leave alone.
history == <<late, straddled>>
clients == <<conn, history>>
own  == <<running_, stopping_, active_connections_, listener, main, stopper, clients>>
own_but_main == <<running_, stopping_, active_connections_, listener, stopper, clients>>
own_but_conn == <<running_, stopping_, active_connections_, listener, main, stopper, history>>
pool == <<open, pending, active, finished, refused, drained>>
vars == <<own, pool>>

Pool == INSTANCE TaskExecutor WITH Tasks <- Conns

ConnState ==
  {"absent",     \* the client has not connected
   "backlog",    \* the kernel has completed the TCP handshake
   "accepted",   \* accept() has returned its socket
   "handshake",  \* Connection::handshake() is running, on the accepting thread
   "submitting", \* about to be handed to the pool
   "queued",     \* in the pool's queue
   "reading",    \* Connection::read_request()
   "routing",    \* inside Router::route() and the handler
   "returning",  \* Connection::run() is back, its socket closed
   "unwinding",  \* Connection::run() was left by an exception
   "ending",     \* the task's last statement was executed
   "closed",
   "lost"}       \* closed on an exception, which skipped the decrement

StopperState == {"idle", "running", "mark", "test",
                 "close",   \* it has tested the handle that is there now,
                 "stale",   \* or one that open() has replaced since
                 "forget"}

MainState == [call : {"none", "run", "destroy"},
              at   : {"idle", "returned", "threw",
                      "open", "drop", "unset", "assign", "bind", "listen", "mark",
                      "loop", "accept", "calling", "blocked", "handling", "caught",
                      "flags", "listener", "test", "close", "forget", "pool",
                      "members", "join", "dead"}]

Init == /\ running_ = FALSE
        /\ stopping_ = FALSE
        /\ active_connections_ = 0
        /\ listener = [running |-> FALSE, handle |-> FALSE, socket |-> "none", left |-> FALSE]
        /\ main = [call |-> "none", at |-> "idle"]
        /\ stopper = [s \in Stoppers |-> "idle"]
        /\ conn = [c \in Conns |-> "absent"]
        /\ late = {}
        /\ straddled = FALSE
        /\ Pool!Init

-----------------------------------------------------------------------------

\* The thread that owns the server is in none of its functions.
Outside == {"idle", "returned", "threw"}

MainAt(place)    == main.at = place
MainGoes(a, b)   == main.at = a /\ main' = [main EXCEPT !.at = b]
StopperGoes(s, a, b) == stopper[s] = a /\ stopper' = [stopper EXCEPT ![s] = b]
ConnGoes(c, a, b) == conn[c] = a /\ conn' = [conn EXCEPT ![c] = b]

\* A closed listening socket goes on accepting while a thread is blocked in accept() on it,
\* unless the platform wakes that thread.
HeldOpen == MainAt("blocked") /\ ~CloseWakesAccept

\* The kernel resets what it has completed and nobody accepted, when the socket goes.
BacklogReset == [c \in Conns |-> IF conn[c] = "backlog" THEN "closed" ELSE conn[c]]

ClearListener == listener' = [listener EXCEPT !.running = FALSE]

\* What ::close() may hit.  The compiler may read handle_ once for the test and the call, or
\* again; the number a stop() read before open() replaced it may be that of the new socket,
\* of one left behind, or nobody's.
MayHit(stale) == {"socket"} \cup (IF stale THEN {"left", "nothing"}
                                  ELSE IF listener.handle THEN {} ELSE {"nothing"})

CloseFile(file) ==
  LET after == [listener EXCEPT !.socket = IF file = "socket" THEN "none" ELSE @,
                                !.left = @ /\ file # "left"]
  IN /\ listener' = after
     /\ conn' = IF after.socket = "listening" \/ after.left \/ HeldOpen THEN conn
                ELSE BacklogReset

ForgetHandle == listener' = [listener EXCEPT !.handle = FALSE]

-----------------------------------------------------------------------------
(* run(): TcpListener::open(), outside the try block, then the loop.       *)

BeginRun == /\ main.at \in Outside
            /\ main' = [call |-> "run", at |-> "open"]
            /\ running_' = TRUE
            /\ UNCHANGED <<stopping_, active_connections_, listener, stopper, clients, pool>>

\* socket(); the move assignment to socket_ closes what an earlier run() left in it.
OpenSocket == /\ MainGoes("open", IF listener.handle THEN "drop" ELSE "assign")
              /\ UNCHANGED <<own_but_main, pool>>

\* The handle of the new socket is in place.  What listens still can no more be named.
AssignHandle ==
  /\ MainGoes("assign", "bind")
  /\ listener' = [listener EXCEPT !.handle = TRUE, !.socket = "open",
                                  !.left = @ \/ listener.socket = "listening"]
  /\ straddled' = (straddled \/ \E s \in Stoppers : stopper[s] \in {"close", "stale", "forget"})
  /\ stopper' = [s \in Stoppers |-> IF stopper[s] = "close" THEN "stale" ELSE stopper[s]]
  /\ UNCHANGED <<running_, stopping_, active_connections_, conn, late, pool>>

\* open() throws, out of run(): socket(), bind() and listen() may fail, and the last two do
\* if the socket was closed meanwhile, or an earlier one has the port.
LeaveRunByException == /\ main.at \in {"open", "bind", "listen"}
                       /\ main' = [call |-> "none", at |-> "threw"]
                       /\ UNCHANGED <<own_but_main, pool>>

Bind == /\ MainGoes("bind", "listen")
        /\ listener.handle /\ listener.socket # "none"
        /\ UNCHANGED <<own_but_main, pool>>

Listen == /\ MainGoes("listen", "mark")
          /\ listener.handle /\ listener.socket # "none" /\ ~listener.left
          /\ listener' = [listener EXCEPT !.socket = "listening"]
          /\ UNCHANGED <<running_, stopping_, active_connections_, stopper, clients, pool>>

MarkRunning == /\ MainGoes("mark", "loop")
               /\ listener' = [listener EXCEPT !.running = TRUE]
               /\ UNCHANGED <<running_, stopping_, active_connections_, stopper, clients, pool>>

\* Variant: the loop looks at running_ only, and run() has set that after stop() cleared it.
TestRunningOnly == /\ MainGoes("loop", IF running_ THEN "accept" ELSE "flags")
                   /\ UNCHANGED <<own_but_main, pool>>

TestLoop == /\ MainGoes("loop", IF running_ /\ ~stopping_ THEN "accept" ELSE "flags")
            /\ UNCHANGED <<own_but_main, pool>>

CheckListener ==
  /\ MainGoes("accept", IF listener.running /\ listener.handle THEN "calling"
                        ELSE "caught")
  /\ UNCHANGED <<own_but_main, pool>>

\* The system call: EBADF if the descriptor was closed since it was checked.
CallAccept ==
  /\ MainGoes("calling", IF listener.socket = "listening" THEN "blocked" ELSE "caught")
  /\ UNCHANGED <<own_but_main, pool>>

\* accept() holds the last reference to a socket closed under it; with it the backlog goes.
AfterAccept(states) ==
  IF listener.socket = "listening" THEN states
  ELSE [c \in Conns |-> IF states[c] = "backlog" THEN "closed" ELSE states[c]]

AcceptReturns(c) ==
  /\ MainGoes("blocked", "handling")
  /\ conn[c] = "backlog"
  /\ conn' = AfterAccept([conn EXCEPT ![c] = "accepted"])
  /\ late' = IF stopping_ THEN late \cup {c} ELSE late
  /\ UNCHANGED <<running_, stopping_, active_connections_, listener, stopper, straddled, pool>>

\* A transient error of accept(), such as a lack of descriptors.
AcceptFails ==
  /\ MainGoes("blocked", "caught")
  /\ conn' = AfterAccept(conn)
  /\ UNCHANGED <<running_, stopping_, active_connections_, listener, stopper, history, pool>>

\* The socket was closed under accept(), and the platform says so.
AcceptAborted == CloseWakesAccept /\ listener.socket # "listening" /\ AcceptFails

Caught == /\ MainGoes("caught", IF stopping_ THEN "flags" ELSE "loop")
          /\ UNCHANGED <<own_but_main, pool>>

-----------------------------------------------------------------------------
(* handle_connection(), on the accepting thread.                           *)

CountConnection(c) ==
  /\ MainAt("handling")
  /\ ConnGoes(c, "accepted", "handshake")
  /\ active_connections_' = active_connections_ + 1
  /\ UNCHANGED <<running_, stopping_, listener, main, stopper, history, pool>>

\* Without TLS there is nothing to wait for; with it, the client's answer decides, and
\* while it keeps silent SSL_accept() blocks the accepting thread.
HandshakeSucceeds(c) ==
  /\ ConnGoes(c, "handshake", "submitting")
  /\ UNCHANGED <<running_, stopping_, active_connections_, listener, main, stopper, history, pool>>

HandshakeFails(c) ==
  /\ TlsEnabled
  /\ ConnGoes(c, "handshake", "closed")
  /\ active_connections_' = active_connections_ - 1
  /\ main' = [main EXCEPT !.at = "loop"]
  /\ UNCHANGED <<running_, stopping_, listener, stopper, history, pool>>

\* The TlsConnection constructor throws: nothing takes the count back.
HandshakeThrows(c) ==
  /\ TlsEnabled
  /\ ConnGoes(c, "handshake", "lost")
  /\ main' = [main EXCEPT !.at = "caught"]
  /\ UNCHANGED <<running_, stopping_, active_connections_, listener, stopper, history, pool>>

\* submit() throws if the pool has been shut down, and nothing takes the count back.
Submit(c) ==
  /\ IF open
     THEN /\ ConnGoes(c, "submitting", "queued")
          /\ Pool!Accept(c)
          /\ main' = [main EXCEPT !.at = "loop"]
     ELSE /\ ConnGoes(c, "submitting", "lost")
          /\ Pool!Refuse(c)
          /\ main' = [main EXCEPT !.at = "caught"]
  /\ UNCHANGED <<running_, stopping_, active_connections_, listener, stopper, history>>

-----------------------------------------------------------------------------
(* shutdown(), called by run() and by the destructor.                      *)

ShutdownFlags == /\ MainGoes("flags", "listener")
                 /\ stopping_' = TRUE
                 /\ running_' = FALSE
                 /\ UNCHANGED <<active_connections_, listener, stopper, clients, pool>>

ShutdownListener == /\ MainGoes("listener", "test")
                    /\ ClearListener
                    /\ UNCHANGED <<running_, stopping_, active_connections_, stopper, clients, pool>>

ShutdownTests == /\ MainGoes("test", IF listener.handle THEN "close" ELSE "pool")
                 /\ UNCHANGED <<own_but_main, pool>>

\* The rest of Socket::close(), in shutdown() and in the move assignment of open().
MainCloses == /\ MainGoes("close", "forget") \/ MainGoes("drop", "unset")
              /\ \E file \in MayHit(FALSE) : CloseFile(file)
              /\ UNCHANGED <<running_, stopping_, active_connections_, stopper, history, pool>>

MainForgets == /\ MainGoes("forget", "pool") \/ MainGoes("unset", "assign")
               /\ ForgetHandle
               /\ UNCHANGED <<running_, stopping_, active_connections_, stopper, clients, pool>>

ShutdownPool == /\ MainAt("pool")
                /\ main' = IF main.call = "run" THEN [call |-> "none", at |-> "returned"]
                           ELSE [main EXCEPT !.at = "members"]
                /\ Pool!Close
                /\ UNCHANGED own_but_main

-----------------------------------------------------------------------------
(* The destructor: shutdown(), then the members in reverse order: router_  *)
(* first, then thread_pool_, whose destructor joins the workers.           *)

Destroy == /\ main.at \in Outside
           /\ \A s \in Stoppers : stopper[s] = "idle"
           /\ main' = [call |-> "destroy", at |-> "flags"]
           /\ UNCHANGED <<own_but_main, pool>>

DestroyRouter == /\ MainGoes("members", "join")
                 /\ Pool!Close
                 /\ UNCHANGED own_but_main

\* Variant: the workers are not joined before the members go.
JoinNobody == MainGoes("join", "dead") /\ UNCHANGED <<own_but_main, pool>>

JoinWorkers == /\ MainGoes("join", "dead")
               /\ Pool!Drain
               /\ UNCHANGED own_but_main

\* The server is destroyed; nothing happens any more.
Dead == MainAt("dead") /\ UNCHANGED vars

-----------------------------------------------------------------------------
(* stop(), from any thread while the server lives.                         *)

\* Variant: stop() also shuts the pool down.
StopFlagAndPool(s) == /\ main.call # "destroy"
                      /\ StopperGoes(s, "idle", "running")
                      /\ stopping_' = TRUE
                      /\ Pool!Close
                      /\ UNCHANGED <<running_, active_connections_, listener, main, clients>>

StopFlag(s) == /\ main.call # "destroy"
               /\ StopperGoes(s, "idle", "running")
               /\ stopping_' = TRUE
               /\ UNCHANGED <<running_, active_connections_, listener, main, clients, pool>>

StopRunning(s) == /\ StopperGoes(s, "running", "mark")
                  /\ running_' = FALSE
                  /\ UNCHANGED <<stopping_, active_connections_, listener, main, clients, pool>>

\* Variant: stop() clears the listener's flag and leaves the socket open.
StopMarksOnly(s) == /\ StopperGoes(s, "mark", "idle")
                    /\ ClearListener
                    /\ UNCHANGED <<running_, stopping_, active_connections_, main, clients, pool>>

StopMarks(s) == /\ StopperGoes(s, "mark", "test")
                /\ ClearListener
                /\ UNCHANGED <<running_, stopping_, active_connections_, main, clients, pool>>

\* Variant: close() takes the handle out of the Socket first and closes it then.
StopTakesHandle(s) == /\ StopperGoes(s, "test", IF listener.handle THEN "close" ELSE "idle")
                      /\ ForgetHandle
                      /\ UNCHANGED <<running_, stopping_, active_connections_, main, clients, pool>>

StopTests(s) == /\ StopperGoes(s, "test", IF listener.handle THEN "close" ELSE "idle")
                /\ UNCHANGED <<running_, stopping_, active_connections_, listener, main, clients, pool>>

StopCloses(s) == /\ StopperGoes(s, "close", "forget") \/ StopperGoes(s, "stale", "forget")
                 /\ \E file \in MayHit(stopper[s] = "stale") : CloseFile(file)
                 /\ UNCHANGED <<running_, stopping_, active_connections_, main, history, pool>>

StopForgets(s) == /\ StopperGoes(s, "forget", "idle")
                  /\ ForgetHandle
                  /\ UNCHANGED <<running_, stopping_, active_connections_, main, clients, pool>>

-----------------------------------------------------------------------------
(* The task of a connection: Connection::run() and the decrement after it. *)

StartTask ==
  /\ Pool!StartNext
  /\ conn' = [conn EXCEPT ![Head(pending)] = "reading"]
  /\ UNCHANGED own_but_conn

\* A complete request is there: the handler passed by the server calls router_.route().
Request(c) == /\ ConnGoes(c, "reading", "routing")
              /\ UNCHANGED <<own_but_conn, pool>>

\* The response is sent and both sides want the connection kept.
KeepsAlive(c) == /\ KeepAlive
                 /\ ConnGoes(c, "routing", "reading")
                 /\ UNCHANGED <<own_but_conn, pool>>

\* The response is sent, or could not be, and the connection is closed.
Closes(c) == /\ ConnGoes(c, "routing", "returning")
             /\ UNCHANGED <<own_but_conn, pool>>

\* Variant: only -1 ends the loop, so the end of the stream does not.
PeerLeavesIgnored(c) == conn[c] = "reading" /\ UNCHANGED vars

\* read() returns 0 or -1: the client has gone.
PeerLeaves(c) == /\ ConnGoes(c, "reading", "returning")
                 /\ UNCHANGED <<own_but_conn, pool>>

\* The parser rejects what was read, or the handler throws.
Throws(c) == /\ conn[c] \in {"reading", "routing"}
             /\ conn' = [conn EXCEPT ![c] = "unwinding"]
             /\ UNCHANGED <<own_but_conn, pool>>

\* Variant: a scope guard that the code also decrements by hand.
UncountTwice(c) == /\ ConnGoes(c, "returning", "ending")
                   /\ active_connections_' = active_connections_ - 2
                   /\ UNCHANGED <<running_, stopping_, listener, main, stopper, history, pool>>

\* The last statement of the task, which an exception skips.
Uncount(c) == /\ ConnGoes(c, "returning", "ending")
              /\ active_connections_' = active_connections_ - 1
              /\ UNCHANGED <<running_, stopping_, listener, main, stopper, history, pool>>

\* Variant: a worker that an exception reaches never comes back for another task.
EndTaskNormally(c) == /\ ConnGoes(c, "ending", "closed")
                      /\ Pool!Finish(c)
                      /\ UNCHANGED own_but_conn

\* The wrapper of submit() catches what the task throws; either way the last reference to
\* the Connection goes with the task.
EndTask(c) == /\ ConnGoes(c, "ending", "closed") \/ ConnGoes(c, "unwinding", "lost")
              /\ Pool!Finish(c)
              /\ UNCHANGED own_but_conn

-----------------------------------------------------------------------------
(* The clients, as the kernel shows them to the server.                    *)

Connect(c) == /\ listener.socket = "listening" \/ listener.left \/ HeldOpen
              /\ ConnGoes(c, "absent", "backlog")
              /\ UNCHANGED <<own_but_conn, pool>>

-----------------------------------------------------------------------------

OpenStep == \/ OpenSocket \/ AssignHandle \/ Bind \/ Listen \/ MarkRunning
            \/ LeaveRunByException

LoopStep == TestLoop \/ CheckListener \/ CallAccept \/ Caught

CloseStep == \/ ShutdownFlags \/ ShutdownListener \/ ShutdownTests \/ MainCloses \/ MainForgets
             \/ ShutdownPool \/ DestroyRouter \/ JoinWorkers

RunStep == OpenStep \/ LoopStep \/ AcceptFails \/ CloseStep

HandleStep(c) == \/ AcceptReturns(c) \/ CountConnection(c)
                 \/ HandshakeSucceeds(c) \/ HandshakeFails(c) \/ HandshakeThrows(c)
                 \/ Submit(c)

ServeStep(c) == \/ Request(c) \/ KeepsAlive(c) \/ Closes(c) \/ PeerLeaves(c) \/ Throws(c)
                \/ Uncount(c) \/ EndTask(c)

StopReturning(s) == \/ StopRunning(s) \/ StopMarks(s) \/ StopTests(s)
                    \/ StopCloses(s) \/ StopForgets(s)

StopStep(s) == StopFlag(s) \/ StopReturning(s)

Next == \/ BeginRun \/ Destroy \/ RunStep \/ StartTask \/ Dead
        \/ \E c \in Conns : Connect(c) \/ HandleStep(c) \/ ServeStep(c)
        \/ \E s \in Stoppers : StopStep(s)

SafeSpec == Init /\ [][Next]_vars

(***************************************************************************)
(* Threads that can run do.  Nobody need call run(), stop() or the         *)
(* destructor, accept() need not fail, no client need connect, shake       *)
(* hands, send anything or leave; but a handler that was called returns or *)
(* throws.                                                                 *)
(***************************************************************************)
MainProceeds == \/ OpenStep \/ LoopStep \/ AcceptAborted \/ CloseStep
                \/ \E c \in Conns : \/ AcceptReturns(c) \/ CountConnection(c) \/ Submit(c)
                                     \/ (~TlsEnabled /\ HandshakeSucceeds(c))

TaskProceeds(c) == KeepsAlive(c) \/ Closes(c) \/ Uncount(c) \/ EndTask(c)

FairSpec == /\ SafeSpec
            /\ WF_vars(MainProceeds)
            /\ \A s \in Stoppers : WF_vars(StopReturning(s))
            /\ WF_vars(StartTask)
            /\ \A c \in Conns : WF_vars(TaskProceeds(c))

\* Clients that eventually leave, whatever they asked for before.
ClientsLeave == \A c \in Conns : SF_vars(PeerLeaves(c))

Spec == FairSpec /\ ClientsLeave

-----------------------------------------------------------------------------
(* Properties.                                                             *)

Ended  == {"closed", "lost"}
InTask == {"reading", "routing", "returning", "ending", "unwinding"}

\* What active_connections_ counts: the connections from their increment to their
\* decrement, and for ever those whose decrement an exception skips.
Counted == {c \in Conns : conn[c] \in {"handshake", "submitting", "queued", "reading",
                                       "routing", "returning", "unwinding", "lost"}}

\* The types; the accepting thread has one connection in hand exactly while it handles
\* one, and the pool holds exactly the connections that are queued or served.
TypeOK == /\ running_ \in BOOLEAN
          /\ stopping_ \in BOOLEAN
          /\ active_connections_ \in Nat
          /\ listener \in [running : BOOLEAN, handle : BOOLEAN,
                           socket : {"none", "open", "listening"}, left : BOOLEAN]
          /\ main \in MainState
          /\ stopper \in [Stoppers -> StopperState]
          /\ conn \in [Conns -> ConnState]
          /\ late \subseteq Conns
          /\ straddled \in BOOLEAN
          /\ Pool!Pending = {c \in Conns : conn[c] = "queued"}
          /\ active = {c \in Conns : conn[c] \in InTask}
          /\ MainAt("handling") <=>
               \E c \in Conns : conn[c] \in {"accepted", "handshake", "submitting"}

(***************************************************************************)
(* active_connections() is exact, whatever the interleaving of the         *)
(* accepting thread and the workers: it counts the connections in hand,    *)
(* queued and served, and besides them precisely those that ended by an    *)
(* exception, which nothing ever takes back.  The first part is what the   *)
(* counter is for; the second says when an idle server does not count 0.   *)
(***************************************************************************)
CountExact == active_connections_ = Cardinality(Counted)

\* While run() has a connection in hand the pool is open: submit() does not throw there,
\* because only the thread that runs the server shuts the pool down.
PoolOpenForAccepted == (\E c \in Conns : conn[c] = "submitting") => open

\* After stop() at most one more connection is accepted, the one accept() was waiting
\* for or had in hand.
AtMostOneLate == Cardinality(late) <= 1

(***************************************************************************)
(* When run() has returned, the server is stopped and has no connection in *)
(* hand, and the port is closed with nobody left in its backlog, though    *)
(* calls of stop() were anywhere between their first statement and their   *)
(* last while run() opened, accepted and shut down: it is two threads'     *)
(* work to close one handle, and run() waits for no stop().  The exception *)
(* is a stop() that spans two calls of run(): inside Socket::close() when  *)
(* the later open() assigns its handle, it forgets that one, and run()     *)
(* returns with the port listening.                                        *)
(***************************************************************************)
RunReturnsStopped ==
  MainAt("returned") =>
    /\ stopping_ /\ ~running_ /\ ~open
    /\ \A c \in Conns : conn[c] \notin {"accepted", "handshake", "submitting"}
    /\ straddled \/ /\ listener.socket # "listening" /\ ~listener.left
                    /\ \A c \in Conns : conn[c] # "backlog"

\* No connection outlives the server: when the destructor is done, each one that was
\* accepted has been served to its end, those still queued when shutdown() was called
\* included, and nobody waits to be accepted, unless a straddling stop() left the port open.
DestroyedServesAll ==
  MainAt("dead") => \A c \in Conns : \/ conn[c] \in {"absent"} \cup Ended
                                      \/ (straddled /\ conn[c] = "backlog")

\* run() returns once stop() was called, or leaves by an exception.
StopEndsRun == (stopping_ /\ main.call = "run") ~> (main.call # "run")

\* The destructor comes back.
DestructorEnds == (main.call = "destroy") ~> MainAt("dead")

\* An accepted connection is served to its end, though the server be stopped meanwhile.
AcceptedServed == \A c \in Conns : (conn[c] = "accepted") ~> (conn[c] \in Ended)

-----------------------------------------------------------------------------
(* What a document of the repository says, and the code does not do.       *)

\* docs/protocol.md: existing connections are allowed to finish; so the router they
\* are answered by must still be there.
RouterOutlivesTasks == main.at \in {"join", "dead"} => \A c \in Conns : conn[c] # "routing"

=============================================================================
