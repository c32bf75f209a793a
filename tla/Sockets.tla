------------------------------ MODULE Sockets ------------------------------
(***************************************************************************)
(* Who closes which descriptor: net::Socket as TcpListener and Connection  *)
(* own it, with the numbers the kernel gives out again as soon as they are *)
(* free.  Socket::handle_ of the listener is a plain int that run(),       *)
(* stop() and shutdown() read and write without a lock, so Socket::close() *)
(* is three steps: the test, the system call, the assignment.  A           *)
(* connection's descriptor goes with run() or with the last of the two     *)
(* shared_ptrs to the Connection, the accepting thread's and the task's.   *)
(*                                                                         *)
(* Server has the rest of the accept loop and the pool.  Its running_ is   *)
(* cleared only where stopping_ was set before, so the loop's test and the *)
(* catch block's are both ~stopping_ here.                                 *)
(***************************************************************************)
EXTENDS Integers, FiniteSets

CONSTANTS Conns,        \* client connections
          Stoppers,     \* threads that call stop()
          Fds,          \* the descriptors the process may have
          Main,         \* the thread that runs and destroys the server
          MaxRuns,      \* bound: calls of run()
          TlsEnabled    \* config_.tls_enabled

InvalidHandle == -1

ASSUME SocketsAssumption == /\ InvalidHandle \notin Fds
                            /\ Main \notin Stoppers
                            /\ Main \notin Conns
                            /\ MaxRuns \in Nat
                            /\ TlsEnabled \in BOOLEAN

VARIABLES
  table,      \* the kernel's: the open file behind each descriptor
  listening,  \* the kernel's: the runs whose socket came to listen
  handle_,    \* the listener's Socket::handle_
  running_,   \* TcpListener::running_
  stopping_,  \* Server::stopping_
  runs,       \* how often run() was called
  main,       \* where the main thread is, and a descriptor in a local variable of it
  closing,    \* how far each thread's Socket::close() of the listener has come
  conn,       \* the connections: their place, Socket::handle_, SSL object and owners
  overlap,    \* history: two threads were between test and assignment at once
  straddled   \* history: open() assigned handle_ while a stop() was there

listener == <<handle_, running_, stopping_>>
history  == <<overlap, straddled>>
vars == <<table, listening, listener, runs, main, closing, conn, history>>

NoFile      == <<"none">>
Listener(n) == <<"listener", n>>
Client(c)   == <<"client", c>>
Threads == Stoppers \cup {Main}

NoConn(place) == [at |-> place, fd |-> InvalidHandle, ssl |-> FALSE, owners |-> {}]

Init == /\ table = [f \in Fds |-> NoFile]
        /\ listening = {}
        /\ handle_ = InvalidHandle
        /\ running_ = FALSE
        /\ stopping_ = FALSE
        /\ runs = 0
        /\ main = [at |-> "outside", fd |-> InvalidHandle]
        /\ closing = [t \in Threads |-> [at |-> "out", fd |-> InvalidHandle]]
        /\ conn = [c \in Conns |-> NoConn("absent")]
        /\ overlap = FALSE
        /\ straddled = FALSE

-----------------------------------------------------------------------------
(* The kernel.                                                             *)

Free == {f \in Fds : table[f] = NoFile}

\* The listening socket lives while a descriptor names it or accept() is waiting on it.
Alive(files, place) ==
  \E n \in listening : (\E f \in Fds : files[f] = Listener(n)) \/ (n = runs /\ place = "blocked")

\* When it goes, the connections nobody accepted are reset.
Reset(conns, files, place) ==
  [c \in Conns |-> IF conns[c].at = "backlog" /\ ~Alive(files, place) THEN NoConn("gone")
                   ELSE conns[c]]

\* ::close(fd), by its number: whatever file it now stands for.
Without(fd) == [f \in Fds |-> IF f = fd THEN NoFile ELSE table[f]]

MainGoes(a, b) == main.at = a /\ main' = [at |-> b, fd |-> InvalidHandle]

-----------------------------------------------------------------------------
(* Socket::close() of the listener's socket, by any thread.                *)

InClose(t) == closing[t].at \in {"call", "forget"}

TestValid(t) ==
  /\ closing[t].at = "test"
  /\ closing' = [closing EXCEPT ![t] = IF handle_ = InvalidHandle
                                       THEN [at |-> "done", fd |-> InvalidHandle]
                                       ELSE [at |-> "call", fd |-> handle_]]
  /\ overlap' = (overlap \/ (handle_ # InvalidHandle /\ \E u \in Threads \ {t} : InClose(u)))
  /\ UNCHANGED <<table, listening, listener, runs, main, conn, straddled>>

\* The compiler may read handle_ once for both uses, or again.
CloseHandle(t) ==
  /\ closing[t].at = "call"
  /\ \E fd \in {closing[t].fd, handle_} :
       /\ table' = Without(fd)
       /\ conn' = Reset(conn, Without(fd), main.at)
  /\ closing' = [closing EXCEPT ![t] = [at |-> "forget", fd |-> InvalidHandle]]
  /\ UNCHANGED <<listening, listener, runs, main, history>>

ForgetHandle(t) ==
  /\ closing[t].at = "forget"
  /\ handle_' = InvalidHandle
  /\ closing' = [closing EXCEPT ![t].at = "done"]
  /\ UNCHANGED <<table, listening, running_, stopping_, runs, main, conn, history>>

-----------------------------------------------------------------------------
(* stop(), and as much of shutdown(), which run() and the destructor call. *)

Stop(s) == /\ main.at \notin {"destroying", "dead"}
           /\ closing[s].at = "out"
           /\ closing' = [closing EXCEPT ![s].at = "flag"]
           /\ UNCHANGED <<table, listening, listener, runs, main, conn, history>>

RaiseFlag(t) == /\ closing[t].at = "flag"
                /\ closing' = [closing EXCEPT ![t].at = "mark"]
                /\ stopping_' = TRUE
                /\ UNCHANGED <<table, listening, handle_, running_, runs, main, conn, history>>

MarkStopped(t) == /\ closing[t].at = "mark"
                  /\ closing' = [closing EXCEPT ![t].at = "test"]
                  /\ running_' = FALSE
                  /\ UNCHANGED <<table, listening, handle_, stopping_, runs, main, conn, history>>

StopReturns(s) == /\ closing[s].at = "done"
                  /\ closing' = [closing EXCEPT ![s].at = "out"]
                  /\ UNCHANGED <<table, listening, listener, runs, main, conn, history>>

ShutdownReturns ==
  /\ \/ MainGoes("shutdown", "outside")
     \/ MainGoes("destroying", "dead")
  /\ closing[Main].at = "done"
  /\ closing' = [closing EXCEPT ![Main].at = "out"]
  /\ UNCHANGED <<table, listening, listener, runs, conn, history>>

\* The destructor, which no stop() may overlap.
Destroy == /\ MainGoes("outside", "destroying")
           /\ \A s \in Stoppers : closing[s].at = "out"
           /\ closing' = [closing EXCEPT ![Main].at = "flag"]
           /\ UNCHANGED <<table, listening, listener, runs, conn, history>>

-----------------------------------------------------------------------------
(* run(): TcpListener::open().                                             *)

BeginRun == /\ MainGoes("outside", "socket")
            /\ runs < MaxRuns
            /\ runs' = runs + 1
            /\ UNCHANGED <<table, listening, listener, closing, conn, history>>

\* Variant: the move assignment drops the old handle.
CreateSocketOnly ==
  \E fd \in Free :
    /\ main.at = "socket" /\ main' = [at |-> "assign", fd |-> fd]
    /\ table' = [table EXCEPT ![fd] = Listener(runs)]
    /\ closing' = [closing EXCEPT ![Main].at = "done"]
    /\ UNCHANGED <<listening, listener, runs, conn, history>>

\* The move assignment to socket_ closes what an earlier run() left in it.
CreateSocket ==
  \E fd \in Free :
    /\ main.at = "socket" /\ main' = [at |-> "assign", fd |-> fd]
    /\ table' = [table EXCEPT ![fd] = Listener(runs)]
    /\ closing' = [closing EXCEPT ![Main].at = "test"]
    /\ UNCHANGED <<listening, listener, runs, conn, history>>

AssignHandle == /\ MainGoes("assign", "bind")
                /\ closing[Main].at = "done"
                /\ closing' = [closing EXCEPT ![Main].at = "out"]
                /\ handle_' = main.fd
                /\ straddled' = (straddled \/ \E s \in Stoppers : InClose(s))
                /\ UNCHANGED <<table, listening, running_, stopping_, runs, conn, overlap>>

\* The descriptor in handle_ still stands for the socket of this run.
Usable == handle_ # InvalidHandle /\ table[handle_] = Listener(runs)

Bind == /\ MainGoes("bind", "listen")
        /\ Usable
        /\ UNCHANGED <<table, listening, listener, runs, closing, conn, history>>

\* The port must not be taken by a socket that still listens.
Listen == /\ MainGoes("listen", "mark")
          /\ Usable /\ ~Alive(table, main.at)
          /\ listening' = listening \cup {runs}
          /\ UNCHANGED <<table, listener, runs, closing, conn, history>>

\* socket(), setsockopt(), bind() and listen() may fail, for reasons of their own too.
OpenThrows == /\ main.at \in {"socket", "bind", "listen"}
              /\ main' = [at |-> "outside", fd |-> InvalidHandle]
              /\ UNCHANGED <<table, listening, listener, runs, closing, conn, history>>

MarkRunning == /\ MainGoes("mark", "loop")
               /\ running_' = TRUE
               /\ UNCHANGED <<table, listening, handle_, stopping_, runs, closing, conn, history>>

-----------------------------------------------------------------------------
(* run(): the accept loop.                                                 *)

Loop == /\ MainGoes("loop", "accept")
        /\ ~stopping_
        /\ UNCHANGED <<table, listening, listener, runs, closing, conn, history>>

LeaveLoop == /\ MainGoes("loop", "shutdown")
             /\ stopping_
             /\ closing' = [closing EXCEPT ![Main].at = "flag"]
             /\ UNCHANGED <<table, listening, listener, runs, conn, history>>

CheckListener == /\ main.at = "accept"
                 /\ main' = IF running_ /\ handle_ # InvalidHandle
                            THEN [at |-> "calling", fd |-> handle_]
                            ELSE [at |-> "loop", fd |-> InvalidHandle]
                 /\ UNCHANGED <<table, listening, listener, runs, closing, conn, history>>

\* The system call wants a descriptor of a listening socket, or fails at once.
CallAccept ==
  /\ main.at = "calling"
  /\ \E fd \in {main.fd, handle_} :
       MainGoes("calling", IF fd \in Fds /\ table[fd] = Listener(runs) THEN "blocked" ELSE "loop")
  /\ UNCHANGED <<table, listening, listener, runs, closing, conn, history>>

\* The new descriptor may be the number of a listener closed meanwhile.  The kernel picks it
\* between looking the listener up and waiting (Linux) or after; here it is picked when
\* accept() returns, which allows all that either does.
AcceptReturns(c) ==
  \E fd \in Free :
    /\ conn[c].at = "backlog"
    /\ MainGoes("blocked", "handling")
    /\ table' = [table EXCEPT ![fd] = Client(c)]
    /\ conn' = Reset([conn EXCEPT ![c] = [at |-> "accepted", fd |-> fd, ssl |-> FALSE,
                                          owners |-> {Main}]],
                     table', "handling")
    /\ UNCHANGED <<listening, listener, runs, closing, history>>

\* No descriptor is left, or another error; the catch block goes on.
AcceptFails == /\ MainGoes("blocked", "loop")
               /\ conn' = Reset(conn, table, "loop")
               /\ UNCHANGED <<table, listening, listener, runs, closing, history>>

-----------------------------------------------------------------------------
(* The Connection object.                                                  *)

\* close(): the SSL object is freed, the descriptor closed by its number and forgotten.
CloseConnection(c, place, owners) ==
  /\ table' = Without(conn[c].fd)
  /\ conn' = Reset([conn EXCEPT ![c] = [NoConn(place) EXCEPT !.owners = owners]],
                   table', main'.at)

\* Variant: the last owner goes without close().
DropOnly(c, owner) ==
  /\ table' = table
  /\ conn' = [conn EXCEPT ![c].owners = @ \ {owner},
                          ![c].at = IF conn[c].owners = {owner} THEN "gone" ELSE @]

\* A shared_ptr goes; the last one takes the Connection, whose destructor closes.
Drop(c, owner) ==
  IF conn[c].owners = {owner} THEN CloseConnection(c, "gone", {})
  ELSE conn' = [conn EXCEPT ![c].owners = @ \ {owner}] /\ UNCHANGED table

\* SSL_new() and SSL_set_fd().
NewTls(c) == /\ TlsEnabled
             /\ conn[c].at = "accepted"
             /\ conn' = [conn EXCEPT ![c].at = "tls", ![c].ssl = TRUE]
             /\ UNCHANGED <<table, listening, listener, runs, main, closing, history>>

\* The constructor throws, or the handshake fails: nobody else knows the connection.
HandshakeFails(c) == /\ TlsEnabled
                     /\ conn[c].at \in {"accepted", "tls"}
                     /\ MainGoes("handling", "loop")
                     /\ Drop(c, Main)
                     /\ UNCHANGED <<listening, listener, runs, closing, history>>

\* handshake() returned true; the task has a reference of its own.
Submit(c) == /\ conn[c].at = IF TlsEnabled THEN "tls" ELSE "accepted"
             /\ conn' = [conn EXCEPT ![c].at = "serving", ![c].owners = {Main, c}]
             /\ UNCHANGED <<table, listening, listener, runs, main, closing, history>>

\* handle_connection() returns, before or after the task has ended.
MainReturns(c) == /\ conn[c].at \in {"serving", "ended", "threw"}
                  /\ Main \in conn[c].owners
                  /\ MainGoes("handling", "loop")
                  /\ Drop(c, Main)
                  /\ UNCHANGED <<listening, listener, runs, closing, history>>

\* Variant: close() leaves the number in handle_.
RunEndsKeepingHandle(c) ==
  /\ conn[c].at = "serving"
  /\ main' = main
  /\ table' = Without(conn[c].fd)
  /\ conn' = Reset([conn EXCEPT ![c].at = "ended", ![c].ssl = FALSE], table', main.at)
  /\ UNCHANGED <<listening, listener, runs, closing, history>>

\* Connection::run() comes to its close(), or an exception leaves it before.
RunEnds(c) == /\ conn[c].at = "serving"
              /\ main' = main
              /\ CloseConnection(c, "ended", conn[c].owners)
              /\ UNCHANGED <<listening, listener, runs, closing, history>>

RunThrows(c) == /\ conn[c].at = "serving"
                /\ conn' = [conn EXCEPT ![c].at = "threw"]
                /\ UNCHANGED <<table, listening, listener, runs, main, closing, history>>

\* The worker destroys the task.
TaskGoes(c) == /\ conn[c].at \in {"ended", "threw"}
               /\ c \in conn[c].owners
               /\ main' = main
               /\ Drop(c, c)
               /\ UNCHANGED <<listening, listener, runs, closing, history>>

Connect(c) == /\ conn[c].at = "absent"
              /\ Alive(table, main.at)
              /\ conn' = [conn EXCEPT ![c].at = "backlog"]
              /\ UNCHANGED <<table, listening, listener, runs, main, closing, history>>

-----------------------------------------------------------------------------

CloseStep(t) == TestValid(t) \/ CloseHandle(t) \/ ForgetHandle(t)
                \/ RaiseFlag(t) \/ MarkStopped(t)

OpenStep == CreateSocket \/ AssignHandle \/ Bind \/ Listen \/ MarkRunning \/ OpenThrows

LoopStep == Loop \/ LeaveLoop \/ CheckListener \/ CallAccept

ServeStep(c) == RunEnds(c) \/ RunThrows(c) \/ TaskGoes(c)

HandleStep(c) == NewTls(c) \/ HandshakeFails(c) \/ Submit(c) \/ MainReturns(c)

\* The server is gone, and its clients with it.
Dead == main.at = "dead" /\ UNCHANGED vars

Next == \/ BeginRun \/ OpenStep \/ LoopStep \/ AcceptFails \/ ShutdownReturns \/ Destroy \/ Dead
        \/ \E t \in Threads : CloseStep(t)
        \/ \E s \in Stoppers : Stop(s) \/ StopReturns(s)
        \/ \E c \in Conns : AcceptReturns(c) \/ HandleStep(c) \/ ServeStep(c) \/ Connect(c)

SafeSpec == Init /\ [][Next]_vars

(***************************************************************************)
(* Threads run; clients answer the handshake and leave in the end; and     *)
(* accept(), called again and again, does not for ever fail for want of    *)
(* what is there.                                                          *)
(***************************************************************************)
Spec == /\ SafeSpec
        /\ WF_vars(OpenStep) /\ WF_vars(LoopStep) /\ WF_vars(ShutdownReturns)
        /\ \A t \in Threads : WF_vars(CloseStep(t))
        /\ \A s \in Stoppers : WF_vars(StopReturns(s))
        /\ SF_vars(\E c \in Conns : AcceptReturns(c))
        /\ \A c \in Conns : WF_vars(HandleStep(c)) /\ WF_vars(ServeStep(c))

-----------------------------------------------------------------------------
(* Properties.                                                             *)

Places == {"absent", "backlog", "accepted", "tls", "serving", "ended", "threw", "gone"}

\* The types; a Connection that nobody owns has no descriptor and no SSL object, and the
\* accepting thread owns one exactly while it handles it.
TypeOK ==
  /\ \A f \in Fds : \/ table[f] = NoFile
                    \/ \E n \in 1..runs : table[f] = Listener(n)
                    \/ \E c \in Conns : table[f] = Client(c)
  /\ listening \subseteq 1..runs
  /\ handle_ \in Fds \cup {InvalidHandle}
  /\ running_ \in BOOLEAN
  /\ stopping_ \in BOOLEAN
  /\ \A t \in Threads : closing[t].at \in {"out", "flag", "mark", "test", "call", "forget", "done"}
  /\ \A c \in Conns : /\ conn[c].at \in Places
                      /\ conn[c].owners \subseteq {Main, c}
                      /\ conn[c].owners = {} <=> conn[c].at \in {"absent", "backlog", "gone"}
                      /\ conn[c].owners = {} => conn[c] = NoConn(conn[c].at)
                      /\ conn[c].ssl => TlsEnabled /\ conn[c].fd # InvalidHandle
  /\ Cardinality({c \in Conns : Main \in conn[c].owners}) = IF main.at = "handling" THEN 1 ELSE 0

(***************************************************************************)
(* Socket ownership is exclusive, and numbers are reused: a Connection's   *)
(* handle, and the SSL object on it, stand for that connection's own file  *)
(* until the Connection closes it.  No second close() of a number given    *)
(* out again takes it away: not the destructor's after run()'s, not a      *)
(* stop() racing accept(), not an old listener's.  The one exception: two  *)
(* threads were closing the listener at once, the second of them when the  *)
(* number that the first one freed had been given out again.               *)
(***************************************************************************)
OwnDescriptor ==
  overlap \/ \A c \in Conns : conn[c].fd # InvalidHandle => table[conn[c].fd] = Client(c)

(***************************************************************************)
(* No descriptor is lost: each open file has an owner that will close it,  *)
(* whatever failed on the way.  The exception: a stop() that tested the    *)
(* old handle forgets the one open() has assigned meanwhile.               *)
(***************************************************************************)
NothingLeaks ==
  straddled \/
  \A f \in Fds : \/ table[f] = NoFile
                 \/ \E c \in Conns : table[f] = Client(c) /\ conn[c].fd = f
                 \/ table[f] = Listener(runs) /\ main.at = "assign" /\ main.fd = f
                 \/ handle_ = f

\* A client in the backlog is accepted or reset in the end, though the process be out of
\* descriptors for a while: the accept loop survives the lack and connections that end
\* make up for it.
BacklogServed ==
  \A c \in Conns : (conn[c].at = "backlog")
                     ~> (conn[c].at # "backlog" \/ straddled)

=============================================================================
