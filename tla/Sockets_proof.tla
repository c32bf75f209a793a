---------------------------- MODULE Sockets_proof ----------------------------
(***************************************************************************)
(* Proofs about Sockets for every set of descriptors, connections and      *)
(* stopping threads and any number of runs: whose file a descriptor is,    *)
(* and that none is lost.                                                  *)
(***************************************************************************)
EXTENDS Sockets, FiniteSetTheorems, TLAPS

Handles   == Fds \cup {InvalidHandle}
Listeners == {Listener(n) : n \in Nat}
Clients   == {Client(c) : c \in Conns}
Files     == {NoFile} \cup Listeners \cup Clients

ConnRecord  == [at : Places, fd : Handles, ssl : BOOLEAN, owners : SUBSET (Conns \cup {Main})]
Connections == [Conns -> ConnRecord]

\* Where the main thread may be inside Socket::close() of the listener.
Busy == {"assign", "shutdown", "destroying"}

Types ==
  /\ table \in [Fds -> Files]
  /\ handle_ \in Handles
  /\ runs \in Nat
  /\ main = [at |-> main.at, fd |-> main.fd]
  /\ main.fd \in Handles
  /\ main.at = "assign" => main.fd \in Fds
  /\ closing \in [Threads -> [at : {"out", "flag", "mark", "test", "call", "forget", "done"},
                              fd : Handles]]
  /\ main.at \notin Busy => closing[Main].at = "out"
  /\ conn \in Connections
  /\ overlap \in BOOLEAN
  /\ straddled \in BOOLEAN

\* A client's file is found through its Connection, and through its own only.
Known == /\ \A c \in Conns : conn[c].at \in {"absent", "backlog", "gone"} =>
                               conn[c].fd = InvalidHandle
         /\ \A f \in Fds : \A c \in Conns : table[f] = Client(c) => conn[c].fd = f

Own == \A c \in Conns : conn[c].fd # InvalidHandle => table[conn[c].fd] = Client(c)

InForget(t) == closing[t].at = "forget"

(***************************************************************************)
(* While no two threads close the listener at once: the one that does      *)
(* closes what handle_ names, and that is a listening socket, not yet      *)
(* given to a client, as long as nobody has closed it and not yet          *)
(* forgotten it.  open() finds no handle where it assigns the new one.     *)
(***************************************************************************)
Exclusive ==
  /\ Own
  /\ \A t, u \in Threads : InClose(t) /\ InClose(u) => t = u
  /\ \A t \in Threads : InClose(t) => handle_ \in Fds
  /\ \A t \in Threads : closing[t].at = "call" => closing[t].fd = handle_
  /\ (\A t \in Threads : ~InForget(t)) /\ handle_ \in Fds => table[handle_] \in Listeners
  /\ main.at = "assign" => table[main.fd] \in Listeners
  /\ main.at = "assign" /\ (\A t \in Threads : ~InForget(t)) => handle_ # main.fd
  /\ main.at = "assign" /\ closing[Main].at = "done" =>
       handle_ = InvalidHandle /\ \A t \in Threads : ~InClose(t)

(***************************************************************************)
(* While open() assigns no handle in the middle of a close(): whoever is   *)
(* about to forget the handle has closed it, or open() still has the file  *)
(* it now stands for, and a listening socket has no other holder.          *)
(***************************************************************************)
Held ==
  /\ \A t \in Threads : closing[t].at = "call" => closing[t].fd = handle_ \/ handle_ = InvalidHandle
  /\ \A t \in Threads : InForget(t) => \/ handle_ = InvalidHandle
                                       \/ table[handle_] \notin Listeners
                                       \/ main.at = "assign" /\ main.fd = handle_
  /\ \A f \in Fds : table[f] \in Listeners => handle_ = f \/ (main.at = "assign" /\ main.fd = f)
  /\ main.at = "assign" /\ closing[Main].at = "done" => handle_ = InvalidHandle
  /\ main.at = "assign" /\ table[main.fd] \in Listeners => table[main.fd] = Listener(runs)

OwnInv == Types /\ Known /\ (~overlap => Exclusive) /\ (~straddled => Held)

-----------------------------------------------------------------------------

\* The kernel's files are told apart.
LEMMA FilesDiffer ==
  /\ NoFile \notin Listeners /\ NoFile \notin Clients
  /\ \A c : Client(c) # NoFile /\ Client(c) \notin Listeners
  /\ \A c, d : Client(c) = Client(d) => c = d
  /\ \A n \in Nat : Listener(n) \in Listeners
  /\ \A c \in Conns : Client(c) \in Clients
BY DEF NoFile, Listener, Client, Listeners, Clients

\* A handle that is valid is a descriptor, and the other way round.
LEMMA ValidHandle == \A h \in Handles : h # InvalidHandle <=> h \in Fds
BY SocketsAssumption DEF Handles

\* A reset takes connections from the backlog and no descriptor from anybody.
LEMMA ResetKeeps ==
  ASSUME NEW conns \in Connections,
         \A c \in Conns : conns[c].at = "backlog" => conns[c].fd = InvalidHandle,
         NEW files, NEW place
  PROVE  /\ Reset(conns, files, place) \in Connections
         /\ \A c \in Conns : Reset(conns, files, place)[c].fd = conns[c].fd
         /\ \A c \in Conns : \/ Reset(conns, files, place)[c].at = conns[c].at
                             \/ /\ Reset(conns, files, place)[c].at = "gone"
                                /\ conns[c].at = "backlog"
BY DEF Reset, NoConn, Places, Handles, Connections, ConnRecord

\* A socket has neither clients nor a handle before run() is called.
LEMMA OwnInit == Init => OwnInv
<1> SUFFICES ASSUME Init PROVE OwnInv
  OBVIOUS
<1>1. Types
  BY DEF Init, Types, Handles, Files, NoConn, Places, Connections, ConnRecord, Busy, Threads
<1>2. \A f \in Fds : table[f] = NoFile
  BY DEF Init
<1>3. Known
  BY <1>2, FilesDiffer DEF Init, Known, NoConn
<1>4. Exclusive
  BY <1>2, SocketsAssumption DEF Init, Exclusive, Own, InClose, InForget, NoConn
<1>5. Held
  BY <1>2, FilesDiffer DEF Init, Held, InForget
<1> QED
  BY <1>1, <1>3, <1>4, <1>5 DEF OwnInv

\* Steps that open and close nothing, nor touch the listener's handle: a descriptor's
\* holder stays the same.
LEMMA CalmStep ==
  ASSUME OwnInv,
         UNCHANGED <<table, handle_, closing, overlap, straddled>>,
         conn' \in Connections,
         \A c \in Conns : conn'[c].fd = conn[c].fd,
         \A c \in Conns : conn'[c].at \in {"absent", "backlog", "gone"} =>
                            conn[c].fd = InvalidHandle,
         \/ UNCHANGED <<main, runs>>
         \/ /\ runs' \in Nat /\ main' = [at |-> main'.at, fd |-> main'.fd]
            /\ main'.fd \in Handles /\ main.at \notin Busy /\ main'.at \notin Busy
  PROVE  OwnInv'
<1> USE DEF Busy
<1>1. Types'
  BY DEF OwnInv, Types
<1>2. Known'
  BY DEF OwnInv, Known
<1>3. ~overlap' => Exclusive'
  BY DEF OwnInv, Exclusive, Own, InClose, InForget
<1>4. ~straddled' => Held'
  BY DEF OwnInv, Held, InForget
<1> QED
  BY <1>1, <1>2, <1>3, <1>4 DEF OwnInv

\* Steps of a thread on its way to Socket::close() or back from it.
LEMMA WayStep ==
  ASSUME OwnInv, NEW t \in Threads, NEW place \in {"out", "flag", "mark", "test"},
         closing' = [closing EXCEPT ![t].at = place],
         UNCHANGED <<table, handle_, runs, conn, overlap, straddled>>,
         \/ UNCHANGED main
         \/ /\ main' = [at |-> main'.at, fd |-> main'.fd] /\ t = Main
            /\ main'.fd \in Handles /\ main.at # "assign" /\ main'.at # "assign",
         t = Main => main'.at \in Busy \/ place = "out"
  PROVE  closing[t].at \notin {"call", "forget"} => OwnInv'
<1> SUFFICES ASSUME closing[t].at \notin {"call", "forget"} PROVE OwnInv'
  OBVIOUS
<1>0. /\ \A u \in Threads : InClose(u)' <=> InClose(u)
      /\ \A u \in Threads : InForget(u)' <=> InForget(u)
      /\ \A u \in Threads : closing'[u].fd = closing[u].fd
      /\ \A u \in Threads : closing'[u].at = "call" <=> closing[u].at = "call"
      /\ \A u \in Threads : closing'[u].at = "done" => closing[u].at = "done"
  BY DEF OwnInv, Types, InClose, InForget
<1>m. Main \in Threads
  BY DEF Threads
<1>1. Types'
  BY <1>m DEF OwnInv, Types
<1>2. Known'
  BY DEF OwnInv, Known
<1>3. ~overlap' => Exclusive'
  BY <1>0, <1>m DEF OwnInv, Exclusive, Own
<1>4. ~straddled' => Held'
  BY <1>0, <1>m DEF OwnInv, Held
<1> QED
  BY <1>1, <1>2, <1>3, <1>4 DEF OwnInv

\* Socket::close(), the test: the thread goes on with the handle it has seen.
LEMMA TestStep == ASSUME OwnInv, NEW t \in Threads, TestValid(t) PROVE OwnInv'
<1> USE DEF TestValid, listener
<1>m. Main \in Threads
  BY DEF Threads
<1>1. Types'
  BY <1>m DEF OwnInv, Types
<1>2. Known'
  BY DEF OwnInv, Known
<1>0. /\ \A u \in Threads : closing'[u].at = "forget" <=> closing[u].at = "forget"
      /\ \A u \in Threads \ {t} : closing'[u] = closing[u]
      /\ handle_ = InvalidHandle => closing'[t].at = "done"
      /\ handle_ # InvalidHandle => closing'[t].at = "call" /\ closing'[t].fd = handle_
  BY DEF OwnInv, Types
<1>h. handle_ # InvalidHandle <=> handle_ \in Fds
  BY ValidHandle DEF OwnInv, Types
<1>3. ASSUME ~overlap' PROVE Exclusive'
  <2>1. ~overlap /\ Exclusive
    BY <1>3 DEF OwnInv, Types
  <2>2. handle_ # InvalidHandle => \A u \in Threads \ {t} : ~InClose(u)
    BY <1>3 DEF OwnInv, Types
  <2>3. \A u \in Threads : InClose(u)' <=> IF u = t THEN handle_ # InvalidHandle ELSE InClose(u)
    BY <1>0 DEF InClose
  <2>4. \A u, v \in Threads : InClose(u)' /\ InClose(v)' => u = v
    BY <2>1, <2>2, <2>3 DEF Exclusive
  <2>5. \A u \in Threads : InClose(u)' => handle_' \in Fds
    BY <2>1, <2>3, <1>h DEF Exclusive
  <2>6. \A u \in Threads : closing'[u].at = "call" => closing'[u].fd = handle_'
    BY <2>1, <1>0 DEF Exclusive
  <2>7. \A u \in Threads : InForget(u)' <=> InForget(u)
    BY <1>0 DEF InForget
  <2>8. main'.at = "assign" /\ closing'[Main].at = "done" =>
          handle_' = InvalidHandle /\ \A u \in Threads : ~InClose(u)'
    <3> SUFFICES ASSUME main.at = "assign", closing'[Main].at = "done"
                 PROVE  handle_ = InvalidHandle /\ \A u \in Threads : ~InClose(u)'
      OBVIOUS
    <3>1. CASE t = Main
      BY <3>1, <2>1, <2>3, <1>0, <1>h DEF Exclusive
    <3>2. CASE t # Main
      BY <3>2, <2>1, <2>3, <1>0, <1>m DEF Exclusive
    <3> QED
      BY <3>1, <3>2
  <2> QED
    BY <2>1, <2>4, <2>5, <2>6, <2>7, <2>8 DEF Exclusive, Own
<1>4. ~straddled' => Held'
  BY <1>0, <1>m DEF OwnInv, Held, InForget
<1> QED
  BY <1>1, <1>2, <1>3, <1>4 DEF OwnInv

\* Socket::close(), the system call, on the handle seen or the one read again.
LEMMA CallStep == ASSUME OwnInv, NEW t \in Threads, CloseHandle(t) PROVE OwnInv'
<1> USE DEF CloseHandle, listener, history
<1>m. Main \in Threads
  BY DEF Threads
<1> PICK fd \in {closing[t].fd, handle_} : /\ table' = Without(fd)
                                           /\ conn' = Reset(conn, Without(fd), main.at)
  OBVIOUS
<1>r. /\ conn' \in Connections
      /\ \A c \in Conns : conn'[c].fd = conn[c].fd
      /\ \A c \in Conns : conn'[c].at = conn[c].at \/ (conn'[c].at = "gone" /\ conn[c].at = "backlog")
  BY ResetKeeps DEF OwnInv, Types, Known
<1>t. /\ table' \in [Fds -> Files]
      /\ \A f \in Fds : table'[f] = IF f = fd THEN NoFile ELSE table[f]
  BY DEF Without, OwnInv, Types, Files
<1>0. /\ closing[t].at = "call"
      /\ closing'[t].at = "forget"
      /\ \A u \in Threads \ {t} : closing'[u] = closing[u]
  BY DEF OwnInv, Types
<1>1. Types'
  BY <1>r, <1>t, <1>m, <1>0 DEF OwnInv, Types, Handles
<1>2. Known'
  BY <1>r, <1>t, FilesDiffer DEF OwnInv, Known
<1>3. ASSUME ~overlap' PROVE Exclusive'
  <2>1. Exclusive
    BY <1>3 DEF OwnInv
  <2>2. fd = handle_ /\ handle_ \in Fds
    BY <2>1, <1>0 DEF Exclusive, InClose
  <2>3. \A u \in Threads : InForget(u) => FALSE
    BY <2>1, <1>0 DEF Exclusive, InClose, InForget
  <2>4. table[handle_] \in Listeners
    BY <2>1, <2>2, <2>3 DEF Exclusive
  <2>5. Own'
    BY <2>1, <2>2, <2>4, <1>r, <1>t, ValidHandle, FilesDiffer DEF Exclusive, Own, OwnInv, Types, Connections, ConnRecord
  <2>6. \A u \in Threads : InClose(u)' <=> InClose(u)
    BY <1>0 DEF InClose
  <2>7. main.at = "assign" => table'[main.fd] \in Listeners
    BY <2>1, <2>2, <2>3, <1>t DEF Exclusive, OwnInv, Types
  <2>8. ~(main.at = "assign" /\ closing'[Main].at = "done")
    BY <2>1, <1>0, <1>m DEF Exclusive, InClose
  <2>9. InForget(t)'
    BY <1>0 DEF InForget
  <2>10. \A u \in Threads : closing'[u].at = "call" => closing'[u].fd = handle_'
    BY <2>1, <1>0 DEF Exclusive
  <2>11. \A u, v \in Threads : InClose(u)' /\ InClose(v)' => u = v
    BY <2>1, <2>6 DEF Exclusive
  <2> QED
    BY <2>2, <2>5, <2>7, <2>8, <2>9, <2>10, <2>11 DEF Exclusive
<1>4. ASSUME ~straddled' PROVE Held'
  <2>1. Held
    BY <1>4 DEF OwnInv
  <2>2. \A f \in Fds : table'[f] \in Listeners => table'[f] = table[f] /\ table[f] \in Listeners /\ f # fd
    BY <1>t, FilesDiffer
  <2>3. fd = handle_ \/ handle_ = InvalidHandle
    BY <2>1, <1>0 DEF Held
  <2>4. \A u \in Threads : closing'[u].at = "call" => closing'[u].fd = handle_ \/ handle_ = InvalidHandle
    BY <2>1, <1>0 DEF Held
  <2>5. handle_ = InvalidHandle \/ table'[handle_] \notin Listeners
    BY <2>2, <2>3 DEF OwnInv, Types, Handles
  <2>6. main.at = "assign" /\ closing'[Main].at = "done" => handle_ = InvalidHandle
    BY <2>1, <1>0, <1>m DEF Held
  <2>7. main.at = "assign" /\ table'[main.fd] \in Listeners => table'[main.fd] = Listener(runs)
    BY <2>1, <2>2 DEF Held, OwnInv, Types
  <2>8. \A f \in Fds : table'[f] \in Listeners => handle_ = f \/ (main.at = "assign" /\ main.fd = f)
    BY <2>1, <2>2 DEF Held
  <2> QED
    BY <2>4, <2>5, <2>6, <2>7, <2>8 DEF Held
<1> QED
  BY <1>1, <1>2, <1>3, <1>4 DEF OwnInv

\* Socket::close(), the assignment.
LEMMA ForgetStep == ASSUME OwnInv, NEW t \in Threads, ForgetHandle(t) PROVE OwnInv'
<1> USE DEF ForgetHandle, history
<1>m. Main \in Threads /\ InvalidHandle \notin Fds
  BY SocketsAssumption DEF Threads
<1>0. /\ closing[t].at = "forget"
      /\ closing'[t].at = "done"
      /\ \A u \in Threads \ {t} : closing'[u] = closing[u]
  BY DEF OwnInv, Types
<1>1. Types'
  BY <1>m, <1>0 DEF OwnInv, Types, Handles
<1>2. Known'
  BY DEF OwnInv, Known
<1>3. ASSUME ~overlap' PROVE Exclusive'
  <2>1. Exclusive
    BY <1>3 DEF OwnInv
  <2>2. \A u \in Threads : ~InClose(u)'
    BY <2>1, <1>0 DEF Exclusive, InClose
  <2> QED
    BY <2>1, <2>2, <1>m DEF Exclusive, Own, InClose, OwnInv, Types
<1>4. ASSUME ~straddled' PROVE Held'
  <2>1. Held
    BY <1>4 DEF OwnInv
  <2>2. \A f \in Fds : table[f] \in Listeners => main.at = "assign" /\ main.fd = f
    <3> SUFFICES ASSUME NEW f \in Fds, table[f] \in Listeners
                 PROVE  main.at = "assign" /\ main.fd = f
      OBVIOUS
    <3>1. handle_ = f \/ (main.at = "assign" /\ main.fd = f)
      BY <2>1 DEF Held
    <3>2. \/ handle_ = InvalidHandle
          \/ table[handle_] \notin Listeners
          \/ main.at = "assign" /\ main.fd = handle_
      BY <2>1, <1>0 DEF Held, InForget
    <3> QED
      BY <3>1, <3>2, <1>m
  <2> QED
    BY <2>1, <2>2 DEF Held
<1> QED
  BY <1>1, <1>2, <1>3, <1>4 DEF OwnInv

\* open(): a descriptor for the new listening socket.
LEMMA CreateStep == ASSUME OwnInv, CreateSocket PROVE OwnInv'
<1> PICK fd \in Free : /\ main.at = "socket" /\ main' = [at |-> "assign", fd |-> fd]
                       /\ table' = [table EXCEPT ![fd] = Listener(runs)]
                       /\ closing' = [closing EXCEPT ![Main].at = "test"]
                       /\ UNCHANGED <<handle_, runs, conn, overlap, straddled>>
  BY DEF CreateSocket, listener, history
<1>m. Main \in Threads
  BY DEF Threads
<1>f. fd \in Fds /\ table[fd] = NoFile /\ Listener(runs) \in Listeners
  BY FilesDiffer DEF Free, OwnInv, Types
<1>t. /\ table' \in [Fds -> Files]
      /\ \A f \in Fds : table'[f] = IF f = fd THEN Listener(runs) ELSE table[f]
  BY <1>f DEF OwnInv, Types, Files
<1>0. /\ closing'[Main].at = "test"
      /\ \A u \in Threads \ {Main} : closing'[u] = closing[u]
  BY <1>m DEF OwnInv, Types
<1>1. Types'
  BY <1>f, <1>t, <1>m DEF OwnInv, Types, Handles, Busy
<1>2. Known'
  BY <1>f, <1>t, FilesDiffer DEF OwnInv, Known
<1>3. ASSUME ~overlap' PROVE Exclusive'
  <2>1. Exclusive
    BY <1>3 DEF OwnInv
  <2>2. Own'
    BY <2>1, <1>f, <1>t, ValidHandle, FilesDiffer DEF Exclusive, Own, OwnInv, Types, Connections, ConnRecord
  <2>3. \A u \in Threads : InClose(u)' => InClose(u)
    BY <1>0 DEF InClose
  <2>4. (\A u \in Threads : ~InForget(u)') /\ handle_ \in Fds =>
          table'[handle_] \in Listeners /\ handle_ # fd
    <3> SUFFICES ASSUME \A u \in Threads : ~InForget(u)', handle_ \in Fds
                 PROVE  table'[handle_] \in Listeners /\ handle_ # fd
      OBVIOUS
    <3>1. \A u \in Threads : ~InForget(u)
      BY <1>0 DEF InForget, OwnInv, Types, Busy
    <3>2. table[handle_] \in Listeners
      BY <3>1, <2>1 DEF Exclusive
    <3> QED
      BY <3>2, <1>f, <1>t, FilesDiffer
  <2> QED
    BY <2>1, <2>2, <2>3, <2>4, <1>0, <1>f, <1>t DEF Exclusive
<1>4. ASSUME ~straddled' PROVE Held'
  <2>1. Held
    BY <1>4 DEF OwnInv
  <2> QED
    BY <2>1, <1>0, <1>f, <1>t, <1>m DEF Held, InForget, OwnInv, Types, Handles
<1> QED
  BY <1>1, <1>2, <1>3, <1>4 DEF OwnInv

\* open(): the listener's handle becomes the new socket's.
LEMMA AssignStep == ASSUME OwnInv, AssignHandle PROVE OwnInv'
<1> USE DEF AssignHandle, MainGoes
<1>m. Main \in Threads /\ InvalidHandle \notin Fds
  BY SocketsAssumption DEF Threads
<1>0. /\ main.at = "assign" /\ main.fd \in Fds /\ handle_' = main.fd
      /\ closing[Main].at = "done" /\ closing'[Main].at = "out"
      /\ \A u \in Threads \ {Main} : closing'[u] = closing[u]
      /\ main'.at = "bind"
      /\ UNCHANGED <<table, runs, conn, overlap>>
  BY <1>m DEF OwnInv, Types
<1>c. \A u \in Threads : InClose(u)' <=> InClose(u)
  BY <1>0 DEF InClose
<1>1. Types'
  BY <1>m, <1>0 DEF OwnInv, Types, Handles, Threads
<1>2. Known'
  BY <1>0 DEF OwnInv, Known
<1>3. ASSUME ~overlap' PROVE Exclusive'
  <2>1. Exclusive
    BY <1>3, <1>0 DEF OwnInv
  <2>2. \A u \in Threads : ~InClose(u)'
    BY <2>1, <1>0, <1>c DEF Exclusive
  <2> QED
    BY <2>1, <2>2, <1>0 DEF Exclusive, Own, InClose
<1>4. ASSUME ~straddled' PROVE Held'
  <2>1. Held
    BY <1>4 DEF OwnInv, Types
  <2>2. \A u \in Threads : ~InClose(u)
    BY <1>4, <1>0 DEF OwnInv, Types, InClose, Threads
  <2>3. \A f \in Fds : table[f] \in Listeners => main.fd = f
    BY <2>1, <1>0, <1>m DEF Held
  <2> QED
    BY <2>2, <2>3, <1>0, <1>c DEF Held, InClose, InForget
<1> QED
  BY <1>1, <1>2, <1>3, <1>4 DEF OwnInv

\* A connection is given a free descriptor, or closes its own: the listener's stays with
\* whom it was.
LEMMA AcceptStep == ASSUME OwnInv, NEW c \in Conns, AcceptReturns(c) PROVE OwnInv'
<1>k. PICK fd \in Free :
      /\ conn[c].at = "backlog"
      /\ MainGoes("blocked", "handling")
      /\ table' = [table EXCEPT ![fd] = Client(c)]
      /\ conn' = Reset([conn EXCEPT ![c] = [at |-> "accepted", fd |-> fd, ssl |-> FALSE,
                                            owners |-> {Main}]],
                       table', "handling")
      /\ UNCHANGED <<handle_, runs, closing, overlap, straddled>>
  BY DEF AcceptReturns, listener, history
<1>n. PICK conns : conns = [conn EXCEPT ![c] = [at |-> "accepted", fd |-> fd, ssl |-> FALSE,
                                                owners |-> {Main}]]
  OBVIOUS
<1>f. fd \in Fds /\ table[fd] = NoFile
  BY DEF Free
<1>p. /\ conns \in Connections
      /\ \A d \in Conns : conns[d].at = "backlog" => conns[d].fd = InvalidHandle
      /\ conns[c].fd = fd /\ conns[c].at = "accepted"
      /\ \A d \in Conns \ {c} : conns[d] = conn[d]
  BY <1>n, <1>f DEF OwnInv, Types, Known, Connections, ConnRecord, Places, Handles
<1>r. /\ conn' \in Connections
      /\ \A d \in Conns : conn'[d].fd = conns[d].fd
      /\ \A d \in Conns : \/ conn'[d].at = conns[d].at
                          \/ conn'[d].at = "gone" /\ conns[d].at = "backlog"
  <2>1. conn' = Reset(conns, table', "handling")
    BY <1>k, <1>n
  <2> QED
    BY <2>1, <1>p, ResetKeeps
<1>t. /\ table' \in [Fds -> Files]
      /\ \A f \in Fds : table'[f] = IF f = fd THEN Client(c) ELSE table[f]
  BY <1>k, <1>f DEF OwnInv, Types, Files, Clients
<1>1. Types'
  BY <1>k, <1>t, <1>r DEF OwnInv, Types, MainGoes, Handles, Busy
<1>2. Known'
  <2>1. \A d \in Conns : conn'[d].at \in {"absent", "backlog", "gone"} =>
                         conn'[d].fd = InvalidHandle
    <3> SUFFICES ASSUME NEW d \in Conns, conn'[d].at \in {"absent", "backlog", "gone"}
                 PROVE  conn'[d].fd = InvalidHandle
      OBVIOUS
    <3>1. conns[d].at \in {"absent", "backlog", "gone"}
      BY <1>r
    <3>2. d # c
      BY <3>1, <1>p
    <3>3. conns[d] = conn[d]
      BY <3>2, <1>p
    <3> QED
      BY <3>1, <3>3, <1>r DEF OwnInv, Known
  <2>2. ASSUME NEW f \in Fds, NEW d \in Conns, table'[f] = Client(d) PROVE conn'[d].fd = f
    <3>1. CASE f = fd
      BY <2>2, <3>1, <1>r, <1>p, <1>t, FilesDiffer
    <3>2. CASE f # fd
      <4>1. conn[d].fd = f
        BY <2>2, <3>2, <1>t DEF OwnInv, Known
      <4>2. d # c
        BY <4>1, <1>k, SocketsAssumption DEF OwnInv, Known
      <4> QED
        BY <4>1, <4>2, <1>r, <1>p
    <3> QED
      BY <3>1, <3>2
  <2> QED
    BY <2>1, <2>2 DEF Known
<1>3. ASSUME ~overlap' PROVE Exclusive'
  <2>1. Exclusive
    BY <1>3, <1>k DEF OwnInv
  <2>2. Own'
    <3> SUFFICES ASSUME NEW d \in Conns, conn'[d].fd # InvalidHandle
                 PROVE  table'[conn'[d].fd] = Client(d)
      BY DEF Own
    <3>1. CASE d = c
      BY <3>1, <1>f, <1>t, <1>r, <1>p
    <3>2. CASE d # c
      <4>1. conn'[d].fd = conn[d].fd /\ conn[d].fd \in Fds
        BY <3>2, <1>r, <1>p, ValidHandle DEF Connections, ConnRecord
      <4>2. table[conn[d].fd] = Client(d)
        BY <4>1, <2>1 DEF Exclusive, Own
      <4> QED
        BY <4>1, <4>2, <1>f, <1>t, FilesDiffer
    <3> QED
      BY <3>1, <3>2
  <2>3. (\A t \in Threads : ~InForget(t)) /\ handle_ \in Fds => table'[handle_] \in Listeners
    BY <2>1, <1>k, <1>f, <1>t, FilesDiffer DEF Exclusive, InForget
  <2> QED
    BY <1>k, <2>1, <2>2, <2>3 DEF Exclusive, InClose, InForget, MainGoes
<1>4. ASSUME ~straddled' PROVE Held'
  <2>1. Held
    BY <1>4, <1>k DEF OwnInv
  <2>2. \A f \in Fds : table'[f] \in Listeners => table'[f] = table[f] /\ table[f] \in Listeners
    BY <1>t, FilesDiffer
  <2>3. \A t \in Threads : InForget(t)' => \/ handle_ = InvalidHandle
                                            \/ table'[handle_] \notin Listeners
    BY <1>k, <2>1, <2>2 DEF Held, InForget, MainGoes, OwnInv, Types, Handles
  <2>4. \A f \in Fds : table'[f] \in Listeners => handle_ = f
    BY <1>k, <2>1, <2>2 DEF Held, MainGoes
  <2> QED
    BY <1>k, <2>1, <2>3, <2>4 DEF Held, InForget, MainGoes
<1> QED
  BY <1>1, <1>2, <1>3, <1>4 DEF OwnInv

\* Connection::close(): the number closed is the connection's own, so nobody else's file
\* goes with it.
LEMMA CloseConnectionStep ==
  ASSUME OwnInv, NEW c \in Conns, NEW place \in {"ended", "gone"},
         NEW owners \in SUBSET (Conns \cup {Main}), CloseConnection(c, place, owners),
         UNCHANGED <<handle_, runs, closing, overlap, straddled>>,
         \/ UNCHANGED main
         \/ /\ main' = [at |-> main'.at, fd |-> main'.fd]
            /\ main'.fd \in Handles /\ main.at \notin Busy /\ main'.at \notin Busy
  PROVE  OwnInv'
<1>n. PICK conns : conns = [conn EXCEPT ![c] = [NoConn(place) EXCEPT !.owners = owners]]
  OBVIOUS
<1>k. PICK fd : fd = conn[c].fd
  OBVIOUS
<1>p. /\ conns \in Connections
      /\ \A d \in Conns : conns[d].at = "backlog" => conns[d].fd = InvalidHandle
      /\ conns[c].fd = InvalidHandle
      /\ \A d \in Conns \ {c} : conns[d] = conn[d]
  BY <1>n DEF OwnInv, Types, Known, Connections, ConnRecord, Places, Handles, NoConn
<1>r. /\ conn' \in Connections
      /\ \A d \in Conns : conn'[d].fd = conns[d].fd
      /\ \A d \in Conns : \/ conn'[d].at = conns[d].at
                          \/ conn'[d].at = "gone" /\ conns[d].at = "backlog"
  <2>1. conn' = Reset(conns, table', main'.at)
    BY <1>n DEF CloseConnection
  <2> QED
    BY <2>1, <1>p, ResetKeeps
<1>t. /\ table' \in [Fds -> Files]
      /\ \A f \in Fds : table'[f] = IF f = fd THEN NoFile ELSE table[f]
  BY <1>k DEF CloseConnection, Without, OwnInv, Types, Files
<1>1. Types'
  BY <1>t, <1>r DEF OwnInv, Types, Handles, Busy
<1>2. Known'
  <2>1. \A d \in Conns : conn'[d].at \in {"absent", "backlog", "gone"} =>
                         conn'[d].fd = InvalidHandle
    <3> SUFFICES ASSUME NEW d \in Conns, conn'[d].at \in {"absent", "backlog", "gone"}
                 PROVE  conn'[d].fd = InvalidHandle
      OBVIOUS
    <3>1. CASE d = c
      BY <3>1, <1>p, <1>r
    <3>2. CASE d # c
      <4>1. conns[d].at \in {"absent", "backlog", "gone"} /\ conns[d] = conn[d]
        BY <3>2, <1>p, <1>r
      <4> QED
        BY <4>1, <1>r DEF OwnInv, Known
    <3> QED
      BY <3>1, <3>2
  <2>2. ASSUME NEW f \in Fds, NEW d \in Conns, table'[f] = Client(d) PROVE conn'[d].fd = f
    <3>1. f # fd /\ table[f] = Client(d)
      BY <2>2, <1>t, FilesDiffer
    <3>2. conn[d].fd = f
      BY <3>1 DEF OwnInv, Known
    <3>3. d # c
      BY <3>1, <3>2, <1>k
    <3> QED
      BY <3>2, <3>3, <1>r, <1>p
  <2> QED
    BY <2>1, <2>2 DEF Known
<1>3. ASSUME ~overlap' PROVE Exclusive'
  <2>1. Exclusive
    BY <1>3 DEF OwnInv
  <2>2. fd # InvalidHandle => table[fd] = Client(c)
    BY <2>1, <1>k DEF Exclusive, Own
  <2>3. \A f \in Fds : table[f] \in Listeners => table'[f] = table[f]
    BY <2>2, <1>t, FilesDiffer, SocketsAssumption
  <2>4. Own'
    <3> SUFFICES ASSUME NEW d \in Conns, conn'[d].fd # InvalidHandle
                 PROVE  table'[conn'[d].fd] = Client(d)
      BY DEF Own
    <3>1. d # c
      BY <1>r, <1>p
    <3>2. conn'[d].fd = conn[d].fd
      BY <3>1, <1>r, <1>p
    <3>3. conn[d].fd \in Fds
      BY <3>2, ValidHandle DEF OwnInv, Types, Connections, ConnRecord
    <3>4. table[conn[d].fd] = Client(d)
      BY <3>2, <2>1 DEF Exclusive, Own
    <3>5. conn[d].fd # fd
      BY <3>1, <3>3, <3>4, <2>2, FilesDiffer, SocketsAssumption
    <3> QED
      BY <3>2, <3>3, <3>4, <3>5, <1>t
  <2>5. \A t \in Threads : InForget(t)' <=> InForget(t)
    BY DEF InForget
  <2>6. (\A t \in Threads : ~InForget(t)') /\ handle_ \in Fds => table'[handle_] \in Listeners
    BY <2>1, <2>3, <2>5 DEF Exclusive
  <2>7. main'.at = "assign" => main.at = "assign" /\ main'.fd = main.fd
                               /\ table'[main.fd] \in Listeners
    BY <2>1, <2>3 DEF Exclusive, OwnInv, Types, Busy
  <2> QED
    BY <2>1, <2>4, <2>5, <2>6, <2>7 DEF Exclusive, InClose
<1>4. ASSUME ~straddled' PROVE Held'
  <2>1. Held
    BY <1>4 DEF OwnInv
  <2>2. \A f \in Fds : table'[f] \in Listeners => table'[f] = table[f] /\ table[f] \in Listeners
    BY <1>t, FilesDiffer
  <2>3. \/ UNCHANGED main
        \/ main.at # "assign" /\ main'.at # "assign"
    BY DEF Busy
  <2>4. \A t \in Threads : InForget(t)' => (\/ handle_ = InvalidHandle
                                             \/ table'[handle_] \notin Listeners
                                             \/ (main'.at = "assign" /\ main'.fd = handle_))
    BY <2>1, <2>2, <2>3 DEF Held, InForget, OwnInv, Types, Handles
  <2>5. \A f \in Fds : table'[f] \in Listeners =>
                         handle_ = f \/ (main'.at = "assign" /\ main'.fd = f)
    BY <2>1, <2>2, <2>3 DEF Held
  <2>6. main'.at = "assign" /\ table'[main'.fd] \in Listeners => table'[main'.fd] = Listener(runs)
    BY <2>1, <2>2, <2>3 DEF Held, OwnInv, Types
  <2> QED
    BY <2>1, <2>3, <2>4, <2>5, <2>6 DEF Held
<1> QED
  BY <1>1, <1>2, <1>3, <1>4 DEF OwnInv

\* A reference goes, and the Connection with the last.
LEMMA DropStep ==
  ASSUME OwnInv, NEW c \in Conns, NEW owner, Drop(c, owner),
         conn[c].at \notin {"absent", "backlog", "gone"},
         UNCHANGED <<handle_, runs, closing, overlap, straddled>>,
         \/ UNCHANGED main
         \/ /\ main' = [at |-> main'.at, fd |-> main'.fd]
            /\ main'.fd \in Handles /\ main.at \notin Busy /\ main'.at \notin Busy
  PROVE  OwnInv'
<1>1. CASE conn[c].owners = {owner}
  <2>1. CloseConnection(c, "gone", {})
    BY <1>1 DEF Drop
  <2> QED
    BY <2>1, CloseConnectionStep
<1>2. CASE conn[c].owners # {owner}
  <2>1. /\ table' = table
        /\ conn' = [conn EXCEPT ![c].owners = @ \ {owner}]
    BY <1>2 DEF Drop
  <2>2. /\ conn' \in Connections
        /\ \A d \in Conns : conn'[d].fd = conn[d].fd
        /\ \A d \in Conns : conn'[d].at = conn[d].at
    BY <2>1 DEF OwnInv, Types, Connections, ConnRecord
  <2>3. \A d \in Conns : conn'[d].at \in {"absent", "backlog", "gone"} => conn[d].fd = InvalidHandle
    BY <2>2 DEF OwnInv, Known
  <2> QED
    BY <2>1, <2>2, <2>3, CalmStep DEF OwnInv, Types
<1> QED
  BY <1>1, <1>2

\* A connection that moves on keeps its descriptor, and the others stay as they are.
LEMMA ConnMoves ==
  ASSUME conn \in Connections, NEW c \in Conns, NEW new \in ConnRecord, new.fd = conn[c].fd,
         conn' = [conn EXCEPT ![c] = new]
  PROVE  /\ conn' \in Connections /\ conn'[c] = new
         /\ \A d \in Conns : conn'[d].fd = conn[d].fd
         /\ \A d \in Conns \ {c} : conn'[d] = conn[d]
<1>1. conn' \in [Conns -> ConnRecord] /\ conn'[c] = new /\ \A d \in Conns \ {c} : conn'[d] = conn[d]
  BY DEF Connections
<1> QED
  BY <1>1 DEF Connections

\* Every step keeps the invariant: one step of the proof for each action.
LEMMA OwnStep == OwnInv /\ [Next]_vars => OwnInv'
<1> SUFFICES ASSUME OwnInv, [Next]_vars PROVE OwnInv'
  OBVIOUS
<1>m. Main \in Threads /\ Stoppers \subseteq Threads /\ Main \notin Stoppers
  BY SocketsAssumption DEF Threads
<1>i. InvalidHandle \in Handles
  BY DEF Handles
<1>k. /\ conn \in Connections
      /\ \A d \in Conns : conn[d].at \in {"absent", "backlog", "gone"} => conn[d].fd = InvalidHandle
  BY DEF OwnInv, Types, Known
<1>1. CASE UNCHANGED vars
  BY <1>1, <1>k, CalmStep DEF vars, listener, history
<1>2. CASE BeginRun \/ Bind \/ Listen \/ MarkRunning \/ OpenThrows \/ Loop \/ CheckListener \/ CallAccept
  <2>1. UNCHANGED <<table, handle_, closing, conn, overlap, straddled>>
    BY <1>2 DEF BeginRun, Bind, Listen, MarkRunning, OpenThrows, Loop, CheckListener, CallAccept,
       listener, history
  <2>2. /\ runs' \in Nat /\ main' = [at |-> main'.at, fd |-> main'.fd]
        /\ main'.fd \in Handles /\ main.at \notin Busy /\ main'.at \notin Busy
    BY <1>2, <1>i DEF BeginRun, Bind, Listen, MarkRunning, OpenThrows, Loop, CheckListener, CallAccept,
       MainGoes, Busy, OwnInv, Types
  <2> QED
    BY <2>1, <2>2, <1>k, CalmStep
<1>3. CASE AcceptFails
  <2>1. /\ conn' = Reset(conn, table, "loop")
        /\ UNCHANGED <<table, handle_, runs, closing, overlap, straddled>>
        /\ main.at = "blocked" /\ main' = [at |-> "loop", fd |-> InvalidHandle]
    BY <1>3 DEF AcceptFails, MainGoes, listener, history
  <2>2. /\ conn' \in Connections
        /\ \A d \in Conns : conn'[d].fd = conn[d].fd
        /\ \A d \in Conns : \/ conn'[d].at = conn[d].at
                            \/ conn'[d].at = "gone" /\ conn[d].at = "backlog"
    BY <2>1, <1>k, ResetKeeps
  <2>3. runs' \in Nat
    BY <2>1 DEF OwnInv, Types
  <2> QED
    BY <2>1, <2>2, <2>3, <1>k, <1>i, CalmStep DEF Busy
<1>4. CASE CreateSocket
  BY <1>4, CreateStep
<1>5. CASE AssignHandle
  BY <1>5, AssignStep
<1>6. CASE LeaveLoop \/ Destroy
  <2>1. \E a \in {"shutdown", "destroying"} :
          /\ main' = [at |-> a, fd |-> InvalidHandle]
          /\ main.at \in {"loop", "outside"}
          /\ closing' = [closing EXCEPT ![Main].at = "flag"]
          /\ UNCHANGED <<table, handle_, runs, conn, overlap, straddled>>
    BY <1>6 DEF LeaveLoop, Destroy, MainGoes, listener, history
  <2>2. closing[Main].at \notin {"call", "forget"}
    BY <2>1 DEF OwnInv, Types, Busy
  <2>3. /\ main' = [at |-> main'.at, fd |-> main'.fd]
        /\ main'.fd \in Handles /\ main.at # "assign" /\ main'.at # "assign"
        /\ main'.at \in Busy
    BY <2>1, <1>i DEF Busy
  <2>4. /\ closing' = [closing EXCEPT ![Main].at = "flag"]
        /\ UNCHANGED <<table, handle_, runs, conn, overlap, straddled>>
    BY <2>1
  <2> QED
    BY <2>2, <2>3, <2>4, <1>m, WayStep
<1>7. CASE ShutdownReturns
  <2>1. /\ main' = [at |-> main'.at, fd |-> InvalidHandle]
        /\ main.at # "assign" /\ main'.at # "assign"
        /\ closing[Main].at = "done"
        /\ closing' = [closing EXCEPT ![Main].at = "out"]
        /\ UNCHANGED <<table, handle_, runs, conn, overlap, straddled>>
    BY <1>7 DEF ShutdownReturns, MainGoes, listener, history
  <2>2. closing[Main].at \notin {"call", "forget"}
    BY <2>1
  <2>3. /\ main' = [at |-> main'.at, fd |-> main'.fd]
        /\ main'.fd \in Handles /\ main.at # "assign" /\ main'.at # "assign"
    BY <2>1, <1>i
  <2>4. /\ closing' = [closing EXCEPT ![Main].at = "out"]
        /\ UNCHANGED <<table, handle_, runs, conn, overlap, straddled>>
    BY <2>1
  <2> QED
    BY <2>2, <2>3, <2>4, <1>m, WayStep
<1>8. CASE \E t \in Threads : CloseStep(t)
  <2> PICK t \in Threads : CloseStep(t)
    BY <1>8
  <2>1. CASE TestValid(t)
    BY <2>1, TestStep
  <2>2. CASE CloseHandle(t)
    BY <2>2, CallStep
  <2>3. CASE ForgetHandle(t)
    BY <2>3, ForgetStep
  <2>4. CASE RaiseFlag(t) \/ MarkStopped(t)
    <3>1. \E place \in {"mark", "test"} :
            /\ closing[t].at \in {"flag", "mark"}
            /\ closing' = [closing EXCEPT ![t].at = place]
            /\ UNCHANGED <<table, handle_, runs, main, conn, overlap, straddled>>
      BY <2>4 DEF RaiseFlag, MarkStopped, history
    <3>2. t = Main => main.at \in Busy
      BY <3>1 DEF OwnInv, Types
    <3> QED
      BY <3>1, <3>2, WayStep
  <2> QED
    BY <2>1, <2>2, <2>3, <2>4 DEF CloseStep
<1>9. CASE \E s \in Stoppers : Stop(s) \/ StopReturns(s)
  <2> PICK s \in Stoppers : Stop(s) \/ StopReturns(s)
    BY <1>9
  <2>1. \E place \in {"flag", "out"} :
          /\ closing[s].at \in {"out", "done"}
          /\ closing' = [closing EXCEPT ![s].at = place]
          /\ UNCHANGED <<table, handle_, runs, main, conn, overlap, straddled>>
    BY DEF Stop, StopReturns, listener, history
  <2>2. s \in Threads /\ s # Main
    BY <1>m
  <2> QED
    BY <2>1, <2>2, WayStep
<1>10. CASE \E c \in Conns : AcceptReturns(c) \/ HandleStep(c) \/ ServeStep(c) \/ Connect(c)
  <2> PICK c \in Conns : AcceptReturns(c) \/ HandleStep(c) \/ ServeStep(c) \/ Connect(c)
    BY <1>10
  <2>1. CASE AcceptReturns(c)
    BY <2>1, AcceptStep
  <2>2. CASE NewTls(c) \/ Submit(c) \/ RunThrows(c) \/ Connect(c)
    <3>1. UNCHANGED <<table, handle_, closing, overlap, straddled, main, runs>>
      BY <2>2 DEF NewTls, Submit, RunThrows, Connect, listener, history
    <3>2. /\ conn' \in Connections
          /\ \A d \in Conns : conn'[d].fd = conn[d].fd
          /\ \A d \in Conns : conn'[d].at \in {"absent", "backlog", "gone"} =>
                                conn[d].at \in {"absent", "backlog", "gone"}
      <4>o. PICK old \in ConnRecord : old = conn[c]
        BY <1>k DEF Connections
      <4>1. CASE NewTls(c)
        <5>1. PICK new : new = [old EXCEPT !.at = "tls", !.ssl = TRUE]
          OBVIOUS
        <5>2. new \in ConnRecord /\ new.fd = old.fd /\ new.at = "tls"
          BY <5>1 DEF ConnRecord, Places
        <5>3. conn' = [conn EXCEPT ![c] = new] /\ (new.at = "backlog" => old.at = "absent")
          BY <4>1, <4>o, <5>1, <5>2 DEF NewTls
        <5>4. /\ conn' \in Connections /\ conn'[c] = new
              /\ \A d \in Conns : conn'[d].fd = conn[d].fd
              /\ \A d \in Conns \ {c} : conn'[d] = conn[d]
          BY <1>k, <4>o, <5>2, <5>3, ConnMoves
        <5> QED
          BY <4>o, <5>2, <5>3, <5>4
      <4>2. CASE Submit(c)
        <5>1. PICK new : new = [old EXCEPT !.at = "serving", !.owners = {Main, c}]
          OBVIOUS
        <5>2. new \in ConnRecord /\ new.fd = old.fd /\ new.at = "serving"
          BY <5>1 DEF ConnRecord, Places
        <5>3. conn' = [conn EXCEPT ![c] = new] /\ (new.at = "backlog" => old.at = "absent")
          BY <4>2, <4>o, <5>1, <5>2 DEF Submit
        <5>4. /\ conn' \in Connections /\ conn'[c] = new
              /\ \A d \in Conns : conn'[d].fd = conn[d].fd
              /\ \A d \in Conns \ {c} : conn'[d] = conn[d]
          BY <1>k, <4>o, <5>2, <5>3, ConnMoves
        <5> QED
          BY <4>o, <5>2, <5>3, <5>4
      <4>3. CASE RunThrows(c)
        <5>1. PICK new : new = [old EXCEPT !.at = "threw"]
          OBVIOUS
        <5>2. new \in ConnRecord /\ new.fd = old.fd /\ new.at = "threw"
          BY <5>1 DEF ConnRecord, Places
        <5>3. conn' = [conn EXCEPT ![c] = new] /\ (new.at = "backlog" => old.at = "absent")
          BY <4>3, <4>o, <5>1, <5>2 DEF RunThrows
        <5>4. /\ conn' \in Connections /\ conn'[c] = new
              /\ \A d \in Conns : conn'[d].fd = conn[d].fd
              /\ \A d \in Conns \ {c} : conn'[d] = conn[d]
          BY <1>k, <4>o, <5>2, <5>3, ConnMoves
        <5> QED
          BY <4>o, <5>2, <5>3, <5>4
      <4>4. CASE Connect(c)
        <5>1. PICK new : new = [old EXCEPT !.at = "backlog"]
          OBVIOUS
        <5>2. new \in ConnRecord /\ new.fd = old.fd /\ new.at = "backlog"
          BY <5>1 DEF ConnRecord, Places
        <5>3. conn' = [conn EXCEPT ![c] = new] /\ (new.at = "backlog" => old.at = "absent")
          BY <4>4, <4>o, <5>1, <5>2 DEF Connect
        <5>4. /\ conn' \in Connections /\ conn'[c] = new
              /\ \A d \in Conns : conn'[d].fd = conn[d].fd
              /\ \A d \in Conns \ {c} : conn'[d] = conn[d]
          BY <1>k, <4>o, <5>2, <5>3, ConnMoves
        <5> QED
          BY <4>o, <5>2, <5>3, <5>4
      <4> QED
        BY <2>2, <4>1, <4>2, <4>3, <4>4
    <3> QED
      BY <3>1, <3>2, <1>k, CalmStep
  <2>3. CASE HandshakeFails(c) \/ MainReturns(c)
    <3>1. /\ Drop(c, Main)
          /\ conn[c].at \notin {"absent", "backlog", "gone"}
          /\ UNCHANGED <<handle_, runs, closing, overlap, straddled>>
          /\ main.at = "handling" /\ main' = [at |-> "loop", fd |-> InvalidHandle]
      BY <2>3 DEF HandshakeFails, MainReturns, MainGoes, listener, history
    <3> QED
      BY <3>1, <1>i, DropStep DEF Busy
  <2>4. CASE RunEnds(c)
    <3>1. /\ CloseConnection(c, "ended", conn[c].owners)
          /\ UNCHANGED <<main, handle_, runs, closing, overlap, straddled>>
      BY <2>4 DEF RunEnds, listener, history
    <3>2. conn[c].owners \in SUBSET (Conns \cup {Main})
      BY <1>k DEF Connections, ConnRecord
    <3> QED
      BY <3>1, <3>2, CloseConnectionStep
  <2>5. CASE TaskGoes(c)
    <3>1. /\ Drop(c, c)
          /\ conn[c].at \notin {"absent", "backlog", "gone"}
          /\ UNCHANGED <<main, handle_, runs, closing, overlap, straddled>>
      BY <2>5 DEF TaskGoes, listener, history
    <3> QED
      BY <3>1, DropStep
  <2> QED
    BY <2>1, <2>2, <2>3, <2>4, <2>5 DEF HandleStep, ServeStep
<1> QED
  BY <1>1, <1>2, <1>3, <1>4, <1>5, <1>6, <1>7, <1>8, <1>9, <1>10 DEF Next, OpenStep, LoopStep, Dead

\* The invariant holds in every state the sockets reach.
THEOREM SocketsInvariant == SafeSpec => []OwnInv
  BY OwnInit, OwnStep, PTL DEF SafeSpec

(***************************************************************************)
(* While no two threads close the listener at once, a Connection's handle  *)
(* is that connection's own file until the Connection closes it, for any   *)
(* number of descriptors, clients and runs (Socket::close(), Connection::  *)
(* close(), and the destructors that call them).                           *)
(***************************************************************************)
THEOREM DescriptorsAreOwn == SafeSpec => []OwnDescriptor
<1>1. OwnInv => OwnDescriptor
  BY DEF OwnInv, Exclusive, Own, OwnDescriptor
<1> QED
  BY <1>1, SocketsInvariant, PTL

(***************************************************************************)
(* While no stop() is inside Socket::close() when open() assigns the       *)
(* handle, every open descriptor has an owner that will close it.          *)
(***************************************************************************)
THEOREM NoDescriptorLeaks == SafeSpec => []NothingLeaks
<1>1. OwnInv => NothingLeaks
  <2> SUFFICES ASSUME OwnInv, ~straddled, NEW f \in Fds,
                      table[f] # NoFile,
                      ~(table[f] = Listener(runs) /\ main.at = "assign" /\ main.fd = f),
                      handle_ # f
               PROVE  \E c \in Conns : table[f] = Client(c) /\ conn[c].fd = f
    BY DEF NothingLeaks
  <2>1. table[f] \notin Listeners
    BY DEF OwnInv, Held
  <2>2. PICK c \in Conns : table[f] = Client(c)
    BY <2>1 DEF OwnInv, Types, Files, Clients
  <2> QED
    BY <2>2 DEF OwnInv, Known
<1> QED
  BY <1>1, SocketsInvariant, PTL

-----------------------------------------------------------------------------
(* Who owns a Connection.                                                  *)

\* Where run() is once it has been called.
RunPlaces == {"socket", "assign", "bind", "listen", "mark", "loop", "accept", "calling",
              "blocked", "handling", "shutdown"}

\* The kernel's files are those of runs that there were.
FilesInv ==
  /\ main.at \in RunPlaces => runs >= 1
  /\ \A f \in Fds : table[f] \in Listeners => \E n \in 1..runs : table[f] = Listener(n)
  /\ listening \subseteq 1..runs
  /\ running_ \in BOOLEAN
  /\ stopping_ \in BOOLEAN

Unowned == {"absent", "backlog", "gone"}

(***************************************************************************)
(* The owners of a Connection go with its place: the accepting thread      *)
(* alone until the task has its reference, the task until Connection::     *)
(* run() has ended; and who is not owned is as the constructor or close()  *)
(* leaves it.                                                              *)
(***************************************************************************)
Consistent(c, r) ==
  /\ r.owners \subseteq {Main, c}
  /\ r.owners = {} <=> r.at \in Unowned
  /\ r.owners = {} => r = NoConn(r.at)
  /\ r.ssl => TlsEnabled /\ r.fd # InvalidHandle
  /\ r.at \in {"accepted", "tls"} => r.owners = {Main} /\ r.fd # InvalidHandle
  /\ r.at = "serving" => c \in r.owners

\* The accepting thread owns a Connection exactly while it handles one.
OwnersInv ==
  /\ \A c \in Conns : Consistent(c, conn[c])
  /\ \A c, d \in Conns : Main \in conn[c].owners /\ Main \in conn[d].owners => c = d
  /\ main.at = "handling" <=> \E c \in Conns : Main \in conn[c].owners

\* Nobody owns anything before run() is called.
LEMMA OwnersInit == Init => FilesInv /\ OwnersInv
<1> SUFFICES ASSUME Init PROVE FilesInv /\ OwnersInv
  OBVIOUS
<1>1. FilesInv
  <2>1. \A f \in Fds : table[f] \notin Listeners
    BY FilesDiffer DEF Init
  <2> QED
    BY <2>1 DEF Init, FilesInv, RunPlaces
<1>2. OwnersInv
  BY DEF Init, OwnersInv, Consistent, NoConn, Unowned
<1> QED
  BY <1>1, <1>2

\* Whatever opens or closes a file makes it a listener of this run, a client or none.
LEMMA FilesStep == OwnInv /\ FilesInv /\ [Next]_vars => FilesInv'
<1> SUFFICES ASSUME OwnInv, FilesInv, [Next]_vars PROVE FilesInv'
  OBVIOUS
<1> USE DEF FilesInv, RunPlaces, MainGoes, listener, history
<1>r. runs \in Nat /\ table \in [Fds -> Files] /\ main = [at |-> main.at, fd |-> main.fd]
  BY DEF OwnInv, Types
<1>m. Main \in Threads
  BY DEF Threads
<1>k. ASSUME \A f \in Fds : table'[f] = table[f] \/ table'[f] \notin Listeners,
             UNCHANGED <<runs, listening>>, main'.at \in RunPlaces => main.at \in RunPlaces,
             running_' \in BOOLEAN, stopping_' \in BOOLEAN
      PROVE  FilesInv'
  BY <1>k, <1>r
<1>1. CASE UNCHANGED vars
  BY <1>1, <1>k DEF vars
<1>2. CASE BeginRun
  BY <1>2, <1>r DEF BeginRun
<1>3. CASE OpenStep
  <2>1. CASE CreateSocket
    <3> PICK fd \in Free : /\ main.at = "socket" /\ main' = [at |-> "assign", fd |-> fd]
                           /\ table' = [table EXCEPT ![fd] = Listener(runs)]
                           /\ UNCHANGED <<listening, listener, runs>>
      BY <2>1 DEF CreateSocket
    <3>1. runs \in 1..runs
      BY <1>r
    <3> QED
      BY <3>1, <1>r DEF Free
  <2>2. CASE Listen
    <3>1. listening' = listening \cup {runs} /\ runs \in 1..runs
      BY <2>2, <1>r DEF Listen
    <3> QED
      BY <2>2, <3>1, <1>r DEF Listen
  <2>3. CASE AssignHandle \/ Bind \/ MarkRunning \/ OpenThrows
    BY <2>3, <1>k DEF AssignHandle, Bind, MarkRunning, OpenThrows
  <2> QED
    BY <1>3, <2>1, <2>2, <2>3 DEF OpenStep
<1>4. CASE LoopStep \/ AcceptFails \/ ShutdownReturns \/ Destroy
  <2>1. UNCHANGED <<table, listening, runs, running_, stopping_>>
    BY <1>4 DEF LoopStep, Loop, LeaveLoop, CheckListener, CallAccept, AcceptFails, ShutdownReturns,
       Destroy
  <2>2. main'.at \in RunPlaces => main.at \in RunPlaces
    BY <1>4, <1>r DEF LoopStep, Loop, LeaveLoop, CheckListener, CallAccept, AcceptFails,
       ShutdownReturns, Destroy
  <2> QED
    BY <2>1, <2>2, <1>k
<1>5. CASE \E t \in Threads : CloseStep(t)
  <2> PICK t \in Threads : CloseStep(t)
    BY <1>5
  <2>1. CASE CloseHandle(t)
    <3>1. \A f \in Fds : table'[f] = table[f] \/ table'[f] = NoFile
      BY <2>1 DEF CloseHandle, Without
    <3> QED
      BY <2>1, <3>1, <1>k, FilesDiffer DEF CloseHandle
  <2>2. CASE TestValid(t) \/ ForgetHandle(t) \/ RaiseFlag(t) \/ MarkStopped(t)
    BY <2>2, <1>k DEF TestValid, ForgetHandle, RaiseFlag, MarkStopped
  <2> QED
    BY <2>1, <2>2 DEF CloseStep
<1>6. CASE \E s \in Stoppers : Stop(s) \/ StopReturns(s)
  BY <1>6, <1>k DEF Stop, StopReturns
<1>7. CASE \E c \in Conns : AcceptReturns(c) \/ HandleStep(c) \/ ServeStep(c) \/ Connect(c)
  <2> PICK c \in Conns : AcceptReturns(c) \/ HandleStep(c) \/ ServeStep(c) \/ Connect(c)
    BY <1>7
  <2>1. \A f \in Fds : table'[f] = table[f] \/ table'[f] \in {NoFile, Client(c)}
    <3>1. CASE AcceptReturns(c)
      BY <3>1, <1>r DEF AcceptReturns, Free
    <3>2. CASE ~AcceptReturns(c)
      BY <3>2 DEF HandleStep, NewTls, HandshakeFails, Submit, MainReturns, ServeStep, RunEnds,
         RunThrows, TaskGoes, Connect, Drop, CloseConnection, Without
    <3> QED
      BY <3>1, <3>2
  <2>2. UNCHANGED <<listening, running_, stopping_, runs>>
    BY DEF AcceptReturns, HandleStep, NewTls, HandshakeFails, Submit, MainReturns, ServeStep,
       RunEnds, RunThrows, TaskGoes, Connect
  <2>3. main'.at \in RunPlaces => main.at \in RunPlaces
    BY <1>r DEF AcceptReturns, HandleStep, NewTls, HandshakeFails, Submit, MainReturns, ServeStep,
       RunEnds, RunThrows, TaskGoes, Connect
  <2> QED
    BY <2>1, <2>2, <2>3, <1>k, FilesDiffer
<1> QED
  BY <1>1, <1>2, <1>3, <1>4, <1>5, <1>6, <1>7 DEF Next, Dead

\* A reset leaves owners alone, and what it takes from the backlog is as it should be.
LEMMA ResetOwners ==
  ASSUME NEW conns \in Connections, \A c \in Conns : Consistent(c, conns[c]), NEW files, NEW place
  PROVE  \A c \in Conns : /\ Consistent(c, Reset(conns, files, place)[c])
                          /\ Reset(conns, files, place)[c].owners = conns[c].owners
BY DEF Reset, NoConn, Consistent, Unowned, Connections, ConnRecord

\* A step of one Connection: it stays consistent, and the accepting thread comes to own it,
\* or gives it up, with the place it goes to.
LEMMA OwnerStep ==
  ASSUME OwnersInv, NEW c \in Conns, NEW conns \in Connections,
         \A d \in Conns : d # c => conns[d] = conn[d],
         Consistent(c, conns[c]),
         conn' = conns \/ \E files, place : conn' = Reset(conns, files, place),
         \/ /\ Main \in conns[c].owners <=> Main \in conn[c].owners
            /\ main'.at = "handling" <=> main.at = "handling"
         \/ main.at # "handling" /\ main'.at = "handling" /\ Main \in conns[c].owners
         \/ Main \in conn[c].owners /\ main'.at # "handling" /\ Main \notin conns[c].owners
  PROVE  OwnersInv'
<1>1. \A d \in Conns : Consistent(d, conns[d])
  BY DEF OwnersInv
<1>2. \A d \in Conns : Consistent(d, conn'[d]) /\ conn'[d].owners = conns[d].owners
  BY <1>1, ResetOwners
<1>3. \A d \in Conns : d # c => (Main \in conn'[d].owners <=> Main \in conn[d].owners)
  BY <1>2
<1>4. Main \in conn'[c].owners <=> Main \in conns[c].owners
  BY <1>2
<1>5. \A d, e \in Conns : Main \in conn'[d].owners /\ Main \in conn'[e].owners => d = e
  BY <1>3, <1>4 DEF OwnersInv
<1>6. main'.at = "handling" <=> \E d \in Conns : Main \in conn'[d].owners
  BY <1>3, <1>4 DEF OwnersInv
<1>7. \A d \in Conns : Consistent(d, conn[d])'
  BY <1>2 DEF Consistent, NoConn, Unowned
<1> QED
  BY <1>5, <1>6, <1>7 DEF OwnersInv

\* A shared_ptr goes, and the Connection with the last one.
LEMMA DropOwner ==
  ASSUME OwnersInv, conn \in Connections, NEW c \in Conns, NEW owner \in conn[c].owners,
         conn[c].at \notin Unowned, owner = c => conn[c].at \in {"ended", "threw"},
         Drop(c, owner),
         \/ owner = c /\ main' = main
         \/ owner = Main /\ main'.at # "handling"
  PROVE  OwnersInv'
<1>m. Main # c
  BY SocketsAssumption
<1>t. /\ conn[c] \in [at : Places, fd : Handles, ssl : BOOLEAN, owners : SUBSET (Conns \cup {Main})]
      /\ Consistent(c, conn[c])
  BY DEF Connections, ConnRecord, OwnersInv
<1>1. CASE conn[c].owners = {owner}
  <2> DEFINE conns == [conn EXCEPT ![c] = [NoConn("gone") EXCEPT !.owners = {}]]
  <2>1. conn' = Reset(conns, table', main'.at)
    BY <1>1 DEF Drop, CloseConnection
  <2>2. conns[c] = NoConn("gone") /\ conns[c].owners = {}
    BY DEF NoConn, Connections, ConnRecord
  <2>3. conns \in Connections /\ \A d \in Conns : d # c => conns[d] = conn[d]
    BY DEF NoConn, Places, Handles, Connections, ConnRecord
  <2> HIDE DEF conns
  <2>4. Consistent(c, conns[c])
    BY <2>2 DEF NoConn, Consistent, Unowned
  <2>5. \/ /\ Main \in conns[c].owners <=> Main \in conn[c].owners
           /\ main'.at = "handling" <=> main.at = "handling"
        \/ Main \in conn[c].owners /\ main'.at # "handling" /\ Main \notin conns[c].owners
    BY <1>1, <2>2, <1>m
  <2> QED
    BY <2>1, <2>3, <2>4, <2>5, OwnerStep
<1>2. CASE conn[c].owners # {owner}
  <2> DEFINE r == [conn[c] EXCEPT !.owners = @ \ {owner}]
             conns == [conn EXCEPT ![c] = r]
  <2>1. /\ r \in [at : Places, fd : Handles, ssl : BOOLEAN, owners : SUBSET (Conns \cup {Main})]
        /\ r.owners = conn[c].owners \ {owner} /\ r.at = conn[c].at /\ r.fd = conn[c].fd
        /\ r.ssl = conn[c].ssl
    BY <1>t
  <2>2. conn' = conns
    BY <1>2, <1>t DEF Drop, Connections, ConnRecord
  <2>3. r.owners # {} /\ r.owners \subseteq {Main, c} /\ (r.at = "serving" => c \in r.owners)
    BY <1>2, <1>t, <1>m, <2>1 DEF Consistent
  <2>4. r.at \notin {"accepted", "tls"}
    BY <1>2, <1>t, <1>m, <2>1 DEF Consistent
  <2> HIDE DEF r
  <2>5. Consistent(c, r)
    BY <1>t, <2>1, <2>3, <2>4 DEF Consistent
  <2>6. conns \in Connections /\ conns[c] = r /\ \A d \in Conns : d # c => conns[d] = conn[d]
    BY <2>1 DEF Connections, ConnRecord
  <2>7. \/ /\ Main \in r.owners <=> Main \in conn[c].owners
           /\ main'.at = "handling" <=> main.at = "handling"
        \/ Main \in conn[c].owners /\ main'.at # "handling" /\ Main \notin r.owners
    BY <2>1, <1>m
  <2> HIDE DEF conns
  <2> QED
    BY <2>2, <2>5, <2>6, <2>7, OwnerStep
<1> QED
  BY <1>1, <1>2

\* Every step keeps owners and places together: one step of the proof for each action.
LEMMA OwnersStep == OwnInv /\ OwnersInv /\ [Next]_vars => OwnersInv'
<1> SUFFICES ASSUME OwnInv, OwnersInv, [Next]_vars PROVE OwnersInv'
  OBVIOUS
<1> USE DEF MainGoes, listener, history
<1>t. /\ conn \in Connections /\ main = [at |-> main.at, fd |-> main.fd]
  BY DEF OwnInv, Types
<1>m. \A c \in Conns : Main # c
  BY SocketsAssumption
<1>k. ASSUME conn' = conn, main'.at = "handling" <=> main.at = "handling" PROVE OwnersInv'
  BY <1>k DEF OwnersInv
<1>1. CASE UNCHANGED vars
  BY <1>1, <1>k DEF vars
<1>2. CASE BeginRun \/ OpenStep \/ LoopStep \/ ShutdownReturns \/ Destroy
  <2>1. conn' = conn
    BY <1>2 DEF BeginRun, OpenStep, CreateSocket, AssignHandle, Bind, Listen, MarkRunning,
       OpenThrows, LoopStep, Loop, LeaveLoop, CheckListener, CallAccept, ShutdownReturns, Destroy
  <2>2. main'.at # "handling" /\ main.at # "handling"
    BY <1>2 DEF BeginRun, OpenStep, CreateSocket, AssignHandle, Bind, Listen, MarkRunning,
       OpenThrows, LoopStep, Loop, LeaveLoop, CheckListener, CallAccept, ShutdownReturns, Destroy
  <2> QED
    BY <2>1, <2>2, <1>k
<1>3. CASE AcceptFails
  <2>1. /\ conn' = Reset(conn, table, "loop") /\ main.at = "blocked" /\ main'.at = "loop"
    BY <1>3 DEF AcceptFails
  <2>2. \A c \in Conns : Consistent(c, conn'[c]) /\ conn'[c].owners = conn[c].owners
    BY <2>1, <1>t, ResetOwners DEF OwnersInv
  <2>3. \A c \in Conns : Consistent(c, conn[c])'
    BY <2>2 DEF Consistent, NoConn, Unowned
  <2> QED
    BY <2>1, <2>2, <2>3 DEF OwnersInv
<1>4. CASE \E t \in Threads : CloseStep(t)
  <2> PICK t \in Threads : CloseStep(t)
    BY <1>4
  <2>1. CASE CloseHandle(t)
    <3>1. main' = main /\ \E fd : conn' = Reset(conn, Without(fd), main.at)
      BY <2>1 DEF CloseHandle
    <3>2. \A c \in Conns : Consistent(c, conn'[c]) /\ conn'[c].owners = conn[c].owners
      BY <3>1, <1>t, ResetOwners DEF OwnersInv
    <3>3. \A c \in Conns : Consistent(c, conn[c])'
      BY <3>2 DEF Consistent, NoConn, Unowned
    <3> QED
      BY <3>1, <3>2, <3>3 DEF OwnersInv
  <2>2. CASE ~CloseHandle(t)
    BY <2>2, <1>k DEF CloseStep, TestValid, ForgetHandle, RaiseFlag, MarkStopped
  <2> QED
    BY <2>1, <2>2
<1>5. CASE \E s \in Stoppers : Stop(s) \/ StopReturns(s)
  BY <1>5, <1>k DEF Stop, StopReturns
<1>6. CASE \E c \in Conns : AcceptReturns(c) \/ HandleStep(c) \/ ServeStep(c) \/ Connect(c)
  <2> PICK c \in Conns : AcceptReturns(c) \/ HandleStep(c) \/ ServeStep(c) \/ Connect(c)
    BY <1>6
  <2>t. /\ conn[c] \in [at : Places, fd : Handles, ssl : BOOLEAN, owners : SUBSET (Conns \cup {Main})]
        /\ Consistent(c, conn[c])
    BY <1>t DEF Connections, ConnRecord, OwnersInv
  <2>r. ASSUME NEW r \in [at : Places, fd : Handles, ssl : BOOLEAN, owners : SUBSET (Conns \cup {Main})]
        PROVE  /\ [conn EXCEPT ![c] = r] \in Connections
               /\ [conn EXCEPT ![c] = r][c] = r
               /\ \A d \in Conns : d # c => [conn EXCEPT ![c] = r][d] = conn[d]
    BY <1>t DEF Connections, ConnRecord
  \* A step within the ownership of one Connection.
  <2>s. ASSUME NEW r \in [at : Places, fd : Handles, ssl : BOOLEAN, owners : SUBSET (Conns \cup {Main})],
               Consistent(c, r), main' = main,
               \/ conn' = [conn EXCEPT ![c] = r]
               \/ \E files, place : conn' = Reset([conn EXCEPT ![c] = r], files, place),
               Main \in r.owners <=> Main \in conn[c].owners
        PROVE  OwnersInv'
    <3> DEFINE conns == [conn EXCEPT ![c] = r]
    <3>1. conns \in Connections /\ conns[c] = r /\ \A d \in Conns : d # c => conns[d] = conn[d]
      BY <2>r
    <3> HIDE DEF conns
    <3>2. conn' = conns \/ \E files, place : conn' = Reset(conns, files, place)
      BY <2>s DEF conns
    <3> QED
      BY <2>s, <3>1, <3>2, OwnerStep
  <2>1. CASE AcceptReturns(c)
    <3> PICK fd \in Free :
               /\ main.at = "blocked" /\ main' = [at |-> "handling", fd |-> InvalidHandle]
               /\ conn' = Reset([conn EXCEPT ![c] = [at |-> "accepted", fd |-> fd, ssl |-> FALSE,
                                                     owners |-> {Main}]], table', "handling")
      BY <2>1 DEF AcceptReturns
    <3> DEFINE r == [at |-> "accepted", fd |-> fd, ssl |-> FALSE, owners |-> {Main}]
               conns == [conn EXCEPT ![c] = r]
    <3>1. r \in [at : Places, fd : Handles, ssl : BOOLEAN, owners : SUBSET (Conns \cup {Main})]
      BY DEF Free, Places, Handles
    <3>2. Consistent(c, r) /\ Main \in r.owners
      BY SocketsAssumption DEF Free, Consistent, Unowned
    <3>3. conns \in Connections /\ conns[c] = r /\ \A d \in Conns : d # c => conns[d] = conn[d]
      BY <3>1, <2>r
    <3>6. Consistent(c, conns[c]) /\ Main \in conns[c].owners
      BY <3>2, <3>3
    <3>4. \E files, place : conn' = Reset(conns, files, place)
      OBVIOUS
    <3>5. main.at # "handling" /\ main'.at = "handling"
      OBVIOUS
    <3> HIDE DEF conns, r
    <3> QED
      BY <3>3, <3>4, <3>5, <3>6, OwnerStep
  <2>2. CASE NewTls(c)
    <3> DEFINE r == [conn[c] EXCEPT !.at = "tls", !.ssl = TRUE]
    <3>1. /\ conn' = [conn EXCEPT ![c] = r] /\ main' = main /\ TlsEnabled
          /\ conn[c].at = "accepted"
      BY <2>2, <1>t DEF NewTls, Connections, ConnRecord
    <3>2. /\ r \in [at : Places, fd : Handles, ssl : BOOLEAN, owners : SUBSET (Conns \cup {Main})]
          /\ r.owners = conn[c].owners /\ r.at = "tls" /\ r.fd = conn[c].fd
      BY <2>t DEF Places
    <3> HIDE DEF r
    <3>3. Consistent(c, r)
      BY <2>t, <3>1, <3>2 DEF Consistent, Unowned
    <3> QED
      BY <3>1, <3>2, <3>3, <2>s
  <2>3. CASE Submit(c)
    <3> DEFINE r == [conn[c] EXCEPT !.at = "serving", !.owners = {Main, c}]
    <3>1. /\ conn' = [conn EXCEPT ![c] = r] /\ main' = main /\ conn[c].at \in {"accepted", "tls"}
      BY <2>3, <1>t DEF Submit, Connections, ConnRecord
    <3>2. /\ r \in [at : Places, fd : Handles, ssl : BOOLEAN, owners : SUBSET (Conns \cup {Main})]
          /\ r.owners = {Main, c} /\ r.at = "serving" /\ r.fd = conn[c].fd /\ r.ssl = conn[c].ssl
      BY <2>t DEF Places
    <3> HIDE DEF r
    <3>3. Consistent(c, r)
      BY <2>t, <3>1, <3>2 DEF Consistent, Unowned
    <3>4. Main \in conn[c].owners
      BY <2>t, <3>1 DEF Consistent
    <3> QED
      BY <3>1, <3>2, <3>3, <3>4, <2>s
  <2>4. CASE HandshakeFails(c)
    <3>1. /\ conn[c].at \in {"accepted", "tls"} /\ Drop(c, Main) /\ main'.at # "handling"
      BY <2>4 DEF HandshakeFails
    <3>2. Main \in conn[c].owners /\ conn[c].at \notin Unowned
      BY <2>t, <3>1 DEF Consistent, Unowned
    <3> QED
      BY <3>1, <3>2, <1>t, <1>m, DropOwner
  <2>5. CASE MainReturns(c)
    <3>1. /\ Main \in conn[c].owners /\ conn[c].at \notin Unowned /\ Drop(c, Main)
          /\ main'.at # "handling"
      BY <2>5 DEF MainReturns, Unowned
    <3> QED
      BY <3>1, <1>t, <1>m, DropOwner
  <2>6. CASE TaskGoes(c)
    <3>1. /\ c \in conn[c].owners /\ conn[c].at \in {"ended", "threw"} /\ Drop(c, c) /\ main' = main
      BY <2>6 DEF TaskGoes
    <3>2. conn[c].at \notin Unowned
      BY <3>1 DEF Unowned
    <3> QED
      BY <3>1, <3>2, <1>t, DropOwner
  <2>7. CASE RunThrows(c)
    <3> DEFINE r == [conn[c] EXCEPT !.at = "threw"]
    <3>1. /\ conn' = [conn EXCEPT ![c] = r] /\ main' = main /\ conn[c].at = "serving"
      BY <2>7, <1>t DEF RunThrows, Connections, ConnRecord
    <3>2. /\ r \in [at : Places, fd : Handles, ssl : BOOLEAN, owners : SUBSET (Conns \cup {Main})]
          /\ r.owners = conn[c].owners /\ r.at = "threw" /\ r.fd = conn[c].fd /\ r.ssl = conn[c].ssl
      BY <2>t DEF Places
    <3> HIDE DEF r
    <3>3. Consistent(c, r)
      BY <2>t, <3>1, <3>2 DEF Consistent, Unowned
    <3> QED
      BY <3>1, <3>2, <3>3, <2>s
  <2>8. CASE RunEnds(c)
    <3> DEFINE r == [NoConn("ended") EXCEPT !.owners = conn[c].owners]
    <3>1. /\ conn' = Reset([conn EXCEPT ![c] = r], table', main'.at) /\ main' = main
          /\ conn[c].at = "serving"
      BY <2>8 DEF RunEnds, CloseConnection
    <3>2. /\ r \in [at : Places, fd : Handles, ssl : BOOLEAN, owners : SUBSET (Conns \cup {Main})]
          /\ r.owners = conn[c].owners /\ r.at = "ended" /\ r.fd = InvalidHandle /\ r.ssl = FALSE
      BY <2>t DEF Places, NoConn, Handles
    <3> HIDE DEF r
    <3>3. Consistent(c, r)
      BY <2>t, <3>1, <3>2 DEF Consistent, Unowned
    <3> QED
      BY <3>1, <3>2, <3>3, <2>s
  <2>9. CASE Connect(c)
    <3> DEFINE r == [conn[c] EXCEPT !.at = "backlog"]
    <3>1. /\ conn' = [conn EXCEPT ![c] = r] /\ main' = main /\ conn[c].at = "absent"
      BY <2>9, <1>t DEF Connect, Connections, ConnRecord
    <3>2. conn[c] = NoConn("absent")
      BY <2>t, <3>1 DEF Consistent, Unowned
    <3>3. /\ r \in [at : Places, fd : Handles, ssl : BOOLEAN, owners : SUBSET (Conns \cup {Main})]
          /\ r.at = "backlog" /\ r.fd = conn[c].fd /\ r.ssl = conn[c].ssl /\ r.owners = conn[c].owners
      BY <2>t DEF Places
    <3> HIDE DEF r
    <3>4. r = [at |-> r.at, fd |-> r.fd, ssl |-> r.ssl, owners |-> r.owners]
      BY <3>3
    <3>5. r = NoConn("backlog")
      BY <3>2, <3>3, <3>4 DEF NoConn
    <3>6. Consistent(c, r) /\ (Main \in r.owners <=> Main \in conn[c].owners)
      BY <3>2, <3>5 DEF Consistent, Unowned, NoConn
    <3> QED
      BY <3>1, <3>3, <3>6, <2>s
  <2> QED
    BY <2>1, <2>2, <2>3, <2>4, <2>5, <2>6, <2>7, <2>8, <2>9 DEF HandleStep, ServeStep
<1> QED
  BY <1>1, <1>2, <1>3, <1>4, <1>5, <1>6 DEF Next, Dead

(***************************************************************************)
(* The types hold, a Connection that nobody owns has no descriptor and no  *)
(* SSL object, one that has an SSL object has the descriptor below it, and *)
(* the accepting thread owns a Connection exactly while it handles one     *)
(* (the shared_ptrs of handle_connection() and of its task).               *)
(***************************************************************************)
THEOREM SocketsTypeCorrect == SafeSpec => []TypeOK
<1>1. OwnInv /\ FilesInv /\ OwnersInv /\ [Next]_vars => (OwnInv /\ FilesInv /\ OwnersInv)'
  BY OwnStep, FilesStep, OwnersStep
<1>2. OwnInv /\ FilesInv /\ OwnersInv => TypeOK
  <2> SUFFICES ASSUME OwnInv, FilesInv, OwnersInv PROVE TypeOK
    OBVIOUS
  <2>1. ASSUME NEW f \in Fds
        PROVE  \/ table[f] = NoFile
               \/ \E n \in 1..runs : table[f] = Listener(n)
               \/ \E c \in Conns : table[f] = Client(c)
    BY DEF OwnInv, Types, Files, Clients, FilesInv
  <2>2. /\ listening \subseteq 1..runs
        /\ running_ \in BOOLEAN
        /\ stopping_ \in BOOLEAN
        /\ handle_ \in Fds \cup {InvalidHandle}
        /\ \A t \in Threads : closing[t].at \in {"out", "flag", "mark", "test", "call", "forget", "done"}
    BY DEF FilesInv, OwnInv, Types, Handles
  <2>3. ASSUME NEW c \in Conns
        PROVE  /\ conn[c].at \in Places
               /\ conn[c].owners \subseteq {Main, c}
               /\ conn[c].owners = {} <=> conn[c].at \in {"absent", "backlog", "gone"}
               /\ conn[c].owners = {} => conn[c] = NoConn(conn[c].at)
               /\ conn[c].ssl => TlsEnabled /\ conn[c].fd # InvalidHandle
    BY DEF OwnInv, Types, Connections, ConnRecord, OwnersInv, Consistent, Unowned
  <2>4. Cardinality({c \in Conns : Main \in conn[c].owners}) = IF main.at = "handling" THEN 1 ELSE 0
    <3> DEFINE owned == {c \in Conns : Main \in conn[c].owners}
    <3>1. CASE main.at = "handling"
      <4>1. PICK c \in Conns : Main \in conn[c].owners
        BY <3>1 DEF OwnersInv
      <4>2. owned = {c}
        BY <4>1 DEF OwnersInv
      <4> QED
        BY <3>1, <4>2, FS_Singleton
    <3>2. CASE main.at # "handling"
      <4>1. owned = {}
        BY <3>2 DEF OwnersInv
      <4> QED
        BY <3>2, <4>1, FS_EmptySet
    <3> QED
      BY <3>1, <3>2
  <2> QED
    BY <2>1, <2>2, <2>3, <2>4 DEF TypeOK
<1> QED
  BY <1>1, <1>2, OwnInit, OwnersInit, PTL DEF SafeSpec

=============================================================================
