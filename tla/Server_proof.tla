---------------------------- MODULE Server_proof ----------------------------
(***************************************************************************)
(* Proofs about Server for every finite set of connections, worker count,  *)
(* set of stopping threads and platform: what a stopped server still       *)
(* accepts, when submit() may throw in its accept loop, what               *)
(* active_connections() counts, what run() leaves behind, and what the     *)
(* destructor has made sure of when it is done.                            *)
(***************************************************************************)
EXTENDS Server, FiniteSetTheorems, TLAPS

\* The places where the accepting thread is past the loop's test.
Accepting == {"accept", "calling", "blocked"}
InHand    == {"accepted", "handshake", "submitting"}

(***************************************************************************)
(* stopping_ is never taken back, and whoever ends the loop or closes the  *)
(* pool has set it; so the loop's test keeps a thread that comes by later  *)
(* from accepting, and the pool is open wherever a connection is in hand.  *)
(***************************************************************************)
StopInv ==
  /\ main = [call |-> main.call, at |-> main.at]
  /\ main.at \in {"listener", "test", "close", "forget", "pool", "members", "join", "dead"} =>
       stopping_
  /\ late # {} => stopping_ /\ main.at \notin Accepting
  /\ \A c, d \in late : c = d
  /\ ~open => stopping_ /\ main.at \notin Accepting \cup {"handling", "caught"}
  /\ \A c \in Conns : conn[c] \in InHand => main.at = "handling"
  /\ \A c, d \in Conns : conn[c] \in InHand /\ conn[d] \in InHand => c = d
  /\ late \subseteq Conns
  /\ conn \in [Conns -> ConnState]

\* Before run() is called nobody is accepted and nobody has stopped anything.
LEMMA StopInit == Init => StopInv
BY DEF Init, Pool!Init, StopInv, Accepting, InHand, ConnState

\* Every step of the server keeps the invariant: one step of the proof for each action.
LEMMA StopInvStep == StopInv /\ [Next]_vars => StopInv'
<1> SUFFICES ASSUME StopInv, [Next]_vars PROVE StopInv'
  OBVIOUS
<1> USE DEF StopInv, Accepting, InHand, ConnState, MainAt, MainGoes, ConnGoes,
            own, own_but_main, own_but_conn, clients, history, pool
<1>1. CASE UNCHANGED vars
  BY <1>1 DEF vars
<1>2. CASE BeginRun
  BY <1>2 DEF BeginRun, Outside
<1>3. CASE Destroy
  BY <1>3 DEF Destroy, Outside
<1>4. CASE RunStep
  <2>1. CASE OpenSocket
    BY <2>1 DEF OpenSocket
  <2>2. CASE AssignHandle
    BY <2>2 DEF AssignHandle
  <2>b. CASE Bind
    BY <2>b DEF Bind
  <2>3. CASE Listen
    BY <2>3 DEF Listen
  <2>4. CASE MarkRunning
    BY <2>4 DEF MarkRunning
  <2>5. CASE LeaveRunByException
    BY <2>5 DEF LeaveRunByException
  <2>6. CASE TestLoop
    BY <2>6 DEF TestLoop
  <2>7. CASE CheckListener
    BY <2>7 DEF CheckListener
  <2>8. CASE CallAccept
    BY <2>8 DEF CallAccept
  <2>9. CASE AcceptFails
    BY <2>9 DEF AcceptFails, AfterAccept
  <2>10. CASE Caught
    BY <2>10 DEF Caught
  <2>11. CASE ShutdownFlags
    BY <2>11 DEF ShutdownFlags
  <2>12. CASE ShutdownListener
    BY <2>12 DEF ShutdownListener
  <2>16. CASE ShutdownTests
    BY <2>16 DEF ShutdownTests
  <2>17. CASE MainCloses
    <3>1. conn' \in {conn, BacklogReset}
      BY <2>17 DEF MainCloses, CloseFile
    <3> QED
      BY <2>17, <3>1 DEF MainCloses, BacklogReset
  <2>18. CASE MainForgets
    BY <2>18 DEF MainForgets
  <2>13. CASE ShutdownPool
    BY <2>13 DEF ShutdownPool, Pool!Close
  <2>14. CASE DestroyRouter
    BY <2>14 DEF DestroyRouter, Pool!Close
  <2>15. CASE JoinWorkers
    BY <2>15 DEF JoinWorkers, Pool!Drain
  <2> QED
    BY <1>4, <2>1, <2>2, <2>3, <2>4, <2>5, <2>6, <2>7, <2>8, <2>9, <2>10, <2>11, <2>12, <2>13, <2>14, <2>15, <2>16, <2>17, <2>18,
       <2>b DEF RunStep, OpenStep, LoopStep, CloseStep
<1>5. CASE StartTask
  BY <1>5 DEF StartTask, Pool!StartNext
<1>6. CASE \E c \in Conns : Connect(c) \/ HandleStep(c) \/ ServeStep(c)
  <2> PICK c \in Conns : Connect(c) \/ HandleStep(c) \/ ServeStep(c)
    BY <1>6
  <2>1. CASE Connect(c)
    BY <2>1 DEF Connect
  <2>2. CASE AcceptReturns(c)
    BY <2>2 DEF AcceptReturns, AfterAccept
  <2>3. CASE CountConnection(c)
    BY <2>3 DEF CountConnection
  <2>4. CASE HandshakeSucceeds(c)
    BY <2>4 DEF HandshakeSucceeds
  <2>5. CASE HandshakeFails(c)
    BY <2>5 DEF HandshakeFails
  <2>6. CASE HandshakeThrows(c)
    BY <2>6 DEF HandshakeThrows
  <2>7. CASE Submit(c)
    BY <2>7 DEF Submit, Pool!Accept, Pool!Refuse
  <2>8. CASE Request(c)
    BY <2>8 DEF Request
  <2>9. CASE KeepsAlive(c)
    BY <2>9 DEF KeepsAlive
  <2>10. CASE Closes(c)
    BY <2>10 DEF Closes
  <2>11. CASE PeerLeaves(c)
    BY <2>11 DEF PeerLeaves
  <2>12. CASE Throws(c)
    BY <2>12 DEF Throws
  <2>13. CASE Uncount(c)
    BY <2>13 DEF Uncount
  <2>14. CASE EndTask(c)
    BY <2>14 DEF EndTask, Pool!Finish
  <2> QED
    BY <2>1, <2>2, <2>3, <2>4, <2>5, <2>6, <2>7, <2>8, <2>9, <2>10, <2>11, <2>12, <2>13, <2>14 DEF HandleStep, ServeStep
<1>7. CASE \E s \in Stoppers : StopStep(s)
  <2> PICK s \in Stoppers : StopStep(s)
    BY <1>7
  <2>1. CASE StopFlag(s)
    BY <2>1 DEF StopFlag
  <2>2. CASE StopRunning(s)
    BY <2>2 DEF StopRunning
  <2>3. CASE StopCloses(s)
    <3>1. conn' \in {conn, BacklogReset}
      BY <2>3 DEF StopCloses, CloseFile
    <3> QED
      BY <2>3, <3>1 DEF StopCloses, BacklogReset
  <2>4. CASE StopMarks(s) \/ StopTests(s) \/ StopForgets(s)
    BY <2>4 DEF StopMarks, StopTests, StopForgets
  <2> QED
    BY <2>1, <2>2, <2>3, <2>4 DEF StopStep, StopReturning
<1> QED
  BY <1>1, <1>2, <1>3, <1>4, <1>5, <1>6, <1>7 DEF Next, Dead

\* The invariant holds in every state the server reaches.
THEOREM StopInvariant == SafeSpec => []StopInv
  BY StopInit, StopInvStep, PTL DEF SafeSpec

(***************************************************************************)
(* After stop(), or whatever else ended the loop, at most one more         *)
(* connection is accepted, for any number of clients, stopping threads and *)
(* calls of run() (Server::run(), the loop's test and the catch block).    *)
(***************************************************************************)
THEOREM StopAcceptsAtMostOne == SafeSpec => []AtMostOneLate
<1>1. StopInv => AtMostOneLate
  <2> SUFFICES ASSUME StopInv PROVE Cardinality(late) <= 1
    BY DEF AtMostOneLate
  <2>1. CASE late = {}
    BY <2>1, FS_EmptySet
  <2>2. CASE late # {}
    <3> PICK c \in late : TRUE
      BY <2>2
    <3>1. late = {c}
      BY DEF StopInv
    <3> QED
      BY <3>1, FS_Singleton
  <2> QED
    BY <2>1, <2>2
<1> QED
  BY <1>1, StopInvariant, PTL

(***************************************************************************)
(* The pool is open whenever the accepting thread hands it a connection:   *)
(* submit() does not throw in handle_connection(), which would leave the   *)
(* connection counted for ever.                                            *)
(***************************************************************************)
THEOREM AcceptedFindPoolOpen == SafeSpec => []PoolOpenForAccepted
<1>1. StopInv => PoolOpenForAccepted
  BY DEF StopInv, PoolOpenForAccepted, InHand
<1> QED
  BY <1>1, StopInvariant, PTL

-----------------------------------------------------------------------------
(* What active_connections() counts.                                       *)

CountedStates == {"handshake", "submitting", "queued", "reading", "routing", "returning",
                  "unwinding", "lost"}

(***************************************************************************)
(* The count is that of the connections between their increment and their  *)
(* decrement.  A task that starts moves the head of the queue, so the      *)
(* invariant also says that the queue holds each queued connection once.   *)
(***************************************************************************)
CountInv ==
  /\ conn \in [Conns -> ConnState]
  /\ active_connections_ \in Nat
  /\ pending \in Seq(Conns)
  /\ \A i \in 1 .. Len(pending) : conn[pending[i]] = "queued"
  /\ \A i, j \in 1 .. Len(pending) : pending[i] = pending[j] => i = j
  /\ CountExact

\* The connections counted are finitely many.
LEMMA CountedFinite == IsFiniteSet(Counted) /\ Cardinality(Counted) \in Nat
<1>1. IsFiniteSet(Conns) /\ Counted \subseteq Conns
  BY ServerAssumption DEF Counted
<1> QED
  BY <1>1, FS_Subset, FS_CardinalityType

\* A step that moves no connection across the increment or the decrement keeps the count.
LEMMA CountKept ==
  ASSUME CountExact,
         \A c \in Conns : conn[c] \in CountedStates <=> conn'[c] \in CountedStates,
         active_connections_' = active_connections_
  PROVE  CountExact'
<1>1. Counted' = Counted
  BY DEF Counted, CountedStates
<1> QED
  BY <1>1 DEF CountExact

\* The increment of handle_connection() is for one connection more.
LEMMA CountUp ==
  ASSUME CountExact, NEW c \in Conns,
         conn[c] \notin CountedStates, conn'[c] \in CountedStates,
         \A d \in Conns \ {c} : conn'[d] = conn[d],
         active_connections_' = active_connections_ + 1
  PROVE  CountExact'
<1>1. Counted' = Counted \cup {c} /\ c \notin Counted
  BY DEF Counted, CountedStates
<1>2. Cardinality(Counted \cup {c}) = Cardinality(Counted) + 1
  BY <1>1, CountedFinite, FS_AddElement
<1> QED
  BY <1>1, <1>2 DEF CountExact

\* Each decrement is for one connection less.
LEMMA CountDown ==
  ASSUME CountExact, NEW c \in Conns,
         conn[c] \in CountedStates, conn'[c] \notin CountedStates,
         \A d \in Conns \ {c} : conn'[d] = conn[d],
         active_connections_' = active_connections_ - 1
  PROVE  CountExact'
<1>1. Counted' = Counted \ {c} /\ c \in Counted
  BY DEF Counted, CountedStates
<1>2. Cardinality(Counted \ {c}) = Cardinality(Counted) - 1
  BY <1>1, CountedFinite, FS_RemoveElement
<1> QED
  BY <1>1, <1>2 DEF CountExact

\* The counter is a number wherever it is the size of the counted set: it never wraps.
LEMMA CountIsNat == CountExact' => active_connections_' \in Nat
<1>1. IsFiniteSet(Conns) /\ Counted' \subseteq Conns
  BY ServerAssumption DEF Counted
<1>2. Cardinality(Counted') \in Nat
  BY <1>1, FS_Subset, FS_CardinalityType
<1> QED
  BY <1>2 DEF CountExact

\* A server that has just been constructed counts nobody.
LEMMA CountInit == Init => CountInv
<1> SUFFICES ASSUME Init PROVE CountInv
  OBVIOUS
<1>1. Counted = {}
  BY DEF Init, Counted
<1>2. CountExact
  BY <1>1, FS_EmptySet DEF Init, CountExact
<1> QED
  BY <1>2 DEF Init, Pool!Init, CountInv, ConnState

\* The queue as it is while connections outside it move.
QueueInv ==
  /\ conn \in [Conns -> ConnState]
  /\ pending \in Seq(Conns)
  /\ \A i \in 1 .. Len(pending) : conn[pending[i]] = "queued"
  /\ \A i, j \in 1 .. Len(pending) : pending[i] = pending[j] => i = j

\* A connection that is not queued may move on without touching the queue.
LEMMA QueueKept ==
  ASSUME QueueInv, pending' = pending, conn' \in [Conns -> ConnState],
         \A c \in Conns : conn[c] = "queued" => conn'[c] = "queued"
  PROVE  QueueInv'
<1>1. \A i \in 1 .. Len(pending) : pending[i] \in Conns
  BY DEF QueueInv
<1> QED
  BY <1>1 DEF QueueInv

\* Every step of the server keeps the count exact: one step of the proof for each action.
LEMMA CountInvStep == CountInv /\ [Next]_vars => CountInv'
<1> SUFFICES ASSUME CountInv, [Next]_vars PROVE CountInv'
  OBVIOUS
<1> USE DEF MainAt, MainGoes, ConnGoes, own, own_but_main, own_but_conn, clients, history, pool
<1>q. QueueInv /\ CountExact /\ conn \in [Conns -> ConnState]
  BY DEF CountInv, QueueInv
<1>c. QueueInv' /\ CountExact' => CountInv'
  BY CountIsNat DEF CountInv, QueueInv
<1>s. ASSUME UNCHANGED <<conn, pending, active_connections_>>
      PROVE  QueueInv' /\ CountExact'
  <2>1. QueueInv'
    BY <1>s, <1>q DEF QueueInv
  <2>2. CountExact'
    BY <1>s, <1>q, CountKept
  <2> QED
    BY <2>1, <2>2
<1>b. ASSUME UNCHANGED <<pending, active_connections_>>,
             conn' \in [Conns -> ConnState],
             \A c \in Conns : conn'[c] # conn[c] => conn[c] = "backlog" /\ conn'[c] \in {"closed", "accepted"}
      PROVE  QueueInv' /\ CountExact'
  <2>1. QueueInv'
    BY <1>b, <1>q, QueueKept
  <2>2. \A c \in Conns : conn[c] \in CountedStates <=> conn'[c] \in CountedStates
    BY <1>b DEF CountedStates
  <2>3. CountExact'
    BY <1>b, <1>q, <2>2, CountKept
  <2> QED
    BY <2>1, <2>3
<1>1. CASE UNCHANGED vars
  BY <1>1, <1>s, <1>c DEF vars
<1>2. CASE BeginRun \/ Destroy
  BY <1>2, <1>s, <1>c DEF BeginRun, Destroy
<1>3. CASE RunStep
  <2>1. CASE OpenStep \/ LoopStep \/ ShutdownFlags \/ ShutdownListener \/ ShutdownTests
             \/ MainForgets
    BY <2>1, <1>s, <1>c DEF OpenStep, LoopStep, OpenSocket, AssignHandle, Bind, Listen,
       MarkRunning, LeaveRunByException, TestLoop, CheckListener, CallAccept, Caught,
       ShutdownFlags, ShutdownListener, ShutdownTests, MainForgets
  <2>2. CASE ShutdownPool \/ DestroyRouter \/ JoinWorkers
    BY <2>2, <1>s, <1>c DEF ShutdownPool, DestroyRouter, JoinWorkers, Pool!Close, Pool!Drain
  <2>3. CASE AcceptFails
    <3>1. conn' = AfterAccept(conn) /\ UNCHANGED <<pending, active_connections_>>
      BY <2>3 DEF AcceptFails
    <3> QED
      BY <3>1, <1>q, <1>b, <1>c DEF AfterAccept, ConnState
  <2>4. CASE MainCloses
    <3>1. conn' \in {conn, BacklogReset} /\ UNCHANGED <<pending, active_connections_>>
      BY <2>4 DEF MainCloses, CloseFile
    <3> QED
      BY <3>1, <1>q, <1>b, <1>c DEF BacklogReset, ConnState
  <2> QED
    BY <1>3, <2>1, <2>2, <2>3, <2>4 DEF RunStep, CloseStep
<1>4. CASE StartTask
  <2>1. /\ pending # <<>>
        /\ pending' = Tail(pending)
        /\ conn' = [conn EXCEPT ![Head(pending)] = "reading"]
        /\ active_connections_' = active_connections_
    BY <1>4 DEF StartTask, Pool!StartNext
  <2>2. pending \in Seq(Conns) /\ Len(pending) \in Nat \ {0}
    BY <2>1, <1>q DEF QueueInv
  <2>3. Head(pending) = pending[1] /\ pending[1] \in Conns /\ conn[pending[1]] = "queued"
    BY <2>2, <1>q DEF QueueInv
  <2>4. /\ pending' \in Seq(Conns)
        /\ Len(pending') = Len(pending) - 1
        /\ \A i \in 1 .. Len(pending') : pending'[i] = pending[i + 1] /\ i + 1 \in 1 .. Len(pending)
    BY <2>1, <2>2
  <2>5. conn' \in [Conns -> ConnState]
    BY <2>1, <2>3, <1>q DEF ConnState
  <2>6. \A i \in 1 .. Len(pending') : pending'[i] \in Conns /\ pending'[i] # Head(pending)
    BY <2>2, <2>3, <2>4, <1>q DEF QueueInv
  <2>7. \A i \in 1 .. Len(pending') : conn'[pending'[i]] = "queued"
    BY <2>1, <2>4, <2>6, <1>q DEF QueueInv
  <2>8. \A i, j \in 1 .. Len(pending') : pending'[i] = pending'[j] => i = j
    <3> SUFFICES ASSUME NEW i \in 1 .. Len(pending'), NEW j \in 1 .. Len(pending'),
                        pending'[i] = pending'[j]
                 PROVE  i = j
      OBVIOUS
    <3>1. i + 1 = j + 1
      BY <2>4, <1>q DEF QueueInv
    <3> QED
      BY <3>1, <2>2, <2>4
  <2>9. QueueInv'
    BY <2>4, <2>5, <2>7, <2>8 DEF QueueInv
  <2>10. \A c \in Conns : conn[c] \in CountedStates <=> conn'[c] \in CountedStates
    BY <2>1, <2>3, <1>q DEF CountedStates
  <2> QED
    BY <2>1, <2>9, <2>10, <1>q, <1>c, CountKept
<1>5. CASE \E c \in Conns : Connect(c) \/ HandleStep(c) \/ ServeStep(c)
  <2> PICK c \in Conns : Connect(c) \/ HandleStep(c) \/ ServeStep(c)
    BY <1>5
  <2>m. ASSUME NEW state \in ConnState, conn' = [conn EXCEPT ![c] = state],
               conn[c] # "queued", pending' = pending
        PROVE  QueueInv'
    <3>1. conn' \in [Conns -> ConnState]
      BY <2>m, <1>q
    <3>2. \A d \in Conns : conn[d] = "queued" => conn'[d] = "queued"
      BY <2>m, <1>q
    <3> QED
      BY <2>m, <3>1, <3>2, <1>q, QueueKept
  <2>k. ASSUME NEW state, conn' = [conn EXCEPT ![c] = state],
               conn[c] \in CountedStates <=> state \in CountedStates,
               active_connections_' = active_connections_
        PROVE  CountExact'
    <3>1. \A d \in Conns : conn[d] \in CountedStates <=> conn'[d] \in CountedStates
      BY <2>k, <1>q
    <3> QED
      BY <2>k, <3>1, <1>q, CountKept
  <2>1. CASE AcceptReturns(c)
    <3>1. /\ conn' = AfterAccept([conn EXCEPT ![c] = "accepted"])
          /\ conn[c] = "backlog"
          /\ UNCHANGED <<pending, active_connections_>>
      BY <2>1 DEF AcceptReturns
    <3> QED
      BY <3>1, <1>q, <1>b, <1>c DEF AfterAccept, ConnState
  <2>2. CASE CountConnection(c)
    <3>1. /\ conn[c] = "accepted" /\ conn' = [conn EXCEPT ![c] = "handshake"]
          /\ active_connections_' = active_connections_ + 1 /\ pending' = pending
      BY <2>2 DEF CountConnection
    <3>2. CountExact'
      BY <3>1, <1>q, CountUp DEF CountedStates
    <3> QED
      BY <3>1, <3>2, <2>m, <1>c DEF ConnState
  <2>3. CASE Connect(c) \/ HandshakeSucceeds(c) \/ HandshakeThrows(c) \/ Request(c)
             \/ KeepsAlive(c) \/ Closes(c) \/ PeerLeaves(c) \/ Throws(c)
    <3>1. \E state \in ConnState : /\ conn' = [conn EXCEPT ![c] = state]
                                   /\ conn[c] \in CountedStates <=> state \in CountedStates
                                   /\ conn[c] # "queued"
      BY <2>3 DEF Connect, HandshakeSucceeds, HandshakeThrows, Request, KeepsAlive, Closes,
         PeerLeaves, Throws, ConnState, CountedStates
    <3>2. UNCHANGED <<pending, active_connections_>>
      BY <2>3 DEF Connect, HandshakeSucceeds, HandshakeThrows, Request, KeepsAlive, Closes,
         PeerLeaves, Throws
    <3> QED
      BY <3>1, <3>2, <2>m, <2>k, <1>c
  <2>4. CASE HandshakeFails(c)
    <3>1. /\ conn[c] = "handshake" /\ conn' = [conn EXCEPT ![c] = "closed"]
          /\ active_connections_' = active_connections_ - 1 /\ pending' = pending
      BY <2>4 DEF HandshakeFails
    <3>2. CountExact'
      BY <3>1, <1>q, CountDown DEF CountedStates
    <3> QED
      BY <3>1, <3>2, <2>m, <1>c DEF ConnState
  <2>5. CASE Uncount(c)
    <3>1. /\ conn[c] = "returning" /\ conn' = [conn EXCEPT ![c] = "ending"]
          /\ active_connections_' = active_connections_ - 1 /\ pending' = pending
      BY <2>5 DEF Uncount
    <3>2. CountExact'
      BY <3>1, <1>q, CountDown DEF CountedStates
    <3> QED
      BY <3>1, <3>2, <2>m, <1>c DEF ConnState
  <2>6. CASE EndTask(c)
    <3>1. \E state \in ConnState : /\ conn' = [conn EXCEPT ![c] = state]
                                   /\ conn[c] \in CountedStates <=> state \in CountedStates
                                   /\ conn[c] # "queued"
      BY <2>6 DEF EndTask, ConnState, CountedStates
    <3>2. UNCHANGED <<pending, active_connections_>>
      BY <2>6 DEF EndTask, Pool!Finish
    <3> QED
      BY <3>1, <3>2, <2>m, <2>k, <1>c
  <2>7. CASE Submit(c) /\ ~open
    <3>1. /\ conn[c] = "submitting" /\ conn' = [conn EXCEPT ![c] = "lost"]
          /\ UNCHANGED <<pending, active_connections_>>
      BY <2>7 DEF Submit, Pool!Refuse
    <3> QED
      BY <3>1, <2>m, <2>k, <1>c DEF ConnState, CountedStates
  <2>8. CASE Submit(c) /\ open
    <3>1. /\ conn[c] = "submitting" /\ conn' = [conn EXCEPT ![c] = "queued"]
          /\ pending' = Append(pending, c)
          /\ active_connections_' = active_connections_
      BY <2>8 DEF Submit, Pool!Accept
    <3>2. CountExact'
      BY <3>1, <2>k DEF CountedStates
    <3>3. pending \in Seq(Conns) /\ \A i \in 1 .. Len(pending) : pending[i] \in Conns /\ pending[i] # c
      BY <3>1, <1>q DEF QueueInv
    <3>4. /\ pending' \in Seq(Conns)
          /\ Len(pending') = Len(pending) + 1
          /\ \A i \in 1 .. Len(pending') :
               pending'[i] = IF i <= Len(pending) THEN pending[i] ELSE c
      BY <3>1, <3>3
    <3>5. conn' \in [Conns -> ConnState]
      BY <3>1, <1>q DEF ConnState
    <3>6. \A i \in 1 .. Len(pending') : conn'[pending'[i]] = "queued"
      BY <3>1, <3>3, <3>4, <1>q DEF QueueInv
    <3>7. \A i, j \in 1 .. Len(pending') : pending'[i] = pending'[j] => i = j
      BY <3>3, <3>4, <1>q DEF QueueInv
    <3> QED
      BY <3>2, <3>4, <3>5, <3>6, <3>7, <1>c DEF QueueInv
  <2> QED
    BY <2>1, <2>2, <2>3, <2>4, <2>5, <2>6, <2>7, <2>8 DEF HandleStep, ServeStep
<1>6. CASE \E s \in Stoppers : StopStep(s)
  <2> PICK s \in Stoppers : StopStep(s)
    BY <1>6
  <2>1. CASE StopFlag(s) \/ StopRunning(s) \/ StopMarks(s) \/ StopTests(s) \/ StopForgets(s)
    BY <2>1, <1>s, <1>c DEF StopFlag, StopRunning, StopMarks, StopTests, StopForgets
  <2>2. CASE StopCloses(s)
    <3>1. conn' \in {conn, BacklogReset} /\ UNCHANGED <<pending, active_connections_>>
      BY <2>2 DEF StopCloses, CloseFile
    <3> QED
      BY <3>1, <1>q, <1>b, <1>c DEF BacklogReset, ConnState
  <2> QED
    BY <2>1, <2>2 DEF StopStep, StopReturning
<1> QED
  BY <1>1, <1>2, <1>3, <1>4, <1>5, <1>6 DEF Next, Dead

(***************************************************************************)
(* active_connections() counts the connections in hand, queued and served, *)
(* and those an exception ended, for any number of clients, workers and    *)
(* stopping threads (Server::handle_connection(), its task's last line).   *)
(***************************************************************************)
THEOREM CounterIsExact == SafeSpec => []CountExact
<1>1. CountInv => CountExact
  BY DEF CountInv
<1> QED
  BY <1>1, CountInit, CountInvStep, PTL DEF SafeSpec

-----------------------------------------------------------------------------
(* The end of a server: the types, what run() leaves behind when it        *)
(* returns, and what has become of each connection when the destructor is  *)
(* done.                                                                   *)

\* The places of run() and of the destructor.
RunPlaces     == {"open", "drop", "unset", "assign", "bind", "listen", "mark",
                  "loop", "accept", "calling", "blocked", "handling", "caught",
                  "flags", "listener", "test", "close", "forget", "pool"}
DestroyPlaces == {"flags", "listener", "test", "close", "forget", "pool",
                  "members", "join", "dead"}

\* Past the first assignments of shutdown(), its listener's stop() and the pool's shutdown().
ListenerDown == {"pool", "members", "join", "dead", "returned"}
FlagsDown    == ListenerDown \cup {"listener", "test", "close", "forget"}
PoolDown     == ListenerDown \ {"pool"}

(***************************************************************************)
(* The thread that owns the server is where its call can be, no stop()     *)
(* overlaps the destructor, and what a part of shutdown() did stays done   *)
(* until the next run() is called: no stop() makes the handle valid again. *)
(***************************************************************************)
ControlInv ==
  /\ running_ \in BOOLEAN
  /\ stopping_ \in BOOLEAN
  /\ listener \in [running : BOOLEAN, handle : BOOLEAN,
                   socket : {"none", "open", "listening"}, left : BOOLEAN]
  /\ main \in MainState
  /\ stopper \in [Stoppers -> StopperState]
  /\ straddled \in BOOLEAN
  /\ main.call = "none" => main.at \in Outside
  /\ main.call = "run" => main.at \in RunPlaces
  /\ main.call = "destroy" => /\ main.at \in DestroyPlaces
                              /\ \A s \in Stoppers : stopper[s] = "idle"
  /\ main.at \in FlagsDown => stopping_ /\ ~running_
  /\ main.at \in ListenerDown \cup {"assign"} => ~listener.handle
  /\ main.at \in PoolDown => ~open

(***************************************************************************)
(* Until a stop() straddles two calls of run(), a handle is forgotten only *)
(* when its socket is closed: by whoever forgot it, or by another thread   *)
(* before, and nobody that is about to forget it can see a new one.        *)
(***************************************************************************)
Forgetting == \/ main.at \in {"forget", "unset"}
              \/ \E s \in Stoppers : stopper[s] = "forget"

HandleInv == ~straddled => /\ ~listener.handle \/ Forgetting => listener.socket = "none"
                           /\ \A s \in Stoppers : stopper[s] # "stale"
                           /\ ~listener.left

\* A connection that the kernel has completed and nobody accepted has a socket to be
\* accepted from.
BacklogInv ==
  \A c \in Conns : conn[c] = "backlog" => \/ listener.socket = "listening" \/ listener.left
                                          \/ HeldOpen

\* The accepting thread handles something (StopInv has that it is one connection only).
HandInv == MainAt("handling") => \E c \in Conns : conn[c] \in InHand

\* The pool holds what is queued or served (CountInv has that it holds each once), and a
\* server that is destroyed has waited for it.
ServeInv ==
  /\ \A c \in Conns : conn[c] = "queued" => \E i \in 1 .. Len(pending) : pending[i] = c
  /\ active = {c \in Conns : conn[c] \in InTask}
  /\ MainAt("dead") => pending = <<>> /\ active = {}

ShutdownInv == ControlInv /\ HandleInv /\ BacklogInv /\ HandInv /\ ServeInv

-----------------------------------------------------------------------------

\* A server that was just constructed runs nothing and holds nobody.
LEMMA ShutdownInit == Init => ShutdownInv
<1> SUFFICES ASSUME Init PROVE ShutdownInv
  OBVIOUS
<1>1. ControlInv
  BY DEF Init, Pool!Init, ControlInv, MainState, StopperState, Outside, RunPlaces, DestroyPlaces,
     FlagsDown, ListenerDown, PoolDown
<1>2. HandleInv /\ BacklogInv /\ HandInv /\ ServeInv
  BY DEF Init, Pool!Init, HandleInv, Forgetting, BacklogInv, HandInv, ServeInv, MainAt, InTask
<1> QED
  BY <1>1, <1>2 DEF ShutdownInv

\* Every step keeps the owner's thread and the listener together: one step of the proof
\* for each action.
LEMMA ControlStep == ControlInv /\ StopInv /\ [Next]_vars => ControlInv'
<1> SUFFICES ASSUME ControlInv, StopInv, [Next]_vars PROVE ControlInv'
  OBVIOUS
<1> USE DEF ControlInv, MainState, StopperState, Outside, RunPlaces, DestroyPlaces, FlagsDown,
            ListenerDown, PoolDown, MainAt, StopperGoes, MainGoes, own, own_but_main, own_but_conn, clients, history, pool
<1>1. CASE UNCHANGED vars
  BY <1>1 DEF vars
<1>2. CASE BeginRun
  BY <1>2 DEF BeginRun
<1>3. CASE Destroy
  BY <1>3 DEF Destroy
<1>4. CASE RunStep
  <2>1. CASE OpenSocket
    BY <2>1 DEF OpenSocket
  <2>2. CASE AssignHandle
    BY <2>2 DEF AssignHandle
  <2>b. CASE Bind
    BY <2>b DEF Bind
  <2>3. CASE Listen
    BY <2>3 DEF Listen
  <2>4. CASE MarkRunning
    BY <2>4 DEF MarkRunning
  <2>5. CASE LeaveRunByException
    BY <2>5 DEF LeaveRunByException
  <2>6. CASE TestLoop
    BY <2>6 DEF TestLoop
  <2>7. CASE CheckListener
    BY <2>7 DEF CheckListener
  <2>8. CASE CallAccept
    BY <2>8 DEF CallAccept
  <2>9. CASE AcceptFails
    BY <2>9 DEF AcceptFails
  <2>10. CASE Caught
    BY <2>10 DEF Caught
  <2>11. CASE ShutdownFlags
    BY <2>11 DEF ShutdownFlags
  <2>12. CASE ShutdownListener
    BY <2>12 DEF ShutdownListener, ClearListener
  <2>16. CASE ShutdownTests
    BY <2>16 DEF ShutdownTests
  <2>17. CASE MainCloses
    <3>1. /\ listener' \in [running : BOOLEAN, handle : BOOLEAN,
                            socket : {"none", "open", "listening"}, left : BOOLEAN]
          /\ listener'.handle = listener.handle
      BY <2>17 DEF MainCloses, CloseFile
    <3>2. UNCHANGED <<running_, stopping_, stopper, straddled, open>>
      BY <2>17 DEF MainCloses
    <3>3. CASE MainGoes("close", "forget")
      BY <3>1, <3>2, <3>3
    <3>4. CASE MainGoes("drop", "unset")
      BY <3>1, <3>2, <3>4
    <3> QED
      BY <2>17, <3>3, <3>4 DEF MainCloses
  <2>18. CASE MainForgets
    <3>1. /\ listener' \in [running : BOOLEAN, handle : BOOLEAN,
                            socket : {"none", "open", "listening"}, left : BOOLEAN]
          /\ ~listener'.handle
      BY <2>18 DEF MainForgets, ForgetHandle
    <3>2. UNCHANGED <<running_, stopping_, stopper, straddled, open>>
      BY <2>18 DEF MainForgets
    <3>3. CASE MainGoes("forget", "pool")
      BY <3>1, <3>2, <3>3
    <3>4. CASE MainGoes("unset", "assign")
      BY <3>1, <3>2, <3>4
    <3> QED
      BY <2>18, <3>3, <3>4 DEF MainForgets
  <2>13. CASE ShutdownPool
    BY <2>13 DEF ShutdownPool, Pool!Close
  <2>14. CASE DestroyRouter
    BY <2>14 DEF DestroyRouter, Pool!Close
  <2>15. CASE JoinWorkers
    BY <2>15 DEF JoinWorkers, Pool!Drain
  <2> QED
    BY <1>4, <2>1, <2>2, <2>3, <2>4, <2>5, <2>6, <2>7, <2>8, <2>9, <2>10, <2>11, <2>12, <2>13,
       <2>14, <2>15, <2>16, <2>17, <2>18, <2>b DEF RunStep, OpenStep, LoopStep, CloseStep
<1>5. CASE StartTask
  BY <1>5 DEF StartTask, Pool!StartNext
<1>6. CASE \E c \in Conns : Connect(c) \/ HandleStep(c) \/ ServeStep(c)
  <2> PICK c \in Conns : Connect(c) \/ HandleStep(c) \/ ServeStep(c)
    BY <1>6
  <2>1. CASE Connect(c) \/ ServeStep(c)
    <3>1. UNCHANGED <<running_, stopping_, listener, main, stopper, straddled, open>>
      BY <2>1 DEF Connect, ServeStep, Request, KeepsAlive, Closes, PeerLeaves, Throws, Uncount,
         EndTask, Pool!Finish
    <3> QED
      BY <3>1
  <2>2. CASE HandleStep(c)
    <3>1. UNCHANGED <<running_, stopping_, listener, stopper, straddled, open>>
      BY <2>2 DEF HandleStep, AcceptReturns, CountConnection, HandshakeSucceeds, HandshakeFails,
         HandshakeThrows, Submit, Pool!Accept, Pool!Refuse
    <3>2. CASE main' = main
      BY <3>1, <3>2
    <3>3. CASE main' # main
      <4>1. CASE AcceptReturns(c)
        BY <3>1, <4>1 DEF AcceptReturns
      <4>2. CASE ~AcceptReturns(c)
        <5>1. main.at = "handling" /\ main' \in {[main EXCEPT !.at = "loop"], [main EXCEPT !.at = "caught"]}
          BY <2>2, <3>3, <4>2 DEF HandleStep, CountConnection, HandshakeSucceeds, HandshakeFails,
             HandshakeThrows, Submit, ConnGoes, StopInv, InHand
        <5> QED
          BY <3>1, <5>1
      <4> QED
        BY <4>1, <4>2
    <3> QED
      BY <3>2, <3>3
  <2> QED
    BY <2>1, <2>2
<1>7. CASE \E s \in Stoppers : StopStep(s)
  <2> PICK s \in Stoppers : StopStep(s)
    BY <1>7
  <2>1. CASE StopFlag(s)
    BY <2>1 DEF StopFlag
  <2>2. ASSUME NEW place \in StopperState,
               stopper[s] # "idle", stopper' = [stopper EXCEPT ![s] = place],
               listener' \in [running : BOOLEAN, handle : BOOLEAN,
                              socket : {"none", "open", "listening"}, left : BOOLEAN],
               ~listener.handle => ~listener'.handle,
               running_' = FALSE \/ running_' = running_,
               UNCHANGED <<stopping_, main, straddled, open>>
        PROVE  ControlInv'
    <3>1. main.call # "destroy" /\ main' = main
      BY <2>2
    <3>2. stopper' \in [Stoppers -> StopperState]
      BY <2>2
    <3>3. running_' \in BOOLEAN /\ (~running_ => ~running_')
      <4>1. CASE running_' = FALSE
        BY <4>1
      <4>2. CASE running_' = running_
        BY <4>2
      <4> QED
        BY <2>2, <4>1, <4>2
    <3>4. /\ stopping_' \in BOOLEAN /\ main' \in MainState /\ straddled' \in BOOLEAN
          /\ main'.call = "none" => main'.at \in Outside
          /\ main'.call = "run" => main'.at \in RunPlaces
          /\ main'.call # "destroy"
          /\ main'.at \in PoolDown => ~open'
      BY <2>2, <3>1
    <3>5. main'.at \in FlagsDown => stopping_' /\ ~running_'
      BY <2>2, <3>3
    <3>6. main'.at \in ListenerDown \cup {"assign"} => ~listener'.handle
      BY <2>2
    <3>7. listener' \in [running : BOOLEAN, handle : BOOLEAN,
                          socket : {"none", "open", "listening"}, left : BOOLEAN]
      BY <2>2
    <3> QED
      BY <3>2, <3>3, <3>4, <3>5, <3>6, <3>7
  <2>3. CASE StopRunning(s) \/ StopTests(s)
    <3>1. /\ stopper[s] # "idle"
          /\ \E place \in StopperState : stopper' = [stopper EXCEPT ![s] = place]
      BY <2>3 DEF StopRunning, StopTests
    <3>2. running_' = FALSE \/ running_' = running_
      BY <2>3 DEF StopRunning, StopTests
    <3>3. UNCHANGED <<listener, stopping_, main, straddled, open>>
      BY <2>3 DEF StopRunning, StopTests
    <3> QED
      BY <2>2, <3>1, <3>2, <3>3
  <2>4. CASE StopMarks(s) \/ StopForgets(s)
    <3>1. /\ stopper[s] # "idle"
          /\ \E place \in StopperState : stopper' = [stopper EXCEPT ![s] = place]
      BY <2>4 DEF StopMarks, StopForgets
    <3>2. /\ listener' \in [running : BOOLEAN, handle : BOOLEAN,
                            socket : {"none", "open", "listening"}, left : BOOLEAN]
          /\ ~listener.handle => ~listener'.handle
      BY <2>4 DEF StopMarks, StopForgets, ClearListener, ForgetHandle
    <3>3. UNCHANGED <<running_, stopping_, main, straddled, open>>
      BY <2>4 DEF StopMarks, StopForgets
    <3> QED
      BY <2>2, <3>1, <3>2, <3>3
  <2>5. CASE StopCloses(s)
    <3>1. stopper[s] # "idle" /\ stopper' = [stopper EXCEPT ![s] = "forget"]
      BY <2>5 DEF StopCloses
    <3>2. /\ listener' \in [running : BOOLEAN, handle : BOOLEAN,
                            socket : {"none", "open", "listening"}, left : BOOLEAN]
          /\ listener'.handle = listener.handle
      BY <2>5 DEF StopCloses, CloseFile
    <3>3. UNCHANGED <<running_, stopping_, main, straddled, open>>
      BY <2>5 DEF StopCloses
    <3> QED
      BY <2>2, <3>1, <3>2, <3>3
  <2> QED
    BY <2>1, <2>3, <2>4, <2>5 DEF StopStep, StopReturning
<1> QED
  BY <1>1, <1>2, <1>3, <1>4, <1>5, <1>6, <1>7 DEF Next, Dead

\* Every step keeps handle and socket together: one step of the proof for each action that
\* touches either.
LEMMA SocketStep == ControlInv /\ StopInv /\ HandleInv /\ [Next]_vars => HandleInv'
<1> SUFFICES ASSUME ControlInv, StopInv, HandleInv, [Next]_vars, ~straddled' PROVE HandleInv'
  BY DEF HandleInv
<1> USE DEF HandleInv, Forgetting, MainAt, MainGoes, StopperGoes, ConnGoes, own, own_but_main,
            own_but_conn, clients, history, pool
<1>t. /\ listener \in [running : BOOLEAN, handle : BOOLEAN,
                       socket : {"none", "open", "listening"}, left : BOOLEAN]
      /\ main \in MainState
      /\ stopper \in [Stoppers -> StopperState]
  BY DEF ControlInv
<1>k. ASSUME listener' = listener, straddled' = straddled,
             \A s \in Stoppers : stopper'[s] \in {"stale", "forget"} => stopper'[s] = stopper[s],
             main'.at \in {"forget", "unset"} => main'.at = main.at
      PROVE  HandleInv'
  BY <1>k
<1>1. CASE UNCHANGED vars
  BY <1>1, <1>k DEF vars
<1>2. CASE BeginRun \/ Destroy
  BY <1>2, <1>k DEF BeginRun, Destroy
<1>3. CASE RunStep
  <2>1. CASE OpenSocket \/ Bind \/ LeaveRunByException \/ LoopStep \/ AcceptFails \/ ShutdownFlags
             \/ ShutdownTests \/ ShutdownPool \/ DestroyRouter \/ JoinWorkers
    BY <2>1, <1>k, <1>t DEF OpenSocket, Bind, LeaveRunByException, LoopStep, TestLoop,
       CheckListener, CallAccept, Caught, AcceptFails, ShutdownFlags, ShutdownTests, ShutdownPool,
       DestroyRouter, JoinWorkers, MainState
  <2>2. CASE AssignHandle
    BY <2>2, <1>t DEF AssignHandle, ControlInv, MainState
  <2>3. CASE Listen
    BY <2>3, <1>t DEF Listen, MainState
  <2>4. CASE MarkRunning \/ ShutdownListener
    BY <2>4, <1>t DEF MarkRunning, ShutdownListener, ClearListener, MainState
  <2>5. CASE MainCloses
    BY <2>5, <1>t DEF MainCloses, MayHit, CloseFile, MainState
  <2>6. CASE MainForgets
    BY <2>6, <1>t DEF MainForgets, ForgetHandle, MainState
  <2> QED
    BY <1>3, <2>1, <2>2, <2>3, <2>4, <2>5, <2>6 DEF RunStep, OpenStep, CloseStep
<1>4. CASE StartTask
  BY <1>4, <1>k DEF StartTask
<1>5. CASE \E c \in Conns : Connect(c) \/ HandleStep(c) \/ ServeStep(c)
  <2> PICK c \in Conns : Connect(c) \/ HandleStep(c) \/ ServeStep(c)
    BY <1>5
  <2>1. UNCHANGED <<listener, straddled, stopper>>
    BY DEF Connect, ServeStep, Request, KeepsAlive, Closes, PeerLeaves, Throws, Uncount, EndTask,
       HandleStep, AcceptReturns, CountConnection, HandshakeSucceeds, HandshakeFails,
       HandshakeThrows, Submit
  <2>2. main'.at \in {"forget", "unset"} => main'.at = main.at
    BY <1>t DEF MainState, Connect, ServeStep, Request, KeepsAlive, Closes, PeerLeaves, Throws,
       Uncount, EndTask, HandleStep, AcceptReturns, CountConnection, HandshakeSucceeds,
       HandshakeFails, HandshakeThrows, Submit
  <2> QED
    BY <2>1, <2>2, <1>k
<1>6. CASE \E s \in Stoppers : StopStep(s)
  <2> PICK s \in Stoppers : StopStep(s)
    BY <1>6
  <2>1. CASE StopFlag(s) \/ StopRunning(s) \/ StopTests(s)
    BY <2>1, <1>k, <1>t DEF StopFlag, StopRunning, StopTests
  <2>2. CASE StopMarks(s)
    BY <2>2, <1>t DEF StopMarks, ClearListener
  <2>3. CASE StopCloses(s)
    BY <2>3, <1>t DEF StopCloses, MayHit, CloseFile
  <2>4. CASE StopForgets(s)
    BY <2>4, <1>t DEF StopForgets, ForgetHandle
  <2> QED
    BY <2>1, <2>2, <2>3, <2>4 DEF StopStep, StopReturning
<1> QED
  BY <1>1, <1>2, <1>3, <1>4, <1>5, <1>6 DEF Next, Dead

\* A connection stays in the backlog only while there is a socket to accept it from.
LEMMA BacklogStep == ControlInv /\ StopInv /\ BacklogInv /\ [Next]_vars => BacklogInv'
<1> SUFFICES ASSUME ControlInv, StopInv, BacklogInv, [Next]_vars PROVE BacklogInv'
  OBVIOUS
<1> USE DEF BacklogInv, HeldOpen, MainAt, MainGoes, ConnGoes, own, own_but_main, own_but_conn,
            clients, history, pool
<1>t. conn \in [Conns -> ConnState]
  BY DEF StopInv
<1>k. ASSUME \A c \in Conns : conn'[c] = "backlog" => conn[c] = "backlog",
             listener' = listener, main'.at = main.at \/ main.at # "blocked"
      PROVE  BacklogInv'
  BY <1>k
<1>1. CASE UNCHANGED vars
  BY <1>1, <1>k DEF vars
<1>2. CASE BeginRun \/ Destroy
  BY <1>2, <1>k DEF BeginRun, Destroy, Outside
<1>3. CASE RunStep
  <2>1. CASE OpenSocket \/ Bind \/ LeaveRunByException \/ LoopStep \/ ShutdownFlags
             \/ ShutdownTests \/ ShutdownPool \/ DestroyRouter \/ JoinWorkers
    BY <2>1, <1>k DEF OpenSocket, Bind, LeaveRunByException, LoopStep, TestLoop, CheckListener,
       CallAccept, Caught, ShutdownFlags, ShutdownTests, ShutdownPool, DestroyRouter, JoinWorkers
  <2>2. CASE AssignHandle
    BY <2>2 DEF AssignHandle, ControlInv
  <2>3. CASE Listen \/ MarkRunning
    BY <2>3 DEF Listen, MarkRunning, ControlInv
  <2>4. CASE AcceptFails
    BY <2>4, <1>t DEF AcceptFails, AfterAccept
  <2>5. CASE ShutdownListener \/ MainForgets
    BY <2>5 DEF ShutdownListener, MainForgets, ClearListener, ForgetHandle, ControlInv
  <2>6. CASE MainCloses
    BY <2>6, <1>t DEF MainCloses, CloseFile, BacklogReset
  <2> QED
    BY <1>3, <2>1, <2>2, <2>3, <2>4, <2>5, <2>6 DEF RunStep, OpenStep, CloseStep
<1>4. CASE StartTask
  BY <1>4, <1>k, <1>t DEF StartTask
<1>5. CASE \E c \in Conns : Connect(c) \/ HandleStep(c) \/ ServeStep(c)
  <2> PICK c \in Conns : Connect(c) \/ HandleStep(c) \/ ServeStep(c)
    BY <1>5
  <2>1. CASE Connect(c)
    BY <2>1, <1>t DEF Connect
  <2>2. CASE AcceptReturns(c)
    BY <2>2, <1>t DEF AcceptReturns, AfterAccept
  <2>3. CASE HandleStep(c) /\ ~AcceptReturns(c)
    <3>1. /\ \E state \in ConnState \ {"backlog"} : conn' = [conn EXCEPT ![c] = state]
          /\ conn[c] \in InHand /\ listener' = listener
      BY <2>3 DEF HandleStep, CountConnection, HandshakeSucceeds, HandshakeFails, HandshakeThrows,
         Submit, InHand, ConnState
    <3>2. main.at # "blocked"
      BY <3>1 DEF StopInv
    <3> QED
      BY <3>1, <3>2, <1>k, <1>t
  <2>4. CASE ServeStep(c)
    <3>1. /\ \E state \in ConnState \ {"backlog"} : conn' = [conn EXCEPT ![c] = state]
          /\ listener' = listener /\ main' = main
      BY <2>4 DEF ServeStep, Request, KeepsAlive, Closes, PeerLeaves, Throws, Uncount, EndTask,
         ConnState
    <3> QED
      BY <3>1, <1>k, <1>t
  <2> QED
    BY <2>1, <2>2, <2>3, <2>4
<1>6. CASE \E s \in Stoppers : StopStep(s)
  <2> PICK s \in Stoppers : StopStep(s)
    BY <1>6
  <2>1. CASE StopFlag(s) \/ StopRunning(s) \/ StopTests(s)
    BY <2>1, <1>k DEF StopFlag, StopRunning, StopTests
  <2>2. CASE StopMarks(s) \/ StopForgets(s)
    BY <2>2 DEF StopMarks, StopForgets, ClearListener, ForgetHandle, ControlInv
  <2>3. CASE StopCloses(s)
    BY <2>3, <1>t DEF StopCloses, CloseFile, BacklogReset
  <2> QED
    BY <2>1, <2>2, <2>3 DEF StopStep, StopReturning
<1> QED
  BY <1>1, <1>2, <1>3, <1>4, <1>5, <1>6 DEF Next, Dead

\* What StartNext takes is a queued connection (StartTask; the queue of CountInv).
LEMMA HeadIsQueued ==
  ASSUME CountInv, pending # <<>>
  PROVE  /\ Head(pending) = pending[1] /\ 1 \in 1 .. Len(pending)
         /\ Head(pending) \in Conns /\ conn[Head(pending)] = "queued"
<1>1. pending \in Seq(Conns) /\ Len(pending) \in Nat \ {0}
  BY DEF CountInv
<1> QED
  BY <1>1 DEF CountInv

\* While the accepting thread is at it, some connection is in its hand.
LEMMA HandStep == StopInv /\ CountInv /\ HandInv /\ [Next]_vars => HandInv'
<1> SUFFICES ASSUME StopInv, CountInv, HandInv, [Next]_vars PROVE HandInv'
  OBVIOUS
<1> USE DEF HandInv, InHand, MainAt, MainGoes, ConnGoes, own, own_but_main, own_but_conn,
            clients, history, pool
<1>t. /\ conn \in [Conns -> ConnState]
      /\ main = [call |-> main.call, at |-> main.at]
  BY DEF StopInv
<1>k. ASSUME \A c \in Conns : conn[c] \in InHand => conn'[c] \in InHand,
             main' = main \/ main'.at # "handling"
      PROVE  HandInv'
  BY <1>k
<1>1. CASE UNCHANGED vars
  BY <1>1, <1>k DEF vars
<1>2. CASE BeginRun \/ Destroy
  BY <1>2, <1>k, <1>t DEF BeginRun, Destroy, Outside
<1>3. CASE RunStep
  <2>1. CASE OpenStep
    BY <2>1, <1>k, <1>t DEF OpenStep, OpenSocket, AssignHandle, Bind, Listen, MarkRunning,
       LeaveRunByException
  <2>2. CASE LoopStep \/ AcceptFails
    BY <2>2, <1>t DEF LoopStep, TestLoop, CheckListener, CallAccept, Caught, AcceptFails
  <2>3. CASE MainCloses \/ MainForgets
    BY <2>3, <1>t DEF MainCloses, MainForgets
  <2>4. CASE ShutdownFlags \/ ShutdownListener \/ ShutdownTests
    BY <2>4, <1>t DEF ShutdownFlags, ShutdownListener, ShutdownTests
  <2>5. CASE ShutdownPool \/ DestroyRouter \/ JoinWorkers
    BY <2>5, <1>t DEF ShutdownPool, DestroyRouter, JoinWorkers
  <2> QED
    BY <1>3, <2>1, <2>2, <2>3, <2>4, <2>5 DEF RunStep, CloseStep
<1>4. CASE StartTask
  <2>1. main' = main /\ conn' = [conn EXCEPT ![Head(pending)] = "reading"] /\ pending # <<>>
    BY <1>4 DEF StartTask, Pool!StartNext
  <2> QED
    BY <2>1, <1>k, <1>t, HeadIsQueued
<1>5. CASE \E c \in Conns : Connect(c) \/ HandleStep(c) \/ ServeStep(c)
  <2> PICK c \in Conns : Connect(c) \/ HandleStep(c) \/ ServeStep(c)
    BY <1>5
  <2>1. CASE Connect(c) \/ ServeStep(c)
    <3>1. /\ \E state \in ConnState : conn' = [conn EXCEPT ![c] = state]
          /\ conn[c] \notin InHand /\ main' = main
      BY <2>1 DEF Connect, ServeStep, Request, KeepsAlive, Closes, PeerLeaves, Throws, Uncount,
         EndTask, ConnState
    <3> QED
      BY <3>1, <1>k, <1>t
  <2>2. CASE AcceptReturns(c)
    BY <2>2, <1>t DEF AcceptReturns, AfterAccept
  <2>3. CASE CountConnection(c) \/ HandshakeSucceeds(c)
    BY <2>3, <1>t DEF CountConnection, HandshakeSucceeds
  <2>4. CASE HandshakeFails(c) \/ HandshakeThrows(c) \/ Submit(c)
    BY <2>4, <1>t DEF HandshakeFails, HandshakeThrows, Submit
  <2> QED
    BY <2>1, <2>2, <2>3, <2>4 DEF HandleStep
<1>6. CASE \E s \in Stoppers : StopStep(s)
  <2> PICK s \in Stoppers : StopStep(s)
    BY <1>6
  <2>1. /\ main' = main
        /\ conn' = conn \/ conn' = BacklogReset
    BY DEF StopStep, StopReturning, StopFlag, StopRunning, StopMarks, StopTests, StopCloses,
       StopForgets, CloseFile
  <2> QED
    BY <2>1, <1>k DEF BacklogReset
<1> QED
  BY <1>1, <1>2, <1>3, <1>4, <1>5, <1>6 DEF Next, Dead

\* A step that leaves the pool alone, and moves no connection into it or out of it.
LEMMA PoolKept ==
  ASSUME ServeInv, UNCHANGED <<pending, active>>,
         \A c \in Conns : conn'[c] = "queued" <=> conn[c] = "queued",
         \A c \in Conns : conn'[c] \in InTask <=> conn[c] \in InTask,
         main'.at = "dead" => main.at = "dead"
  PROVE  ServeInv'
<1>1. active' = {c \in Conns : conn'[c] \in InTask}
  BY DEF ServeInv
<1> QED
  BY <1>1 DEF ServeInv, MainAt, InTask

\* Every step keeps the pool and the connections together: one step of the proof for each
\* action.
LEMMA ServedStep == StopInv /\ CountInv /\ ServeInv /\ [Next]_vars => ServeInv'
<1> SUFFICES ASSUME StopInv, CountInv, ServeInv, [Next]_vars PROVE ServeInv'
  OBVIOUS
<1> USE DEF InTask, MainAt, MainGoes, ConnGoes, own, own_but_main, own_but_conn, clients, history, pool
<1>t. /\ conn \in [Conns -> ConnState]
      /\ main = [call |-> main.call, at |-> main.at]
  BY DEF StopInv
<1>b. ASSUME UNCHANGED <<pending, active>>,
             \A c \in Conns : conn'[c] # conn[c] =>
               conn[c] = "backlog" /\ conn'[c] \in {"closed", "accepted"},
             main'.at = "dead" => main.at = "dead"
      PROVE  ServeInv'
  BY <1>b, PoolKept
<1>1. CASE UNCHANGED vars
  BY <1>1, <1>b DEF vars
<1>2. CASE BeginRun \/ Destroy
  BY <1>2, <1>b, <1>t DEF BeginRun, Destroy
<1>3. CASE RunStep
  <2>1. CASE OpenStep \/ LoopStep \/ ShutdownFlags \/ ShutdownListener \/ ShutdownTests
             \/ MainForgets
    BY <2>1, <1>b, <1>t DEF OpenStep, LoopStep, OpenSocket, AssignHandle, Bind, Listen,
       MarkRunning, LeaveRunByException, TestLoop, CheckListener, CallAccept, Caught,
       ShutdownFlags, ShutdownListener, ShutdownTests, MainForgets
  <2>2. CASE ShutdownPool \/ DestroyRouter
    BY <2>2, <1>b, <1>t DEF ShutdownPool, DestroyRouter, Pool!Close
  <2>3. CASE AcceptFails
    BY <2>3, <1>b, <1>t DEF AcceptFails, AfterAccept
  <2>4. CASE MainCloses
    BY <2>4, <1>b, <1>t DEF MainCloses, CloseFile, BacklogReset
  <2>5. CASE JoinWorkers
    BY <2>5, <1>t DEF JoinWorkers, Pool!Drain, ServeInv
  <2> QED
    BY <1>3, <2>1, <2>2, <2>3, <2>4, <2>5 DEF RunStep, CloseStep
<1>4. CASE StartTask
  <2> DEFINE h == Head(pending)
  <2>1. /\ pending # <<>> /\ pending' = Tail(pending) /\ active' = active \cup {h}
        /\ conn' = [conn EXCEPT ![h] = "reading"] /\ main' = main
    BY <1>4 DEF StartTask, Pool!StartNext
  <2>2. h = pending[1] /\ h \in Conns /\ conn[h] = "queued"
    BY <2>1, HeadIsQueued
  <2>3. /\ pending \in Seq(Conns) /\ Len(pending) \in Nat \ {0} /\ Len(pending') = Len(pending) - 1
        /\ \A i \in 1 .. Len(pending') : pending'[i] = pending[i + 1]
    BY <2>1 DEF CountInv
  <2>4. ASSUME NEW c \in Conns, conn'[c] = "queued"
        PROVE  \E i \in 1 .. Len(pending') : pending'[i] = c
    <3>1. c # h /\ conn[c] = "queued"
      BY <2>1, <2>2, <2>4, <1>t
    <3>2. PICK i \in 1 .. Len(pending) : pending[i] = c
      BY <3>1 DEF ServeInv
    <3>3. i - 1 \in 1 .. Len(pending') /\ pending'[i - 1] = c
      BY <2>2, <2>3, <3>1, <3>2
    <3> QED
      BY <3>3
  <2>5. active' = {c \in Conns : conn'[c] \in InTask}
    BY <2>1, <2>2, <1>t DEF ServeInv
  <2>6. ~MainAt("dead")'
    BY <2>1 DEF ServeInv
  <2> QED
    BY <2>4, <2>5, <2>6 DEF ServeInv
<1>5. CASE \E c \in Conns : Connect(c) \/ HandleStep(c) \/ ServeStep(c)
  <2> PICK c \in Conns : Connect(c) \/ HandleStep(c) \/ ServeStep(c)
    BY <1>5
  <2>1. CASE AcceptReturns(c)
    BY <2>1, <1>b, <1>t DEF AcceptReturns, AfterAccept
  <2>2. CASE Connect(c) \/ CountConnection(c) \/ HandshakeSucceeds(c) \/ HandshakeFails(c)
             \/ HandshakeThrows(c) \/ Request(c) \/ KeepsAlive(c) \/ Closes(c) \/ PeerLeaves(c)
             \/ Throws(c) \/ Uncount(c)
    <3>1. /\ \E state \in ConnState \ {"queued"} : /\ conn' = [conn EXCEPT ![c] = state]
                                                   /\ state \in InTask <=> conn[c] \in InTask
          /\ conn[c] # "queued" /\ UNCHANGED <<pending, active>>
      BY <2>2 DEF Connect, CountConnection, HandshakeSucceeds, HandshakeFails, HandshakeThrows,
         Request, KeepsAlive, Closes, PeerLeaves, Throws, Uncount, ConnState
    <3>2. main'.at = "dead" => main.at = "dead"
      BY <2>2, <1>t DEF Connect, CountConnection, HandshakeSucceeds, HandshakeFails,
         HandshakeThrows, Request, KeepsAlive, Closes, PeerLeaves, Throws, Uncount
    <3> QED
      BY <3>1, <3>2, <1>t, PoolKept
  <2>3. CASE Submit(c) /\ ~open
    <3>1. /\ conn[c] = "submitting" /\ conn' = [conn EXCEPT ![c] = "lost"]
          /\ UNCHANGED <<pending, active>> /\ main'.at # "dead"
      BY <2>3, <1>t DEF Submit, Pool!Refuse
    <3> QED
      BY <3>1, <1>t, PoolKept
  <2>4. CASE Submit(c) /\ open
    <3>1. /\ conn[c] = "submitting" /\ conn' = [conn EXCEPT ![c] = "queued"]
          /\ pending' = Append(pending, c) /\ active' = active /\ main'.at # "dead"
      BY <2>4, <1>t DEF Submit, Pool!Accept
    <3>2. /\ Len(pending) \in Nat /\ Len(pending') = Len(pending) + 1
          /\ pending'[Len(pending) + 1] = c
          /\ \A i \in 1 .. Len(pending) : pending'[i] = pending[i]
      BY <3>1 DEF CountInv
    <3>3. ASSUME NEW d \in Conns, conn'[d] = "queued"
          PROVE  \E i \in 1 .. Len(pending') : pending'[i] = d
      <4>1. CASE d = c
        BY <3>2, <4>1
      <4>2. CASE d # c
        <5>1. PICK i \in 1 .. Len(pending) : pending[i] = d
          BY <3>1, <3>3, <4>2, <1>t DEF ServeInv
        <5> QED
          BY <3>2, <5>1
      <4> QED
        BY <4>1, <4>2
    <3>4. active' = {d \in Conns : conn'[d] \in InTask}
      BY <3>1, <1>t DEF ServeInv
    <3> QED
      BY <3>1, <3>3, <3>4 DEF ServeInv
  <2>5. CASE EndTask(c)
    <3>1. /\ \E state \in {"closed", "lost"} : conn' = [conn EXCEPT ![c] = state]
          /\ conn[c] \in InTask /\ active' = active \ {c} /\ UNCHANGED <<pending, main>>
      BY <2>5 DEF EndTask, Pool!Finish
    <3>2. active' = {d \in Conns : conn'[d] \in InTask}
      BY <3>1, <1>t DEF ServeInv
    <3>3. \A d \in Conns : conn'[d] = "queued" => conn[d] = "queued"
      BY <3>1, <1>t
    <3> QED
      BY <3>1, <3>2, <3>3 DEF ServeInv
  <2> QED
    BY <2>1, <2>2, <2>3, <2>4, <2>5 DEF HandleStep, ServeStep
<1>6. CASE \E s \in Stoppers : StopStep(s)
  <2> PICK s \in Stoppers : StopStep(s)
    BY <1>6
  <2>1. CASE StopFlag(s) \/ StopRunning(s) \/ StopMarks(s) \/ StopTests(s) \/ StopForgets(s)
    BY <2>1, <1>b DEF StopFlag, StopRunning, StopMarks, StopTests, StopForgets
  <2>2. CASE StopCloses(s)
    BY <2>2, <1>b, <1>t DEF StopCloses, CloseFile, BacklogReset
  <2> QED
    BY <2>1, <2>2 DEF StopStep, StopReturning
<1> QED
  BY <1>1, <1>2, <1>3, <1>4, <1>5, <1>6 DEF Next, Dead

-----------------------------------------------------------------------------

\* The invariant holds in every state the server reaches.
THEOREM ShutdownInvariant == SafeSpec => [](ShutdownInv /\ StopInv /\ CountInv)
<1>1. ShutdownInv /\ StopInv /\ CountInv /\ [Next]_vars => (ShutdownInv /\ StopInv /\ CountInv)'
  BY StopInvStep, CountInvStep, ControlStep, SocketStep, BacklogStep, HandStep, ServedStep DEF ShutdownInv
<1> QED
  BY <1>1, ShutdownInit, StopInit, CountInit, PTL DEF SafeSpec

(***************************************************************************)
(* The types hold, and the accept loop, the pool and the connections tell  *)
(* one story: the accepting thread has a connection in hand exactly while  *)
(* it handles one, and the pool's queue and workers hold exactly the       *)
(* connections that are queued or served (handle_connection(), submit()).  *)
(***************************************************************************)
THEOREM ServerTypeCorrect == SafeSpec => []TypeOK
<1>1. ShutdownInv /\ StopInv /\ CountInv => TypeOK
  <2> SUFFICES ASSUME ControlInv, HandInv, ServeInv, StopInv, CountInv PROVE TypeOK
    BY DEF ShutdownInv
  <2>1. /\ running_ \in BOOLEAN
        /\ stopping_ \in BOOLEAN
        /\ listener \in [running : BOOLEAN, handle : BOOLEAN,
                         socket : {"none", "open", "listening"}, left : BOOLEAN]
        /\ main \in MainState
        /\ stopper \in [Stoppers -> StopperState]
        /\ straddled \in BOOLEAN
    BY DEF ControlInv
  <2>2. active_connections_ \in Nat /\ conn \in [Conns -> ConnState] /\ late \subseteq Conns
    BY DEF CountInv, StopInv
  <2>3. Pool!Pending = {c \in Conns : conn[c] = "queued"}
    <3>1. DOMAIN pending = 1 .. Len(pending) /\ \A i \in 1 .. Len(pending) : pending[i] \in Conns
      BY DEF CountInv
    <3> QED
      BY <3>1 DEF Pool!Pending, CountInv, ServeInv
  <2>4. active = {c \in Conns : conn[c] \in InTask}
    BY DEF ServeInv
  <2>5. MainAt("handling") <=> \E c \in Conns : conn[c] \in {"accepted", "handshake", "submitting"}
    BY DEF HandInv, StopInv, InHand, MainAt
  <2> QED
    BY <2>1, <2>2, <2>3, <2>4, <2>5 DEF TypeOK
<1> QED
  BY <1>1, ShutdownInvariant, PTL

(***************************************************************************)
(* When run() has returned, the server is stopped with no connection in    *)
(* hand; and the port is closed and its backlog empty, however many calls  *)
(* of stop() tested, closed and forgot the handle while run() opened it,   *)
(* accepted on it and closed it (Socket::close(), without a lock).  Except *)
(* after a stop() inside close() while a later open() assigned its handle. *)
(***************************************************************************)
THEOREM RunLeavesNothing == SafeSpec => []RunReturnsStopped
<1>1. ShutdownInv /\ StopInv => RunReturnsStopped
  <2> SUFFICES ASSUME ControlInv, HandleInv, BacklogInv, StopInv, MainAt("returned")
               PROVE  /\ stopping_ /\ ~running_ /\ ~open
                      /\ \A c \in Conns : conn[c] \notin {"accepted", "handshake", "submitting"}
                      /\ straddled \/ /\ listener.socket # "listening" /\ ~listener.left
                                      /\ \A c \in Conns : conn[c] # "backlog"
    BY DEF ShutdownInv, RunReturnsStopped
  <2>1. stopping_ /\ ~running_ /\ ~open /\ ~listener.handle
    BY DEF ControlInv, FlagsDown, ListenerDown, PoolDown, MainAt
  <2>2. \A c \in Conns : conn[c] \notin {"accepted", "handshake", "submitting"}
    BY DEF StopInv, InHand, MainAt
  <2>3. ASSUME ~straddled
        PROVE  /\ listener.socket # "listening" /\ ~listener.left
               /\ \A c \in Conns : conn[c] # "backlog"
    <3>1. listener.socket = "none" /\ ~listener.left
      BY <2>1, <2>3 DEF HandleInv
    <3> QED
      BY <3>1 DEF BacklogInv, HeldOpen, MainAt
  <2> QED
    BY <2>1, <2>2, <2>3
<1> QED
  BY <1>1, ShutdownInvariant, PTL

(***************************************************************************)
(* No connection outlives the server: when the destructor is done, each    *)
(* one that was accepted has been served to its end, those still queued    *)
(* when shutdown() was called included, and nobody waits to be accepted    *)
(* but after a stop() that straddled two calls of run() (~Server(),        *)
(* ~ThreadPool()).                                                         *)
(***************************************************************************)
THEOREM DestructorServesAll == SafeSpec => []DestroyedServesAll
<1>1. ShutdownInv /\ StopInv => DestroyedServesAll
  <2> SUFFICES ASSUME ControlInv, HandleInv, BacklogInv, ServeInv, StopInv, MainAt("dead"),
                      NEW c \in Conns
               PROVE  conn[c] \in {"absent"} \cup Ended \/ (straddled /\ conn[c] = "backlog")
    BY DEF ShutdownInv, DestroyedServesAll
  <2>1. ~listener.handle
    BY DEF ControlInv, ListenerDown, MainAt
  <2>2. straddled \/ conn[c] # "backlog"
    BY <2>1 DEF HandleInv, BacklogInv, HeldOpen, MainAt
  <2>3. conn[c] \notin InHand
    BY DEF StopInv, MainAt
  <2>4. pending = <<>> /\ active = {}
    BY DEF ServeInv
  <2>5. conn[c] # "queued" /\ conn[c] \notin InTask
    BY <2>4 DEF ServeInv
  <2>6. conn[c] \in ConnState
    BY DEF StopInv
  <2> QED
    BY <2>2, <2>3, <2>5, <2>6 DEF ConnState, InHand, InTask, Ended
<1> QED
  BY <1>1, ShutdownInvariant, PTL

-----------------------------------------------------------------------------
(* The executor's guards stand for no check in the code: submit() takes    *)
(* any task, and a task that ends simply ends.                             *)

\* What has been finished or refused has gone for good.
GoneInv == /\ finished \cup refused \subseteq Conns
           /\ \A c \in finished \cup refused : conn[c] \in Ended

\* Nothing that has gone comes back to the pool.
LEMMA GoneStep == StopInv /\ CountInv /\ GoneInv /\ [Next]_vars => GoneInv'
<1> SUFFICES ASSUME StopInv, CountInv, GoneInv, [Next]_vars PROVE GoneInv'
  OBVIOUS
<1> USE DEF GoneInv, Ended, ConnGoes, own, own_but_main, own_but_conn, clients, history, pool
<1>t. conn \in [Conns -> ConnState]
  BY DEF StopInv
<1>k. ASSUME \A c \in finished \cup refused : conn'[c] = conn[c], UNCHANGED <<finished, refused>>
      PROVE  GoneInv'
  BY <1>k
<1>b. ASSUME conn' = conn \/ \E c \in Conns, state \in ConnState :
                              conn[c] \notin Ended /\ conn' = [conn EXCEPT ![c] = state],
             UNCHANGED <<finished, refused>>
      PROVE  GoneInv'
  BY <1>b, <1>t
<1>1. CASE UNCHANGED vars
  BY <1>1, <1>k DEF vars
<1>2. CASE BeginRun \/ Destroy
  BY <1>2, <1>k DEF BeginRun, Destroy
<1>3. CASE RunStep
  <2>1. CASE conn' = conn
    BY <1>3, <2>1, <1>k DEF RunStep, OpenStep, LoopStep, CloseStep, OpenSocket, AssignHandle, Bind,
       Listen, MarkRunning, LeaveRunByException, TestLoop, CheckListener, CallAccept, AcceptFails,
       Caught, ShutdownFlags, ShutdownListener, ShutdownTests, MainCloses, MainForgets,
       ShutdownPool, DestroyRouter, JoinWorkers, Pool!Close, Pool!Drain
  <2>2. CASE AcceptFails
    BY <2>2 DEF AcceptFails, AfterAccept
  <2>3. CASE MainCloses
    BY <2>3 DEF MainCloses, CloseFile, BacklogReset
  <2> QED
    BY <1>3, <2>1, <2>2, <2>3 DEF RunStep, OpenStep, LoopStep, CloseStep, OpenSocket, AssignHandle,
       Bind, Listen, MarkRunning, LeaveRunByException, TestLoop, CheckListener, CallAccept, Caught,
       ShutdownFlags, ShutdownListener, ShutdownTests, MainForgets, ShutdownPool, DestroyRouter,
       JoinWorkers
<1>4. CASE StartTask
  <2>1. /\ pending # <<>> /\ conn' = [conn EXCEPT ![Head(pending)] = "reading"]
        /\ UNCHANGED <<finished, refused>>
    BY <1>4 DEF StartTask, Pool!StartNext
  <2> QED
    BY <2>1, <1>b, HeadIsQueued DEF ConnState
<1>5. CASE \E c \in Conns : Connect(c) \/ HandleStep(c) \/ ServeStep(c)
  <2> PICK c \in Conns : Connect(c) \/ HandleStep(c) \/ ServeStep(c)
    BY <1>5
  <2>1. CASE AcceptReturns(c)
    BY <2>1, <1>t DEF AcceptReturns, AfterAccept
  <2>2. CASE Submit(c)
    BY <2>2, <1>t DEF Submit, Pool!Accept, Pool!Refuse
  <2>3. CASE EndTask(c)
    BY <2>3, <1>t DEF EndTask, Pool!Finish
  <2>4. CASE ~AcceptReturns(c) /\ ~Submit(c) /\ ~EndTask(c)
    <3>1. /\ \E state \in ConnState : conn' = [conn EXCEPT ![c] = state]
          /\ conn[c] \notin Ended /\ UNCHANGED <<finished, refused>>
      BY <2>4 DEF Connect, HandleStep, CountConnection, HandshakeSucceeds, HandshakeFails,
         HandshakeThrows, ServeStep, Request, KeepsAlive, Closes, PeerLeaves, Throws, Uncount,
         ConnState
    <3> QED
      BY <3>1, <1>b
  <2> QED
    BY <2>1, <2>2, <2>3, <2>4
<1>6. CASE \E s \in Stoppers : StopStep(s)
  <2> PICK s \in Stoppers : StopStep(s)
    BY <1>6
  <2>1. (conn' = conn \/ conn' = BacklogReset) /\ UNCHANGED <<finished, refused>>
    BY DEF StopStep, StopReturning, StopFlag, StopRunning, StopMarks, StopTests, StopCloses,
       StopForgets, CloseFile
  <2> QED
    BY <2>1 DEF BacklogReset
<1> QED
  BY <1>1, <1>2, <1>3, <1>4, <1>5, <1>6 DEF Next, Dead

\* The executor never holds back a call the code makes: a connection about to be handed to
\* the pool was not submitted before, and a task about to end was started.
PoolHoldsNobodyBack ==
  \A c \in Conns : /\ conn[c] = "submitting" => c \notin Pool!Known
                   /\ conn[c] \in {"ending", "unwinding"} => c \in active

(***************************************************************************)
(* Each connection is submitted to the pool once, and each task that ends  *)
(* was started: handle_connection() and the tasks use the pool within what *)
(* the executor's guards allow, so none of them keeps a step of the code   *)
(* from being taken.                                                       *)
(***************************************************************************)
THEOREM PoolUsedAsPromised == SafeSpec => []PoolHoldsNobodyBack
<1>1. Init => GoneInv
  BY DEF Init, Pool!Init, GoneInv
<1>2. ServeInv /\ CountInv /\ GoneInv => PoolHoldsNobodyBack
  <2> SUFFICES ASSUME ServeInv, CountInv, GoneInv, NEW c \in Conns
               PROVE  /\ conn[c] = "submitting" => c \notin Pool!Known
                      /\ conn[c] \in {"ending", "unwinding"} => c \in active
    BY DEF PoolHoldsNobodyBack
  <2>1. conn[c] \in {"ending", "unwinding"} => c \in active
    BY DEF ServeInv, InTask
  <2>2. ASSUME conn[c] = "submitting" PROVE c \notin Pool!Known
    <3>1. DOMAIN pending = 1 .. Len(pending)
      BY DEF CountInv
    <3>2. c \notin Pool!Pending
      BY <2>2, <3>1 DEF Pool!Pending, CountInv
    <3>3. c \notin active /\ c \notin finished /\ c \notin refused
      BY <2>2 DEF ServeInv, GoneInv, InTask, Ended
    <3> QED
      BY <3>2, <3>3 DEF Pool!Known
  <2> QED
    BY <2>1, <2>2
<1>3. ShutdownInv /\ StopInv /\ CountInv => ServeInv /\ StopInv /\ CountInv
  BY DEF ShutdownInv
<1> QED
  BY <1>1, <1>2, <1>3, GoneStep, ShutdownInvariant, PTL DEF SafeSpec

=============================================================================
