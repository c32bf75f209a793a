-------------------------- MODULE ThreadPool_proof --------------------------
(* Theorems about ThreadPool, for any set of tasks, any number of workers  *)
(* and any number of threads that call shutdown().                         *)
EXTENDS ThreadPool, FiniteSetTheorems, SequenceTheorems, TLAPS

\* The constructor never builds an empty pool.
LEMMA PoolSizeType == PoolSize \in Nat \ {0} /\ 1 \in Workers
  BY PoolAssumption DEF PoolSize, Workers

\* A pool under construction is empty, open and used by nobody.
LEMMA InitInv == Init => IInv
<1> SUFFICES ASSUME Init PROVE IInv
  OBVIOUS
<1>1. TypeOK
  <2>1. stopping_ = ~accepting_ /\ accepting_ \in BOOLEAN
    BY Zenon DEF Init
  <2>2. owner \in OwnerState
    BY DEF Init, OwnerState
  <2>3. tasks_ \in Seq(Tasks)
    BY EmptySeq DEF Init
  <2>4. \A w \in Workers : current[w] # NoTask <=> w \in Running
    BY DEF Init, Running
  <2>5. QED
    BY <2>1, <2>2, <2>3, <2>4 DEF Init, TypeOK, WorkerState, SubmitState, FutureState
<1>2. Lifecycle /\ JoinedExited /\ ExitsEmpty /\ ShutdownWakesAll
  BY DEF Init, Lifecycle, JoinedExited, ExitsEmpty, ShutdownWakesAll, Returned, Waiting
<1>3. TaskAccounting
  BY DEF Init, TaskAccounting, Queued, Running, Done, Accepted
<1>4. IsFiniteSet(Notifying)
  <2>1. Notifying = {}
    BY DEF Init, Notifying
  <2>2. QED
    BY <2>1, FS_EmptySet
<1>5. WorkConserving
  BY DEF Init, WorkConserving, Waiting
<1>6. QED
  BY <1>1, <1>2, <1>3, <1>4, <1>5 DEF IInv

\* Every step of the pool keeps the types; a worker takes a task up and lays it down with
\* its state.
LEMMA TypeStep == TypeOK /\ [Next]_vars => TypeOK'
<1> SUFFICES ASSUME TypeOK, [Next]_vars PROVE TypeOK'
  OBVIOUS
<1> USE PoolAssumption DEF TypeOK, WorkerState, SubmitState, FutureState, OwnerState, Running
<1>1. ASSUME NEW w \in Workers, Spawn(w) PROVE TypeOK'
  BY <1>1 DEF Spawn
<1>2. ASSUME NEW w \in Workers, TakeTask(w) PROVE TypeOK'
  <2>1. Head(tasks_) \in Tasks /\ Tail(tasks_) \in Seq(Tasks)
    BY <1>2 DEF TakeTask
  <2>2. QED
    BY <1>2, <2>1 DEF TakeTask
<1>3. ASSUME NEW w \in Workers, Exit(w) PROVE TypeOK'
  BY <1>3 DEF Exit
<1>4. ASSUME NEW w \in Workers, Block(w) PROVE TypeOK'
  BY <1>4 DEF Block
<1>5. ASSUME NEW w \in Workers, WakeSpuriously(w) PROVE TypeOK'
  BY <1>5 DEF WakeSpuriously
<1>6. ASSUME NEW w \in Workers, FinishTask(w) PROVE TypeOK'
  BY <1>6 DEF FinishTask
<1>7. ASSUME NEW w \in Workers, Join(w) PROVE TypeOK'
  BY <1>7 DEF Join
<1>8. ASSUME NEW t \in Tasks, SubmitLocked(t) PROVE TypeOK'
  BY <1>8 DEF SubmitLocked, Enqueue, EnqueueUnchecked, Reject
<1>9. ASSUME NEW t \in Tasks, SubmitNotifies(t) PROVE TypeOK'
  BY <1>9 DEF SubmitNotifies, NotifyOne, Waiting
<1>10. ASSUME NEW s \in Stoppers, ShutdownLocked(s) PROVE TypeOK'
  BY <1>10 DEF ShutdownLocked, RaiseFlags
<1>11. ASSUME NEW s \in Stoppers, ShutdownNotifies(s) PROVE TypeOK'
  BY <1>11 DEF ShutdownNotifies, NotifyAll
<1>12. ASSUME NEW op \in {"wait", "destroy"}, OwnerLocked(op) PROVE TypeOK'
  BY <1>12 DEF OwnerLocked, RaiseFlags
<1>13. CASE OwnerNotifies
  BY <1>13 DEF OwnerNotifies, NotifyAll
<1>14. CASE OwnerReturns
  BY <1>14 DEF OwnerReturns
<1>15. CASE Gone \/ UNCHANGED vars
  BY <1>15 DEF Gone, vars
<1>16. QED
  BY <1>1, <1>2, <1>3, <1>4, <1>5, <1>6, <1>7, <1>8, <1>9, <1>10, <1>11, <1>12,
     <1>13, <1>14, <1>15 DEF Next

\* The pool's life: built, used, stopped, joined.
LEMMA LifecycleStep == TypeOK /\ Lifecycle /\ [Next]_vars => Lifecycle'
<1> SUFFICES ASSUME TypeOK, Lifecycle, [Next]_vars PROVE Lifecycle'
  OBVIOUS
<1> USE PoolAssumption, PoolSizeType DEF TypeOK, WorkerState, SubmitState, FutureState, OwnerState, Running,
    Lifecycle, Returned, Workers
<1>1. ASSUME NEW w \in Workers, Spawn(w) PROVE Lifecycle'
  BY <1>1 DEF Spawn
<1>2. ASSUME NEW w \in Workers, TakeTask(w) PROVE Lifecycle'
  BY <1>2 DEF TakeTask
<1>3. ASSUME NEW w \in Workers, Exit(w) PROVE Lifecycle'
  BY <1>3 DEF Exit
<1>4. ASSUME NEW w \in Workers, Block(w) PROVE Lifecycle'
  BY <1>4 DEF Block
<1>5. ASSUME NEW w \in Workers, WakeSpuriously(w) PROVE Lifecycle'
  BY <1>5 DEF WakeSpuriously
<1>6. ASSUME NEW w \in Workers, FinishTask(w) PROVE Lifecycle'
  BY <1>6 DEF FinishTask
<1>7. ASSUME NEW w \in Workers, Join(w) PROVE Lifecycle'
  BY <1>7 DEF Join
<1>8. ASSUME NEW t \in Tasks, SubmitLocked(t) PROVE Lifecycle'
  BY <1>8 DEF SubmitLocked, Usable, Enqueue, EnqueueUnchecked, Reject
<1>9. ASSUME NEW t \in Tasks, SubmitNotifies(t) PROVE Lifecycle'
  BY <1>9 DEF SubmitNotifies, NotifyOne, Waiting
<1>10. ASSUME NEW s \in Stoppers, ShutdownLocked(s) PROVE Lifecycle'
  BY <1>10 DEF ShutdownLocked, Usable, RaiseFlags
<1>11. ASSUME NEW s \in Stoppers, ShutdownNotifies(s) PROVE Lifecycle'
  BY <1>11 DEF ShutdownNotifies, NotifyAll
<1>12. ASSUME NEW op \in {"wait", "destroy"}, OwnerLocked(op) PROVE Lifecycle'
  BY <1>12 DEF OwnerLocked, RaiseFlags
<1>13. CASE OwnerNotifies
  BY <1>13 DEF OwnerNotifies, NotifyAll
<1>14. CASE OwnerReturns
  BY <1>14 DEF OwnerReturns
<1>15. CASE Gone \/ UNCHANGED vars
  BY <1>15 DEF Gone, vars
<1>16. QED
  BY <1>1, <1>2, <1>3, <1>4, <1>5, <1>6, <1>7, <1>8, <1>9,
     <1>10, <1>11, <1>12, <1>13, <1>14, <1>15 DEF Next

\* A thread that was joined had returned from worker_loop().
LEMMA JoinStep == TypeOK /\ Lifecycle /\ JoinedExited /\ [Next]_vars => JoinedExited'
<1> SUFFICES ASSUME TypeOK, Lifecycle, JoinedExited, [Next]_vars PROVE JoinedExited'
  OBVIOUS
<1> USE DEF TypeOK, WorkerState, Lifecycle, JoinedExited
<1>1. ASSUME NEW w \in Workers, Spawn(w) PROVE JoinedExited'
  BY <1>1 DEF Spawn
<1>2. ASSUME NEW w \in Workers, TakeTask(w) PROVE JoinedExited'
  BY <1>2 DEF TakeTask
<1>3. ASSUME NEW w \in Workers, Exit(w) PROVE JoinedExited'
  BY <1>3 DEF Exit
<1>4. ASSUME NEW w \in Workers, Block(w) PROVE JoinedExited'
  BY <1>4 DEF Block
<1>5. ASSUME NEW w \in Workers, WakeSpuriously(w) PROVE JoinedExited'
  BY <1>5 DEF WakeSpuriously
<1>6. ASSUME NEW w \in Workers, FinishTask(w) PROVE JoinedExited'
  BY <1>6 DEF FinishTask
<1>7. ASSUME NEW w \in Workers, Join(w) PROVE JoinedExited'
  BY <1>7 DEF Join
<1>8. ASSUME NEW t \in Tasks, SubmitLocked(t) PROVE JoinedExited'
  BY <1>8 DEF SubmitLocked, Usable, Enqueue, EnqueueUnchecked, Reject
<1>9. ASSUME NEW t \in Tasks, SubmitNotifies(t) PROVE JoinedExited'
  BY <1>9 DEF SubmitNotifies, NotifyOne, Waiting
<1>10. ASSUME NEW s \in Stoppers, ShutdownLocked(s) PROVE JoinedExited'
  BY <1>10 DEF ShutdownLocked, Usable, RaiseFlags
<1>11. ASSUME NEW s \in Stoppers, ShutdownNotifies(s) PROVE JoinedExited'
  BY <1>11 DEF ShutdownNotifies, NotifyAll
<1>12. ASSUME NEW op \in {"wait", "destroy"}, OwnerLocked(op) PROVE JoinedExited'
  BY <1>12 DEF OwnerLocked, RaiseFlags
<1>13. CASE OwnerNotifies
  BY <1>13 DEF OwnerNotifies, NotifyAll
<1>14. CASE OwnerReturns
  BY <1>14 DEF OwnerReturns
<1>15. CASE Gone \/ UNCHANGED vars
  BY <1>15 DEF Gone, vars
<1>16. QED
  BY <1>1, <1>2, <1>3, <1>4, <1>5, <1>6, <1>7, <1>8, <1>9,
     <1>10, <1>11, <1>12, <1>13, <1>14, <1>15 DEF Next

\* No task reaches the queue of a pool a worker has left.
LEMMA ExitsStep == TypeOK /\ ExitsEmpty /\ [Next]_vars => ExitsEmpty'
<1> SUFFICES ASSUME TypeOK, ExitsEmpty, [Next]_vars PROVE ExitsEmpty'
  OBVIOUS
<1> USE DEF TypeOK, WorkerState, ExitsEmpty
<1>1. ASSUME NEW w \in Workers, Spawn(w) PROVE ExitsEmpty'
  BY <1>1 DEF Spawn
<1>2. ASSUME NEW w \in Workers, TakeTask(w) PROVE ExitsEmpty'
  BY <1>2 DEF TakeTask
<1>3. ASSUME NEW w \in Workers, Exit(w) PROVE ExitsEmpty'
  BY <1>3 DEF Exit
<1>4. ASSUME NEW w \in Workers, Block(w) PROVE ExitsEmpty'
  BY <1>4 DEF Block
<1>5. ASSUME NEW w \in Workers, WakeSpuriously(w) PROVE ExitsEmpty'
  BY <1>5 DEF WakeSpuriously
<1>6. ASSUME NEW w \in Workers, FinishTask(w) PROVE ExitsEmpty'
  BY <1>6 DEF FinishTask
<1>7. ASSUME NEW w \in Workers, Join(w) PROVE ExitsEmpty'
  BY <1>7 DEF Join
<1>8. ASSUME NEW t \in Tasks, SubmitLocked(t) PROVE ExitsEmpty'
  BY <1>8 DEF SubmitLocked, Usable, Enqueue, EnqueueUnchecked, Reject
<1>9. ASSUME NEW t \in Tasks, SubmitNotifies(t) PROVE ExitsEmpty'
  BY <1>9 DEF SubmitNotifies, NotifyOne, Waiting
<1>10. ASSUME NEW s \in Stoppers, ShutdownLocked(s) PROVE ExitsEmpty'
  BY <1>10 DEF ShutdownLocked, Usable, RaiseFlags
<1>11. ASSUME NEW s \in Stoppers, ShutdownNotifies(s) PROVE ExitsEmpty'
  BY <1>11 DEF ShutdownNotifies, NotifyAll
<1>12. ASSUME NEW op \in {"wait", "destroy"}, OwnerLocked(op) PROVE ExitsEmpty'
  BY <1>12 DEF OwnerLocked, RaiseFlags
<1>13. CASE OwnerNotifies
  BY <1>13 DEF OwnerNotifies, NotifyAll
<1>14. CASE OwnerReturns
  BY <1>14 DEF OwnerReturns
<1>15. CASE Gone \/ UNCHANGED vars
  BY <1>15 DEF Gone, vars
<1>16. QED
  BY <1>1, <1>2, <1>3, <1>4, <1>5, <1>6, <1>7, <1>8, <1>9,
     <1>10, <1>11, <1>12, <1>13, <1>14, <1>15 DEF Next

\* Only notify_all() ends the obligation to wake the sleepers of a stopping pool.
LEMMA WakeStep == TypeOK /\ Lifecycle /\ ShutdownWakesAll /\ [Next]_vars => ShutdownWakesAll'
<1> SUFFICES ASSUME TypeOK, Lifecycle, ShutdownWakesAll, [Next]_vars PROVE ShutdownWakesAll'
  OBVIOUS
<1> USE DEF TypeOK, WorkerState, OwnerState, Lifecycle, ShutdownWakesAll, Waiting
<1>1. ASSUME NEW w \in Workers, Spawn(w) PROVE ShutdownWakesAll'
  BY <1>1 DEF Spawn
<1>2. ASSUME NEW w \in Workers, TakeTask(w) PROVE ShutdownWakesAll'
  BY <1>2 DEF TakeTask
<1>3. ASSUME NEW w \in Workers, Exit(w) PROVE ShutdownWakesAll'
  BY <1>3 DEF Exit
<1>4. ASSUME NEW w \in Workers, Block(w) PROVE ShutdownWakesAll'
  BY <1>4 DEF Block
<1>5. ASSUME NEW w \in Workers, WakeSpuriously(w) PROVE ShutdownWakesAll'
  BY <1>5 DEF WakeSpuriously
<1>6. ASSUME NEW w \in Workers, FinishTask(w) PROVE ShutdownWakesAll'
  BY <1>6 DEF FinishTask
<1>7. ASSUME NEW w \in Workers, Join(w) PROVE ShutdownWakesAll'
  BY <1>7 DEF Join
<1>8. ASSUME NEW t \in Tasks, SubmitLocked(t) PROVE ShutdownWakesAll'
  BY <1>8 DEF SubmitLocked, Usable, Enqueue, EnqueueUnchecked, Reject
<1>9. ASSUME NEW t \in Tasks, SubmitNotifies(t) PROVE ShutdownWakesAll'
  BY <1>9 DEF SubmitNotifies, NotifyOne
<1>10. ASSUME NEW s \in Stoppers, ShutdownLocked(s) PROVE ShutdownWakesAll'
  BY <1>10 DEF ShutdownLocked, Usable, RaiseFlags
<1>11. ASSUME NEW s \in Stoppers, ShutdownNotifies(s) PROVE ShutdownWakesAll'
  BY <1>11 DEF ShutdownNotifies, NotifyAll
<1>12. ASSUME NEW op \in {"wait", "destroy"}, OwnerLocked(op) PROVE ShutdownWakesAll'
  BY <1>12 DEF OwnerLocked, RaiseFlags
<1>13. CASE OwnerNotifies
  BY <1>13 DEF OwnerNotifies, NotifyAll
<1>14. CASE OwnerReturns
  BY <1>14 DEF OwnerReturns
<1>15. CASE Gone \/ UNCHANGED vars
  BY <1>15 DEF Gone, vars
<1>16. QED
  BY <1>1, <1>2, <1>3, <1>4, <1>5, <1>6, <1>7, <1>8, <1>9,
     <1>10, <1>11, <1>12, <1>13, <1>14, <1>15 DEF Next

\* Enqueueing, taking and finishing move a task from one place to the next; no other
\* step touches one.
LEMMA AccountingStep == TypeOK /\ TaskAccounting /\ [Next]_vars => TaskAccounting'
<1> SUFFICES ASSUME TypeOK, TaskAccounting, [Next]_vars PROVE TaskAccounting'
  OBVIOUS
<1>1. ASSUME NEW w \in Workers, Spawn(w) PROVE TaskAccounting'
  <2>1. /\ tasks_' = tasks_ /\ current' = current /\ future' = future
        /\ Running' = Running /\ Accepted' = Accepted
    BY <1>1 DEF Spawn, TypeOK, WorkerState, SubmitState, Running, Accepted
  <2>2. QED
    BY <2>1 DEF TaskAccounting, Queued, Done
<1>2. ASSUME NEW w \in Workers, TakeTask(w) PROVE TaskAccounting'
  <2> DEFINE t == Head(tasks_)
  <2>1. /\ tasks_ # <<>> /\ tasks_ \in Seq(Tasks) /\ w \notin Running
        /\ t \in Tasks /\ tasks_' = Tail(tasks_)
        /\ Tail(tasks_) \in Seq(Tasks) /\ Len(Tail(tasks_)) = Len(tasks_) - 1
        /\ Len(tasks_) \in Nat \ {0}
        /\ \A i \in 1..Len(Tail(tasks_)) : Tail(tasks_)[i] = tasks_[i + 1]
    BY <1>2, HeadTailProperties, EmptySeq DEF TakeTask, TypeOK, Running
  <2>2. t = tasks_[1]
    BY <2>1
  <2>3. /\ Running' = Running \cup {w} /\ Done' = Done /\ Accepted' = Accepted
        /\ current'[w] = t /\ \A v \in Running : current'[v] = current[v]
    BY <1>2, <2>1 DEF TakeTask, TypeOK, WorkerState, Running, Done, Accepted
  <2>4. DOMAIN tasks_ = 1..Len(tasks_) /\ DOMAIN tasks_' = 1..(Len(tasks_) - 1)
    BY <2>1
  <2>5. Queued' = Queued \ {t} /\ t \in Queued
    <3>1. \A i \in DOMAIN tasks_' : tasks_'[i] # t
      BY <2>1, <2>2, <2>4 DEF TaskAccounting
    <3>2. \A i \in DOMAIN tasks_ : i = 1 \/ tasks_[i] = tasks_'[i - 1]
      BY <2>1, <2>4
    <3>3. \A i \in DOMAIN tasks_ : i = 1 \/ i - 1 \in DOMAIN tasks_'
      BY <2>1, <2>4
    <3>4. \A i \in DOMAIN tasks_' : i + 1 \in DOMAIN tasks_ /\ tasks_'[i] = tasks_[i + 1]
      BY <2>1, <2>4
    <3>5. 1 \in DOMAIN tasks_
      BY <2>1, <2>4
    <3>6. QED
      BY <2>2, <3>1, <3>2, <3>3, <3>4, <3>5 DEF Queued
  <2>6. \A i, j \in DOMAIN tasks_' : tasks_'[i] = tasks_'[j] => i = j
    <3>1. \A i \in DOMAIN tasks_' : i \in Nat /\ i + 1 \in DOMAIN tasks_ /\ tasks_'[i] = tasks_[i + 1]
      BY <2>1, <2>4
    <3>2. QED
      BY <3>1 DEF TaskAccounting
  <2>7. \A v \in Running : current[v] # t
    BY <2>5 DEF TaskAccounting
  <2>8. \A v, u \in Running' : current'[v] = current'[u] => v = u
    BY <2>3, <2>7 DEF TaskAccounting
  <2>9. {current'[v] : v \in Running'} = {current[v] : v \in Running} \cup {t}
    BY <2>1, <2>3
  <2>10. \A v \in Running' : current'[v] \notin Queued' \cup Done'
    BY <2>3, <2>5 DEF TaskAccounting
  <2>11. QED
    BY <2>3, <2>5, <2>6, <2>8, <2>9, <2>10 DEF TaskAccounting
<1>3. ASSUME NEW w \in Workers, Exit(w) PROVE TaskAccounting'
  <2>1. /\ tasks_' = tasks_ /\ current' = current /\ future' = future
        /\ Running' = Running /\ Accepted' = Accepted
    BY <1>3 DEF Exit, TypeOK, WorkerState, SubmitState, Running, Accepted
  <2>2. QED
    BY <2>1 DEF TaskAccounting, Queued, Done
<1>4. ASSUME NEW w \in Workers, Block(w) PROVE TaskAccounting'
  <2>1. /\ tasks_' = tasks_ /\ current' = current /\ future' = future
        /\ Running' = Running /\ Accepted' = Accepted
    BY <1>4 DEF Block, TypeOK, WorkerState, SubmitState, Running, Accepted
  <2>2. QED
    BY <2>1 DEF TaskAccounting, Queued, Done
<1>5. ASSUME NEW w \in Workers, WakeSpuriously(w) PROVE TaskAccounting'
  <2>1. /\ tasks_' = tasks_ /\ current' = current /\ future' = future
        /\ Running' = Running /\ Accepted' = Accepted
    BY <1>5 DEF WakeSpuriously, TypeOK, WorkerState, SubmitState, Running, Accepted
  <2>2. QED
    BY <2>1 DEF TaskAccounting, Queued, Done
<1>6. ASSUME NEW w \in Workers, FinishTask(w) PROVE TaskAccounting'
  <2> DEFINE t == current[w]
  <2>1. w \in Running /\ t \in Tasks /\ tasks_' = tasks_
    BY <1>6 DEF FinishTask, TypeOK, Running
  <2>2. /\ Running' = Running \ {w} /\ Accepted' = Accepted /\ Queued' = Queued
        /\ \A v \in Running' : current'[v] = current[v]
    BY <1>6 DEF FinishTask, TypeOK, WorkerState, Running, Accepted, Queued
  <2>3. Done' = Done \cup {t}
    BY <1>6, <2>1 DEF FinishTask, TypeOK, FutureState, Done
  <2>4. {current'[v] : v \in Running'} = {current[v] : v \in Running} \ {t}
    BY <2>1, <2>2 DEF TaskAccounting
  <2>5. QED
    BY <2>1, <2>2, <2>3, <2>4 DEF TaskAccounting
<1>7. ASSUME NEW w \in Workers, Join(w) PROVE TaskAccounting'
  <2>1. /\ tasks_' = tasks_ /\ current' = current /\ future' = future
        /\ Running' = Running /\ Accepted' = Accepted
    BY <1>7 DEF Join, TypeOK, WorkerState, SubmitState, Running, Accepted
  <2>2. QED
    BY <2>1 DEF TaskAccounting, Queued, Done
<1>8. ASSUME NEW t \in Tasks, SubmitLocked(t) PROVE TaskAccounting'
  <2>1. UNCHANGED <<Running, current, Done>>
    BY <1>8 DEF SubmitLocked, Running, Done
  <2>2. CASE Reject(t)
    <3>1. Accepted' = Accepted /\ tasks_' = tasks_
      BY <1>8, <2>2 DEF SubmitLocked, Reject, TypeOK, SubmitState, Accepted
    <3>2. QED
      BY <2>1, <3>1 DEF TaskAccounting, Queued
  <2>3. CASE Enqueue(t)
    <3>1. /\ Accepted' = Accepted \cup {t} /\ t \notin Accepted
      BY <1>8, <2>3 DEF SubmitLocked, Enqueue, EnqueueUnchecked, TypeOK, SubmitState, Accepted
    <3>2. /\ tasks_' = Append(tasks_, t) /\ tasks_ \in Seq(Tasks)
          /\ Len(tasks_) \in Nat /\ Len(tasks_') = Len(tasks_) + 1
          /\ DOMAIN tasks_ = 1..Len(tasks_) /\ DOMAIN tasks_' = 1..(Len(tasks_) + 1)
          /\ tasks_'[Len(tasks_) + 1] = t
          /\ \A i \in 1..Len(tasks_) : tasks_'[i] = tasks_[i]
      BY <1>8, <2>3 DEF Enqueue, EnqueueUnchecked, TypeOK
    <3>3. Queued' = Queued \cup {t}
      BY <3>2 DEF Queued
    <3>4. t \notin Queued /\ t \notin Done /\ \A w \in Running : current[w] # t
      BY <3>1 DEF TaskAccounting
    <3>5. \A i, j \in DOMAIN tasks_' : tasks_'[i] = tasks_'[j] => i = j
      BY <3>2, <3>4 DEF TaskAccounting, Queued
    <3>6. QED
      BY <2>1, <3>1, <3>3, <3>4, <3>5 DEF TaskAccounting
  <2>4. QED
    BY <1>8, <2>2, <2>3 DEF SubmitLocked
<1>9. ASSUME NEW t \in Tasks, SubmitNotifies(t) PROVE TaskAccounting'
  <2>1. /\ tasks_' = tasks_ /\ current' = current /\ future' = future
        /\ Running' = Running /\ Accepted' = Accepted
    BY <1>9 DEF SubmitNotifies, NotifyOne, Waiting, TypeOK, WorkerState, SubmitState, Running, Accepted
  <2>2. QED
    BY <2>1 DEF TaskAccounting, Queued, Done
<1>10. ASSUME NEW s \in Stoppers, ShutdownLocked(s) PROVE TaskAccounting'
  <2>1. /\ tasks_' = tasks_ /\ current' = current /\ future' = future
        /\ Running' = Running /\ Accepted' = Accepted
    BY <1>10 DEF ShutdownLocked, Usable, RaiseFlags, TypeOK, WorkerState, SubmitState, Running, Accepted
  <2>2. QED
    BY <2>1 DEF TaskAccounting, Queued, Done
<1>11. ASSUME NEW s \in Stoppers, ShutdownNotifies(s) PROVE TaskAccounting'
  <2>1. /\ tasks_' = tasks_ /\ current' = current /\ future' = future
        /\ Running' = Running /\ Accepted' = Accepted
    BY <1>11 DEF ShutdownNotifies, NotifyAll, TypeOK, WorkerState, SubmitState, Running, Accepted
  <2>2. QED
    BY <2>1 DEF TaskAccounting, Queued, Done
<1>12. ASSUME NEW op \in {"wait", "destroy"}, OwnerLocked(op) PROVE TaskAccounting'
  <2>1. /\ tasks_' = tasks_ /\ current' = current /\ future' = future
        /\ Running' = Running /\ Accepted' = Accepted
    BY <1>12 DEF OwnerLocked, RaiseFlags, TypeOK, WorkerState, SubmitState, Running, Accepted
  <2>2. QED
    BY <2>1 DEF TaskAccounting, Queued, Done
<1>13. CASE OwnerNotifies
  <2>1. /\ tasks_' = tasks_ /\ current' = current /\ future' = future
        /\ Running' = Running /\ Accepted' = Accepted
    BY <1>13 DEF OwnerNotifies, NotifyAll, TypeOK, WorkerState, SubmitState, Running, Accepted
  <2>2. QED
    BY <2>1 DEF TaskAccounting, Queued, Done
<1>14. CASE OwnerReturns
  <2>1. /\ tasks_' = tasks_ /\ current' = current /\ future' = future
        /\ Running' = Running /\ Accepted' = Accepted
    BY <1>14 DEF OwnerReturns, TypeOK, WorkerState, SubmitState, Running, Accepted
  <2>2. QED
    BY <2>1 DEF TaskAccounting, Queued, Done
<1>15. CASE Gone \/ UNCHANGED vars
  <2>1. /\ tasks_' = tasks_ /\ current' = current /\ future' = future
        /\ Running' = Running /\ Accepted' = Accepted
    BY <1>15 DEF Gone, vars, TypeOK, WorkerState, SubmitState, Running, Accepted
  <2>2. QED
    BY <2>1 DEF TaskAccounting, Queued, Done
<1>16. QED
  BY <1>1, <1>2, <1>3, <1>4, <1>5, <1>6, <1>7, <1>8, <1>9,
     <1>10, <1>11, <1>12, <1>13, <1>14, <1>15 DEF Next

\* There are PoolSize workers, so every set of them can be counted.
LEMMA WorkersFinite == /\ IsFiniteSet(Workers)
                       /\ Cardinality(Workers) = PoolSize
                       /\ \A S \in SUBSET Workers : IsFiniteSet(S)
<1>1. PoolSize \in Int /\ 1 \in Int /\ ~(1 > PoolSize) /\ PoolSize - 1 + 1 = PoolSize
  BY PoolSizeType
<1>2. IsFiniteSet(1..PoolSize) /\ Cardinality(1..PoolSize) = PoolSize
  BY <1>1, FS_Interval
<1>3. QED
  BY <1>2, FS_Subset DEF Workers

\* Each step begins at most one submit() call.
LEMMA FiniteStep == TypeOK /\ IsFiniteSet(Notifying) /\ [Next]_vars => IsFiniteSet(Notifying)'
<1> SUFFICES ASSUME TypeOK, IsFiniteSet(Notifying), [Next]_vars PROVE IsFiniteSet(Notifying)'
  OBVIOUS
<1>1. ASSUME NEW w \in Workers, Spawn(w) PROVE IsFiniteSet(Notifying)'
  <2>1. Notifying' \in SUBSET Notifying
    BY <1>1 DEF Spawn, TypeOK, Notifying
  <2>2. QED
    BY <2>1, FS_Subset
<1>2. ASSUME NEW w \in Workers, TakeTask(w) PROVE IsFiniteSet(Notifying)'
  <2>1. Notifying' \in SUBSET Notifying
    BY <1>2 DEF TakeTask, TypeOK, Notifying
  <2>2. QED
    BY <2>1, FS_Subset
<1>3. ASSUME NEW w \in Workers, Exit(w) PROVE IsFiniteSet(Notifying)'
  <2>1. Notifying' \in SUBSET Notifying
    BY <1>3 DEF Exit, TypeOK, Notifying
  <2>2. QED
    BY <2>1, FS_Subset
<1>4. ASSUME NEW w \in Workers, Block(w) PROVE IsFiniteSet(Notifying)'
  <2>1. Notifying' \in SUBSET Notifying
    BY <1>4 DEF Block, TypeOK, Notifying
  <2>2. QED
    BY <2>1, FS_Subset
<1>5. ASSUME NEW w \in Workers, WakeSpuriously(w) PROVE IsFiniteSet(Notifying)'
  <2>1. Notifying' \in SUBSET Notifying
    BY <1>5 DEF WakeSpuriously, TypeOK, Notifying
  <2>2. QED
    BY <2>1, FS_Subset
<1>6. ASSUME NEW w \in Workers, FinishTask(w) PROVE IsFiniteSet(Notifying)'
  <2>1. Notifying' \in SUBSET Notifying
    BY <1>6 DEF FinishTask, TypeOK, Notifying
  <2>2. QED
    BY <2>1, FS_Subset
<1>7. ASSUME NEW w \in Workers, Join(w) PROVE IsFiniteSet(Notifying)'
  <2>1. Notifying' \in SUBSET Notifying
    BY <1>7 DEF Join, TypeOK, Notifying
  <2>2. QED
    BY <2>1, FS_Subset
<1>8. ASSUME NEW t \in Tasks, SubmitLocked(t) PROVE IsFiniteSet(Notifying)'
  <2>1. Notifying' \in SUBSET (Notifying \cup {t})
    BY <1>8 DEF SubmitLocked, Enqueue, EnqueueUnchecked, Reject, TypeOK, Notifying
  <2>2. QED
    BY <2>1, FS_AddElement, FS_Subset
<1>9. ASSUME NEW t \in Tasks, SubmitNotifies(t) PROVE IsFiniteSet(Notifying)'
  <2>1. Notifying' \in SUBSET Notifying
    BY <1>9 DEF SubmitNotifies, NotifyOne, Waiting, TypeOK, Notifying
  <2>2. QED
    BY <2>1, FS_Subset
<1>10. ASSUME NEW s \in Stoppers, ShutdownLocked(s) PROVE IsFiniteSet(Notifying)'
  <2>1. Notifying' \in SUBSET Notifying
    BY <1>10 DEF ShutdownLocked, Usable, RaiseFlags, TypeOK, Notifying
  <2>2. QED
    BY <2>1, FS_Subset
<1>11. ASSUME NEW s \in Stoppers, ShutdownNotifies(s) PROVE IsFiniteSet(Notifying)'
  <2>1. Notifying' \in SUBSET Notifying
    BY <1>11 DEF ShutdownNotifies, NotifyAll, TypeOK, Notifying
  <2>2. QED
    BY <2>1, FS_Subset
<1>12. ASSUME NEW op \in {"wait", "destroy"}, OwnerLocked(op) PROVE IsFiniteSet(Notifying)'
  <2>1. Notifying' \in SUBSET Notifying
    BY <1>12 DEF OwnerLocked, RaiseFlags, TypeOK, Notifying
  <2>2. QED
    BY <2>1, FS_Subset
<1>13. CASE OwnerNotifies
  <2>1. Notifying' \in SUBSET Notifying
    BY <1>13 DEF OwnerNotifies, NotifyAll, TypeOK, Notifying
  <2>2. QED
    BY <2>1, FS_Subset
<1>14. CASE OwnerReturns
  <2>1. Notifying' \in SUBSET Notifying
    BY <1>14 DEF OwnerReturns, TypeOK, Notifying
  <2>2. QED
    BY <2>1, FS_Subset
<1>15. CASE Gone \/ UNCHANGED vars
  <2>1. Notifying' \in SUBSET Notifying
    BY <1>15 DEF Gone, vars, TypeOK, Notifying
  <2>2. QED
    BY <2>1, FS_Subset
<1>16. QED
  BY <1>1, <1>2, <1>3, <1>4, <1>5, <1>6, <1>7, <1>8, <1>9,
     <1>10, <1>11, <1>12, <1>13, <1>14, <1>15 DEF Next

\* A step that queues a task adds a notification, one that sends a notification adds a
\* looking worker or finds no sleeper, and a worker falls asleep only on an empty queue.
LEMMA WorkStep == TypeOK /\ Lifecycle /\ IsFiniteSet(Notifying) /\ WorkConserving /\ [Next]_vars => WorkConserving'
<1> SUFFICES ASSUME TypeOK, Lifecycle, IsFiniteSet(Notifying), WorkConserving, [Next]_vars PROVE WorkConserving'
  OBVIOUS
<1>0. /\ IsFiniteSet(Checking)
      /\ Cardinality(Checking) \in Nat
      /\ Cardinality(Notifying) \in Nat
  <2>1. Checking \in SUBSET Workers
    BY DEF Checking
  <2>2. QED
    BY <2>1, WorkersFinite, FS_CardinalityType
<1>1. ASSUME NEW w \in Workers, Spawn(w) PROVE WorkConserving'
  <2>1. /\ Notifying' = Notifying /\ tasks_' = tasks_ /\ Waiting' \subseteq Waiting
        /\ Checking' = Checking \cup {w} /\ w \notin Checking
    BY <1>1 DEF Spawn, TypeOK, WorkerState, Notifying, Waiting, Checking
  <2>2. Cardinality(Checking') = Cardinality(Checking) + 1
    BY <2>1, <1>0, FS_AddElement
  <2>3. QED
    BY <2>1, <2>2, <1>0 DEF WorkConserving
<1>2. ASSUME NEW w \in Workers, TakeTask(w) PROVE WorkConserving'
  <2>1. /\ Notifying' = Notifying /\ Waiting' = Waiting
        /\ Checking' = Checking \ {w} /\ w \in Checking
    BY <1>2 DEF TakeTask, TypeOK, WorkerState, Notifying, Waiting, Checking
  <2>2. Cardinality(Checking') = Cardinality(Checking) - 1
    BY <2>1, <1>0, FS_RemoveElement
  <2>3. Len(tasks_') = Len(tasks_) - 1 /\ Len(tasks_) \in Nat
    BY <1>2, HeadTailProperties DEF TakeTask, TypeOK
  <2>4. QED
    BY <2>1, <2>2, <2>3, <1>0 DEF WorkConserving
<1>3. ASSUME NEW w \in Workers, Exit(w) PROVE WorkConserving'
  <2>1. tasks_' = <<>> /\ Checking' \subseteq Workers /\ Notifying' = Notifying
    BY <1>3 DEF Exit, Checking, Notifying
  <2>2. Cardinality(Checking') \in Nat
    BY <2>1, WorkersFinite, FS_CardinalityType
  <2>3. QED
    BY <2>1, <2>2, <1>0 DEF WorkConserving
<1>4. ASSUME NEW w \in Workers, Block(w) PROVE WorkConserving'
  <2>1. tasks_' = <<>> /\ Checking' \subseteq Workers /\ Notifying' = Notifying
    BY <1>4 DEF Block, Checking, Notifying
  <2>2. Cardinality(Checking') \in Nat
    BY <2>1, WorkersFinite, FS_CardinalityType
  <2>3. QED
    BY <2>1, <2>2, <1>0 DEF WorkConserving
<1>5. ASSUME NEW w \in Workers, WakeSpuriously(w) PROVE WorkConserving'
  <2>1. /\ Notifying' = Notifying /\ tasks_' = tasks_ /\ Waiting' \subseteq Waiting
        /\ Checking' = Checking \cup {w} /\ w \notin Checking
    BY <1>5 DEF WakeSpuriously, TypeOK, WorkerState, Notifying, Waiting, Checking
  <2>2. Cardinality(Checking') = Cardinality(Checking) + 1
    BY <2>1, <1>0, FS_AddElement
  <2>3. QED
    BY <2>1, <2>2, <1>0 DEF WorkConserving
<1>6. ASSUME NEW w \in Workers, FinishTask(w) PROVE WorkConserving'
  <2>1. /\ Notifying' = Notifying /\ tasks_' = tasks_ /\ Waiting' \subseteq Waiting
        /\ Checking' = Checking \cup {w} /\ w \notin Checking
    BY <1>6 DEF FinishTask, TypeOK, WorkerState, Notifying, Waiting, Checking
  <2>2. Cardinality(Checking') = Cardinality(Checking) + 1
    BY <2>1, <1>0, FS_AddElement
  <2>3. QED
    BY <2>1, <2>2, <1>0 DEF WorkConserving
<1>7. ASSUME NEW w \in Workers, Join(w) PROVE WorkConserving'
  <2>1. Notifying' = Notifying /\ Waiting' = Waiting /\ Checking' = Checking /\ tasks_' = tasks_
    BY <1>7 DEF Join, Notifying, Waiting, Checking
  <2>2. QED
    BY <2>1 DEF WorkConserving
<1>8. ASSUME NEW t \in Tasks, SubmitLocked(t) PROVE WorkConserving'
  <2>1. Waiting' = Waiting /\ Checking' = Checking
    BY <1>8 DEF SubmitLocked, Waiting, Checking
  <2>2. CASE Reject(t)
    <3>1. Notifying' = Notifying /\ tasks_' = tasks_
      BY <1>8, <2>2 DEF SubmitLocked, Reject, TypeOK, Notifying
    <3>2. QED
      BY <2>1, <3>1 DEF WorkConserving
  <2>3. CASE Enqueue(t)
    <3>1. Notifying' = Notifying \cup {t} /\ t \notin Notifying
      BY <1>8, <2>3 DEF SubmitLocked, Enqueue, EnqueueUnchecked, TypeOK, Notifying
    <3>2. Cardinality(Notifying') = Cardinality(Notifying) + 1
      BY <3>1, FS_AddElement
    <3>3. Len(tasks_') = Len(tasks_) + 1 /\ Len(tasks_) \in Nat
      BY <2>3 DEF Enqueue, EnqueueUnchecked, TypeOK
    <3>4. QED
      BY <2>1, <3>2, <3>3, <1>0 DEF WorkConserving
  <2>4. QED
    BY <1>8, <2>2, <2>3 DEF SubmitLocked
<1>9. ASSUME NEW t \in Tasks, SubmitNotifies(t) PROVE WorkConserving'
  <2>1. /\ Notifying' = Notifying \ {t} /\ t \in Notifying /\ tasks_' = tasks_
    BY <1>9 DEF SubmitNotifies, TypeOK, SubmitState, Notifying
  <2>2. Cardinality(Notifying') = Cardinality(Notifying) - 1
    BY <2>1, FS_RemoveElement
  <2>3. CASE Waiting = {}
    BY <1>9, <2>3 DEF SubmitNotifies, NotifyOne, Waiting, WorkConserving
  <2>4. CASE Waiting # {}
    <3>1. PICK w \in Waiting : worker' = [worker EXCEPT ![w] = "checking"]
      BY <1>9, <2>4 DEF SubmitNotifies, NotifyOne
    <3>2. Checking' = Checking \cup {w} /\ w \notin Checking
      BY <3>1 DEF TypeOK, WorkerState, Waiting, Checking
    <3>3. Cardinality(Checking') = Cardinality(Checking) + 1
      BY <3>2, <1>0, FS_AddElement
    <3>4. Len(tasks_) \in Nat
      BY DEF TypeOK
    <3>5. QED
      BY <2>1, <2>2, <2>4, <3>3, <3>4, <1>0 DEF WorkConserving
  <2>5. QED
    BY <2>3, <2>4
<1>10. ASSUME NEW s \in Stoppers, ShutdownLocked(s) PROVE WorkConserving'
  <2>1. Notifying' = Notifying /\ Waiting' = Waiting /\ Checking' = Checking /\ tasks_' = tasks_
    BY <1>10 DEF ShutdownLocked, Usable, RaiseFlags, Notifying, Waiting, Checking
  <2>2. QED
    BY <2>1 DEF WorkConserving
<1>11. ASSUME NEW s \in Stoppers, ShutdownNotifies(s) PROVE WorkConserving'
  <2>1. Waiting' = {}
    BY <1>11 DEF ShutdownNotifies, NotifyAll, TypeOK, WorkerState, Waiting
  <2>2. QED
    BY <2>1 DEF WorkConserving
<1>12. ASSUME NEW op \in {"wait", "destroy"}, OwnerLocked(op) PROVE WorkConserving'
  <2>1. Notifying' = Notifying /\ Waiting' = Waiting /\ Checking' = Checking /\ tasks_' = tasks_
    BY <1>12 DEF OwnerLocked, RaiseFlags, Notifying, Waiting, Checking
  <2>2. QED
    BY <2>1 DEF WorkConserving
<1>13. CASE OwnerNotifies
  <2>1. Waiting' = {}
    BY <1>13 DEF OwnerNotifies, NotifyAll, TypeOK, WorkerState, Waiting
  <2>2. QED
    BY <2>1 DEF WorkConserving
<1>14. CASE OwnerReturns
  <2>1. Notifying' = Notifying /\ Waiting' = Waiting /\ Checking' = Checking /\ tasks_' = tasks_
    BY <1>14 DEF OwnerReturns, Notifying, Waiting, Checking
  <2>2. QED
    BY <2>1 DEF WorkConserving
<1>15. CASE Gone \/ UNCHANGED vars
  <2>1. Notifying' = Notifying /\ Waiting' = Waiting /\ Checking' = Checking /\ tasks_' = tasks_
    BY <1>15 DEF Gone, vars, Notifying, Waiting, Checking
  <2>2. QED
    BY <2>1 DEF WorkConserving
<1>16. QED
  BY <1>1, <1>2, <1>3, <1>4, <1>5, <1>6, <1>7, <1>8, <1>9,
     <1>10, <1>11, <1>12, <1>13, <1>14, <1>15 DEF Next

-----------------------------------------------------------------------------
(* The inductive invariant, and what follows from it.                      *)

\* The inductive invariant is inductive, by the lemmas on its conjuncts.
LEMMA InvStep == IInv /\ [Next]_vars => IInv'
  BY TypeStep, LifecycleStep, JoinStep, ExitsStep, AccountingStep, WakeStep,
     FiniteStep, WorkStep DEF IInv

\* Every reachable state of every pool satisfies the inductive invariant.
THEOREM Invariance == SafeSpec => []IInv
  BY InitInv, InvStep, PTL DEF SafeSpec

\* The variables of the pool keep their types, and a worker holds a task exactly
\* while it runs one.
THEOREM TypeCorrect == SafeSpec => []TypeOK
<1>1. IInv => TypeOK
  BY DEF IInv
<1>2. QED
  BY <1>1, Invariance, PTL

\* submit() and worker_loop() lose no task and run none twice.
THEOREM TasksAccountedFor == SafeSpec => []TaskAccounting
<1>1. IInv => TaskAccounting
  BY DEF IInv
<1>2. QED
  BY <1>1, Invariance, PTL

\* Notifying after the lock is released loses no wake-up: while a worker sleeps, each
\* queued task has a notification to come or a worker about to look.
THEOREM NoLostWakeup == SafeSpec => []WorkConserving
<1>1. IInv => WorkConserving
  BY DEF IInv
<1>2. QED
  BY <1>1, Invariance, PTL

\* A worker returns from worker_loop() only when the pool stops and its queue is empty, and
\* the queue of a pool that a worker has left stays empty: submit() tests accepting_.
THEOREM WorkersLeaveEmptyQueue == SafeSpec => []ExitsEmpty
<1>1. IInv => ExitsEmpty
  BY DEF IInv
<1>2. QED
  BY <1>1, Invariance, PTL

\* No worker sleeps in a stopping pool without a notify_all() still to come.
THEOREM ShutdownReachesAll == SafeSpec => []ShutdownWakesAll
<1>1. IInv => ShutdownWakesAll
  BY DEF IInv
<1>2. QED
  BY <1>1, Invariance, PTL

\* When every thread is joined the queue is empty and nothing runs: what was accepted is done.
LEMMA JoinedMeansDrained ==
  ASSUME IInv, owner.op # "construct", joinable = {}
  PROVE  /\ \A w \in Workers : worker[w] = "exited"
         /\ ~accepting_ /\ tasks_ = <<>> /\ Running = {} /\ Accepted = Done
<1>1. \A w \in Workers : worker[w] = "exited"
  BY DEF IInv, Lifecycle, JoinedExited
<1>2. tasks_ = <<>> /\ stopping_
  BY <1>1, PoolSizeType DEF IInv, ExitsEmpty
<1>3. ~accepting_
  BY <1>2 DEF IInv, TypeOK
<1>4. Running = {}
  BY <1>1 DEF Running
<1>5. Queued = {}
  BY <1>2 DEF Queued
<1>6. Accepted = Done
  BY <1>4, <1>5 DEF IInv, TaskAccounting
<1>7. QED
  BY <1>1, <1>2, <1>3, <1>4, <1>6

\* When wait() or the destructor has returned, every accepted task is done and no worker
\* is left.
THEOREM WaitingDrains == SafeSpec => []WaitDrains
<1>1. IInv => WaitDrains
  <2> SUFFICES ASSUME IInv, Returned PROVE Accepted = Done /\ \A w \in Workers : worker[w] = "exited"
    BY DEF WaitDrains
  <2>1. joinable = {} /\ owner.op # "construct"
    BY DEF IInv, Lifecycle, Returned
  <2>2. QED
    BY <2>1, JoinedMeansDrained
<1>2. QED
  BY <1>1, Invariance, PTL

-----------------------------------------------------------------------------
(* Refinement: the pool is an executor.                                    *)

-----------------------------------------------------------------------------
(* Refinement: the pool is an executor.  Active, Done, Refused and Drained *)
(* are what the instance Executor puts for its variables.                  *)

Active  == {current[w] : w \in Running}
Refused == {t \in Tasks : submit[t] = "threw"}
Drained == owner.op # "construct" /\ joinable = {}

\* A worker that looks at the queue is not running a task, so fewer than PoolSize run.
LEMMA RoomForOneMore ==
  ASSUME IInv, NEW w \in Workers \ Running
  PROVE  Cardinality(Active) < PoolSize
<1> DEFINE f == [v \in Running |-> current[v]]
<1>1. Running \in SUBSET (Workers \ {w})
  BY DEF Running
<1>2. IsFiniteSet(Workers \ {w}) /\ Cardinality(Workers \ {w}) = PoolSize - 1
  BY WorkersFinite, FS_RemoveElement
<1>3. /\ IsFiniteSet(Running) /\ Cardinality(Running) \in Nat
      /\ Cardinality(Running) <= PoolSize - 1
  BY <1>1, <1>2, FS_Subset, FS_CardinalityType
<1>4. f \in Surjection(Running, Active)
  BY DEF Surjection, Active
<1>5. Cardinality(Active) <= Cardinality(Running) /\ IsFiniteSet(Active)
  BY <1>3, <1>4, FS_Surjection
<1>6. QED
  BY <1>3, <1>5, PoolSizeType, FS_CardinalityType

\* A step that leaves all of this alone is invisible to the executor's callers.
LEMMA Stutter ==
  ASSUME /\ accepting_' = accepting_ /\ tasks_' = tasks_ /\ current' = current
         /\ future' = future /\ Running' = Running /\ Refused' = Refused
         /\ Drained' = Drained
  PROVE  UNCHANGED Executor!vars
  BY DEF Executor!vars, Running, Refused, Drained

\* The instance's copy of Cardinality is Cardinality.
LEMMA SameCardinality == \A S : Executor!Cardinality(S) = Cardinality(S)
  BY DEF Executor!Cardinality, Cardinality

\* A pool under construction is an executor that has seen no task.
LEMMA InitRefines == Init => Executor!Init
  BY DEF Init, Executor!Init

\* Every step of the pool is one step of the executor or none.
LEMMA StepRefines == IInv /\ IInv' /\ [Next]_vars => [Executor!Next]_Executor!vars
<1> SUFFICES ASSUME IInv, IInv', [Next]_vars PROVE [Executor!Next]_Executor!vars
  OBVIOUS
<1>1. ASSUME NEW w \in Workers, Spawn(w) PROVE [Executor!Next]_Executor!vars
  <2>1. /\ accepting_' = accepting_ /\ tasks_' = tasks_ /\ current' = current
        /\ future' = future /\ Running' = Running /\ Refused' = Refused
        /\ Drained' = Drained
    BY <1>1 DEF Spawn, IInv, TypeOK, WorkerState, SubmitState, Lifecycle, Running, Refused, Drained
  <2>2. QED
    BY <2>1, Stutter
<1>2. ASSUME NEW w \in Workers, TakeTask(w) PROVE [Executor!Next]_Executor!vars
  <2>1. w \notin Running /\ tasks_ # <<>>
    BY <1>2 DEF TakeTask, Running
  <2>2. Cardinality(Active) < PoolSize
    BY <2>1, RoomForOneMore
  <2>3. Running' = Running \cup {w} /\ current'[w] = Head(tasks_)
        /\ \A v \in Running : current'[v] = current[v]
    BY <1>2 DEF TakeTask, IInv, TypeOK, WorkerState, Running
  <2>4. Active' = Active \cup {Head(tasks_)}
    BY <2>1, <2>3 DEF Active
  <2>5. /\ tasks_' = Tail(tasks_) /\ accepting_' = accepting_ /\ Done' = Done
        /\ Refused' = Refused /\ Drained' = Drained
    BY <1>2 DEF TakeTask, Done, Refused, Drained
  <2>6. Executor!StartNext
    BY <2>1, <2>2, <2>4, <2>5, SameCardinality DEF Executor!StartNext, Active, Done, Refused, Drained, Running
  <2>7. QED
    BY <2>6 DEF Executor!Next
<1>3. ASSUME NEW w \in Workers, Exit(w) PROVE [Executor!Next]_Executor!vars
  <2>1. /\ accepting_' = accepting_ /\ tasks_' = tasks_ /\ current' = current
        /\ future' = future /\ Running' = Running /\ Refused' = Refused
        /\ Drained' = Drained
    BY <1>3 DEF Exit, IInv, TypeOK, WorkerState, SubmitState, Lifecycle, Running, Refused, Drained
  <2>2. QED
    BY <2>1, Stutter
<1>4. ASSUME NEW w \in Workers, Block(w) PROVE [Executor!Next]_Executor!vars
  <2>1. /\ accepting_' = accepting_ /\ tasks_' = tasks_ /\ current' = current
        /\ future' = future /\ Running' = Running /\ Refused' = Refused
        /\ Drained' = Drained
    BY <1>4 DEF Block, IInv, TypeOK, WorkerState, SubmitState, Lifecycle, Running, Refused, Drained
  <2>2. QED
    BY <2>1, Stutter
<1>5. ASSUME NEW w \in Workers, WakeSpuriously(w) PROVE [Executor!Next]_Executor!vars
  <2>1. /\ accepting_' = accepting_ /\ tasks_' = tasks_ /\ current' = current
        /\ future' = future /\ Running' = Running /\ Refused' = Refused
        /\ Drained' = Drained
    BY <1>5 DEF WakeSpuriously, IInv, TypeOK, WorkerState, SubmitState, Lifecycle, Running, Refused, Drained
  <2>2. QED
    BY <2>1, Stutter
<1>6. ASSUME NEW w \in Workers, FinishTask(w) PROVE [Executor!Next]_Executor!vars
  <2>1. PICK t \in Tasks : t = current[w]
    BY <1>6 DEF FinishTask, IInv, TypeOK, Running
  <2>2. w \in Running /\ t \in Active
    BY <1>6, <2>1 DEF FinishTask, Running, Active
  <2>3. Running' = Running \ {w} /\ \A v \in Running' : current'[v] = current[v]
    BY <1>6 DEF FinishTask, IInv, TypeOK, WorkerState, Running
  <2>4. Active' = Active \ {t}
    BY <2>1, <2>2, <2>3 DEF IInv, TaskAccounting, Active
  <2>5. Done' = Done \cup {t}
    BY <1>6, <2>1 DEF FinishTask, IInv, TypeOK, FutureState, Done
  <2>6. /\ tasks_' = tasks_ /\ accepting_' = accepting_
        /\ Refused' = Refused /\ Drained' = Drained
    BY <1>6 DEF FinishTask, Refused, Drained
  <2>7. Executor!Finish(t)
    BY <2>2, <2>4, <2>5, <2>6 DEF Executor!Finish, Active, Done, Refused, Drained, Running
  <2>8. QED
    BY <2>7 DEF Executor!Next
<1>7. ASSUME NEW w \in Workers, Join(w) PROVE [Executor!Next]_Executor!vars
  <2>1. /\ accepting_' = accepting_ /\ tasks_' = tasks_ /\ current' = current
        /\ future' = future /\ Running' = Running /\ Refused' = Refused
        /\ owner' = owner /\ owner.op # "construct"
    BY <1>7 DEF Join, IInv, Lifecycle, Running, Refused
  <2>2. CASE joinable' = {}
    <3>1. ~accepting_' /\ tasks_' = <<>> /\ Running' = {}
      <4>1. /\ \A v \in Workers : worker'[v] = "exited"
            /\ stopping_' = ~accepting_' /\ accepting_' \in BOOLEAN
        BY <2>1, <2>2 DEF IInv, TypeOK, Lifecycle, JoinedExited
      <4>2. tasks_' = <<>> /\ stopping_'
        BY <4>1, PoolSizeType DEF IInv, ExitsEmpty
      <4>3. ~accepting_'
        BY <4>1, <4>2
      <4>4. QED
        BY <4>1, <4>2, <4>3 DEF Running
    <3>2. Active = {} /\ Active' = {}
      BY <2>1, <3>1 DEF Active
    <3>3. Done' = Done /\ Drained' = TRUE
      BY <2>1, <2>2 DEF Done, Drained
    <3>4. Executor!Drain
      BY <2>1, <3>1, <3>2, <3>3 DEF Executor!Drain, Active, Running, Done, Refused, Drained
    <3>5. QED
      BY <3>4 DEF Executor!Next
  <2>3. CASE joinable' # {}
    <3>1. Drained' = Drained
      BY <1>7, <2>1, <2>3 DEF Join, Drained
    <3>2. QED
      BY <2>1, <3>1, Stutter
  <2>4. QED
    BY <2>2, <2>3
<1>8. ASSUME NEW t \in Tasks, SubmitLocked(t) PROVE [Executor!Next]_Executor!vars
  <2>1. /\ Active' = Active /\ Done' = Done /\ Drained' = Drained /\ accepting_' = accepting_
    BY <1>8 DEF SubmitLocked, Active, Running, Done, Drained
  <2>2. t \notin Queued \cup Active \cup Done \cup Refused
    BY <1>8 DEF SubmitLocked, IInv, TaskAccounting, Accepted, Refused, Active
  <2>3. CASE Reject(t)
    <3>1. tasks_' = tasks_ /\ ~accepting_ /\ Refused' = Refused \cup {t}
      BY <1>8, <2>3 DEF SubmitLocked, Reject, IInv, TypeOK, SubmitState, Refused
    <3>2. Executor!Refuse(t)
      BY <2>1, <2>2, <3>1 DEF Executor!Refuse, Executor!Known, Executor!Pending,
         Queued, Active, Running, Done, Refused, Drained
    <3>3. QED
      BY <3>2 DEF Executor!Next
  <2>4. CASE Enqueue(t)
    <3>1. tasks_' = Append(tasks_, t) /\ accepting_ /\ Refused' = Refused
      BY <1>8, <2>4 DEF SubmitLocked, Enqueue, EnqueueUnchecked, IInv, TypeOK, SubmitState, Refused
    <3>2. Executor!Accept(t)
      BY <2>1, <2>2, <3>1 DEF Executor!Accept, Executor!Known, Executor!Pending,
         Queued, Active, Running, Done, Refused, Drained
    <3>3. QED
      BY <3>2 DEF Executor!Next
  <2>5. QED
    BY <1>8, <2>3, <2>4 DEF SubmitLocked
<1>9. ASSUME NEW t \in Tasks, SubmitNotifies(t) PROVE [Executor!Next]_Executor!vars
  <2>1. /\ accepting_' = accepting_ /\ tasks_' = tasks_ /\ current' = current
        /\ future' = future /\ Running' = Running /\ Refused' = Refused
        /\ Drained' = Drained
    BY <1>9 DEF SubmitNotifies, NotifyOne, Waiting, IInv, TypeOK, WorkerState, SubmitState, Lifecycle, Running, Refused, Drained
  <2>2. QED
    BY <2>1, Stutter
<1>10. ASSUME NEW s \in Stoppers, ShutdownLocked(s) PROVE [Executor!Next]_Executor!vars
  <2>1. /\ accepting_' = FALSE /\ tasks_' = tasks_ /\ Active' = Active /\ Done' = Done
        /\ Refused' = Refused /\ Drained' = Drained
    BY <1>10 DEF ShutdownLocked, RaiseFlags, IInv, Lifecycle, Active, Running, Done, Refused, Drained
  <2>2. Executor!Close
    BY <2>1 DEF Executor!Close, Active, Running, Done, Refused, Drained
  <2>3. QED
    BY <2>2 DEF Executor!Next
<1>11. ASSUME NEW s \in Stoppers, ShutdownNotifies(s) PROVE [Executor!Next]_Executor!vars
  <2>1. /\ accepting_' = accepting_ /\ tasks_' = tasks_ /\ current' = current
        /\ future' = future /\ Running' = Running /\ Refused' = Refused
        /\ Drained' = Drained
    BY <1>11 DEF ShutdownNotifies, NotifyAll, IInv, TypeOK, WorkerState, SubmitState, Lifecycle, Running, Refused, Drained
  <2>2. QED
    BY <2>1, Stutter
<1>12. ASSUME NEW op \in {"wait", "destroy"}, OwnerLocked(op) PROVE [Executor!Next]_Executor!vars
  <2>1. /\ accepting_' = FALSE /\ tasks_' = tasks_ /\ Active' = Active /\ Done' = Done
        /\ Refused' = Refused /\ Drained' = Drained
    BY <1>12 DEF OwnerLocked, RaiseFlags, IInv, Lifecycle, Active, Running, Done, Refused, Drained
  <2>2. Executor!Close
    BY <2>1 DEF Executor!Close, Active, Running, Done, Refused, Drained
  <2>3. QED
    BY <2>2 DEF Executor!Next
<1>13. CASE OwnerNotifies
  <2>1. /\ accepting_' = accepting_ /\ tasks_' = tasks_ /\ current' = current
        /\ future' = future /\ Running' = Running /\ Refused' = Refused
        /\ Drained' = Drained
    BY <1>13 DEF OwnerNotifies, NotifyAll, IInv, TypeOK, WorkerState, SubmitState, Lifecycle, Running, Refused, Drained
  <2>2. QED
    BY <2>1, Stutter
<1>14. CASE OwnerReturns
  <2>1. /\ accepting_' = accepting_ /\ tasks_' = tasks_ /\ current' = current
        /\ future' = future /\ Running' = Running /\ Refused' = Refused
        /\ Drained' = Drained
    BY <1>14 DEF OwnerReturns, IInv, TypeOK, WorkerState, SubmitState, Lifecycle, Running, Refused, Drained
  <2>2. QED
    BY <2>1, Stutter
<1>15. CASE Gone \/ UNCHANGED vars
  <2>1. /\ accepting_' = accepting_ /\ tasks_' = tasks_ /\ current' = current
        /\ future' = future /\ Running' = Running /\ Refused' = Refused
        /\ Drained' = Drained
    BY <1>15 DEF Gone, vars, IInv, TypeOK, WorkerState, SubmitState, Lifecycle, Running, Refused, Drained
  <2>2. QED
    BY <2>1, Stutter
<1>16. QED
  BY <1>1, <1>2, <1>3, <1>4, <1>5, <1>6, <1>7, <1>8, <1>9,
     <1>10, <1>11, <1>12, <1>13, <1>14, <1>15 DEF Next

\* Every behaviour of the pool, however its threads interleave, is one of the executor:
\* tasks start in the order they were accepted, at most PoolSize run at once, nothing is
\* accepted after shutdown(), and the pool is drained only when nothing is left.
THEOREM PoolImplementsExecutor == SafeSpec => ImplementsExecutorSafety
<1>1. SafeSpec => []IInv
  BY Invariance
<1>2. QED
  BY <1>1, InitRefines, StepRefines, PTL
     DEF SafeSpec, ImplementsExecutorSafety, Executor!SafeSpec

=============================================================================
