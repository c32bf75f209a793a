----------------------------- MODULE ThreadPool -----------------------------
(***************************************************************************)
(* thread::ThreadPool: the workers' loop, submit(), shutdown(), wait() and *)
(* the destructor, interleaved at the granularity of their critical        *)
(* sections.  Every access to tasks_, accepting_ and stopping_ is made     *)
(* under mutex_, so a critical section is one step; the notification that  *)
(* follows it is made without the lock and is a step of its own, which is  *)
(* where wake-ups could get lost.  Whoever is blocked in condition_.wait() *)
(* may also wake for no reason.                                            *)
(*                                                                         *)
(* A task is anything submit() packages.  Its future is ready once the     *)
(* packaged_task stored a value or an exception.                           *)
(***************************************************************************)
EXTENDS Naturals, Sequences, FiniteSets

CONSTANTS Tasks,               \* one element per call of submit()
          NoTask,              \* what a worker holds between tasks
          Stoppers,            \* threads that call shutdown(), as often as they like
          WorkerCount,         \* the constructor's argument
          HardwareConcurrency  \* std::thread::hardware_concurrency(); 0 if unknown

ASSUME PoolAssumption == /\ WorkerCount \in Nat
                         /\ HardwareConcurrency \in Nat
                         /\ NoTask \notin Tasks

\* An empty request asks the machine, and never yields an empty pool.
PoolSize == IF WorkerCount # 0 THEN WorkerCount
            ELSE IF HardwareConcurrency = 0 THEN 1 ELSE HardwareConcurrency

Workers == 1..PoolSize

VARIABLES
  tasks_,      \* the queue
  accepting_,  \* may submit() enqueue?
  stopping_,   \* has shutdown() been called?
  worker,      \* where each worker thread is in worker_loop()
  current,     \* the task each worker has taken off the queue
  joinable,    \* the threads of workers_ that nobody has joined
  submit,      \* how far the submit() call for each task has come
  future,      \* what the future of each task holds
  stopper,     \* how far each thread's shutdown() call has come
  owner        \* the thread that constructs the pool, may wait() and destroys it

vars == <<tasks_, accepting_, stopping_, worker, current, joinable,
          submit, future, stopper, owner>>

WorkerState == {"unborn",    \* the constructor has not created the thread yet
                "checking",  \* about to evaluate the wait predicate under the lock
                "waiting",   \* blocked in condition_.wait()
                "running",   \* inside task()
                "exited"}    \* returned from worker_loop()
SubmitState == {"idle", "notify", "returned", "threw"}
FutureState == {"unready", "value", "exception"}

OwnerState == [op : {"construct", "none", "wait", "destroy"},
               at : {"spawn", "idle", "notify", "join", "gone"}]

Init == /\ tasks_ = <<>>
        /\ accepting_ = TRUE
        /\ stopping_ = FALSE
        /\ worker = [w \in Workers |-> "unborn"]
        /\ current = [w \in Workers |-> NoTask]
        /\ joinable = {}
        /\ submit = [t \in Tasks |-> "idle"]
        /\ future = [t \in Tasks |-> "unready"]
        /\ stopper = [s \in Stoppers |-> "idle"]
        /\ owner = [op |-> "construct", at |-> "spawn"]

-----------------------------------------------------------------------------

Waiting == {w \in Workers : worker[w] = "waiting"}

\* The pool may be used by others: built, and its destruction has not begun.
Usable == owner.op \in {"none", "wait"}

\* Variant: notifies only when the queue has just become non-empty.
NotifyOneIfFirst == IF Len(tasks_) = 1
                    THEN \E w \in Workers : worker' = [worker EXCEPT ![w] =
                           IF @ = "waiting" THEN "checking" ELSE @]
                    ELSE UNCHANGED worker

NotifyOne == \/ Waiting = {} /\ UNCHANGED worker
             \/ \E w \in Waiting : worker' = [worker EXCEPT ![w] = "checking"]

\* Variant: shutdown() calls notify_one().
NotifyAllWakesOne == NotifyOne

NotifyAll == worker' = [w \in Workers |-> IF worker[w] = "waiting" THEN "checking"
                                          ELSE worker[w]]

-----------------------------------------------------------------------------
(* The constructor creates the threads in order; each runs at once.        *)

Spawn(w) == /\ owner.at = "spawn"
            /\ worker[w] = "unborn"
            /\ \A v \in 1..(w - 1) : worker[v] # "unborn"
            /\ worker' = [worker EXCEPT ![w] = "checking"]
            /\ joinable' = joinable \cup {w}
            /\ owner' = IF w = PoolSize THEN [op |-> "none", at |-> "idle"] ELSE owner
            /\ UNCHANGED <<tasks_, accepting_, stopping_, current, submit, future, stopper>>

-----------------------------------------------------------------------------
(* submit(): enqueue or throw under the lock, then notify without it.      *)

\* Also the variant of Enqueue that forgets to test accepting_.
EnqueueUnchecked(t) ==
  /\ tasks_' = Append(tasks_, t)
  /\ submit' = [submit EXCEPT ![t] = "notify"]

Reject(t) == /\ ~accepting_
             /\ submit' = [submit EXCEPT ![t] = "threw"]
             /\ UNCHANGED tasks_

Enqueue(t) == accepting_ /\ EnqueueUnchecked(t)

SubmitLocked(t) == /\ Usable
                   /\ submit[t] = "idle"
                   /\ Enqueue(t) \/ Reject(t)
                   /\ UNCHANGED <<accepting_, stopping_, worker, current, joinable,
                                  future, stopper, owner>>

SubmitNotifies(t) == /\ submit[t] = "notify"
                     /\ submit' = [submit EXCEPT ![t] = "returned"]
                     /\ NotifyOne
                     /\ UNCHANGED <<tasks_, accepting_, stopping_, current, joinable,
                                    future, stopper, owner>>

-----------------------------------------------------------------------------
(* worker_loop().  The predicate is evaluated on the way into wait() and   *)
(* again after every wake-up; when it fails, wait() releases the lock and  *)
(* blocks in one step.                                                     *)

\* Variant: runs the front of the queue and forgets to pop it.
TakeTaskNoPop(w) == /\ worker[w] = "checking"
                    /\ tasks_ # <<>>
                    /\ current' = [current EXCEPT ![w] = Head(tasks_)]
                    /\ worker' = [worker EXCEPT ![w] = "running"]
                    /\ UNCHANGED <<tasks_, accepting_, stopping_, joinable, submit, future,
                                   stopper, owner>>

\* Variant: a stack in the queue's place.
TakeTaskLast(w) == /\ worker[w] = "checking"
                   /\ tasks_ # <<>>
                   /\ current' = [current EXCEPT ![w] = tasks_[Len(tasks_)]]
                   /\ tasks_' = SubSeq(tasks_, 1, Len(tasks_) - 1)
                   /\ worker' = [worker EXCEPT ![w] = "running"]
                   /\ UNCHANGED <<accepting_, stopping_, joinable, submit, future,
                                  stopper, owner>>

TakeTask(w) == /\ worker[w] = "checking"
               /\ tasks_ # <<>>
               /\ current' = [current EXCEPT ![w] = Head(tasks_)]
               /\ tasks_' = Tail(tasks_)
               /\ worker' = [worker EXCEPT ![w] = "running"]
               /\ UNCHANGED <<accepting_, stopping_, joinable, submit, future, stopper, owner>>

\* Variant: leaves as soon as the pool stops, whatever is queued.
ExitAtOnce(w) == /\ worker[w] = "checking"
                 /\ stopping_
                 /\ worker' = [worker EXCEPT ![w] = "exited"]
                 /\ UNCHANGED <<tasks_, accepting_, stopping_, current, joinable,
                                submit, future, stopper, owner>>

Exit(w) == /\ worker[w] = "checking"
           /\ tasks_ = <<>>
           /\ stopping_
           /\ worker' = [worker EXCEPT ![w] = "exited"]
           /\ UNCHANGED <<tasks_, accepting_, stopping_, current, joinable,
                          submit, future, stopper, owner>>

Block(w) == /\ worker[w] = "checking"
            /\ tasks_ = <<>>
            /\ ~stopping_
            /\ worker' = [worker EXCEPT ![w] = "waiting"]
            /\ UNCHANGED <<tasks_, accepting_, stopping_, current, joinable,
                           submit, future, stopper, owner>>

WakeSpuriously(w) == /\ worker[w] = "waiting"
                     /\ worker' = [worker EXCEPT ![w] = "checking"]
                     /\ UNCHANGED <<tasks_, accepting_, stopping_, current, joinable,
                                    submit, future, stopper, owner>>

\* The packaged_task catches what the callable throws, so the worker survives it.
FinishTask(w) == /\ worker[w] = "running"
                 /\ \E outcome \in {"value", "exception"} :
                      future' = [future EXCEPT ![current[w]] = outcome]
                 /\ current' = [current EXCEPT ![w] = NoTask]
                 /\ worker' = [worker EXCEPT ![w] = "checking"]
                 /\ UNCHANGED <<tasks_, accepting_, stopping_, joinable, submit, stopper, owner>>

CheckQueue(w) == TakeTask(w) \/ Exit(w) \/ Block(w)

-----------------------------------------------------------------------------
(* shutdown(): flags under the lock, then notify_all() without it.         *)

\* Variant: stops the workers and forgets to close the queue.
RaiseStoppingOnly == stopping_' = TRUE /\ UNCHANGED accepting_

RaiseFlags == accepting_' = FALSE /\ stopping_' = TRUE

ShutdownLocked(s) == /\ Usable
                     /\ stopper[s] = "idle"
                     /\ RaiseFlags
                     /\ stopper' = [stopper EXCEPT ![s] = "notify"]
                     /\ UNCHANGED <<tasks_, worker, current, joinable, submit, future, owner>>

ShutdownNotifies(s) == /\ stopper[s] = "notify"
                       /\ NotifyAll
                       /\ stopper' = [stopper EXCEPT ![s] = "idle"]
                       /\ UNCHANGED <<tasks_, accepting_, stopping_, current, joinable,
                                      submit, future, owner>>

-----------------------------------------------------------------------------
(* wait() and the destructor: shutdown(), then join every worker in order. *)
(* Only the owner calls them; it destroys the pool when no other call is   *)
(* in progress, as the lifetime of a C++ object demands.                   *)

NoCallInProgress == /\ \A t \in Tasks : submit[t] # "notify"
                    /\ \A s \in Stoppers : stopper[s] # "notify"

OwnerLocked(op) == /\ owner.at = "idle"
                   /\ op = "destroy" => NoCallInProgress
                   /\ RaiseFlags
                   /\ owner' = [op |-> op, at |-> "notify"]
                   /\ UNCHANGED <<tasks_, worker, current, joinable, submit, future, stopper>>

OwnerNotifies == /\ owner.at = "notify"
                 /\ NotifyAll
                 /\ owner' = [owner EXCEPT !.at = "join"]
                 /\ UNCHANGED <<tasks_, accepting_, stopping_, current, joinable,
                                submit, future, stopper>>

Join(w) == /\ owner.at = "join"
           /\ w \in joinable
           /\ \A v \in joinable : w <= v
           /\ worker[w] = "exited"
           /\ joinable' = joinable \ {w}
           /\ UNCHANGED <<tasks_, accepting_, stopping_, worker, current,
                          submit, future, stopper, owner>>

OwnerReturns == /\ owner.at = "join"
                /\ joinable = {}
                /\ owner' = [owner EXCEPT !.at = IF owner.op = "wait" THEN "idle" ELSE "gone"]
                /\ UNCHANGED <<tasks_, accepting_, stopping_, worker, current, joinable,
                               submit, future, stopper>>

\* The pool is destroyed; nothing happens any more.
Gone == owner.at = "gone" /\ UNCHANGED vars

-----------------------------------------------------------------------------

Next == \/ \E w \in Workers : \/ Spawn(w) \/ TakeTask(w) \/ Exit(w) \/ Block(w)
                              \/ WakeSpuriously(w) \/ FinishTask(w) \/ Join(w)
        \/ \E t \in Tasks : SubmitLocked(t) \/ SubmitNotifies(t)
        \/ \E s \in Stoppers : ShutdownLocked(s) \/ ShutdownNotifies(s)
        \/ \E op \in {"wait", "destroy"} : OwnerLocked(op)
        \/ OwnerNotifies
        \/ OwnerReturns
        \/ Gone

SafeSpec == Init /\ [][Next]_vars

(***************************************************************************)
(* A thread that can run does run: a call that has begun goes on, and a    *)
(* worker that is not blocked gets the lock.  Nobody is obliged to call    *)
(* submit(), shutdown() or wait(), and a wake-up without a reason need not *)
(* come.                                                                   *)
(***************************************************************************)
ThreadFairness == /\ \A w \in Workers : /\ WF_vars(Spawn(w))
                                        /\ WF_vars(CheckQueue(w))
                                        /\ WF_vars(Join(w))
                  /\ \A t \in Tasks : WF_vars(SubmitNotifies(t))
                  /\ \A s \in Stoppers : WF_vars(ShutdownNotifies(s))
                  /\ WF_vars(OwnerNotifies)
                  /\ WF_vars(OwnerReturns)

\* Every callable returns or throws: true of the pool's users, not of the pool.
TasksEnd == \A w \in Workers : WF_vars(FinishTask(w))

FairSpec == SafeSpec /\ ThreadFairness
Spec     == FairSpec /\ TasksEnd

-----------------------------------------------------------------------------
(* The executor the pool implements.                                       *)

Executor == INSTANCE TaskExecutor WITH
  Capacity <- PoolSize,
  open     <- accepting_,
  pending  <- tasks_,
  active   <- {current[w] : w \in {v \in Workers : worker[v] = "running"}},
  finished <- {t \in Tasks : future[t] # "unready"},
  refused  <- {t \in Tasks : submit[t] = "threw"},
  drained  <- owner.op # "construct" /\ joinable = {}

-----------------------------------------------------------------------------
(* Properties.                                                             *)

Accepted == {t \in Tasks : submit[t] \in {"notify", "returned"}}
Queued   == {tasks_[i] : i \in DOMAIN tasks_}
Running  == {w \in Workers : worker[w] = "running"}
Checking == {w \in Workers : worker[w] = "checking"}
Done     == {t \in Tasks : future[t] # "unready"}

\* The types of the variables; a worker holds a task exactly while it runs one.
TypeOK == /\ tasks_ \in Seq(Tasks)
          /\ accepting_ \in BOOLEAN
          /\ stopping_ = ~accepting_
          /\ worker \in [Workers -> WorkerState]
          /\ current \in [Workers -> Tasks \cup {NoTask}]
          /\ \A w \in Workers : current[w] # NoTask <=> w \in Running
          /\ joinable \subseteq Workers
          /\ submit \in [Tasks -> SubmitState]
          /\ future \in [Tasks -> FutureState]
          /\ stopper \in [Stoppers -> {"idle", "notify"}]
          /\ owner \in OwnerState

(***************************************************************************)
(* A task submit() accepted is in exactly one place, once: in the queue,   *)
(* with one worker, or done; a task it did not accept is in none.  So none *)
(* is lost or run twice, whoever stops the pool meanwhile (worker_loop(),  *)
(* submit()).                                                              *)
(***************************************************************************)
TaskAccounting ==
  /\ \A i, j \in DOMAIN tasks_ : tasks_[i] = tasks_[j] => i = j
  /\ \A w, v \in Running : current[w] = current[v] => w = v
  /\ Queued \cup {current[w] : w \in Running} \cup Done = Accepted
  /\ Queued \cap Done = {}
  /\ \A w \in Running : current[w] \notin Queued \cup Done

(***************************************************************************)
(* While a worker sleeps, each queued task is covered by a notification    *)
(* still to be sent or by a worker about to look at the queue: notify_one()*)
(* after the lock is released never leaves work to a sleeping pool.        *)
(***************************************************************************)
Notifying == {t \in Tasks : submit[t] = "notify"}

WorkConserving ==
  \/ Waiting = {}
  \/ Len(tasks_) <= Cardinality(Notifying) + Cardinality(Checking)

(***************************************************************************)
(* Once the pool is stopping, a sleeping worker still has a notify_all()   *)
(* ahead of it: joining the workers can not hang on one that missed it.    *)
(***************************************************************************)
ShutdownWakesAll ==
  stopping_ /\ Waiting # {} => \/ \E s \in Stoppers : stopper[s] = "notify"
                               \/ owner.at = "notify"

\* A worker leaves worker_loop() only from a stopping pool with an empty queue,
\* and whatever is submitted afterwards, the queue stays empty.
ExitsEmpty == \A w \in Workers : worker[w] = "exited" => stopping_ /\ tasks_ = <<>>

\* When wait() or the destructor has returned, every future submit() ever gave
\* out is ready, and no worker runs.
Returned == owner.at = "gone" \/ (owner.op = "wait" /\ owner.at = "idle")

WaitDrains == Returned => Accepted = Done /\ \A w \in Workers : worker[w] = "exited"

(***************************************************************************)
(* What the proofs add to make the invariants inductive: how the pool's    *)
(* life goes on (nobody uses it before it is built, no worker is unborn    *)
(* afterwards, it is stopping before it is joined), what a join has seen,  *)
(* and that finitely many submit() calls are in progress.                  *)
(***************************************************************************)
Lifecycle ==
  /\ owner.at = "spawn" <=> owner.op = "construct"
  /\ owner.at = "spawn" => /\ accepting_
                           /\ tasks_ = <<>>
                           /\ \A t \in Tasks : submit[t] = "idle"
  /\ owner.at # "spawn" => \A w \in Workers : worker[w] # "unborn"
  /\ owner.op \in {"wait", "destroy"} => stopping_
  /\ owner.op = "none" => owner.at = "idle"
  /\ Returned => joinable = {}

JoinedExited == \A w \in Workers \ joinable : worker[w] \in {"unborn", "exited"}

IInv == /\ TypeOK
        /\ Lifecycle
        /\ JoinedExited
        /\ ExitsEmpty
        /\ TaskAccounting
        /\ ShutdownWakesAll
        /\ IsFiniteSet(Notifying)
        /\ WorkConserving

\* Every step of the pool is a step of the executor or invisible to its callers:
\* first in, first out, at most PoolSize at once, nothing accepted after closing.
ImplementsExecutorSafety == Executor!SafeSpec

\* ... and a task is not left in the queue while a worker could run it.
ImplementsExecutor == Executor!Spec

\* Every task submit() accepts gets a ready future, also when shutdown() and the
\* destructor race with it.
AcceptedTasksComplete == \A t \in Tasks : (t \in Accepted) ~> (t \in Done)

\* wait() and the destructor come back if the tasks end.
OwnerCallsReturn == (owner.at = "notify") ~> (owner.at \in {"idle", "gone"})

=============================================================================
