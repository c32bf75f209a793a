---------------------------- MODULE TaskExecutor ----------------------------
(***************************************************************************)
(* What thread::ThreadPool promises its callers, with no worker, lock or   *)
(* condition variable in sight: an executor that is open until it is       *)
(* closed, starts accepted tasks in the order they were accepted, runs at  *)
(* most Capacity of them at once, never drops one it accepted, and is      *)
(* drained only when nothing is left.  ThreadPool implements this module;  *)
(* Server uses it in the pool's place.                                     *)
(***************************************************************************)
EXTENDS Naturals, Sequences, FiniteSets

CONSTANTS Tasks,      \* the callables handed to submit()
          Capacity    \* how many tasks run at once: the worker count, 1 or more

VARIABLES open,       \* are new tasks accepted?
          pending,    \* accepted and not started, oldest first
          active,     \* started and not finished
          finished,   \* ended, by a value or by an exception
          refused,    \* submitted after the executor closed
          drained     \* closed, and every accepted task has ended

vars == <<open, pending, active, finished, refused, drained>>

Init == /\ open = TRUE
        /\ pending = <<>>
        /\ active = {}
        /\ finished = {}
        /\ refused = {}
        /\ drained = FALSE

Pending == {pending[i] : i \in DOMAIN pending}
Known   == Pending \cup active \cup finished \cup refused

-----------------------------------------------------------------------------

Accept(t) == /\ open
             /\ t \notin Known
             /\ pending' = Append(pending, t)
             /\ UNCHANGED <<open, active, finished, refused, drained>>

Refuse(t) == /\ ~open
             /\ t \notin Known
             /\ refused' = refused \cup {t}
             /\ UNCHANGED <<open, pending, active, finished, drained>>

Close == /\ open' = FALSE
         /\ UNCHANGED <<pending, active, finished, refused, drained>>

StartNext == /\ pending # <<>>
             /\ Cardinality(active) < Capacity
             /\ active' = active \cup {Head(pending)}
             /\ pending' = Tail(pending)
             /\ UNCHANGED <<open, finished, refused, drained>>

Finish(t) == /\ t \in active
             /\ active' = active \ {t}
             /\ finished' = finished \cup {t}
             /\ UNCHANGED <<open, pending, refused, drained>>

Drain == /\ ~open
         /\ pending = <<>>
         /\ active = {}
         /\ drained' = TRUE
         /\ UNCHANGED <<open, pending, active, finished, refused>>

Next == \/ \E t \in Tasks : Accept(t) \/ Refuse(t) \/ Finish(t)
        \/ Close
        \/ StartNext
        \/ Drain

(***************************************************************************)
(* An executor keeps starting what it holds while it has room.  Whether a  *)
(* started task ends is the task's business, so Finish is not fair here.   *)
(***************************************************************************)
SafeSpec == Init /\ [][Next]_vars
Spec     == SafeSpec /\ WF_vars(StartNext)

=============================================================================
