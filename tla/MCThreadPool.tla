---------------------------- MODULE MCThreadPool ----------------------------
(* Bounds for model-checking ThreadPool.                                   *)
EXTENDS ThreadPool, TLC

CONSTANTS t1, t2, t3, s1, s2, noTask

ThreeTasks  == {t1, t2, t3}
TwoTasks    == {t1, t2}
OneStopper  == {s1}
TwoStoppers == {s1, s2}

\* Tasks are interchangeable, and so are the threads that call shutdown().
\* Workers are not: the owner joins them in order.
Symmetry == Permutations(Tasks) \cup Permutations(Stoppers)

=============================================================================
