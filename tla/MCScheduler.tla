----------------------------- MODULE MCScheduler -----------------------------
(* The scheduler with a handful of rows, and what a nested run_task may leave *)
(* on the free lists.                                                         *)
EXTENDS Scheduler

NoNesting   == {}
\* A cleanup task that opens no scope recycles nothing.
EmptyLists  == {<<(<<>>), (<<>>)>>}
\* One that runs one scope recycles its body's row 1 and the scope's row 1.
OneScopeRun == {<<(<<1>>), (<<1>>)>>}
=============================================================================
