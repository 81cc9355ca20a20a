---------------------------- MODULE MC_Executor ----------------------------
(***************************************************************************)
(* Model-checking instance of Executor: three tasks, a queue one slot    *)
(* shorter than the number of tasks, so that a wake can find TASK_QUEUE   *)
(* full and panic, and up to three polls per task, so that a task can     *)
(* yield, wait, be woken and complete while others do the same.           *)
(***************************************************************************)
EXTENDS Executor

MC_Tasks == {"t1", "t2", "t3"}
MC_InitTask == "t1"
MC_TASK_LIMIT == 2
MC_MaxPolls == 3

=============================================================================
