------------------------------ MODULE Executor ------------------------------
(***************************************************************************)
(* The kernel's cooperative single-hart executor                           *)
(* (src/crates/kernel/src/executor/mod.rs): the bounded TASK_QUEUE,         *)
(* spawn_with's schedule closure (on-wake action, then push_task),          *)
(* run_until_shutdown's drain / SHUTDOWN check / hart_suspend loop, and    *)
(* the async_task state of each task that the closure is called from.      *)
(*                                                                         *)
(* A poll (Runnable::run) is split in two steps, RunBegin (fetch_task and  *)
(* the task becomes running) and RunEnd (the future returns).  Inside one  *)
(* poll a task may wake or spawn one other task, set SHUTDOWN, and wake    *)
(* itself (yield_now); async_task defers a wake of a running task until    *)
(* the poll returns and then schedules it.  Interrupt handlers run only    *)
(* while the hart is suspended in hart_suspend; there they may wake a      *)
(* task.  push_task on a full queue panics ("Out of task limit"); the    *)
(* spec makes that the contract (spec 3: overflow is fatal).             *)
(***************************************************************************)
EXTENDS Integers, Sequences, FiniteSets

CONSTANTS
    Tasks,       \* the futures the kernel spawns
    InitTask,    \* the task scheduled before run_until_shutdown starts
    TASK_LIMIT,  \* capacity of TASK_QUEUE
    MaxPolls     \* bound: a task completes at the latest at its MaxPolls-th poll

ASSUME /\ InitTask \in Tasks
       /\ TASK_LIMIT \in Nat \ {0}
       /\ MaxPolls \in Nat \ {0}

\* async_task's view of a task: not yet spawned, pending and not scheduled,
\* scheduled (its Runnable is in the queue), being polled, completed.
TaskState == {"Unspawned", "Idle", "Scheduled", "Running", "Done"}

VARIABLES
    queue,      \* TASK_QUEUE, front first
    tstate,     \* tstate[t]: the async_task state of t
    polls,      \* polls[t]: how many times t has been polled
    shutdown,   \* SHUTDOWN
    hart,       \* "Loop" (draining), "Suspended" (in hart_suspend), "Returned"
    overflow    \* push_task found the queue full: the kernel panicked

vars == << queue, tstate, polls, shutdown, hart, overflow >>

\* Mutant: TASK_QUEUE built one slot larger, ArrayQueue::new(TASK_LIMIT + 1).
CapacityPlusOne == TASK_LIMIT + 1

\* TaskQueue::new: ArrayQueue::new(TASK_LIMIT).
Capacity == TASK_LIMIT

(***************************************************************************)
(* The schedule closure of spawn_with: action() then TASK_QUEUE.push_task, *)
(* for each task of ts in order; push_task's expect("Out of task limit")   *)
(* panics on a full queue.  action() marks a user thread Ready; it has no  *)
(* state in this model.                                                    *)
(***************************************************************************)
RECURSIVE PushAll(_, _)
PushAll(q, ts) ==
    IF ts = << >> THEN [queue |-> q, full |-> FALSE]
    ELSE IF Len(q) >= Capacity THEN [queue |-> q, full |-> TRUE]
    ELSE PushAll(Append(q, Head(ts)), Tail(ts))

\* Set the queue after pushing ts, or panic on overflow.
Schedule(ts) ==
    LET r == PushAll(queue, ts)
    IN  /\ queue' = r.queue
        /\ overflow' = r.full

\* The hart is in run_until_shutdown's loop itself, not inside task.run().
NoneRunning == \A t \in Tasks : tstate[t] # "Running"

Init ==
    /\ queue = << InitTask >>
    /\ tstate = [t \in Tasks |-> IF t = InitTask THEN "Scheduled" ELSE "Unspawned"]
    /\ polls = [t \in Tasks |-> 0]
    /\ shutdown = FALSE
    /\ hart = "Loop"
    /\ overflow = FALSE

(***************************************************************************)
(* Actions                                                                 *)
(***************************************************************************)

\* run_until_shutdown: fetch_task returns Some(task); task.run() starts.
RunBegin ==
    /\ ~overflow
    /\ hart = "Loop"
    /\ NoneRunning
    /\ queue # << >>
    /\ tstate[Head(queue)] = "Scheduled"
    /\ tstate' = [tstate EXCEPT ![Head(queue)] = "Running"]
    /\ queue' = Tail(queue)
    /\ UNCHANGED << polls, shutdown, hart, overflow >>

\* What a poll of t does to another task u, as async_task defines it (the
\* crate is not part of this repository; spec 3 and 8: exactly one
\* Runnable per wake, a double wake collapses): waker.wake() of a pending
\* task, or spawn_with + schedule() of a new one, hands its Runnable to the
\* schedule closure; a wake of a scheduled, running or completed task is
\* absorbed.
Effect(u) ==
    CASE u = "none"                 -> [state |-> tstate, push |-> << >>]
      [] tstate[u] \in {"Idle", "Unspawned"}
                                     -> [state |-> [tstate EXCEPT ![u] = "Scheduled"],
                                         push  |-> << u >>]
      [] OTHER                       -> [state |-> tstate, push |-> << >>]

\* task.run() returns: the future completed (ready) or returned Pending,
\* having woken or spawned u, possibly set SHUTDOWN, and possibly woken
\* itself (yield_now), which async_task turns into a schedule after the
\* poll.  A Pending task not woken waits, Idle, for a wake.
RunEnd(t) ==
    /\ ~overflow
    /\ tstate[t] = "Running"
    /\ \E u \in (Tasks \ {t}) \cup {"none"}, ready \in BOOLEAN,
          selfWake \in BOOLEAN, setShutdown \in BOOLEAN :
        /\ ~ready => polls[t] + 1 < MaxPolls
        /\ ready => ~selfWake
        /\ LET e    == Effect(u)
               mine == IF ready THEN "Done"
                       ELSE IF selfWake THEN "Scheduled" ELSE "Idle"
           IN  /\ tstate' = [e.state EXCEPT ![t] = mine]
               /\ Schedule(e.push \o (IF selfWake THEN << t >> ELSE << >>))
        /\ polls' = [polls EXCEPT ![t] = @ + 1]
        /\ shutdown' = (shutdown \/ setShutdown)
    /\ UNCHANGED hart

\* Mutant: SHUTDOWN is tested before the queue is drained.
QueueEmptyShutdownFirst ==
    /\ ~overflow
    /\ hart = "Loop"
    /\ NoneRunning
    /\ queue = << >> \/ shutdown
    /\ hart' = IF shutdown THEN "Returned" ELSE "Suspended"
    /\ UNCHANGED << queue, tstate, polls, shutdown, overflow >>

\* Mutant: the loop suspends without testing SHUTDOWN.
QueueEmptyNoShutdown ==
    /\ ~overflow
    /\ hart = "Loop"
    /\ NoneRunning
    /\ queue = << >>
    /\ hart' = "Suspended"
    /\ UNCHANGED << queue, tstate, polls, shutdown, overflow >>

\* run_until_shutdown with an empty queue: break if SHUTDOWN is set, else
\* sbi hart_suspend until the next interrupt.
QueueEmpty ==
    /\ ~overflow
    /\ hart = "Loop"
    /\ NoneRunning
    /\ queue = << >>
    /\ hart' = IF shutdown THEN "Returned" ELSE "Suspended"
    /\ UNCHANGED << queue, tstate, polls, shutdown, overflow >>

\* An interrupt ends hart_suspend; its handler may wake a pending task.
Interrupt ==
    /\ hart = "Suspended"
    /\ \E u \in {t \in Tasks : tstate[t] = "Idle"} \cup {"none"} :
          LET e == Effect(u)
          IN  /\ tstate' = e.state
              /\ Schedule(e.push)
    /\ hart' = "Loop"
    /\ UNCHANGED << polls, shutdown >>

\* run_until_shutdown has returned, or the kernel panicked: nothing runs.
Halted ==
    /\ hart = "Returned" \/ overflow
    /\ UNCHANGED vars

Next ==
    \/ RunBegin
    \/ \E t \in Tasks : RunEnd(t)
    \/ QueueEmpty
    \/ Interrupt
    \/ Halted

\* The hart's loop always takes its next step when it can; interrupts come
\* with no guarantee, so Interrupt has no fairness.
Fairness ==
    /\ WF_vars(RunBegin)
    /\ \A t \in Tasks : WF_vars(RunEnd(t))
    /\ WF_vars(QueueEmpty)

Spec == Init /\ [][Next]_vars /\ Fairness

(***************************************************************************)
(* Properties                                                              *)
(***************************************************************************)

TypeOK ==
    /\ queue \in Seq(Tasks)
    /\ Len(queue) <= TASK_LIMIT
    /\ tstate \in [Tasks -> TaskState]
    /\ polls \in [Tasks -> 0 .. MaxPolls]
    /\ shutdown \in BOOLEAN
    /\ hart \in {"Loop", "Suspended", "Returned"}
    /\ overflow \in BOOLEAN

\* A woken task is polled again: every task that is scheduled is
\* eventually fetched from TASK_QUEUE and run, whatever the other tasks
\* do, with no interrupt needed (yield_now returns control to the queue
\* and comes back, spec 8.9), unless a push_task on the full queue has
\* panicked the kernel.
ScheduledTaskRuns ==
    \A t \in Tasks : tstate[t] = "Scheduled" ~> (tstate[t] = "Running" \/ overflow)

\* Once SHUTDOWN is set, run_until_shutdown drains the queue and returns
\* (spec 6, scenario F), without waiting for an interrupt, unless the
\* kernel has panicked on a full queue.
ShutdownReturns ==
    shutdown ~> (hart = "Returned" \/ overflow)

=============================================================================
