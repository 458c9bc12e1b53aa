----------------------------- MODULE ThreadPool -----------------------------
(***************************************************************************)
(* The thread pool of UNP/pthread/pthread_pool (threadpool.c): callers add *)
(* tasks, threads wait for them for at most two seconds, and destroy waits *)
(* for every thread to leave.                                              *)
(*                                                                         *)
(* The pool has one mutex and one condition variable, on which threads and *)
(* destroyers wait together.  A critical section is one step; between two  *)
(* of them everything interleaves: the unlocked test of threadpool_destroy,*)
(* the run of a task, a wait that was signalled or timed out but has not   *)
(* got the mutex back.  A signal wakes one waiter, whichever it is; a wait *)
(* may also return for no reason.                                          *)
(***************************************************************************)
EXTENDS Integers, Sequences, FiniteSets

CONSTANTS
  Threads,       \* thread identities pthread_create hands out (and reuses)
  Destroyers,    \* callers of threadpool_destroy
  MaxThreads,    \* max_threads
  MaxTasks       \* bound: tasks added in a behaviour

NoTask == 0

ASSUME ThreadsAssumption == IsFiniteSet(Threads) /\ IsFiniteSet(Destroyers)
ASSUME BoundsAssumption  == /\ MaxThreads \in Nat \ {0} /\ MaxTasks \in Nat
                            /\ MaxThreads <= Cardinality(Threads)

VARIABLES
  queue,    \* the list from first to last
  counter,  \* pool->counter
  idle,     \* pool->idle
  quit,     \* pool->quit
  tpc,      \* where each thread is, "none" if it does not exist
  late,     \* each thread's local "timeout"
  task,     \* the task each thread runs, or NoTask
  dpc,      \* where each destroyer is
  added,    \* number of tasks added; a task is its number
  finished, \* tasks run to their end
  failed    \* how often pthread_create failed

poolVars   == <<queue, counter, idle, quit>>
threadVars == <<tpc, late, task>>
vars == <<poolVars, threadVars, dpc, added, finished, failed>>

IdlePoints   == {"wait", "woken", "timedout"}
ThreadPoints == IdlePoints \cup {"none", "start", "run", "ran"}
CallPoints   == {"out", "skipped", "lock", "wait", "woken", "returned"}

Live    == {t \in Threads : tpc[t] # "none"}
Waiting == {t \in Threads : tpc[t] = "wait"}
Idle    == {t \in Threads : tpc[t] \in IdlePoints}
Destroyed == \E d \in Destroyers : dpc[d] = "returned"

\* threadpool_init
Init ==
  /\ queue = <<>> /\ counter = 0 /\ idle = 0 /\ quit = FALSE
  /\ tpc = [t \in Threads |-> "none"]
  /\ late = [t \in Threads |-> FALSE]
  /\ task = [t \in Threads |-> NoTask]
  /\ dpc = [d \in Destroyers |-> "out"]
  /\ added = 0 /\ finished = {} /\ failed = 0

-----------------------------------------------------------------------------
(* The condition variable. *)

\* condition_signal, with the threads at tp: one waiter leaves the wait.
Signal(tp) ==
  \/ /\ \E t \in Threads : tp[t] = "wait" /\ tpc' = [tp EXCEPT ![t] = "woken"]
     /\ UNCHANGED dpc
  \/ /\ \E d \in Destroyers : dpc[d] = "wait" /\ dpc' = [dpc EXCEPT ![d] = "woken"]
     /\ tpc' = tp
  \/ /\ \A t \in Threads : tp[t] # "wait"
     /\ \A d \in Destroyers : dpc[d] # "wait"
     /\ tpc' = tp /\ UNCHANGED dpc

\* A thread's wait reaches its two seconds, or returns without a signal.
TimeOut(t) ==
  /\ tpc[t] = "wait"
  /\ tpc' = [tpc EXCEPT ![t] = "timedout"]
  /\ UNCHANGED <<poolVars, late, task, dpc, added, finished, failed>>

Spurious ==
  /\ \/ \E t \in Waiting : tpc' = [tpc EXCEPT ![t] = "woken"] /\ UNCHANGED dpc
     \/ \E d \in Destroyers : /\ dpc[d] = "wait"
                              /\ dpc' = [dpc EXCEPT ![d] = "woken"]
                              /\ UNCHANGED tpc
  /\ UNCHANGED <<poolVars, late, task, added, finished, failed>>

-----------------------------------------------------------------------------
(* thread_routine.                                                         *)

\* The two tests at the end of the loop: leave, or turn once more.
Decide_NoSignal(t, timedOut) ==
  /\ IF queue = <<>> /\ (quit \/ timedOut)
       THEN counter' = counter - 1 /\ tpc' = [tpc EXCEPT ![t] = "none"]
       ELSE UNCHANGED counter /\ tpc' = [tpc EXCEPT ![t] = "start"]
  /\ UNCHANGED <<queue, quit, late, dpc>>

Decide_Uncounted(t, timedOut) ==
  /\ IF queue = <<>> /\ (quit \/ timedOut)
       THEN /\ counter' = IF quit THEN counter - 1 ELSE counter
            /\ Signal([tpc EXCEPT ![t] = "none"])
       ELSE /\ tpc' = [tpc EXCEPT ![t] = "start"]
            /\ UNCHANGED <<counter, dpc>>
  /\ UNCHANGED <<queue, quit, late>>

Decide_LateLeaves(t, timedOut) ==
  /\ IF (quit /\ queue = <<>>) \/ timedOut
       THEN counter' = counter - 1 /\ Signal([tpc EXCEPT ![t] = "none"])
       ELSE /\ tpc' = [tpc EXCEPT ![t] = "start"]
            /\ UNCHANGED <<counter, dpc>>
  /\ UNCHANGED <<queue, quit, late>>

Decide(t, timedOut) ==
  /\ \/ /\ quit /\ queue = <<>>
        /\ counter' = counter - 1
        /\ IF counter = 1 THEN Signal([tpc EXCEPT ![t] = "none"])
           ELSE tpc' = [tpc EXCEPT ![t] = "none"] /\ UNCHANGED dpc
     \/ /\ ~quit /\ timedOut /\ queue = <<>>
        /\ counter' = counter - 1
        /\ tpc' = [tpc EXCEPT ![t] = "none"]
        /\ UNCHANGED dpc
     \/ /\ queue # <<>> \/ ~(quit \/ timedOut)
        /\ tpc' = [tpc EXCEPT ![t] = "start"]
        /\ UNCHANGED <<counter, dpc>>
  /\ UNCHANGED <<queue, quit, late>>

\* Past the wait: the head of the queue is taken, or there is none.
Past(t, timedOut) ==
  \/ /\ queue # <<>>
     /\ queue' = Tail(queue)
     /\ task' = [task EXCEPT ![t] = Head(queue)]
     /\ late' = [late EXCEPT ![t] = timedOut]
     /\ tpc' = [tpc EXCEPT ![t] = "run"]
     /\ UNCHANGED <<counter, quit, dpc>>
  \/ /\ queue = <<>>
     /\ Decide(t, timedOut)
     /\ UNCHANGED task

\* The top of the loop: count as idle, and wait if there is nothing to do.
Enter(t) ==
  /\ tpc[t] = "start"
  /\ \/ /\ queue = <<>> /\ ~quit
        /\ idle' = idle + 1
        /\ tpc' = [tpc EXCEPT ![t] = "wait"]
        /\ UNCHANGED <<queue, counter, quit, late, task, dpc>>
     \/ /\ queue # <<>> \/ quit
        /\ UNCHANGED idle                 \* idle++ and idle--
        /\ Past(t, FALSE)
  /\ UNCHANGED <<added, finished, failed>>

\* A woken thread has the mutex again and tests the loop condition.
Resume(t) ==
  /\ tpc[t] = "woken"
  /\ \/ /\ queue = <<>> /\ ~quit
        /\ tpc' = [tpc EXCEPT ![t] = "wait"]
        /\ UNCHANGED <<poolVars, late, task, dpc>>
     \/ /\ queue # <<>> \/ quit
        /\ idle' = idle - 1
        /\ Past(t, FALSE)
  /\ UNCHANGED <<added, finished, failed>>

\* A thread that timed out has the mutex again and leaves the loop at once.
Expire(t) ==
  /\ tpc[t] = "timedout"
  /\ idle' = idle - 1
  /\ Past(t, TRUE)
  /\ UNCHANGED <<added, finished, failed>>

\* t->run(t->arg) returns, without the mutex.
RunEnds(t) ==
  /\ tpc[t] = "run"
  /\ finished' = finished \cup {task[t]}
  /\ task' = [task EXCEPT ![t] = NoTask]
  /\ tpc' = [tpc EXCEPT ![t] = "ran"]
  /\ UNCHANGED <<poolVars, late, dpc, added, failed>>

\* ... and the thread takes the mutex for the tests at the end of the loop.
Relock(t) ==
  /\ tpc[t] = "ran"
  /\ Decide(t, late[t])
  /\ UNCHANGED <<idle, task, added, finished, failed>>

ThreadStep(t) == Enter(t) \/ Resume(t) \/ Expire(t) \/ Relock(t)

-----------------------------------------------------------------------------
(* The callers. *)

\* A signal if some thread counts as idle, else a new thread if max_threads
\* allows one; the result of pthread_create is not looked at.
WakeOrCreate_NoWake ==
  /\ IF idle = 0 /\ counter < MaxThreads
       THEN /\ \E t \in Threads \ Live : tpc' = [tpc EXCEPT ![t] = "start"]
            /\ counter' = counter + 1
            /\ UNCHANGED dpc
       ELSE UNCHANGED <<counter, tpc, dpc>>
  /\ UNCHANGED failed

WakeOrCreate_AtLimit ==
  /\ IF idle = 0 /\ counter <= MaxThreads
       THEN /\ \E t \in Threads \ Live : tpc' = [tpc EXCEPT ![t] = "start"]
            /\ counter' = counter + 1
            /\ UNCHANGED dpc
       ELSE Signal(tpc) /\ UNCHANGED counter
  /\ UNCHANGED failed

WakeOrCreate ==
  \/ /\ idle > 0
     /\ Signal(tpc)
     /\ UNCHANGED <<counter, failed>>
  \/ /\ idle = 0 /\ counter < MaxThreads
     /\ \/ \E t \in Threads \ Live : tpc' = [tpc EXCEPT ![t] = "start"] /\ UNCHANGED failed
        \/ failed' = failed + 1 /\ UNCHANGED tpc
     /\ counter' = counter + 1
     /\ UNCHANGED dpc
  \/ /\ idle = 0 /\ counter >= MaxThreads
     /\ UNCHANGED <<counter, tpc, dpc, failed>>

\* threadpool_add_task, which a caller may still use while another destroys.
AddTask ==
  /\ ~Destroyed /\ added < MaxTasks
  /\ added' = added + 1
  /\ queue' = Append(queue, added + 1)
  /\ WakeOrCreate
  /\ UNCHANGED <<idle, quit, late, task, finished>>

\* threadpool_destroy looks at quit before it takes the mutex, and returns at
\* once if another call has set it, done or not.
DestroyTest(d) ==
  /\ dpc[d] = "out"
  /\ dpc' = [dpc EXCEPT ![d] = IF quit THEN "skipped" ELSE "lock"]
  /\ UNCHANGED <<poolVars, threadVars, added, finished, failed>>

\* quit is set; the broadcast wakes every waiter.
DestroyLock(d) ==
  /\ dpc[d] = "lock" /\ ~Destroyed
  /\ quit' = TRUE
  /\ LET broadcast == counter > 0 /\ idle > 0 IN
       /\ tpc' = [t \in Threads |->
                    IF broadcast /\ tpc[t] = "wait" THEN "woken" ELSE tpc[t]]
       /\ dpc' = [e \in Destroyers |->
                    IF e = d THEN IF counter > 0 THEN "wait" ELSE "returned"
                    ELSE IF broadcast /\ dpc[e] = "wait" THEN "woken" ELSE dpc[e]]
  /\ UNCHANGED <<queue, counter, idle, late, task, added, finished, failed>>

\* The wait of threadpool_destroy returned: look at counter again.
DestroyResume_If(d) ==
  /\ dpc[d] = "woken" /\ ~Destroyed
  /\ dpc' = [dpc EXCEPT ![d] = "returned"]
  /\ UNCHANGED <<poolVars, threadVars, added, finished, failed>>

DestroyResume(d) ==
  /\ dpc[d] = "woken" /\ ~Destroyed
  /\ dpc' = [dpc EXCEPT ![d] = IF counter > 0 THEN "wait" ELSE "returned"]
  /\ UNCHANGED <<poolVars, threadVars, added, finished, failed>>

DestroyStep(d) == DestroyTest(d) \/ DestroyLock(d) \/ DestroyResume(d)

Next ==
  \/ \E t \in Threads : ThreadStep(t) \/ RunEnds(t) \/ TimeOut(t)
  \/ \E d \in Destroyers : DestroyStep(d)
  \/ AddTask \/ Spurious

Spec == Init /\ [][Next]_vars

\* Every thread that can run does, tasks end and the clock advances; nothing
\* obliges a caller to add a task or to call threadpool_destroy.
FairSpec ==
  /\ Spec
  /\ \A t \in Threads : WF_vars(ThreadStep(t)) /\ WF_vars(RunEnds(t)) /\ WF_vars(TimeOut(t))
  /\ \A d \in Destroyers : WF_vars(DestroyLock(d) \/ DestroyResume(d))

-----------------------------------------------------------------------------
(* Properties.                                                             *)

\* Type correctness of every variable.
TypeOK ==
  /\ queue \in Seq(1 .. MaxTasks)
  /\ counter \in 0 .. MaxThreads /\ idle \in Nat /\ quit \in BOOLEAN
  /\ tpc \in [Threads -> ThreadPoints]
  /\ late \in [Threads -> BOOLEAN]
  /\ task \in [Threads -> 0 .. MaxTasks]
  /\ dpc \in [Destroyers -> CallPoints]
  /\ added \in 0 .. MaxTasks
  /\ finished \subseteq 1 .. MaxTasks
  /\ failed \in Nat

\* The two counters agree with the threads there are: counter with those that
\* exist and, for ever, each that pthread_create failed to make; idle with those
\* in the wait, woken and timed out ones included until they have the mutex.
CountersExact ==
  /\ idle = Cardinality(Idle)
  /\ counter = Cardinality(Live) + failed

\* No wakeup is lost: while a task is queued and there is a thread, some thread
\* is on its way to the queue without needing another signal or its timeout (the
\* timed wait would otherwise hide a lost signal for two seconds).
NoLostWakeup ==
  (queue # <<>> /\ Live # {}) => \E t \in Threads : tpc[t] \notin {"none", "wait"}

\* Once quit is set no thread waits for a task: destroy never depends on the
\* two-second timeout, and a signal of threadpool_add_task that reaches a
\* destroyer on the shared condition variable was not one a thread needed.
NoWaitAfterQuit == quit => Waiting = {}

\* Everything still to be done is counted: destroy, which only looks at
\* counter, cannot return while a task is queued or runs.
WorkIsCounted ==
  (queue # <<>> \/ \E t \in Threads : task[t] # NoTask) => counter > 0

Running == {task[t] : t \in Threads} \ {NoTask}

\* No more than max_threads tasks run at a time, although threads leave, are
\* created again and count as idle while they are awake.
ParallelLimit == Cardinality(Running) <= MaxThreads

\* Where a call of threadpool_destroy is, seen from outside.
CallPlace(place) ==
  CASE place = "out" -> "out" [] place = "skipped" -> "turnedAway"
    [] place = "returned" -> "done" [] OTHER -> "in"

\* The pool implements its promise: tasks start in order, each once, and a call of
\* threadpool_destroy that was not turned away returns when all are done.  A call
\* is turned away, with tasks perhaps still queued or running, only when another
\* one has begun before it.
Service == INSTANCE TaskService WITH
  submitted <- added, pending <- queue, active <- Running,
  callers <- [d \in Destroyers |-> CallPlace(dpc[d])]

ServiceSpec == Service!Spec

\* threadpool_destroy returns to a caller once the tasks end, unless a
\* pthread_create has failed: then it waits for a thread that does not exist.
DestroyReturns ==
  (\E d \in Destroyers : dpc[d] = "lock") ~> (Destroyed \/ failed > 0)

\* A task that was added is run to its end, unless a pthread_create has failed.
TasksRun == \A k \in 1 .. MaxTasks : added >= k ~> (k \in finished \/ failed > 0)

\* A thread holds a task exactly while it runs one.
TaskPlace == \A t \in Threads : task[t] # NoTask <=> tpc[t] = "run"

\* Tasks wait in the order they were added, behind every task that runs, and no
\* two threads run the same one.
WorkOrder ==
  /\ \A i \in 1 .. Len(queue) : queue[i] <= added
  /\ \A i, j \in 1 .. Len(queue) : i < j => queue[i] < queue[j]
  /\ \A t \in Threads : task[t] # NoTask =>
        task[t] <= added /\ \A i \in 1 .. Len(queue) : task[t] < queue[i]
  /\ \A t, u \in Threads : task[t] # NoTask /\ t # u => task[t] # task[u]

\* A destroyer past its critical section has set quit.
QuitSet == \A d \in Destroyers : dpc[d] \notin {"out", "lock"} => quit

\* Only a destroyer sets quit, and it is then waiting or has returned.
QuitBy == quit => \E d \in Destroyers : dpc[d] \in {"wait", "woken", "returned"}

PoolInv ==
  /\ TypeOK /\ CountersExact /\ NoLostWakeup /\ NoWaitAfterQuit /\ WorkIsCounted
  /\ TaskPlace /\ QuitSet /\ QuitBy
=============================================================================
