---------------------------- MODULE TaskService ----------------------------
(***************************************************************************)
(* What the thread pool of UNP/pthread/pthread_pool promises its callers:  *)
(* tasks start in the order they were added and each is run once.  A call  *)
(* of threadpool_destroy returns when every task added so far has been run *)
(* to its end, unless another call has begun before it: then it may be     *)
(* turned away at once, whatever is still to be done.  Tasks are numbered  *)
(* in the order of their addition.                                         *)
(***************************************************************************)
EXTENDS Integers, Sequences

CONSTANTS
  Destroyers, \* callers of threadpool_destroy
  MaxTasks    \* bound: tasks submitted

VARIABLES
  submitted,  \* number of tasks added
  pending,    \* tasks added and not started
  active,     \* tasks being run
  finished,   \* tasks that ended
  callers     \* where each call of threadpool_destroy is

vars == <<submitted, pending, active, finished, callers>>

Open == \A d \in Destroyers : callers[d] # "done"

Init ==
  /\ submitted = 0 /\ pending = <<>>
  /\ active = {} /\ finished = {}
  /\ callers = [d \in Destroyers |-> "out"]

Submit ==
  /\ Open /\ submitted < MaxTasks
  /\ submitted' = submitted + 1
  /\ pending' = Append(pending, submitted + 1)
  /\ UNCHANGED <<active, finished, callers>>

Start ==
  /\ pending # <<>>
  /\ active' = active \cup {Head(pending)}
  /\ pending' = Tail(pending)
  /\ UNCHANGED <<submitted, finished, callers>>

Finish(k) ==
  /\ k \in active
  /\ active' = active \ {k}
  /\ finished' = finished \cup {k}
  /\ UNCHANGED <<submitted, pending, callers>>

Call(d) ==
  /\ Open /\ callers[d] = "out"
  /\ callers' = [callers EXCEPT ![d] = "in"]
  /\ UNCHANGED <<submitted, pending, active, finished>>

\* Another call is under way, or has returned.
TurnAway(d) ==
  /\ callers[d] = "out"
  /\ \E e \in Destroyers : callers[e] \in {"in", "done"}
  /\ callers' = [callers EXCEPT ![d] = "turnedAway"]
  /\ UNCHANGED <<submitted, pending, active, finished>>

Return(d) ==
  /\ Open /\ callers[d] = "in"
  /\ pending = <<>> /\ active = {}
  /\ callers' = [callers EXCEPT ![d] = "done"]
  /\ UNCHANGED <<submitted, pending, active, finished>>

Next ==
  \/ Submit \/ Start \/ \E k \in active : Finish(k)
  \/ \E d \in Destroyers : Call(d) \/ TurnAway(d) \/ Return(d)

Spec == Init /\ [][Next]_vars
=============================================================================
