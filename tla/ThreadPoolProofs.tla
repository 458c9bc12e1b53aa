-------------------------- MODULE ThreadPoolProofs --------------------------
(***************************************************************************)
(* Proofs about ThreadPool, for any number of threads, destroyers and      *)
(* tasks.  The counters are tied to the threads by counting the values of  *)
(* tpc: every critical section moves one thread, and the signal it may     *)
(* send moves another one without leaving the idle threads.                *)
(***************************************************************************)
EXTENDS ThreadPool, FiniteSetTheorems, SequenceTheorems, TLAPS

LivePoints == ThreadPoints \ {"none"}

\* How many threads are at one of the points P.
Count(f, P) == Cardinality({u \in Threads : f[u] \in P})
Has(P, v)   == IF v \in P THEN 1 ELSE 0

\* Moving one thread changes the number of threads at P by one at most.
LEMMA Move ==
  ASSUME NEW f \in [Threads -> ThreadPoints], NEW t \in Threads,
         NEW v \in ThreadPoints, NEW P
  PROVE  /\ [f EXCEPT ![t] = v] \in [Threads -> ThreadPoints]
         /\ Count(f, P) \in Nat
         /\ Count([f EXCEPT ![t] = v], P) = Count(f, P) + Has(P, v) - Has(P, f[t])
<1> DEFINE A == {u \in Threads : f[u] \in P}
           B == {u \in Threads : [f EXCEPT ![t] = v][u] \in P}
<1>1. IsFiniteSet(A) /\ IsFiniteSet(B)
  BY ThreadsAssumption, FS_Subset, A \subseteq Threads, B \subseteq Threads
<1>2. Cardinality(A) \in Nat /\ Cardinality(B) \in Nat
  BY <1>1, FS_CardinalityType
<1>3. Cardinality(B) = Cardinality(A) + Has(P, v) - Has(P, f[t])
  <2>1. CASE v \in P /\ f[t] \in P
    <3>1. A = B
      BY <2>1
    <3>2. Has(P, v) = 1 /\ Has(P, f[t]) = 1
      BY <2>1 DEF Has
    <3> HIDE DEF A, B
    <3> QED BY <1>2, <3>1, <3>2
  <2>2. CASE v \notin P /\ f[t] \notin P
    <3>1. A = B
      BY <2>2
    <3> QED BY <1>2, <2>2, <3>1 DEF Has
  <2>3. CASE v \in P /\ f[t] \notin P
    <3>1. B = A \cup {t} /\ t \notin A
      BY <2>3
    <3>2. Cardinality(B) = Cardinality(A) + 1
      BY <1>1, <3>1, FS_AddElement
    <3> QED BY <1>2, <2>3, <3>2 DEF Has
  <2>4. CASE v \notin P /\ f[t] \in P
    <3>1. A = B \cup {t} /\ t \notin B
      BY <2>4
    <3>2. Cardinality(A) = Cardinality(B) + 1
      BY <1>1, <3>1, FS_AddElement
    <3> QED BY <1>2, <2>4, <3>2 DEF Has
  <2> QED BY <2>1, <2>2, <2>3, <2>4
<1> QED BY <1>2, <1>3 DEF Count

\* A thread at a point of P is counted.
LEMMA Counted ==
  ASSUME NEW f \in [Threads -> ThreadPoints], NEW t \in Threads, NEW P, f[t] \in P
  PROVE  Count(f, P) >= 1
<1> DEFINE A == {u \in Threads : f[u] \in P}
<1>1. IsFiniteSet(A) /\ A # {}
  BY ThreadsAssumption, FS_Subset, A \subseteq Threads, t \in A
<1>2. Cardinality(A) \in Nat /\ Cardinality(A) # 0
  BY <1>1, FS_CardinalityType, FS_EmptySet
<1> QED BY <1>2 DEF Count

\* The counts of the invariant are counts of points.
LEMMA CountNames ==
  ASSUME tpc \in [Threads -> ThreadPoints]
  PROVE  /\ Cardinality(Idle) = Count(tpc, IdlePoints)
         /\ Cardinality(Live) = Count(tpc, LivePoints)
<1>1. Live = {u \in Threads : tpc[u] \in LivePoints}
  BY DEF Live, LivePoints
<1> QED BY <1>1 DEF Count, Idle

\* A signal moves at most one thread, out of the wait.
LEMMA SignalMoves ==
  ASSUME NEW f \in [Threads -> ThreadPoints], Signal(f),
         dpc \in [Destroyers -> CallPoints]
  PROVE  /\ tpc' \in [Threads -> ThreadPoints]
         /\ dpc' \in [Destroyers -> CallPoints]
         /\ Count(tpc', IdlePoints) = Count(f, IdlePoints)
         /\ Count(tpc', LivePoints) = Count(f, LivePoints)
         /\ \A u \in Threads : tpc'[u] = f[u] \/ (f[u] = "wait" /\ tpc'[u] = "woken")
         /\ \A d \in Destroyers : dpc'[d] = dpc[d] \/ (dpc[d] = "wait" /\ dpc'[d] = "woken")
<1>1. CASE \E t \in Threads : f[t] = "wait" /\ tpc' = [f EXCEPT ![t] = "woken"] /\ UNCHANGED dpc
  <2>1. PICK t \in Threads : f[t] = "wait" /\ tpc' = [f EXCEPT ![t] = "woken"] /\ UNCHANGED dpc
    BY <1>1
  <2>2. "woken" \in ThreadPoints /\ "woken" \in IdlePoints /\ "wait" \in IdlePoints
    BY DEF ThreadPoints, IdlePoints
  <2>3. ASSUME NEW P
        PROVE  /\ Count(f, P) \in Nat
               /\ Count(tpc', P) = Count(f, P) + Has(P, "woken") - Has(P, "wait")
    <3>1. /\ Count(f, P) \in Nat
          /\ Count([f EXCEPT ![t] = "woken"], P) = Count(f, P) + Has(P, "woken") - Has(P, f[t])
      BY <2>2, Move
    <3> QED BY <2>1, <3>1
  <2>4. /\ Has(IdlePoints, "woken") = 1 /\ Has(IdlePoints, "wait") = 1
        /\ Has(LivePoints, "woken") = 1 /\ Has(LivePoints, "wait") = 1
    BY DEF Has, IdlePoints, LivePoints, ThreadPoints
  <2>5. /\ Count(tpc', IdlePoints) = Count(f, IdlePoints)
        /\ Count(tpc', LivePoints) = Count(f, LivePoints)
    BY <2>3, <2>4
  <2> QED BY <2>1, <2>2, <2>5
<1>2. CASE tpc' = f
  BY <1>2 DEF Signal, CallPoints
<1> QED BY <1>1, <1>2 DEF Signal
\* Nobody but t is moved, except from the wait by a signal.
OthersKept(t) ==
  /\ \A u \in Threads \ {t} : tpc'[u] = tpc[u] \/ (tpc[u] = "wait" /\ tpc'[u] = "woken")
  /\ \A d \in Destroyers : dpc'[d] = dpc[d] \/ (dpc[d] = "wait" /\ dpc'[d] = "woken")

\* The counters follow the threads when t is moved.
Follows(t) ==
  /\ tpc' \in [Threads -> ThreadPoints] /\ dpc' \in [Destroyers -> CallPoints]
  /\ OthersKept(t)
  /\ counter' \in 0 .. MaxThreads
  /\ Count(tpc', IdlePoints) = Count(tpc, IdlePoints) + Has(IdlePoints, tpc'[t])
                                 - Has(IdlePoints, tpc[t])
  /\ Count(tpc', LivePoints) = Count(tpc, LivePoints) + counter' - counter

\* Moving t between points of the same liveness, counters and callers kept.
LEMMA MoveFollows ==
  ASSUME TypeOK, NEW t \in Threads, NEW v \in LivePoints, tpc[t] \in LivePoints,
         tpc' = [tpc EXCEPT ![t] = v], UNCHANGED <<counter, dpc>>
  PROVE  Follows(t) /\ tpc'[t] = v
<1>1. tpc \in [Threads -> ThreadPoints] /\ v \in ThreadPoints
  BY DEF TypeOK, LivePoints
<1>2. /\ Count(tpc, IdlePoints) \in Nat
      /\ Count([tpc EXCEPT ![t] = v], IdlePoints) =
           Count(tpc, IdlePoints) + Has(IdlePoints, v) - Has(IdlePoints, tpc[t])
  BY <1>1, Move, ZenonT(20)
<1>3. /\ Count(tpc, LivePoints) \in Nat
      /\ Count([tpc EXCEPT ![t] = v], LivePoints) =
           Count(tpc, LivePoints) + Has(LivePoints, v) - Has(LivePoints, tpc[t])
  BY <1>1, Move, ZenonT(20)
<1>4. Has(LivePoints, v) = 1 /\ Has(LivePoints, tpc[t]) = 1
  BY DEF Has
<1>5. tpc'[t] = v /\ tpc' \in [Threads -> ThreadPoints] /\ dpc' \in [Destroyers -> CallPoints]
  BY <1>1 DEF TypeOK
<1>6. OthersKept(t)
  BY <1>1 DEF OthersKept
<1>7. counter \in 0 .. MaxThreads /\ counter' = counter
  BY DEF TypeOK
<1>8. Count(tpc', LivePoints) = Count(tpc, LivePoints) + counter' - counter
  BY <1>3, <1>4, <1>7, BoundsAssumption
<1>9. Count(tpc', IdlePoints) = Count(tpc, IdlePoints) + Has(IdlePoints, tpc'[t])
                                 - Has(IdlePoints, tpc[t])
  BY <1>2, <1>5
<1> QED BY <1>5, <1>6, <1>7, <1>8, <1>9 DEF Follows

\* A thread that leaves is counted out, whatever its signal wakes.
LEMMA LeaveFollows ==
  ASSUME TypeOK, CountersExact, NEW t \in Threads, tpc[t] \in LivePoints,
         counter' = counter - 1,
         \/ Signal([tpc EXCEPT ![t] = "none"])
         \/ tpc' = [tpc EXCEPT ![t] = "none"] /\ UNCHANGED dpc
  PROVE  Follows(t) /\ tpc'[t] = "none"
<1> DEFINE g == [tpc EXCEPT ![t] = "none"]
<1>1. tpc \in [Threads -> ThreadPoints] /\ "none" \in ThreadPoints
      /\ dpc \in [Destroyers -> CallPoints]
  BY DEF TypeOK, ThreadPoints
<1>2. /\ g \in [Threads -> ThreadPoints]
      /\ Count(tpc, IdlePoints) \in Nat
      /\ Count(g, IdlePoints) =
           Count(tpc, IdlePoints) + Has(IdlePoints, "none") - Has(IdlePoints, tpc[t])
  BY <1>1, Move, ZenonT(20)
<1>3. /\ Count(tpc, LivePoints) \in Nat
      /\ Count(g, LivePoints) =
           Count(tpc, LivePoints) + Has(LivePoints, "none") - Has(LivePoints, tpc[t])
  BY <1>1, Move, ZenonT(20)
<1>4. g[t] = "none" /\ \A u \in Threads \ {t} : g[u] = tpc[u]
  BY <1>1
<1>5. /\ tpc' \in [Threads -> ThreadPoints] /\ dpc' \in [Destroyers -> CallPoints]
      /\ Count(tpc', IdlePoints) = Count(g, IdlePoints)
      /\ Count(tpc', LivePoints) = Count(g, LivePoints)
      /\ \A u \in Threads : tpc'[u] = g[u] \/ (g[u] = "wait" /\ tpc'[u] = "woken")
      /\ \A d \in Destroyers : dpc'[d] = dpc[d] \/ (dpc[d] = "wait" /\ dpc'[d] = "woken")
  <2>1. CASE Signal(g)
    BY <1>1, <1>2, <2>1, SignalMoves
  <2>2. CASE tpc' = g /\ UNCHANGED dpc
    BY <1>1, <1>2, <2>2
  <2> QED BY <2>1, <2>2
<1>6. tpc'[t] = "none" /\ OthersKept(t)
  BY <1>4, <1>5 DEF OthersKept
<1>7. /\ Has(LivePoints, "none") = 0 /\ Has(LivePoints, tpc[t]) = 1
      /\ Has(IdlePoints, "none") = 0
  BY DEF Has, LivePoints, IdlePoints
<1>8. counter \in 1 .. MaxThreads
  <2>1. Count(tpc, LivePoints) >= 1
    BY <1>1, Counted
  <2>2. counter = Count(tpc, LivePoints) + failed
    BY <1>1, CountNames DEF CountersExact
  <2> QED BY <1>3, <2>1, <2>2, BoundsAssumption DEF TypeOK
<1> HIDE DEF g
<1>9. counter' \in 0 .. MaxThreads
      /\ Count(tpc', LivePoints) = Count(tpc, LivePoints) + counter' - counter
  BY <1>3, <1>5, <1>7, <1>8, BoundsAssumption
<1>10. Count(tpc', IdlePoints) = Count(tpc, IdlePoints) + Has(IdlePoints, tpc'[t])
                                 - Has(IdlePoints, tpc[t])
  BY <1>2, <1>5, <1>6, <1>7
<1> QED BY <1>5, <1>6, <1>9, <1>10 DEF Follows

\* The tests at the end of the loop: only an empty queue lets a thread leave.
LEMMA DecideFollows ==
  ASSUME TypeOK, CountersExact, NEW t \in Threads, NEW b \in BOOLEAN,
         tpc[t] \in LivePoints, Decide(t, b)
  PROVE  /\ Follows(t) /\ UNCHANGED <<queue, quit, late>>
         /\ \/ tpc'[t] = "start" /\ counter' = counter
            \/ tpc'[t] = "none" /\ queue = <<>>
<1>1. CASE counter' = counter - 1 /\ queue = <<>>
  <2>1. \/ Signal([tpc EXCEPT ![t] = "none"])
        \/ tpc' = [tpc EXCEPT ![t] = "none"] /\ UNCHANGED dpc
    BY <1>1 DEF Decide, TypeOK
  <2> QED BY <1>1, <2>1, LeaveFollows DEF Decide
<1>2. CASE tpc' = [tpc EXCEPT ![t] = "start"] /\ UNCHANGED <<counter, dpc>>
  <2>1. "start" \in LivePoints
    BY DEF LivePoints, ThreadPoints
  <2> QED BY <1>2, <2>1, MoveFollows DEF Decide
<1> QED BY <1>1, <1>2 DEF Decide

\* Past the wait.
LEMMA PastFollows ==
  ASSUME TypeOK, CountersExact, NEW t \in Threads, NEW b \in BOOLEAN,
         tpc[t] \in LivePoints, Past(t, b)
  PROVE  /\ Follows(t) /\ UNCHANGED quit
         /\ \/ /\ queue # <<>> /\ tpc'[t] = "run" /\ UNCHANGED counter
               /\ queue' = Tail(queue)
               /\ task' = [task EXCEPT ![t] = Head(queue)]
               /\ late' = [late EXCEPT ![t] = b]
            \/ /\ queue = <<>> /\ tpc'[t] \in {"start", "none"}
               /\ UNCHANGED <<queue, task, late>>
<1>1. CASE queue = <<>>
  BY <1>1, DecideFollows DEF Past
<1>2. CASE queue # <<>>
  <2>1. "run" \in LivePoints
    BY DEF LivePoints, ThreadPoints, IdlePoints
  <2>2. tpc' = [tpc EXCEPT ![t] = "run"] /\ UNCHANGED <<counter, quit, dpc>>
    BY <1>2 DEF Past
  <2>3. Follows(t) /\ tpc'[t] = "run"
    BY <2>1, <2>2, MoveFollows
  <2> QED BY <1>2, <2>2, <2>3 DEF Past
<1> QED BY <1>1, <1>2

-----------------------------------------------------------------------------
Base == TypeOK /\ CountersExact /\ TaskPlace

IdleFollows(t) == idle' = idle + Has(IdlePoints, tpc'[t]) - Has(IdlePoints, tpc[t])

\* What a critical section of a thread does: it takes the head of the queue, or
\* leaves queue and tasks alone, and stops looking only at an empty queue.
Takes(t) ==
  /\ queue # <<>> /\ tpc'[t] = "run" /\ counter' = counter
  /\ queue' = Tail(queue)
  /\ task' = [task EXCEPT ![t] = Head(queue)]
  /\ \E b \in BOOLEAN : late' = [late EXCEPT ![t] = b]

TakesNone(t) ==
  /\ UNCHANGED <<queue, task, late>>
  /\ tpc'[t] \in {"start", "none", "wait"}
  /\ tpc'[t] # "start" => queue = <<>>
  /\ tpc'[t] = "wait" => ~quit

LEMMA ThreadEffect ==
  ASSUME Base, NEW t \in Threads, ThreadStep(t)
  PROVE  /\ Follows(t) /\ IdleFollows(t) /\ UNCHANGED <<quit, added, finished, failed>>
         /\ tpc[t] \in LivePoints \ {"run"}
         /\ Takes(t) \/ TakesNone(t)
<1> USE DEF Base
<1> DEFINE Effect == /\ Follows(t) /\ UNCHANGED quit
                     /\ Takes(t) \/ TakesNone(t)
<1>1. ASSUME NEW b \in BOOLEAN, tpc[t] \in LivePoints, Past(t, b)
      PROVE  Effect /\ tpc'[t] \notin IdlePoints
  BY <1>1, PastFollows DEF Takes, TakesNone, IdlePoints
<1>2. TypeOK /\ idle \in Nat
  BY DEF TypeOK
<1>3. ASSUME tpc[t] \in IdlePoints, tpc'[t] \notin IdlePoints, idle' = idle - 1
      PROVE  IdleFollows(t)
  BY <1>2, <1>3 DEF IdleFollows, Has
<1>4. ASSUME tpc[t] \notin IdlePoints, tpc'[t] \notin IdlePoints, idle' = idle
      PROVE  IdleFollows(t)
  BY <1>2, <1>4 DEF IdleFollows, Has
<1>5. {"start", "wait", "woken", "timedout", "ran"} \subseteq LivePoints \ {"run"}
  BY DEF LivePoints, ThreadPoints, IdlePoints
<1>6. CASE Enter(t)
  <2>1. tpc[t] = "start" /\ tpc[t] \notin IdlePoints /\ UNCHANGED <<added, finished, failed>>
    BY <1>6 DEF Enter, IdlePoints
  <2>2. CASE queue = <<>> /\ ~quit
    <3>1. /\ idle' = idle + 1 /\ tpc' = [tpc EXCEPT ![t] = "wait"]
          /\ UNCHANGED <<queue, counter, quit, late, task, dpc>>
      BY <1>6, <2>2 DEF Enter
    <3>2. Follows(t) /\ tpc'[t] = "wait"
      BY <1>5, <2>1, <3>1, MoveFollows
    <3>3. IdleFollows(t)
      BY <1>2, <2>1, <3>1, <3>2 DEF IdleFollows, Has, IdlePoints
    <3> QED BY <1>5, <2>1, <2>2, <3>1, <3>2, <3>3 DEF TakesNone
  <2>3. CASE queue # <<>> \/ quit
    <3>1. Past(t, FALSE) /\ idle' = idle
      BY <1>6, <2>3 DEF Enter
    <3> QED BY <1>1, <1>4, <1>5, <2>1, <3>1
  <2> QED BY <2>2, <2>3
<1>7. CASE Resume(t)
  <2>1. tpc[t] = "woken" /\ tpc[t] \in IdlePoints /\ UNCHANGED <<added, finished, failed>>
    BY <1>7 DEF Resume, IdlePoints
  <2>2. CASE queue = <<>> /\ ~quit
    <3>1. /\ tpc' = [tpc EXCEPT ![t] = "wait"]
          /\ UNCHANGED <<queue, counter, idle, quit, late, task, dpc>>
      BY <1>7, <2>2 DEF Resume, poolVars
    <3>2. Follows(t) /\ tpc'[t] = "wait"
      BY <1>5, <2>1, <3>1, MoveFollows
    <3>3. IdleFollows(t)
      BY <1>2, <2>1, <3>1, <3>2 DEF IdleFollows, Has, IdlePoints
    <3> QED BY <1>5, <2>1, <2>2, <3>1, <3>2, <3>3 DEF TakesNone
  <2>3. CASE queue # <<>> \/ quit
    <3>1. Past(t, FALSE) /\ idle' = idle - 1
      BY <1>7, <2>3 DEF Resume
    <3> QED BY <1>1, <1>3, <1>5, <2>1, <3>1
  <2> QED BY <2>2, <2>3
<1>8. CASE Expire(t)
  <2>1. tpc[t] = "timedout" /\ tpc[t] \in IdlePoints /\ UNCHANGED <<added, finished, failed>>
    BY <1>8 DEF Expire, IdlePoints
  <2>2. Past(t, TRUE) /\ idle' = idle - 1
    BY <1>8 DEF Expire
  <2> QED BY <1>1, <1>3, <1>5, <2>1, <2>2
<1>9. CASE Relock(t)
  <2>1. /\ tpc[t] = "ran" /\ tpc[t] \notin IdlePoints
        /\ UNCHANGED <<idle, task, added, finished, failed>>
    BY <1>9 DEF Relock, IdlePoints
  <2>2. Decide(t, late[t]) /\ late[t] \in BOOLEAN
    BY <1>9 DEF Relock, TypeOK
  <2>3. Follows(t) /\ TakesNone(t) /\ tpc'[t] \notin IdlePoints /\ UNCHANGED quit
    BY <1>5, <2>1, <2>2, DecideFollows DEF TakesNone, IdlePoints
  <2> QED BY <1>4, <1>5, <2>1, <2>3
<1> QED BY <1>6, <1>7, <1>8, <1>9 DEF ThreadStep

-----------------------------------------------------------------------------
(* The effect of the other steps on the threads and the counters.          *)

\* Counters that follow the threads stay exact.
LEMMA CountsKept ==
  ASSUME TypeOK, CountersExact,
         tpc' \in [Threads -> ThreadPoints],
         idle' = idle + Count(tpc', IdlePoints) - Count(tpc, IdlePoints),
         counter' \in 0 .. MaxThreads,
         failed' \in Nat,
         (counter' - failed') - (counter - failed) =
           Count(tpc', LivePoints) - Count(tpc, LivePoints)
  PROVE  CountersExact' /\ idle' \in Nat
<1>1. /\ Cardinality(Idle) = Count(tpc, IdlePoints)
      /\ Cardinality(Live) = Count(tpc, LivePoints)
  BY CountNames DEF TypeOK
<1>2. Live' = {u \in Threads : tpc'[u] \in LivePoints}
  BY DEF Live, LivePoints
<1>3. /\ Cardinality(Idle') = Count(tpc', IdlePoints)
      /\ Cardinality(Live') = Count(tpc', LivePoints)
  BY <1>2 DEF Count, Idle
<1>4. /\ Count(tpc, IdlePoints) \in Nat /\ Count(tpc, LivePoints) \in Nat
      /\ Count(tpc', IdlePoints) \in Nat /\ Count(tpc', LivePoints) \in Nat
  <2>1. ASSUME NEW f \in [Threads -> ThreadPoints], NEW P
        PROVE  Count(f, P) \in Nat
    <3>1. {u \in Threads : f[u] \in P} \subseteq Threads
      OBVIOUS
    <3> QED BY <3>1, ThreadsAssumption, FS_Subset, FS_CardinalityType DEF Count
  <2> QED BY <2>1 DEF TypeOK
<1>5. idle = Count(tpc, IdlePoints) /\ counter = Count(tpc, LivePoints) + failed
  BY <1>1 DEF CountersExact
<1>6. idle' = Count(tpc', IdlePoints)
  BY <1>4, <1>5
<1>7. counter \in Nat /\ counter' \in Nat /\ failed \in Nat
  BY BoundsAssumption DEF TypeOK
<1>8. counter' = Count(tpc', LivePoints) + failed'
  BY <1>4, <1>5, <1>7
<1> QED BY <1>3, <1>4, <1>6, <1>8 DEF CountersExact

LEMMA FollowsKept ==
  ASSUME TypeOK, CountersExact, NEW t \in Threads, Follows(t), IdleFollows(t), UNCHANGED failed
  PROVE  CountersExact' /\ idle' \in Nat
<1>1. tpc' \in [Threads -> ThreadPoints] /\ counter' \in 0 .. MaxThreads
      /\ Count(tpc', LivePoints) = Count(tpc, LivePoints) + counter' - counter
      /\ Count(tpc', IdlePoints) = Count(tpc, IdlePoints) + Has(IdlePoints, tpc'[t])
                                     - Has(IdlePoints, tpc[t])
  BY DEF Follows
<1>2. Count(tpc, IdlePoints) = idle /\ idle \in Nat
  BY CountNames DEF TypeOK, CountersExact
<1>3. Count(tpc, LivePoints) \in Nat /\ counter \in Nat /\ counter' \in Nat
  <2>1. {u \in Threads : tpc[u] \in LivePoints} \subseteq Threads
    OBVIOUS
  <2> QED BY <1>1, <2>1, ThreadsAssumption, BoundsAssumption, FS_Subset, FS_CardinalityType
          DEF Count, TypeOK
<1>4. Has(IdlePoints, tpc'[t]) \in Nat /\ Has(IdlePoints, tpc[t]) \in Nat
  BY DEF Has
<1>5. idle' = idle + Count(tpc', IdlePoints) - Count(tpc, IdlePoints)
  BY <1>1, <1>2, <1>4 DEF IdleFollows
<1>6. /\ failed' \in Nat
      /\ (counter' - failed') - (counter - failed) =
           Count(tpc', LivePoints) - Count(tpc, LivePoints)
  BY <1>1, <1>3 DEF TypeOK
<1> QED BY <1>1, <1>5, <1>6, CountsKept

\* Steps outside the mutex: the run of a task ends, a wait ends.
LEMMA RunEffect ==
  ASSUME Base, NEW t \in Threads, RunEnds(t)
  PROVE  Follows(t) /\ IdleFollows(t) /\ tpc[t] = "run" /\ tpc'[t] = "ran"
<1>1. tpc[t] = "run" /\ tpc' = [tpc EXCEPT ![t] = "ran"] /\ UNCHANGED <<counter, idle, dpc>>
  BY DEF RunEnds, poolVars
<1>2. "run" \in LivePoints /\ "ran" \in LivePoints /\ "run" \notin IdlePoints /\ "ran" \notin IdlePoints
  BY DEF LivePoints, ThreadPoints, IdlePoints
<1>3. Follows(t) /\ tpc'[t] = "ran"
  BY <1>1, <1>2, MoveFollows DEF Base
<1> QED BY <1>1, <1>2, <1>3 DEF IdleFollows, Has, Base, TypeOK

LEMMA WaitEndsEffect ==
  ASSUME Base, NEW t \in Threads, NEW v \in {"woken", "timedout"}, tpc[t] = "wait",
         tpc' = [tpc EXCEPT ![t] = v], UNCHANGED <<counter, idle, dpc>>
  PROVE  Follows(t) /\ IdleFollows(t) /\ tpc'[t] = v
<1>1. "wait" \in LivePoints /\ v \in LivePoints /\ "wait" \in IdlePoints /\ v \in IdlePoints
  BY DEF LivePoints, ThreadPoints, IdlePoints
<1>2. Follows(t) /\ tpc'[t] = v
  BY <1>1, MoveFollows DEF Base
<1> QED BY <1>1, <1>2 DEF IdleFollows, Has, Base, TypeOK

\* No thread is moved.
LEMMA StillKept ==
  ASSUME TypeOK, CountersExact, UNCHANGED <<tpc, counter, idle, failed>>
  PROVE  CountersExact' /\ idle' \in Nat /\ failed' \in Nat
  BY DEF CountersExact, Idle, Live, TypeOK

\* threadpool_add_task: a signal, a new thread, or neither.
LEMMA AddEffect ==
  ASSUME TypeOK, CountersExact, AddTask
  PROVE  /\ tpc' \in [Threads -> ThreadPoints] /\ dpc' \in [Destroyers -> CallPoints]
         /\ counter' \in 0 .. MaxThreads /\ counter' > 0
         /\ CountersExact' /\ idle' \in Nat /\ failed' \in Nat
         /\ \A u \in Threads : \/ tpc'[u] = tpc[u]
                               \/ tpc[u] = "wait" /\ tpc'[u] = "woken"
                               \/ tpc[u] = "none" /\ tpc'[u] = "start"
         /\ \A d \in Destroyers : dpc'[d] = dpc[d] \/ (dpc[d] = "wait" /\ dpc'[d] = "woken")
<1>1. tpc \in [Threads -> ThreadPoints] /\ dpc \in [Destroyers -> CallPoints]
      /\ counter \in 0 .. MaxThreads /\ idle \in Nat /\ failed \in Nat
      /\ MaxThreads \in Nat \ {0}
  BY BoundsAssumption DEF TypeOK
<1>2. idle' = idle
  BY DEF AddTask
<1>3. Count(tpc, LivePoints) \in Nat /\ Count(tpc, IdlePoints) \in Nat
  BY <1>1, CountNames, FS_Subset, FS_CardinalityType, ThreadsAssumption,
     {u \in Threads : tpc[u] \in LivePoints} \subseteq Threads,
     {u \in Threads : tpc[u] \in IdlePoints} \subseteq Threads DEF Count
<1>4. CASE idle > 0 /\ Signal(tpc) /\ counter' = counter /\ failed' = failed
  <2>1. /\ tpc' \in [Threads -> ThreadPoints] /\ dpc' \in [Destroyers -> CallPoints]
        /\ Count(tpc', IdlePoints) = Count(tpc, IdlePoints)
        /\ Count(tpc', LivePoints) = Count(tpc, LivePoints)
        /\ \A u \in Threads : tpc'[u] = tpc[u] \/ (tpc[u] = "wait" /\ tpc'[u] = "woken")
        /\ \A d \in Destroyers : dpc'[d] = dpc[d] \/ (dpc[d] = "wait" /\ dpc'[d] = "woken")
    BY <1>1, <1>4, SignalMoves
  <2>2. CountersExact' /\ idle' \in Nat
    <3>1. idle' = idle + Count(tpc', IdlePoints) - Count(tpc, IdlePoints)
      BY <1>1, <1>2, <1>3, <2>1
    <3>2. (counter' - failed') - (counter - failed) =
            Count(tpc', LivePoints) - Count(tpc, LivePoints)
      BY <1>1, <1>3, <1>4, <2>1
    <3> QED BY <1>1, <1>4, <2>1, <3>1, <3>2, CountsKept
  <2>3. counter > 0
    <3>1. Cardinality(Idle) > 0
      BY <1>4 DEF CountersExact
    <3>2. PICK u \in Threads : tpc[u] \in IdlePoints
      BY <3>1, FS_EmptySet DEF Idle
    <3>3. tpc[u] \in LivePoints
      BY <3>2 DEF LivePoints, ThreadPoints, IdlePoints
    <3>4. Count(tpc, LivePoints) >= 1
      BY <1>1, <3>3, Counted
    <3> QED BY <1>1, <1>3, <3>4, CountNames DEF CountersExact
  <2> QED BY <1>1, <1>4, <2>1, <2>2, <2>3
<1>5. CASE counter < MaxThreads /\ counter' = counter + 1 /\ UNCHANGED <<dpc, failed>>
           /\ \E t \in Threads \ Live : tpc' = [tpc EXCEPT ![t] = "start"]
  <2>1. PICK t \in Threads \ Live : tpc' = [tpc EXCEPT ![t] = "start"]
    BY <1>5
  <2>2. tpc[t] = "none" /\ "start" \in ThreadPoints
    BY <2>1 DEF Live, ThreadPoints
  <2>3. /\ [tpc EXCEPT ![t] = "start"] \in [Threads -> ThreadPoints]
        /\ Count([tpc EXCEPT ![t] = "start"], IdlePoints) =
             Count(tpc, IdlePoints) + Has(IdlePoints, "start") - Has(IdlePoints, tpc[t])
        /\ Count([tpc EXCEPT ![t] = "start"], LivePoints) =
             Count(tpc, LivePoints) + Has(LivePoints, "start") - Has(LivePoints, tpc[t])
    <3>1. tpc \in [Threads -> ThreadPoints] /\ t \in Threads /\ "start" \in ThreadPoints
      BY <1>1, <2>1, <2>2
    <3>2. /\ [tpc EXCEPT ![t] = "start"] \in [Threads -> ThreadPoints]
          /\ Count([tpc EXCEPT ![t] = "start"], IdlePoints) =
               Count(tpc, IdlePoints) + Has(IdlePoints, "start") - Has(IdlePoints, tpc[t])
      BY <3>1, Move, ZenonT(20)
    <3>3. Count([tpc EXCEPT ![t] = "start"], LivePoints) =
            Count(tpc, LivePoints) + Has(LivePoints, "start") - Has(LivePoints, tpc[t])
      BY <3>1, Move, ZenonT(20)
    <3> QED BY <3>2, <3>3
  <2>4. /\ Has(IdlePoints, "start") = 0 /\ Has(IdlePoints, tpc[t]) = 0
        /\ Has(LivePoints, "start") = 1 /\ Has(LivePoints, tpc[t]) = 0
    BY <2>2 DEF Has, LivePoints, ThreadPoints, IdlePoints
  <2>5. /\ Count(tpc', IdlePoints) = Count(tpc, IdlePoints)
        /\ Count(tpc', LivePoints) = Count(tpc, LivePoints) + 1
    BY <1>3, <2>1, <2>3, <2>4
  <2>6. counter' \in 0 .. MaxThreads /\ counter' > 0
    BY <1>1, <1>5
  <2>7. CountersExact' /\ idle' \in Nat
    <3>1. idle' = idle + Count(tpc', IdlePoints) - Count(tpc, IdlePoints)
      BY <1>1, <1>2, <1>3, <2>5
    <3>2. (counter' - failed') - (counter - failed) =
            Count(tpc', LivePoints) - Count(tpc, LivePoints)
      BY <1>1, <1>3, <1>5, <2>5
    <3>3. failed' \in Nat
      BY <1>1, <1>5
    <3> QED BY <2>1, <2>3, <2>6, <3>1, <3>2, <3>3, CountsKept
  <2> QED BY <1>1, <1>5, <2>1, <2>2, <2>3, <2>6, <2>7
<1>6. CASE counter < MaxThreads /\ counter' = counter + 1 /\ UNCHANGED dpc
           /\ failed' = failed + 1 /\ UNCHANGED tpc
  <2>1. counter' \in 0 .. MaxThreads /\ counter' > 0
    BY <1>1, <1>6
  <2>2. CountersExact' /\ idle' \in Nat
    <3>1. idle' = idle + Count(tpc', IdlePoints) - Count(tpc, IdlePoints)
      BY <1>1, <1>2, <1>3, <1>6
    <3>2. (counter' - failed') - (counter - failed) =
            Count(tpc', LivePoints) - Count(tpc, LivePoints)
      BY <1>1, <1>3, <1>6
    <3> QED BY <1>1, <1>6, <2>1, <3>1, <3>2, CountsKept
  <2> QED BY <1>1, <1>6, <2>1, <2>2
<1>7. CASE counter >= MaxThreads /\ UNCHANGED <<counter, tpc, dpc, failed>>
  BY <1>1, <1>2, <1>7, StillKept
<1> QED BY <1>4, <1>5, <1>6, <1>7 DEF AddTask, WakeOrCreate

-----------------------------------------------------------------------------
(* The invariant. *)

LEMMA PoolInit == Init => PoolInv
<1> SUFFICES ASSUME Init PROVE PoolInv
  OBVIOUS
<1>1. TypeOK
  <2>1. 0 \in 0 .. MaxThreads /\ 0 \in 0 .. MaxTasks /\ 0 \in Nat
    BY BoundsAssumption
  <2>2. "none" \in ThreadPoints /\ "out" \in CallPoints
    BY DEF ThreadPoints, CallPoints
  <2>3. queue \in Seq(1 .. MaxTasks)
    BY DEF Init
  <2> QED BY <2>1, <2>2, <2>3 DEF Init, TypeOK, NoTask
<1>2. CountersExact
  <2>1. Idle = {} /\ Live = {}
    BY DEF Init, Idle, Live, IdlePoints
  <2> QED BY <2>1, FS_EmptySet DEF Init, CountersExact
<1> QED BY <1>1, <1>2 DEF Init, PoolInv, NoLostWakeup, NoWaitAfterQuit, WorkIsCounted,
                          TaskPlace, QuitSet, QuitBy

\* A live thread is counted, so counter is positive.
LEMMA LiveCounted ==
  ASSUME TypeOK, CountersExact, NEW t \in Threads, tpc[t] # "none"
  PROVE  counter > 0
<1>1. tpc \in [Threads -> ThreadPoints] /\ tpc[t] \in LivePoints
  BY DEF TypeOK, LivePoints
<1>2. Count(tpc, LivePoints) >= 1 /\ counter = Count(tpc, LivePoints) + failed
  BY <1>1, Counted, CountNames DEF CountersExact
<1>3. Count(tpc, LivePoints) \in Nat /\ counter \in Nat /\ failed \in Nat
  BY <1>1, CountNames, FS_Subset, FS_CardinalityType, ThreadsAssumption, BoundsAssumption,
     {u \in Threads : tpc[u] \in LivePoints} \subseteq Threads DEF Count, TypeOK
<1> QED BY <1>2, <1>3

LEMMA TypeStep ==
  ASSUME PoolInv, [Next]_vars
  PROVE  TypeOK' /\ CountersExact'
<1> USE DEF PoolInv, Base
<1>1. ASSUME NEW t \in Threads, ThreadStep(t) PROVE TypeOK' /\ CountersExact'
  <2>1. /\ Follows(t) /\ IdleFollows(t) /\ UNCHANGED <<quit, added, finished, failed>>
        /\ Takes(t) \/ TakesNone(t)
    BY <1>1, ThreadEffect
  <2>2. CountersExact' /\ idle' \in Nat
    BY <2>1, FollowsKept
  <2>3. queue' \in Seq(1 .. MaxTasks) /\ task' \in [Threads -> 0 .. MaxTasks]
        /\ late' \in [Threads -> BOOLEAN]
    <3>1. CASE Takes(t)
      <4>1. queue \in Seq(1 .. MaxTasks) /\ queue # <<>>
        BY <3>1 DEF Takes, TypeOK
      <4>2. Head(queue) \in 1 .. MaxTasks /\ Tail(queue) \in Seq(1 .. MaxTasks)
        BY <4>1, HeadTailProperties
      <4>3. Head(queue) \in 0 .. MaxTasks
        BY <4>2, BoundsAssumption
      <4> QED BY <3>1, <4>2, <4>3 DEF Takes, TypeOK
    <3>2. CASE TakesNone(t)
      BY <3>2 DEF TakesNone, TypeOK
    <3> QED BY <2>1, <3>1, <3>2
  <2> QED BY <2>1, <2>2, <2>3 DEF TypeOK, Follows
<1>2. ASSUME NEW t \in Threads, RunEnds(t) PROVE TypeOK' /\ CountersExact'
  <2>1. Follows(t) /\ IdleFollows(t) /\ tpc[t] = "run" /\ UNCHANGED failed
    BY <1>2, RunEffect DEF RunEnds
  <2>2. CountersExact' /\ idle' \in Nat
    BY <2>1, FollowsKept
  <2>3. task[t] \in 1 .. MaxTasks
    BY <2>1, BoundsAssumption DEF TaskPlace, TypeOK, NoTask
  <2>4. /\ UNCHANGED <<queue, quit, late, added, failed>> /\ finished' = finished \cup {task[t]}
        /\ task' = [task EXCEPT ![t] = 0]
    BY <1>2 DEF RunEnds, poolVars, NoTask
  <2>5. 0 \in 0 .. MaxTasks
    BY BoundsAssumption
  <2>6. task' \in [Threads -> 0 .. MaxTasks] /\ finished' \subseteq 1 .. MaxTasks
    BY <2>3, <2>4, <2>5 DEF TypeOK
  <2> QED BY <2>1, <2>2, <2>4, <2>6 DEF TypeOK, Follows
<1>3. ASSUME NEW t \in Threads, NEW v \in {"woken", "timedout"}, tpc[t] = "wait",
             tpc' = [tpc EXCEPT ![t] = v], UNCHANGED <<poolVars, late, task, dpc, added, finished, failed>>
      PROVE  TypeOK' /\ CountersExact'
  <2>1. UNCHANGED <<counter, idle, dpc>>
    BY <1>3 DEF poolVars
  <2>2. Follows(t) /\ IdleFollows(t)
    BY <1>3, <2>1, WaitEndsEffect
  <2>3. CountersExact' /\ idle' \in Nat
    BY <1>3, <2>2, FollowsKept
  <2> QED BY <1>3, <2>2, <2>3 DEF TypeOK, Follows, poolVars
<1>4. ASSUME NEW d \in Destroyers, NEW c \in CallPoints, dpc' = [dpc EXCEPT ![d] = c],
             UNCHANGED <<poolVars, threadVars, added, finished, failed>>
      PROVE  TypeOK' /\ CountersExact'
  <2>1. UNCHANGED <<tpc, counter, idle, failed>>
    BY <1>4 DEF poolVars, threadVars
  <2>2. CountersExact'
    BY <2>1, StillKept
  <2> QED BY <1>4, <2>2 DEF TypeOK, poolVars, threadVars
<1>5. ASSUME NEW t \in Threads, TimeOut(t) PROVE TypeOK' /\ CountersExact'
  BY <1>3, <1>5 DEF TimeOut
<1>6. ASSUME Spurious PROVE TypeOK' /\ CountersExact'
  <2>1. CASE \E t \in Waiting : tpc' = [tpc EXCEPT ![t] = "woken"] /\ UNCHANGED dpc
    BY <1>3, <1>6, <2>1 DEF Spurious, Waiting
  <2>2. CASE \E d \in Destroyers : /\ dpc[d] = "wait" /\ UNCHANGED tpc
                                   /\ dpc' = [dpc EXCEPT ![d] = "woken"]
    BY <1>4, <1>6, <2>2 DEF Spurious, CallPoints, threadVars
  <2> QED BY <1>6, <2>1, <2>2 DEF Spurious
<1>7. ASSUME NEW d \in Destroyers, DestroyTest(d) \/ DestroyResume(d)
      PROVE  TypeOK' /\ CountersExact'
  BY <1>4, <1>7 DEF DestroyTest, DestroyResume, CallPoints
<1>8. ASSUME NEW d \in Destroyers, DestroyLock(d) PROVE TypeOK' /\ CountersExact'
  <2>1. /\ UNCHANGED <<queue, counter, idle, late, task, added, finished, failed>> /\ quit' = TRUE
        /\ \A t \in Threads : tpc'[t] = tpc[t] \/ (tpc[t] = "wait" /\ tpc'[t] = "woken")
    BY <1>8 DEF DestroyLock
  <2>2. tpc' \in [Threads -> ThreadPoints] /\ dpc' \in [Destroyers -> CallPoints]
    BY <1>8 DEF DestroyLock, TypeOK, ThreadPoints, IdlePoints, CallPoints
  <2>3. Idle' = Idle /\ Live' = Live
    BY <2>1 DEF Idle, Live, IdlePoints
  <2> QED BY <2>1, <2>2, <2>3 DEF TypeOK, CountersExact
<1>9. ASSUME AddTask PROVE TypeOK' /\ CountersExact'
  <2>1. /\ tpc' \in [Threads -> ThreadPoints] /\ dpc' \in [Destroyers -> CallPoints]
        /\ counter' \in 0 .. MaxThreads /\ CountersExact' /\ idle' \in Nat /\ failed' \in Nat
    BY <1>9, AddEffect
  <2>2. added + 1 \in 1 .. MaxTasks /\ added' = added + 1 /\ queue' = Append(queue, added + 1)
        /\ UNCHANGED <<quit, late, task, finished>>
    BY <1>9, BoundsAssumption DEF AddTask, TypeOK
  <2> QED BY <2>1, <2>2, BoundsAssumption DEF TypeOK
<1>10. CASE UNCHANGED vars
  BY <1>10, StillKept DEF TypeOK, vars, poolVars, threadVars
<1> QED BY <1>1, <1>2, <1>5, <1>6, <1>7, <1>8, <1>9, <1>10 DEF Next, DestroyStep

\* Each conjunct of the invariant is kept by a critical section of a thread.
LEMMA ThreadInv ==
  ASSUME PoolInv, NEW t \in Threads, ThreadStep(t), TypeOK', CountersExact'
  PROVE  PoolInv'
<1>1. /\ Follows(t) /\ UNCHANGED quit /\ tpc[t] \in LivePoints \ {"run"}
      /\ Takes(t) \/ TakesNone(t)
  BY ThreadEffect DEF PoolInv, Base
<1>2. \A u \in Threads \ {t} : tpc'[u] = tpc[u] \/ (tpc[u] = "wait" /\ tpc'[u] = "woken")
  BY <1>1 DEF Follows, OthersKept
<1>3. tpc'[t] \in {"none", "wait"} => queue' = <<>>
  BY <1>1 DEF Takes, TakesNone
<1>4. NoLostWakeup'
  BY <1>1, <1>2, <1>3 DEF Takes, TakesNone, NoLostWakeup
<1>5. NoWaitAfterQuit'
  BY <1>1, <1>2 DEF Takes, TakesNone, NoWaitAfterQuit, Waiting, PoolInv
<1>6. TaskPlace'
  <2>1. \A u \in Threads \ {t} : tpc[u] = "run" <=> tpc'[u] = "run"
    BY <1>2
  <2>2. CASE Takes(t)
    <3>1. queue \in Seq(1 .. MaxTasks) /\ queue # <<>>
      BY <2>2 DEF Takes, PoolInv, TypeOK
    <3>2. Head(queue) \in 1 .. MaxTasks
      BY <3>1, HeadTailProperties
    <3>3. Head(queue) # 0
      BY <3>2, BoundsAssumption
    <3> QED BY <2>1, <2>2, <3>3 DEF Takes, TaskPlace, PoolInv, TypeOK, NoTask
  <2>3. CASE TakesNone(t)
    BY <1>1, <2>1, <2>3 DEF TakesNone, TaskPlace, PoolInv
  <2> QED BY <1>1, <2>2, <2>3
<1>7. WorkIsCounted'
  <2>1. CASE \E u \in Threads : tpc'[u] # "none"
    <3>1. counter' > 0
      <4>1. PICK u \in Threads : tpc'[u] # "none"
        BY <2>1
      <4>2. tpc' \in [Threads -> ThreadPoints] /\ tpc'[u] \in LivePoints
        BY <4>1 DEF TypeOK, LivePoints
      <4>3. Count(tpc', LivePoints) >= 1
        BY <4>2, Counted
      <4>4. Live' = {w \in Threads : tpc'[w] \in LivePoints}
        BY <4>2 DEF Live, LivePoints
      <4>5. counter' = Count(tpc', LivePoints) + failed' /\ counter' \in Nat /\ failed' \in Nat
        BY <4>4, BoundsAssumption DEF Count, CountersExact, TypeOK
      <4>6. Count(tpc', LivePoints) \in Nat
        BY FS_Subset, FS_CardinalityType, ThreadsAssumption,
           {w \in Threads : tpc'[w] \in LivePoints} \subseteq Threads DEF Count
      <4> QED BY <4>3, <4>5, <4>6
    <3> QED BY <3>1 DEF WorkIsCounted
  <2>2. CASE \A u \in Threads : tpc'[u] = "none"
    <3>1. queue' = <<>>
      BY <1>3, <2>2
    <3>2. \A u \in Threads : task'[u] = NoTask
      BY <1>6, <2>2 DEF TaskPlace
    <3> QED BY <3>1, <3>2 DEF WorkIsCounted
  <2> QED BY <2>1, <2>2
<1>8. QuitSet' /\ QuitBy'
  BY <1>1 DEF Follows, OthersKept, QuitSet, QuitBy, PoolInv
<1> QED BY <1>4, <1>5, <1>6, <1>7, <1>8 DEF PoolInv

\* ... by the end of a task and by the end of a wait, which move one thread
\* without touching the queue or the counters ...
Moved(u) ==
  \/ tpc'[u] = tpc[u] /\ task'[u] = task[u]
  \/ tpc[u] = "wait" /\ tpc'[u] \in {"woken", "timedout"} /\ task'[u] = task[u]
  \/ tpc[u] = "run" /\ tpc'[u] = "ran" /\ task'[u] = NoTask
Called(d) == dpc'[d] = dpc[d] \/ (dpc[d] = "wait" /\ dpc'[d] = "woken")

LEMMA UnlockedInv ==
  ASSUME PoolInv, TypeOK', CountersExact', UNCHANGED <<queue, counter, quit>>,
         \A u \in Threads : Moved(u), \A d \in Destroyers : Called(d)
  PROVE  PoolInv'
<1> USE DEF Moved, Called
<1>1. NoLostWakeup' /\ NoWaitAfterQuit' /\ QuitSet' /\ QuitBy'
  BY DEF PoolInv, NoLostWakeup, Live, NoWaitAfterQuit, Waiting, QuitSet, QuitBy
<1>2. TaskPlace'
  BY DEF PoolInv, TaskPlace
<1>3. WorkIsCounted'
  BY DEF PoolInv, WorkIsCounted
<1> QED BY <1>1, <1>2, <1>3 DEF PoolInv

\* ... by threadpool_add_task: a thread that counts as idle is awake, or the
\* signal wakes one, because no destroyer waits while a thread does ...
LEMMA AddInv ==
  ASSUME PoolInv, AddTask, TypeOK', CountersExact'
  PROVE  PoolInv'
<1> USE DEF PoolInv
<1>1. /\ counter' > 0
      /\ \A u \in Threads : \/ tpc'[u] = tpc[u]
                            \/ tpc[u] = "wait" /\ tpc'[u] = "woken"
                            \/ tpc[u] = "none" /\ tpc'[u] = "start"
      /\ \A d \in Destroyers : dpc'[d] = dpc[d] \/ (dpc[d] = "wait" /\ dpc'[d] = "woken")
  BY AddEffect
<1>2. UNCHANGED <<idle, quit, late, task, finished>>
  BY DEF AddTask
<1>3. NoWaitAfterQuit' /\ QuitSet' /\ QuitBy' /\ TaskPlace' /\ WorkIsCounted'
  BY <1>1, <1>2 DEF NoWaitAfterQuit, Waiting, QuitSet, QuitBy, TaskPlace, WorkIsCounted
<1>4. ASSUME Live' # {}
      PROVE  \E u \in Threads : tpc'[u] \notin {"none", "wait"}
  <2>1. CASE idle > 0 /\ Signal(tpc)
    <3>1. PICK u \in Threads : tpc[u] \in IdlePoints
      <4>1. Cardinality(Idle) > 0
        BY <2>1 DEF CountersExact
      <4> QED BY <4>1, FS_EmptySet DEF Idle
    <3>2. CASE tpc[u] # "wait"
      BY <1>1, <3>1, <3>2 DEF IdlePoints
    <3>3. CASE tpc[u] = "wait"
      <4>1. ~quit
        BY <3>3 DEF NoWaitAfterQuit, Waiting
      <4>2. \A d \in Destroyers : dpc[d] # "wait"
        BY <4>1 DEF QuitSet
      <4>3. PICK w \in Threads : tpc[w] = "wait" /\ tpc' = [tpc EXCEPT ![w] = "woken"]
        BY <2>1, <3>3, <4>2 DEF Signal
      <4>4. tpc'[w] = "woken"
        BY <4>3 DEF TypeOK
      <4> QED BY <4>4
    <3> QED BY <3>2, <3>3
  <2>2. CASE \E t \in Threads \ Live : tpc' = [tpc EXCEPT ![t] = "start"]
    <3>1. PICK t \in Threads : tpc' = [tpc EXCEPT ![t] = "start"]
      BY <2>2
    <3>2. tpc'[t] = "start"
      BY <3>1 DEF TypeOK
    <3> QED BY <3>2
  <2>3. CASE idle = 0 /\ UNCHANGED tpc
    <3>1. Cardinality(Idle) = 0
      BY <2>3 DEF CountersExact
    <3>2. PICK u \in Threads : tpc[u] # "none"
      BY <1>4, <2>3 DEF Live
    <3>3. IsFiniteSet(Idle)
      BY FS_Subset, ThreadsAssumption, Idle \subseteq Threads DEF Idle
    <3>4. tpc[u] # "wait"
      BY <3>1, <3>3, FS_EmptySet DEF Idle, IdlePoints
    <3> QED BY <2>3, <3>2, <3>4
  <2> QED BY <1>4, <2>1, <2>2, <2>3 DEF AddTask, WakeOrCreate
<1>5. NoLostWakeup'
  BY <1>4 DEF NoLostWakeup
<1> QED BY <1>3, <1>5

\* ... and by the callers of threadpool_destroy.
LEMMA DestroyInv ==
  ASSUME PoolInv, NEW d \in Destroyers, DestroyStep(d), TypeOK', CountersExact'
  PROVE  PoolInv'
<1> USE DEF PoolInv
<1>1. CASE DestroyTest(d) \/ DestroyResume(d)
  <2>1. UNCHANGED <<queue, counter, quit, tpc, task>>
    BY <1>1 DEF DestroyTest, DestroyResume, poolVars, threadVars
  <2>2. QuitSet' /\ QuitBy'
    BY <1>1, <2>1 DEF DestroyTest, DestroyResume, QuitSet, QuitBy, TypeOK
  <2> QED BY <2>1, <2>2 DEF NoLostWakeup, Live, NoWaitAfterQuit, Waiting, WorkIsCounted, TaskPlace
<1>2. CASE DestroyLock(d)
  <2>1. UNCHANGED <<queue, counter, task>> /\ quit'
        /\ \A t \in Threads : tpc'[t] = tpc[t] \/ (tpc[t] = "wait" /\ tpc'[t] = "woken")
    BY <1>2 DEF DestroyLock
  <2>2. NoLostWakeup' /\ WorkIsCounted' /\ TaskPlace' /\ QuitSet'
    BY <2>1 DEF NoLostWakeup, Live, WorkIsCounted, TaskPlace, QuitSet
  <2>5. QuitBy'
    <3>1. dpc'[d] \in {"wait", "returned"}
      BY <1>2 DEF DestroyLock
    <3> QED BY <3>1 DEF QuitBy
  <2>3. ASSUME NEW t \in Threads, tpc[t] = "wait"
        PROVE  tpc'[t] = "woken"
    <3>1. counter > 0
      BY <2>3, LiveCounted
    <3>2. idle > 0
      <4>1. IsFiniteSet(Idle) /\ Idle # {}
        BY <2>3, FS_Subset, ThreadsAssumption, Idle \subseteq Threads DEF Idle, IdlePoints
      <4>2. Cardinality(Idle) \in Nat /\ Cardinality(Idle) # 0
        BY <4>1, FS_CardinalityType, FS_EmptySet
      <4> QED BY <4>2 DEF CountersExact
    <3> QED BY <1>2, <2>3, <3>1, <3>2 DEF DestroyLock
  <2>4. NoWaitAfterQuit'
    BY <2>1, <2>3 DEF NoWaitAfterQuit, Waiting
  <2> QED BY <2>2, <2>4, <2>5
<1> QED BY <1>1, <1>2 DEF DestroyStep

LEMMA PoolStep ==
  ASSUME PoolInv, [Next]_vars
  PROVE  PoolInv'
<1>1. TypeOK' /\ CountersExact'
  BY TypeStep
<1>4. ASSUME NEW t \in Threads, ThreadStep(t) PROVE PoolInv'
  BY <1>1, <1>4, ThreadInv
<1>2. tpc \in [Threads -> ThreadPoints] /\ task \in [Threads -> 0 .. MaxTasks]
  BY DEF PoolInv, TypeOK
<1>3. dpc \in [Destroyers -> CallPoints]
  BY DEF PoolInv, TypeOK
<1>5. ASSUME NEW t \in Threads, RunEnds(t) PROVE PoolInv'
  <2>1. UNCHANGED <<queue, counter, quit, dpc>> /\ \A u \in Threads : Moved(u)
    BY <1>5, <1>2 DEF RunEnds, poolVars, Moved
  <2>2. \A d \in Destroyers : Called(d)
    BY <2>1 DEF Called
  <2> QED BY <1>1, UnlockedInv, <2>1, <2>2
<1>6. ASSUME NEW t \in Threads, TimeOut(t) PROVE PoolInv'
  <2>1. UNCHANGED <<queue, counter, quit, dpc>> /\ \A u \in Threads : Moved(u)
    BY <1>6, <1>2 DEF TimeOut, poolVars, Moved
  <2>2. \A d \in Destroyers : Called(d)
    BY <2>1 DEF Called
  <2> QED BY <1>1, UnlockedInv, <2>1, <2>2
<1>7. ASSUME Spurious PROVE PoolInv'
  <2>1. UNCHANGED <<queue, counter, quit, task>>
    BY <1>7 DEF Spurious, poolVars
  <2>2. CASE \E t \in Waiting : tpc' = [tpc EXCEPT ![t] = "woken"] /\ UNCHANGED dpc
    <3>1. \A u \in Threads : Moved(u)
      BY <1>2, <2>1, <2>2 DEF Waiting, Moved
    <3>2. \A d \in Destroyers : Called(d)
      BY <2>2 DEF Called
    <3> QED BY <1>1, UnlockedInv, <2>1, <3>1, <3>2
  <2>3. CASE \E d \in Destroyers : /\ dpc[d] = "wait" /\ UNCHANGED tpc
                                   /\ dpc' = [dpc EXCEPT ![d] = "woken"]
    <3>1. \A d \in Destroyers : Called(d)
      BY <1>3, <2>3 DEF Called
    <3>2. \A u \in Threads : Moved(u)
      BY <2>1, <2>3 DEF Moved
    <3> QED BY <1>1, UnlockedInv, <2>1, <3>1, <3>2
  <2> QED BY <1>7, <2>2, <2>3 DEF Spurious
<1>8. ASSUME NEW d \in Destroyers, DestroyStep(d) PROVE PoolInv'
  BY <1>1, <1>8, DestroyInv
<1>9. ASSUME AddTask PROVE PoolInv'
  BY <1>1, <1>9, AddInv
<1>10. CASE UNCHANGED vars
  BY <1>1, <1>10, UnlockedInv DEF vars, poolVars, threadVars, Moved, Called
<1> QED BY <1>4, <1>5, <1>6, <1>7, <1>8, <1>9, <1>10 DEF Next

LEMMA PoolInvariant == Spec => []PoolInv
<1>1. Init => PoolInv
  BY PoolInit
<1>2. PoolInv /\ [Next]_vars => PoolInv'
  BY PoolStep
<1> QED BY <1>1, <1>2, PTL DEF Spec

\* Every variable of the pool, its threads and its callers has its type.
THEOREM TypeCorrect == Spec => []TypeOK
<1>1. PoolInv => TypeOK
  BY DEF PoolInv
<1> QED BY <1>1, PoolInvariant, PTL

\* The counters of the pool agree with its threads, for every interleaving of
\* thread_routine, threadpool_add_task and threadpool_destroy.
THEOREM CountersExactHolds == Spec => []CountersExact
<1>1. PoolInv => CountersExact
  BY DEF PoolInv
<1> QED BY <1>1, PoolInvariant, PTL

\* No signal of threadpool_add_task is lost, although threads and destroyers
\* wait on one condition variable and waits may time out or end early.
THEOREM NoLostWakeupHolds == Spec => [](NoLostWakeup /\ NoWaitAfterQuit)
<1>1. PoolInv => NoLostWakeup /\ NoWaitAfterQuit
  BY DEF PoolInv
<1> QED BY <1>1, PoolInvariant, PTL

\* threadpool_destroy never overlooks a queued or running task.
THEOREM WorkIsCountedHolds == Spec => []WorkIsCounted
<1>1. PoolInv => WorkIsCounted
  BY DEF PoolInv
<1> QED BY <1>1, PoolInvariant, PTL

-----------------------------------------------------------------------------
(* ThreadPool implements TaskService.  Taking a task is Start, the end of  *)
(* its run is Finish, threadpool_add_task is Submit; the unlocked test of  *)
(* threadpool_destroy is Call or TurnAway, and the critical section in     *)
(* which it finds counter = 0 is Return; every                             *)
(* other step of the pool is invisible to its callers.                     *)

Work == PoolInv /\ WorkOrder

LEMMA OrderInit == Init => WorkOrder
  BY DEF Init, WorkOrder

\* Taking the head keeps the order; so does anything that leaves the queue, the
\* tasks and the number of tasks alone.
LEMMA ThreadOrder ==
  ASSUME Work, NEW t \in Threads, ThreadStep(t)
  PROVE  WorkOrder'
<1>1. /\ UNCHANGED added
      /\ Takes(t) \/ TakesNone(t)
  BY ThreadEffect DEF Work, PoolInv, Base
<1>2. CASE TakesNone(t)
  BY <1>1, <1>2 DEF TakesNone, Work, WorkOrder
<1>3. CASE Takes(t)
  <2>1. queue \in Seq(1 .. MaxTasks) /\ queue # <<>> /\ task \in [Threads -> 0 .. MaxTasks]
    BY <1>3 DEF Takes, Work, PoolInv, TypeOK
  <2>2. /\ Len(queue) \in Nat \ {0} /\ Head(queue) = queue[1]
        /\ Len(Tail(queue)) = Len(queue) - 1
        /\ \A i \in 1 .. Len(Tail(queue)) : Tail(queue)[i] = queue[i + 1]
    BY <2>1, HeadTailProperties
  <2>3. \A i \in 1 .. Len(queue') : queue'[i] = queue[i + 1] /\ i + 1 \in 2 .. Len(queue)
    BY <1>3, <2>2 DEF Takes
  <2>4. task'[t] = queue[1] /\ \A u \in Threads \ {t} : task'[u] = task[u]
    BY <1>3, <2>1, <2>2 DEF Takes
  <2>5. 1 \in 1 .. Len(queue) /\ 2 .. Len(queue) \subseteq 1 .. Len(queue)
    BY <2>2
  <2>6. \A i \in 1 .. Len(queue) : queue[i] \in 1 .. MaxTasks
    BY <2>1, ElementOfSeq
  <2>7. /\ \A i \in 1 .. Len(queue') : queue'[i] <= added
        /\ \A i, j \in 1 .. Len(queue') : i < j => queue'[i] < queue'[j]
    BY <2>2, <2>3, <2>5, <1>3 DEF Takes, Work, WorkOrder
  <2>8. \A u \in Threads : task'[u] # NoTask =>
           task'[u] <= added /\ \A i \in 1 .. Len(queue') : task'[u] < queue'[i]
    <3>1. \A i \in 2 .. Len(queue) : queue[1] < queue[i]
      BY <2>2, <2>5 DEF Work, WorkOrder
    <3> QED BY <2>3, <2>4, <2>5, <3>1 DEF Work, WorkOrder
  <2>9. \A u \in Threads : task[u] # NoTask => task[u] # queue[1]
    <3>1. \A u \in Threads : task[u] # NoTask => task[u] < queue[1]
      BY <2>5 DEF Work, WorkOrder
    <3>2. queue[1] \in Nat /\ \A u \in Threads : task[u] \in Nat
      BY <2>1, <2>5, <2>6, BoundsAssumption
    <3> QED BY <3>1, <3>2
  <2>10. \A u, w \in Threads : task'[u] # NoTask /\ u # w => task'[u] # task'[w]
    <3>1. queue[1] # NoTask
      BY <2>5, <2>6, BoundsAssumption DEF NoTask
    <3> QED BY <2>4, <2>9, <3>1 DEF Work, WorkOrder
  <2> QED BY <1>1, <2>7, <2>8, <2>10 DEF WorkOrder
<1> QED BY <1>1, <1>2, <1>3

\* A new task goes behind all others.
LEMMA AddOrder ==
  ASSUME Work, AddTask
  PROVE  WorkOrder'
<1>1. queue \in Seq(1 .. MaxTasks) /\ added \in Nat /\ task \in [Threads -> 0 .. MaxTasks]
      /\ MaxTasks \in Nat
  BY BoundsAssumption DEF Work, PoolInv, TypeOK
<1>2. queue' = Append(queue, added + 1) /\ added' = added + 1 /\ task' = task
  BY DEF AddTask
<1>3. /\ Len(queue) \in Nat /\ Len(queue') = Len(queue) + 1
      /\ queue'[Len(queue) + 1] = added + 1
      /\ \A i \in 1 .. Len(queue) : queue'[i] = queue[i] /\ queue[i] \in Nat
  BY <1>1, <1>2
<1>4. \A i \in 1 .. Len(queue') : i \in 1 .. Len(queue) \/ i = Len(queue) + 1
  BY <1>3
<1>5. \A i \in 1 .. Len(queue) : queue[i] < added + 1
  BY <1>1, <1>3 DEF Work, WorkOrder
<1>6. \A i \in 1 .. Len(queue') : queue'[i] <= added'
  BY <1>1, <1>2, <1>3, <1>4, <1>5
<1>7. \A i, j \in 1 .. Len(queue') : i < j => queue'[i] < queue'[j]
  <2> SUFFICES ASSUME NEW i \in 1 .. Len(queue'), NEW j \in 1 .. Len(queue'), i < j
               PROVE  queue'[i] < queue'[j]
    OBVIOUS
  <2>1. i \in 1 .. Len(queue)
    BY <1>3
  <2>2. CASE j \in 1 .. Len(queue)
    BY <1>3, <2>1, <2>2 DEF Work, WorkOrder
  <2>3. CASE j = Len(queue) + 1
    BY <1>3, <1>5, <2>1, <2>3
  <2> QED BY <1>4, <2>2, <2>3
<1>8. \A u \in Threads : task[u] # NoTask =>
         task[u] <= added' /\ \A i \in 1 .. Len(queue') : task[u] < queue'[i]
  <2> SUFFICES ASSUME NEW u \in Threads, task[u] # NoTask
               PROVE  task[u] <= added' /\ \A i \in 1 .. Len(queue') : task[u] < queue'[i]
    OBVIOUS
  <2>1. task[u] \in Nat /\ task[u] <= added
    BY <1>1 DEF Work, WorkOrder
  <2>2. \A i \in 1 .. Len(queue) : task[u] < queue'[i]
    BY <1>3 DEF Work, WorkOrder
  <2> QED BY <1>1, <1>2, <1>3, <1>4, <2>1, <2>2
<1> QED BY <1>2, <1>6, <1>7, <1>8 DEF Work, WorkOrder

LEMMA WorkStep ==
  ASSUME Work, [Next]_vars
  PROVE  Work'
<1>1. PoolInv'
  BY PoolStep DEF Work
<1>2. ASSUME UNCHANGED <<queue, task, added>> PROVE WorkOrder'
  BY <1>2 DEF Work, WorkOrder
<1>3. ASSUME NEW t \in Threads, ThreadStep(t) PROVE WorkOrder'
  BY <1>3, ThreadOrder
<1>4. ASSUME NEW t \in Threads, RunEnds(t) PROVE WorkOrder'
  <2>1. UNCHANGED <<queue, added>> /\ task' = [task EXCEPT ![t] = NoTask]
        /\ task \in [Threads -> 0 .. MaxTasks]
    BY <1>4 DEF RunEnds, poolVars, Work, PoolInv, TypeOK
  <2>2. \A u \in Threads : task'[u] = NoTask \/ task'[u] = task[u]
    BY <2>1
  <2> QED BY <2>1, <2>2 DEF Work, WorkOrder
<1>5. ASSUME NEW t \in Threads, TimeOut(t) PROVE WorkOrder'
  BY <1>2, <1>5 DEF TimeOut, poolVars
<1>6. ASSUME Spurious PROVE WorkOrder'
  BY <1>2, <1>6 DEF Spurious, poolVars
<1>7. ASSUME NEW d \in Destroyers, DestroyStep(d) PROVE WorkOrder'
  BY <1>2, <1>7 DEF DestroyStep, DestroyTest, DestroyLock, DestroyResume, poolVars, threadVars
<1>8. ASSUME AddTask PROVE WorkOrder'
  BY <1>8, AddOrder
<1>9. ASSUME UNCHANGED vars PROVE WorkOrder'
  BY <1>2, <1>9 DEF vars, poolVars, threadVars
<1>10. WorkOrder'
  BY <1>3, <1>4, <1>5, <1>6, <1>7, <1>8, <1>9 DEF Next
<1> QED BY <1>1, <1>10 DEF Work
-----------------------------------------------------------------------------
(* The refinement. *)

\* The tasks that run are no more than the threads that run them.
LEMMA RunningBound == PoolInv => ParallelLimit
<1> SUFFICES ASSUME PoolInv PROVE Cardinality(Running) <= MaxThreads
  BY DEF ParallelLimit
<1> DEFINE Runners == {u \in Threads : tpc[u] = "run"}
           Held    == {task[u] : u \in Runners}
<1>1. IsFiniteSet(Live) /\ IsFiniteSet(Runners)
  BY ThreadsAssumption, FS_Subset, Live \subseteq Threads, Runners \subseteq Threads DEF Live
<1>2. Running = Held
  BY DEF Running, PoolInv, TaskPlace
<1>3. IsFiniteSet(Held) /\ Cardinality(Held) <= Cardinality(Runners)
  <2> DEFINE f == [u \in Runners |-> task[u]]
  <2>1. f \in Surjection(Runners, Held)
    BY DEF Surjection
  <2> HIDE DEF f
  <2> QED BY <1>1, <2>1, FS_Surjection
<1>4. Cardinality(Runners) <= Cardinality(Live)
  BY <1>1, FS_Subset, Runners \subseteq Live DEF Live
<1>5. counter = Cardinality(Live) + failed /\ failed \in Nat /\ counter <= MaxThreads
  BY BoundsAssumption DEF PoolInv, CountersExact, TypeOK
<1>6. /\ Cardinality(Live) \in Nat /\ Cardinality(Runners) \in Nat
      /\ Cardinality(Held) \in Nat /\ counter \in Nat /\ MaxThreads \in Nat
  BY <1>1, <1>3, FS_CardinalityType, BoundsAssumption DEF PoolInv, TypeOK
<1> HIDE DEF Runners, Held
<1> QED BY <1>2, <1>3, <1>4, <1>5, <1>6

\* At most max_threads tasks run at a time.
THEOREM ParallelLimitHolds == Spec => []ParallelLimit
  BY PoolInvariant, RunningBound, PTL

LEMMA ServiceInit == Init => Service!Init
<1> SUFFICES ASSUME Init PROVE Service!Init
  OBVIOUS
<1>1. Running = {}
  BY DEF Init, Running
<1>2. [d \in Destroyers |-> CallPlace(dpc[d])] = [d \in Destroyers |-> "out"]
  BY DEF Init, CallPlace
<1> QED BY <1>1, <1>2 DEF Init, Service!Init

\* The pool is open to its callers until one of them has seen it empty.
LEMMA OpenIs == Service!Open <=> ~Destroyed
  BY DEF Service!Open, Destroyed, CallPlace

\* Where the calls of threadpool_destroy are, whatever a signal wakes.
LEMMA CallsKept ==
  ASSUME \A d \in Destroyers : Called(d)
  PROVE  UNCHANGED [d \in Destroyers |-> CallPlace(dpc[d])]
  BY DEF Called, CallPlace

LEMMA ServiceThread ==
  ASSUME Work, NEW t \in Threads, ThreadStep(t)
  PROVE  Service!Start \/ UNCHANGED Service!vars
<1>1. /\ Follows(t) /\ UNCHANGED <<added, finished>>
      /\ tpc[t] \in LivePoints \ {"run"}
      /\ Takes(t) \/ TakesNone(t)
  BY ThreadEffect DEF Work, PoolInv, Base
<1>2. UNCHANGED [d \in Destroyers |-> CallPlace(dpc[d])]
  BY <1>1, CallsKept DEF Follows, OthersKept, Called
<1>3. CASE TakesNone(t)
  BY <1>1, <1>2, <1>3 DEF TakesNone, Running, Service!vars
<1>4. CASE Takes(t)
  <2>1. queue \in Seq(1 .. MaxTasks) /\ queue # <<>> /\ task \in [Threads -> 0 .. MaxTasks]
    BY <1>4 DEF Takes, Work, PoolInv, TypeOK
  <2>2. Head(queue) # NoTask
    BY <2>1, HeadTailProperties, BoundsAssumption DEF NoTask
  <2>3. task[t] = NoTask
    BY <1>1 DEF Work, PoolInv, TaskPlace
  <2>4. Running' = Running \cup {Head(queue)}
    <3>1. task'[t] = Head(queue) /\ \A u \in Threads \ {t} : task'[u] = task[u]
      BY <1>4, <2>1 DEF Takes
    <3>2. ASSUME NEW k \in Running' PROVE k \in Running \cup {Head(queue)}
      BY <3>1, <3>2 DEF Running
    <3>3. ASSUME NEW k \in Running PROVE k \in Running'
      BY <2>3, <3>1, <3>3 DEF Running
    <3>4. Head(queue) \in Running'
      BY <2>2, <3>1 DEF Running
    <3> QED BY <3>2, <3>3, <3>4
  <2>5. queue' = Tail(queue)
    BY <1>4 DEF Takes
  <2>6. Service!Start
    BY <1>1, <1>2, <2>1, <2>4, <2>5 DEF Service!Start
  <2> QED BY <2>6
<1> QED BY <1>1, <1>3, <1>4

LEMMA ServiceRun ==
  ASSUME Work, NEW t \in Threads, RunEnds(t)
  PROVE  \E k \in Running : Service!Finish(k)
<1>1. /\ tpc[t] = "run" /\ finished' = finished \cup {task[t]}
      /\ task' = [task EXCEPT ![t] = NoTask] /\ UNCHANGED <<queue, dpc, added>>
      /\ task \in [Threads -> 0 .. MaxTasks]
  BY DEF RunEnds, poolVars, Work, PoolInv, TypeOK
<1>2. task[t] # NoTask /\ task[t] \in Running
  BY <1>1 DEF Work, PoolInv, TaskPlace, Running
<1>3. Running' = Running \ {task[t]}
  <2>1. task'[t] = NoTask /\ \A u \in Threads \ {t} : task'[u] = task[u]
    BY <1>1
  <2>2. \A u \in Threads \ {t} : task[u] # NoTask => task[u] # task[t]
    BY DEF Work, WorkOrder
  <2>3. ASSUME NEW k \in Running' PROVE k \in Running \ {task[t]}
    BY <2>1, <2>2, <2>3 DEF Running
  <2>4. ASSUME NEW k \in Running, k # task[t] PROVE k \in Running'
    BY <2>1, <2>4 DEF Running
  <2> QED BY <2>3, <2>4
<1>4. UNCHANGED [d \in Destroyers |-> CallPlace(dpc[d])]
  BY <1>1
<1> QED BY <1>1, <1>2, <1>3, <1>4 DEF Service!Finish

LEMMA ServiceAdd ==
  ASSUME Work, AddTask
  PROVE  Service!Submit
<1>1. \A d \in Destroyers : Called(d)
  BY AddEffect DEF Called, Work, PoolInv
<1>2. UNCHANGED [d \in Destroyers |-> CallPlace(dpc[d])]
  BY <1>1, CallsKept
<1>3. Running' = Running
  BY DEF AddTask, Running
<1> QED BY <1>2, <1>3, OpenIs DEF AddTask, Service!Submit

\* A destroyer that is turned away has seen quit, which another one set; one that
\* returns has seen counter = 0, and then nothing is queued or runs.
LEMMA ServiceDestroy ==
  ASSUME Work, NEW d \in Destroyers, DestroyStep(d)
  PROVE  \/ Service!Call(d) \/ Service!TurnAway(d) \/ Service!Return(d)
         \/ UNCHANGED Service!vars
<1> DEFINE c == [e \in Destroyers |-> CallPlace(dpc[e])]
<1>1. UNCHANGED <<queue, counter, task, added, finished>>
  BY DEF DestroyStep, DestroyTest, DestroyLock, DestroyResume, poolVars, threadVars
<1>2. Running' = Running
  BY <1>1 DEF Running
<1>3. dpc \in [Destroyers -> CallPoints] /\ counter \in Nat
  BY BoundsAssumption DEF Work, PoolInv, TypeOK
<1>4. CASE DestroyTest(d)
  <2>1. dpc[d] = "out" /\ c[d] = "out"
    BY <1>4 DEF DestroyTest, CallPlace
  <2>2. CASE quit
    <3>1. \E e \in Destroyers : c[e] \in {"in", "done"}
      BY <2>2 DEF Work, PoolInv, QuitBy, CallPlace
    <3>2. c' = [c EXCEPT ![d] = "turnedAway"]
      BY <1>3, <1>4, <2>2 DEF DestroyTest, CallPlace
    <3> QED BY <1>1, <1>2, <2>1, <3>1, <3>2 DEF Service!TurnAway
  <2>3. CASE ~quit
    <3>1. Service!Open
      BY <2>3, OpenIs DEF Work, PoolInv, QuitSet, Destroyed
    <3>2. c' = [c EXCEPT ![d] = "in"]
      BY <1>3, <1>4, <2>3 DEF DestroyTest, CallPlace
    <3> QED BY <1>1, <1>2, <2>1, <3>1, <3>2 DEF Service!Call
  <2> QED BY <2>2, <2>3
<1>5. CASE DestroyLock(d) \/ DestroyResume(d)
  <2>1. Service!Open /\ dpc[d] \in {"lock", "woken"} /\ c[d] = "in"
    BY <1>5, OpenIs DEF DestroyLock, DestroyResume, CallPlace
  <2>2. CASE counter > 0
    <3>1. \A e \in Destroyers : \/ dpc'[e] = dpc[e] \/ (dpc[e] = "wait" /\ dpc'[e] = "woken")
                                \/ e = d /\ dpc'[e] = "wait"
      BY <1>3, <1>5, <2>2 DEF DestroyLock, DestroyResume
    <3>2. c' = c
      BY <2>1, <3>1 DEF CallPlace
    <3> QED BY <1>1, <1>2, <3>2 DEF Service!vars
  <2>3. CASE ~(counter > 0)
    <3>1. queue = <<>> /\ Running = {}
      BY <2>3 DEF Work, PoolInv, WorkIsCounted, Running
    <3>2. dpc' = [dpc EXCEPT ![d] = "returned"]
      BY <1>3, <1>5, <2>3 DEF DestroyLock, DestroyResume
    <3>3. c' = [c EXCEPT ![d] = "done"]
      BY <1>3, <3>2 DEF CallPlace
    <3> QED BY <1>1, <1>2, <2>1, <3>1, <3>3 DEF Service!Return
  <2> QED BY <2>2, <2>3
<1> QED BY <1>4, <1>5 DEF DestroyStep

LEMMA ServiceStep ==
  ASSUME Work, [Next]_vars
  PROVE  [Service!Next]_(Service!vars)
<1>1. ASSUME NEW t \in Threads, ThreadStep(t) PROVE [Service!Next]_(Service!vars)
  BY <1>1, ServiceThread DEF Service!Next
<1>2. ASSUME NEW t \in Threads, RunEnds(t) PROVE [Service!Next]_(Service!vars)
  BY <1>2, ServiceRun DEF Service!Next
<1>3. ASSUME AddTask PROVE [Service!Next]_(Service!vars)
  BY <1>3, ServiceAdd DEF Service!Next
<1>4. ASSUME NEW d \in Destroyers, DestroyStep(d) PROVE [Service!Next]_(Service!vars)
  BY <1>4, ServiceDestroy DEF Service!Next
<1>5. ASSUME UNCHANGED <<queue, task, added, finished>>, \A d \in Destroyers : Called(d)
      PROVE  UNCHANGED Service!vars
  BY <1>5, CallsKept DEF Running, Service!vars
<1>6. ASSUME NEW t \in Threads, TimeOut(t) PROVE UNCHANGED Service!vars
  BY <1>5, <1>6 DEF TimeOut, poolVars, Called
<1>7. ASSUME Spurious PROVE UNCHANGED Service!vars
  <2>1. \A d \in Destroyers : Called(d)
    BY <1>7 DEF Spurious, Called, Work, PoolInv, TypeOK
  <2> QED BY <1>5, <1>7, <2>1 DEF Spurious, poolVars
<1>8. CASE UNCHANGED vars
  BY <1>5, <1>8 DEF vars, poolVars, threadVars, Called
<1> QED BY <1>1, <1>2, <1>3, <1>4, <1>6, <1>7, <1>8 DEF Next

\* The pool keeps its promise for any number of threads, tasks and callers: tasks
\* start in order and once; a call of threadpool_destroy returns when every task
\* has been run to its end, except that one that finds another begun may return
\* at once (threadpool.c:124).
THEOREM PoolImplementsService == Spec => ServiceSpec
<1>1. Init => Work
  BY PoolInit, OrderInit DEF Work
<1>2. Work /\ [Next]_vars => Work'
  BY WorkStep
<1>3. Init => Service!Init
  BY ServiceInit
<1>4. Work /\ [Next]_vars => [Service!Next]_(Service!vars)
  BY ServiceStep
<1> QED BY <1>1, <1>2, <1>3, <1>4, PTL DEF Spec, ServiceSpec, Service!Spec
=============================================================================
