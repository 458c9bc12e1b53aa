--------------------------- MODULE ShmFifoProofs ---------------------------
(***************************************************************************)
(* Proofs about ShmFifo, for any number of processes and blocks: the       *)
(* invariant QueueInv, and with it mutual exclusion, the account of the    *)
(* semaphores, and that the ring implements BoundedQueue.                  *)
(*                                                                         *)
(* First the handles (who has which semaphore), then the counts, then the  *)
(* ring; each action changes little of each.                               *)
(***************************************************************************)
EXTENDS ShmFifo, FiniteSetTheorems, SequenceTheorems, TLAPS

\* Points past the opening and before the removal of the semaphores.
Working == Points \ ({"out", "make"} \cup NotYet("empty") \cup Removed("mutex"))

\* Only p is moved.
Moves(p, v) == pc' = [pc EXCEPT ![p] = v]

-----------------------------------------------------------------------------
(* The handles. *)

\* A step among the working points, or of a process without the segment, keeps
\* the handles, if it neither makes nor removes a semaphore.
LEMMA HandlesStay ==
  ASSUME TypeOK, Handles, NEW p \in Procs, NEW v \in Points, Moves(p, v),
         UNCHANGED handles, sem' \in [Sems -> Nat \cup {Gone}],
         \A s \in Sems : sem'[s] = Gone <=> sem[s] = Gone,
         p \in attached => /\ pc[p] \in Working /\ v \in Working
                           /\ v \in InitPoints => pc[p] \in InitPoints
  PROVE  Handles'
<1>1. attached' = attached /\ ids' = ids /\ pc \in [Procs -> Points] /\ attached \subseteq Procs
  BY DEF handles, TypeOK
<1>2. /\ pc' \in [Procs -> Points]
      /\ \A q \in Procs : pc'[q] = IF q = p THEN v ELSE pc[q]
  BY <1>1 DEF Moves
<1>3. /\ \A s \in Sems : NotYet(s) \subseteq NotYet("empty") /\ Removed(s) \subseteq Removed("mutex")
      /\ \A s \in Sems : Unmade(s) \subseteq NotYet("empty")
      /\ NotYet("mutex") \subseteq NotYet("empty")
  BY DEF Sems, NotYet, Removed, Unmade
<1>4. HandlesFit'
  <2>1. v \notin {"out", "make"} \/ p \notin attached
    BY DEF Working
  <2> QED BY <1>1, <1>2, <2>1 DEF Handles, HandlesFit, TypeOK
<1>5. Made'
  <2> SUFFICES ASSUME NEW q \in attached, NEW s \in Sems
               PROVE  /\ pc'[q] \in Unmade(s) \cup Removed(s) => sem'[s] = Gone
                      /\ pc'[q] \notin NotYet(s) /\ sem'[s] # Gone => s \in ids[q]
    BY <1>1 DEF Made
  <2>1. CASE q = p
    BY <1>1, <1>2, <1>3, <2>1 DEF Handles, Made, Working
  <2>2. CASE q # p
    BY <1>1, <1>2, <2>2 DEF Handles, Made
  <2> QED BY <2>1, <2>2
<1>6. OneCreator'
  <2> SUFFICES ASSUME NEW q \in attached, NEW r \in attached, q # r
               PROVE  /\ \A s \in Sems : pc'[q] \in Unmade(s) => pc'[r] \in NotYet(s)
                      /\ pc'[q] \notin InitPoints \/ pc'[r] \notin InitPoints
    BY <1>1 DEF OneCreator
  <2>1. CASE p \notin {q, r}
    BY <1>1, <1>2, <2>1 DEF Handles, OneCreator
  <2>2. CASE p = q
    BY <1>1, <1>2, <1>3, <2>2 DEF Handles, OneCreator, Working
  <2>3. CASE p = r
    BY <1>1, <1>2, <1>3, <2>3 DEF Handles, OneCreator, Working
  <2> QED BY <2>1, <2>2, <2>3
<1>7. Founded'
  <2> SUFFICES ASSUME NEW s \in Sems, sem'[s] # Gone
               PROVE  \E q \in attached : pc'[q] \notin NotYet("mutex")
    BY <1>1 DEF Founded
  <2>1. PICK q \in attached : pc[q] \notin NotYet("mutex")
    BY DEF Handles, Founded
  <2> QED BY <1>1, <1>2, <1>3, <2>1 DEF Working
<1> QED BY <1>4, <1>5, <1>6, <1>7 DEF Handles

\* Where p makes, opens and removes each semaphore, and where it goes then.
CreatePath == {<<"mutex", "createMutex", "createFull">>, <<"full", "createFull", "createEmpty">>,
               <<"empty", "createEmpty", "setMutex">>}
OpenPath   == {<<"mutex", "openMutex", "openFull">>, <<"full", "openFull", "openEmpty">>,
               <<"empty", "openEmpty", "idle">>}
RemovePath == {<<"mutex", "idle", "removeFull">>, <<"full", "removeFull", "removeEmpty">>,
               <<"empty", "removeEmpty", "removeShm">>}

\* Whoever makes a semaphore of its own segment is its only creator.
LEMMA HandlesCreate ==
  ASSUME TypeOK, Handles, NEW p \in attached, NEW s \in Sems, NEW v \in Points,
         <<s, pc[p], v>> \in CreatePath, Moves(p, v), attached' = attached,
         sem[s] = Gone, sem' = [sem EXCEPT ![s] = 0], ids' = [ids EXCEPT ![p] = @ \cup {s}]
  PROVE  Handles'
<1>1. /\ attached \subseteq Procs /\ p \in Procs
      /\ \A q \in Procs : pc'[q] = IF q = p THEN v ELSE pc[q]
      /\ \A q \in Procs : ids'[q] = IF q = p THEN ids[p] \cup {s} ELSE ids[q]
      /\ \A r \in Sems : sem'[r] = IF r = s THEN 0 ELSE sem[r]
      /\ \A q \in Procs : ids[q] \subseteq Sems
  BY DEF TypeOK, Moves
<1>2. HandlesFit'
  BY <1>1 DEF Handles, HandlesFit, Gone, CreatePath
<1>3. pc[p] \in Unmade(s)
  BY DEF CreatePath, Unmade, NotYet, CreatePoints
<1>4. \A q \in attached : q # p => pc[q] \in NotYet(s) /\ pc[q] \notin InitPoints
  BY <1>3 DEF Handles, OneCreator, InitPoints, Unmade
<1>5. Made'
  <2> SUFFICES ASSUME NEW q \in attached, NEW r \in Sems
               PROVE  /\ pc'[q] \in Unmade(r) \cup Removed(r) => sem'[r] = Gone
                      /\ pc'[q] \notin NotYet(r) /\ sem'[r] # Gone => r \in ids'[q]
    BY DEF Made
  <2>1. /\ pc[q] \in Unmade(r) \cup Removed(r) => sem[r] = Gone
        /\ pc[q] \notin NotYet(r) /\ sem[r] # Gone => r \in ids[q]
    BY DEF Handles, Made
  <2>2. CASE q # p
    <3>1. pc[q] \notin Unmade(s) \cup Removed(s)
      BY <1>4, <2>2 DEF Unmade, InitPoints, Removed, NotYet
    <3> QED BY <1>1, <1>4, <2>1, <2>2, <3>1
  <2>3. CASE q = p
    BY <1>1, <2>1, <2>3 DEF CreatePath, NotYet, Unmade, Removed, CreatePoints, Sems
  <2> QED BY <2>2, <2>3
<1>6. OneCreator'
  <2> SUFFICES ASSUME NEW q \in attached, NEW r \in attached, q # r
               PROVE  /\ \A x \in Sems : pc'[q] \in Unmade(x) => pc'[r] \in NotYet(x)
                      /\ pc'[q] \notin InitPoints \/ pc'[r] \notin InitPoints
    BY DEF OneCreator
  <2>1. CASE p \notin {q, r}
    BY <1>1, <2>1 DEF Handles, OneCreator
  <2>2. CASE p = q
    <3>1. pc'[r] = pc[r] /\ pc[r] \in NotYet(s) /\ pc[r] \notin InitPoints
      BY <1>1, <1>4, <2>2
    <3> QED BY <1>1, <2>2, <3>1 DEF CreatePath, NotYet, Unmade, CreatePoints, Sems
  <2>3. CASE p = r
    <3>1. pc'[q] = pc[q] /\ pc[q] \notin InitPoints
      BY <1>1, <1>4, <2>3
    <3> QED BY <3>1 DEF Unmade, InitPoints
  <2> QED BY <2>1, <2>2, <2>3
<1>7. Founded'
  <2>1. pc'[p] \notin NotYet("mutex")
    BY <1>1 DEF CreatePath, NotYet
  <2> QED BY <2>1 DEF Founded
<1> QED BY <1>2, <1>5, <1>6, <1>7 DEF Handles

\* Opening a semaphore: it exists, so that its creator is past its creation.
LEMMA HandlesOpen ==
  ASSUME TypeOK, Handles, NEW p \in attached, NEW s \in Sems, NEW v \in Points,
         <<s, pc[p], v>> \in OpenPath, Moves(p, v), attached' = attached,
         sem[s] # Gone, sem' = sem, ids' = [ids EXCEPT ![p] = @ \cup {s}]
  PROVE  Handles'
<1>1. /\ attached \subseteq Procs /\ p \in Procs
      /\ \A q \in Procs : pc'[q] = IF q = p THEN v ELSE pc[q]
      /\ \A q \in Procs : ids'[q] = IF q = p THEN ids[p] \cup {s} ELSE ids[q]
      /\ \A q \in Procs : ids[q] \subseteq Sems
  BY DEF TypeOK, Moves
<1>2. HandlesFit'
  BY <1>1 DEF Handles, HandlesFit, OpenPath
<1>3. Made'
  <2> SUFFICES ASSUME NEW q \in attached, NEW r \in Sems
               PROVE  /\ pc'[q] \in Unmade(r) \cup Removed(r) => sem'[r] = Gone
                      /\ pc'[q] \notin NotYet(r) /\ sem'[r] # Gone => r \in ids'[q]
    BY DEF Made
  <2>1. /\ pc[q] \in Unmade(r) \cup Removed(r) => sem[r] = Gone
        /\ pc[q] \notin NotYet(r) /\ sem[r] # Gone => r \in ids[q]
    BY DEF Handles, Made
  <2>2. CASE q # p
    BY <1>1, <2>1, <2>2
  <2>3. CASE q = p
    BY <1>1, <2>1, <2>3 DEF OpenPath, NotYet, Unmade, Removed, CreatePoints, Sems
  <2> QED BY <2>2, <2>3
<1>4. OneCreator'
  <2> SUFFICES ASSUME NEW q \in attached, NEW r \in attached, q # r
               PROVE  /\ \A x \in Sems : pc'[q] \in Unmade(x) => pc'[r] \in NotYet(x)
                      /\ pc'[q] \notin InitPoints \/ pc'[r] \notin InitPoints
    BY DEF OneCreator
  <2>1. CASE p \notin {q, r}
    BY <1>1, <2>1 DEF Handles, OneCreator
  <2>2. CASE p = q
    BY <1>1, <2>2 DEF OpenPath, NotYet, Unmade, CreatePoints, InitPoints
  <2>3. CASE p = r
    <3>1. /\ pc'[q] = pc[q] /\ pc'[r] = v
          /\ \A x \in Sems : pc[q] \in Unmade(x) => pc[r] \in NotYet(x)
      BY <1>1, <2>3 DEF Handles, OneCreator
    <3>2. pc[q] \notin Unmade(s)
      BY DEF Handles, Made
    <3> QED BY <1>1, <2>3, <3>1, <3>2
          DEF OpenPath, NotYet, Unmade, CreatePoints, InitPoints, Sems
  <2> QED BY <2>1, <2>2, <2>3
<1>5. Founded'
  <2>1. v \notin NotYet("mutex")
    BY DEF OpenPath, NotYet
  <2> QED BY <1>1, <2>1 DEF Founded
<1> QED BY <1>2, <1>3, <1>4, <1>5 DEF Handles

\* Removing a semaphore, or finding that another has removed it.
LEMMA HandlesRemove ==
  ASSUME TypeOK, Handles, NEW p \in Procs, NEW s \in Sems, NEW v \in Points,
         <<s, pc[p], v>> \in RemovePath, Moves(p, v), attached' = attached,
         \/ s \in ids[p] /\ sem' = [sem EXCEPT ![s] = Gone] /\ ids' = [q \in Procs |-> ids[q] \ {s}]
         \/ s \notin ids[p] /\ sem' = sem /\ ids' = ids
  PROVE  Handles'
<1>1. /\ attached \subseteq Procs
      /\ \A q \in Procs : pc'[q] = IF q = p THEN v ELSE pc[q]
      /\ \A q \in Procs : ids[q] \subseteq Sems
  BY DEF TypeOK, Moves
<1>2. /\ \A q \in Procs : ids'[q] \subseteq ids[q]
      /\ \A r \in Sems : sem'[r] = sem[r] \/ (r = s /\ sem'[r] = Gone)
      /\ \A q \in Procs : \A r \in ids'[q] : r \in Sems /\ sem'[r] = sem[r]
      /\ \A q \in Procs : \A r \in ids[q] : r \in ids'[q] \/ sem'[r] = Gone
  BY <1>1 DEF TypeOK
<1>3. p \in attached => sem'[s] = Gone
  <2>1. pc[p] \notin NotYet(s)
    BY DEF RemovePath, NotYet
  <2> QED BY <2>1 DEF Handles, Made, TypeOK
<1>4. /\ pc[p] \notin NotYet("empty") \cup InitPoints \cup {"out", "make"}
      /\ v \notin NotYet("empty") \cup InitPoints \cup {"out", "make"}
      /\ \A r \in Sems : NotYet(r) \subseteq NotYet("empty") /\ Unmade(r) \subseteq NotYet("empty")
  BY DEF RemovePath, NotYet, Unmade, InitPoints, CreatePoints, Sems
<1>5. HandlesFit'
  BY <1>1, <1>2, <1>4 DEF Handles, HandlesFit
<1>6. Made'
  <2> SUFFICES ASSUME NEW q \in attached, NEW r \in Sems
               PROVE  /\ pc'[q] \in Unmade(r) \cup Removed(r) => sem'[r] = Gone
                      /\ pc'[q] \notin NotYet(r) /\ sem'[r] # Gone => r \in ids'[q]
    BY DEF Made
  <2>1. /\ pc[q] \in Unmade(r) \cup Removed(r) => sem[r] = Gone
        /\ pc[q] \notin NotYet(r) /\ sem[r] # Gone => r \in ids[q]
    BY DEF Handles, Made
  <2>2. CASE q # p
    BY <1>1, <1>2, <2>1, <2>2
  <2>3. CASE q = p
    <3>1. pc'[q] \in Removed(r) => r = s \/ pc[q] \in Removed(r)
      BY <1>1, <2>3 DEF RemovePath, Removed, Sems
    <3>2. pc'[q] \notin Unmade(r) /\ pc[q] \notin NotYet(r)
      BY <1>1, <1>4, <2>3
    <3>3. sem'[r] # Gone => sem[r] # Gone /\ r \in ids'[q]
      BY <1>1, <1>2, <2>1, <3>2
    <3> QED BY <1>3, <2>1, <2>3, <3>1, <3>2, <3>3
  <2> QED BY <2>2, <2>3
<1>7. OneCreator'
  <2> SUFFICES ASSUME NEW q \in attached, NEW r \in attached, q # r
               PROVE  /\ \A x \in Sems : pc'[q] \in Unmade(x) => pc'[r] \in NotYet(x)
                      /\ pc'[q] \notin InitPoints \/ pc'[r] \notin InitPoints
    BY DEF OneCreator
  <2>1. CASE p \notin {q, r}
    BY <1>1, <2>1 DEF Handles, OneCreator
  <2>2. CASE p = q
    BY <1>1, <1>4, <2>2
  <2>3. CASE p = r
    BY <1>1, <1>4, <2>3 DEF Handles, OneCreator
  <2> QED BY <2>1, <2>2, <2>3
<1>8. Founded'
  <2> SUFFICES ASSUME NEW r \in Sems, sem'[r] # Gone
               PROVE  \E q \in attached : pc'[q] \notin NotYet("mutex")
    BY DEF Founded
  <2>1. PICK q \in attached : pc[q] \notin NotYet("mutex")
    BY <1>2 DEF Handles, Founded
  <2> QED BY <1>1, <1>4, <2>1 DEF Sems
<1> QED BY <1>5, <1>6, <1>7, <1>8 DEF Handles

\* A process that attaches is behind everybody.
LEMMA HandlesAttach ==
  ASSUME TypeOK, Handles, NEW p \in Procs, NEW v \in {"head", "openMutex"},
         pc[p] \in {"out", "make"}, Moves(p, v), attached' = attached \cup {p},
         sem' = sem, ids' = ids
  PROVE  Handles'
<1>1. /\ attached \subseteq Procs /\ p \notin attached
      /\ \A q \in Procs : pc'[q] = IF q = p THEN v ELSE pc[q]
  BY DEF TypeOK, Moves, Handles, HandlesFit
<1>2. /\ \A s \in Sems : v \in NotYet(s) /\ v \notin Unmade(s) \cup Removed(s)
      /\ v \notin InitPoints \cup {"out", "make"}
  BY DEF NotYet, Unmade, Removed, InitPoints, CreatePoints
<1>3. HandlesFit'
  BY <1>1, <1>2 DEF Handles, HandlesFit
<1>4. Made'
  BY <1>1, <1>2 DEF Handles, Made
<1>5. OneCreator'
  BY <1>1, <1>2 DEF Handles, OneCreator
<1>6. Founded'
  BY <1>1 DEF Handles, Founded
<1> QED BY <1>3, <1>4, <1>5, <1>6 DEF Handles

\* The creator is alone, so that there are no semaphores.
LEMMA CreatorAlone ==
  ASSUME Handles, NEW p, attached = {p}, pc[p] = "head"
  PROVE  \A s \in Sems : sem[s] = Gone
BY DEF Handles, Founded, NotYet

LEMMA HandlesHead ==
  ASSUME TypeOK, Handles, NEW p \in Procs, attached = {p}, pc[p] = "head",
         Moves(p, "createMutex"), attached' = attached, sem' = sem, ids' = ids
  PROVE  Handles'
<1>1. /\ \A s \in Sems : sem[s] = Gone
      /\ \A q \in Procs : pc'[q] = IF q = p THEN "createMutex" ELSE pc[q]
  BY CreatorAlone DEF TypeOK, Moves
<1>2. \A s \in Sems : "createMutex" \in NotYet(s)
  BY DEF NotYet
<1>3. HandlesFit'
  BY <1>1 DEF Handles, HandlesFit, TypeOK
<1>4. Made'
  BY <1>1, <1>2 DEF Made
<1>5. OneCreator'
  BY DEF OneCreator
<1>6. Founded'
  BY <1>1 DEF Founded
<1> QED BY <1>3, <1>4, <1>5, <1>6 DEF Handles

\* Who removes the segment has seen all semaphores gone.
LEMMA HandlesGone ==
  ASSUME TypeOK, Handles, NEW p \in attached, pc[p] = "removeShm",
         Moves(p, "out"), attached' = {}, sem' = sem, ids' = [ids EXCEPT ![p] = {}]
  PROVE  Handles' /\ \A s \in Sems : sem[s] = Gone
<1>1. \A s \in Sems : sem[s] = Gone
  BY DEF Handles, Made, Removed
<1>2. \A q \in Procs : ids'[q] = {}
  BY <1>1 DEF Handles, HandlesFit, TypeOK
<1>3. Handles'
  BY <1>1, <1>2 DEF Handles, HandlesFit, Made, OneCreator, Founded
<1> QED BY <1>1, <1>3

\* A call that fails ends the process and changes nothing else.
LEMMA HandlesExit ==
  ASSUME Handles, UNCHANGED <<pc, sem, attached, ids>>
  PROVE  Handles'
BY DEF Handles, HandlesFit, Made, OneCreator, Founded

LEMMA PointsApart ==
  /\ {"setMutex", "setFull", "setEmpty", "idle", "putFull", "putMutex", "copyIn", "advanceWr",
       "putLeave", "putEmpty", "getEmpty", "getMutex", "copyOut", "advanceRd", "getLeave",
       "getFull"} = Working
  /\ Working \cap InitPoints = {"setMutex", "setFull"}
  /\ Working \subseteq Points
BY DEF Working, Points, NotYet, Removed, InitPoints, CreatePoints, OpenPoints, MutexHeld,
       BlockInHand, PlaceInHand

LEMMA HandlesKept ==
  ASSUME TypeOK, TypeOK', Handles, NEW p \in Procs, Step(p), ~raced'
  PROVE  Handles'
<1> USE DEF Goto, At, Moves, handles
<1>1. /\ attached \subseteq Procs /\ sem' \in [Sems -> Nat \cup {Gone}]
      /\ sem \in [Sems -> Nat \cup {Gone}]
      /\ \A s \in ids[p] : s \in Sems /\ sem[s] # Gone
      /\ ids[p] # {} => p \in attached
      /\ Gone \notin Nat /\ \A n \in Nat : n + 1 \in Nat
  <2>1. /\ attached \subseteq Procs /\ sem \in [Sems -> Nat \cup {Gone}] /\ ids[p] \subseteq Sems
    BY DEF TypeOK
  <2>2. sem' \in [Sems -> Nat \cup {Gone}]
    BY DEF TypeOK
  <2>3. (\A s \in ids[p] : sem[s] # Gone) /\ (ids[p] # {} => p \in attached)
    BY DEF Handles, HandlesFit
  <2>4. Gone \notin Nat /\ \A n \in Nat : n + 1 \in Nat
    BY DEF Gone
  <2> QED BY <2>1, <2>2, <2>3, <2>4
<1>2. CASE Probe(p)
  <2>1. CASE shm
    BY <1>2, <2>1, HandlesAttach DEF Probe
  <2>2. CASE ~shm
    <3>1. p \notin attached
      BY <1>2 DEF Probe, Handles, HandlesFit
    <3> QED BY <1>1, <1>2, <2>2, <3>1, HandlesStay DEF Probe, Points
  <2> QED BY <2>1, <2>2
<1>3. CASE Make(p)
  BY <1>3, HandlesAttach DEF Make
<1>4. CASE SetHead(p)
  <2>1. CASE p \in attached
    BY <1>4, <2>1, HandlesHead DEF SetHead
  <2>2. CASE p \notin attached
    BY <1>1, <1>4, <2>2, HandlesStay DEF SetHead, Points, InitPoints, CreatePoints
  <2> QED BY <2>1, <2>2
<1>5. CASE CreateSems(p)
  <2>1. CASE UNCHANGED <<pc, sem, ids>>
    BY <1>5, <2>1, HandlesExit DEF CreateSems
  <2>2. ASSUME NEW s \in Sems, NEW v \in Points, <<s, pc[p], v>> \in CreatePath, SemCreate(p, s, v),
               attached' = attached
        PROVE  Handles'
    <3>1. CASE Exit(p) /\ UNCHANGED <<sem, ids, raced>>
      BY <2>2, <3>1, HandlesExit DEF Exit
    <3>2. CASE /\ sem[s] = Gone /\ sem' = [sem EXCEPT ![s] = 0] /\ ids' = [ids EXCEPT ![p] = @ \cup {s}]
               /\ raced' = (raced \/ p \notin attached) /\ Moves(p, v)
      BY <2>2, <3>2, HandlesCreate
    <3> QED BY <2>2, <3>1, <3>2 DEF SemCreate
  <2>3. /\ attached' = attached
        /\ {"mutex", "full", "empty"} \subseteq Sems
        /\ {"createFull", "createEmpty", "setMutex"} \subseteq Points
    BY <1>5 DEF CreateSems, Sems, Points, InitPoints, CreatePoints
  <2> QED BY <1>5, <2>2, <2>3 DEF CreateSems, CreatePath
<1>6. CASE SetSems(p)
  <2>1. ASSUME NEW s \in Sems, NEW n \in Nat, NEW v \in Working, SemSetval(p, s, n, v),
               pc[p] \in Working, v \in InitPoints => pc[p] \in InitPoints, UNCHANGED handles
        PROVE  Handles'
    <3>1. CASE Exit(p) /\ UNCHANGED <<sem, raced>>
      BY <2>1, <3>1, HandlesExit DEF Exit
    <3>2. CASE /\ s \in ids[p] /\ sem' = [sem EXCEPT ![s] = n] /\ Moves(p, v)
      <4>1. \A r \in Sems : sem'[r] = Gone <=> sem[r] = Gone
        BY <1>1, <2>1, <3>2
      <4> QED BY <1>1, <2>1, <3>2, <4>1, PointsApart, HandlesStay
    <3> QED BY <2>1, <3>1, <3>2 DEF SemSetval
  <2>2. /\ UNCHANGED handles /\ 1 \in Nat /\ 0 \in Nat /\ Blocks \in Nat
        /\ {"mutex", "full", "empty"} \subseteq Sems
    BY <1>6, BlocksAssumption DEF SetSems, Sems
  <2> QED BY <1>6, <2>1, <2>2, PointsApart DEF SetSems
<1>7. CASE OpenSems(p)
  <2>2. ASSUME NEW s \in Sems, NEW v \in Points, <<s, pc[p], v>> \in OpenPath, SemOpen(p, s, v),
               attached' = attached, sem' = sem
        PROVE  Handles'
    <3>1. CASE Exit(p) /\ UNCHANGED <<ids, raced>>
      BY <2>2, <3>1, HandlesExit DEF Exit
    <3>2. CASE /\ sem[s] # Gone /\ ids' = [ids EXCEPT ![p] = @ \cup {s}]
               /\ raced' = (raced \/ p \notin attached) /\ Moves(p, v)
      BY <2>2, <3>2, HandlesOpen
    <3> QED BY <2>2, <3>1, <3>2 DEF SemOpen
  <2>3. /\ attached' = attached /\ sem' = sem
        /\ {"mutex", "full", "empty"} \subseteq Sems
        /\ {"openFull", "openEmpty", "idle"} \subseteq Points
    BY <1>7 DEF OpenSems, Sems, Points, OpenPoints
  <2> QED BY <1>7, <2>2, <2>3 DEF OpenSems, OpenPath
<1>8. CASE CallPut(p) \/ CallGet(p)
  BY <1>1, <1>8, PointsApart, HandlesStay DEF CallPut, CallGet
<1>9. CASE CopyIn(p) \/ CopyOut(p)
  BY <1>1, <1>9, PointsApart, HandlesStay DEF CopyIn, CopyOut
<1>10. CASE AdvanceWr(p) \/ AdvanceRd(p)
  BY <1>1, <1>10, PointsApart, HandlesStay DEF AdvanceWr, AdvanceRd
<1>11. CASE Enter(p)
  <2>1. ASSUME NEW s \in Sems, NEW v \in Working, SemP(p, s, v),
               pc[p] \in Working, v \notin InitPoints, UNCHANGED handles
        PROVE  Handles'
    <3>1. CASE Exit(p) /\ UNCHANGED sem
      BY <2>1, <3>1, HandlesExit DEF Exit
    <3>2. CASE /\ s \in ids[p] /\ sem[s] > 0 /\ sem' = [sem EXCEPT ![s] = @ - 1] /\ Moves(p, v)
      <4>1. sem'[s] # Gone
        BY <1>1, <2>1, <3>2 DEF Gone
      <4>2. \A r \in Sems : sem'[r] = Gone <=> sem[r] = Gone
        BY <1>1, <2>1, <3>2, <4>1
      <4> QED BY <1>1, <2>1, <3>2, <4>2, PointsApart, HandlesStay
    <3> QED BY <2>1, <3>1, <3>2 DEF SemP
  <2>2. /\ UNCHANGED handles
        /\ {"mutex", "full", "empty"} \subseteq Sems
    BY <1>11 DEF Enter, OnlySems, Sems
  <2> QED BY <1>11, <2>1, <2>2, PointsApart DEF Enter
<1>12. CASE Leave(p)
  <2>1. ASSUME NEW s \in Sems, NEW v \in Working, SemV(p, s, v),
               pc[p] \in Working, v \notin InitPoints, UNCHANGED handles
        PROVE  Handles'
    <3>1. CASE Exit(p) /\ UNCHANGED sem
      BY <2>1, <3>1, HandlesExit DEF Exit
    <3>2. CASE /\ s \in ids[p] /\ sem' = [sem EXCEPT ![s] = @ + 1] /\ Moves(p, v)
      <4>1. sem'[s] # Gone
        BY <1>1, <2>1, <3>2 DEF Gone
      <4>2. \A r \in Sems : sem'[r] = Gone <=> sem[r] = Gone
        BY <1>1, <2>1, <3>2, <4>1
      <4> QED BY <1>1, <2>1, <3>2, <4>2, PointsApart, HandlesStay
    <3> QED BY <2>1, <3>1, <3>2 DEF SemV
  <2>2. /\ UNCHANGED handles
        /\ {"mutex", "full", "empty"} \subseteq Sems
    BY <1>12 DEF Leave, OnlySems, Sems
  <2> QED BY <1>12, <2>1, <2>2, PointsApart DEF Leave
<1>13. CASE RemoveSems(p)
  <2>1. ASSUME NEW s \in Sems, NEW v \in Points, <<s, pc[p], v>> \in RemovePath, SemRemove(p, s, v),
               attached' = attached
        PROVE  Handles'
    BY <2>1, HandlesRemove DEF SemRemove
  <2>2. /\ attached' = attached
        /\ {"mutex", "full", "empty"} \subseteq Sems
        /\ {"removeFull", "removeEmpty", "removeShm"} \subseteq Points
    BY <1>13 DEF RemoveSems, Sems, Points
  <2> QED BY <1>13, <2>1, <2>2 DEF RemoveSems, RemovePath
<1>14. CASE RemoveShm(p)
  <2>1. CASE p \in attached
    BY <1>14, <2>1, HandlesGone DEF RemoveShm
  <2>2. CASE p \notin attached
    <3>1. ids' = ids
      BY <1>1, <1>14, <2>2 DEF RemoveShm, TypeOK
    <3> QED BY <1>1, <1>14, <2>2, <3>1, HandlesStay DEF RemoveShm, Points
  <2> QED BY <2>1, <2>2
<1>15. CASE Die(p)
  BY <1>15, HandlesExit DEF Die, Exit
<1> QED
  BY <1>2, <1>3, <1>4, <1>5, <1>6, <1>7, <1>8, <1>9, <1>10, <1>11, <1>12, <1>13, <1>14, <1>15
  DEF Step, InitStep, CallStep

-----------------------------------------------------------------------------
(* The counts. *)

\* What p adds to the number of processes at the points P.
In(p, P) == IF p \in attached /\ pc[p] \in P THEN 1 ELSE 0

\* The others stay where they are.
OthersStay(p) ==
  \A q \in Procs \ {p} : (q \in attached' <=> q \in attached) /\ pc'[q] = pc[q]

LEMMA NumberType ==
  ASSUME TypeOK, NEW P
  PROVE  Number(P) \in Nat /\ (Number(P) = 0 <=> Places(P) = {})
<1>1. IsFiniteSet(attached) /\ Places(P) \subseteq attached
  BY ProcsAssumption, FS_Subset DEF TypeOK, Places
<1>2. IsFiniteSet(Places(P))
  BY <1>1, FS_Subset
<1> QED BY <1>2, FS_CardinalityType, FS_EmptySet DEF Number

\* When only p moves, the numbers change by what p adds.
LEMMA NumberMoves ==
  ASSUME TypeOK, TypeOK', NEW p \in Procs, OthersStay(p), NEW P
  PROVE  /\ Number(P) \in Nat /\ Number(P)' \in Nat
         /\ Number(P)' = Number(P) + In(p, P)' - In(p, P)
<1> DEFINE A == Places(P)
           B == Places(P)'
<1>1. /\ attached \subseteq Procs /\ attached' \subseteq Procs
      /\ IsFiniteSet(A) /\ IsFiniteSet(B)
  <2>1. A \subseteq Procs /\ B \subseteq Procs
    BY DEF TypeOK, Places
  <2> QED BY <2>1, ProcsAssumption, FS_Subset DEF TypeOK
<1>2. Cardinality(A) \in Nat /\ Cardinality(B) \in Nat
  BY <1>1, FS_CardinalityType
<1>3. \A q \in Procs \ {p} : q \in A <=> q \in B
  BY DEF OthersStay, Places
<1>4. A \subseteq Procs /\ B \subseteq Procs
  BY <1>1 DEF Places
<1>5. /\ In(p, P) = (IF p \in A THEN 1 ELSE 0)
      /\ In(p, P)' = (IF p \in B THEN 1 ELSE 0)
  BY DEF In, Places
<1>6. Cardinality(B) = Cardinality(A) + In(p, P)' - In(p, P)
  <2> HIDE DEF A, B
  <2>1. CASE p \in A <=> p \in B
    <3>1. A = B
      BY <1>3, <1>4, <2>1
    <3> QED BY <1>2, <1>5, <2>1, <3>1
  <2>2. CASE p \notin A /\ p \in B
    <3>1. B = A \cup {p}
      BY <1>3, <1>4, <2>2
    <3>2. Cardinality(B) = Cardinality(A) + 1
      BY <1>1, <2>2, <3>1, FS_AddElement
    <3> QED BY <1>2, <1>5, <2>2, <3>2
  <2>3. CASE p \in A /\ p \notin B
    <3>1. A = B \cup {p}
      BY <1>3, <1>4, <2>3
    <3>2. Cardinality(A) = Cardinality(B) + 1
      BY <1>1, <2>3, <3>1, FS_AddElement
    <3> QED BY <1>2, <1>5, <2>3, <3>2
  <2> QED BY <2>1, <2>2, <2>3
<1> QED BY <1>2, <1>6 DEF Number

\* A process at a point of P counts; two of them count twice.
LEMMA NumberHas ==
  ASSUME TypeOK, NEW p \in attached, NEW P, pc[p] \in P
  PROVE  /\ Number(P) \in Nat /\ Number(P) >= 1
         /\ Number(P) <= 1 => \A q \in attached : pc[q] \in P => q = p
<1>1. p \in Places(P) /\ Places(P) \subseteq Procs
  BY DEF Places, TypeOK
<1>2. IsFiniteSet(Places(P))
  BY <1>1, ProcsAssumption, FS_Subset
<1>3. Number(P) \in Nat /\ Number(P) # 0
  BY <1>1, NumberType
<1>4. ASSUME NEW q \in attached, pc[q] \in P, q # p
      PROVE  Number(P) > 1
  <2>1. q \in Places(P) \ {p}
    BY <1>4 DEF Places
  <2>2. /\ IsFiniteSet(Places(P) \ {p})
        /\ Cardinality(Places(P) \ {p}) = Cardinality(Places(P)) - 1
    BY <1>1, <1>2, FS_RemoveElement
  <2>3. Cardinality(Places(P) \ {p}) # 0 /\ Cardinality(Places(P) \ {p}) \in Nat
    BY <2>1, <2>2, FS_EmptySet, FS_CardinalityType
  <2> QED BY <1>3, <2>2, <2>3 DEF Number
<1> QED BY <1>3, <1>4

\* While a creator is at work, nothing is stored and nobody is in a call.
LEMMA NothingYet ==
  ASSUME TypeOK, Counts, Starting
  PROVE  /\ count = 0 /\ Value("full") = 0 /\ Value("empty") = 0
         /\ Number(MutexHeld) = 0 /\ Number(BlockInHand) = 0 /\ Number(PlaceInHand) = 0
<1>1. count = 0 /\ Value("full") = 0 /\ Number(PlaceInHand) = 0
  BY DEF Counts, FullCount
<1>2. Value("empty") \in Nat /\ Number(BlockInHand) \in Nat
  BY NumberType DEF TypeOK, Value, Sems
<1>3. Value("empty") = 0 /\ Number(BlockInHand) = 0
  BY <1>1, <1>2 DEF Counts, EmptyCount
<1>4. Places(BlockInHand) = {} /\ Places(PlaceInHand) = {}
  BY <1>1, <1>3, NumberType
<1>5. Places(MutexHeld) = {}
  BY <1>4 DEF Places, MutexHeld, BlockInHand, PlaceInHand
<1>6. Number(MutexHeld) = 0
  BY <1>5, NumberType
<1> QED BY <1>1, <1>3, <1>6

\* Who is in a call shows that the creator has finished.
LEMMA NotStarting ==
  ASSUME TypeOK, Counts, NEW p \in attached,
         pc[p] \in BlockInHand \cup PlaceInHand \/ Value("full") > 0 \/ Value("empty") > 0
  PROVE  ~Starting
<1> SUFFICES ASSUME Starting PROVE FALSE
  OBVIOUS
<1>1. /\ Value("full") = 0 /\ Value("empty") = 0
      /\ Number(BlockInHand) = 0 /\ Number(PlaceInHand) = 0
  BY NothingYet
<1>2. pc[p] \notin BlockInHand /\ pc[p] \notin PlaceInHand
  BY <1>1, NumberHas
<1> QED BY <1>1, <1>2

\* A step that leaves numbers and blocks alone and removes semaphores at most.
LEMMA CountsStay ==
  ASSUME TypeOK, TypeOK', Counts, NEW p \in Procs, OthersStay(p), count' = count,
         \A s \in Sems : sem'[s] \in {sem[s], Gone},
         In(p, MutexHeld)' = In(p, MutexHeld), In(p, BlockInHand)' = In(p, BlockInHand),
         In(p, PlaceInHand)' = In(p, PlaceInHand),
         In(p, InitPoints) = 0, In(p, InitPoints)' = 0
  PROVE  Counts'
<1>1. /\ Number(MutexHeld)' = Number(MutexHeld) /\ Number(MutexHeld) \in Nat
      /\ Number(BlockInHand)' = Number(BlockInHand) /\ Number(BlockInHand) \in Nat
      /\ Number(PlaceInHand)' = Number(PlaceInHand) /\ Number(PlaceInHand) \in Nat
  <2>1. ASSUME NEW P, In(p, P)' = In(p, P)
        PROVE  Number(P)' = Number(P) /\ Number(P) \in Nat
    <3>1. Number(P) \in Nat /\ Number(P)' = Number(P) + In(p, P)' - In(p, P)
      BY NumberMoves
    <3>2. In(p, P) \in Int
      BY DEF In
    <3> QED BY <2>1, <3>1, <3>2
  <2> QED BY <2>1
<1>2. /\ Places(InitPoints)' = Places(InitPoints)
      /\ Places(InitPoints \ {"setFull"})' = Places(InitPoints \ {"setFull"})
  <2>1. /\ attached \subseteq Procs /\ attached' \subseteq Procs
        /\ p \notin attached \/ pc[p] \notin InitPoints
        /\ p \notin attached' \/ pc'[p] \notin InitPoints
    BY DEF TypeOK, In
  <2> QED BY <2>1 DEF Places, OthersStay
<1>3. /\ \A s \in Sems : Value(s) \in Nat /\ Value(s)' \in {Value(s), 0}
      /\ \A s \in Sems : sem'[s] # Gone => sem'[s] = sem[s]
      /\ "mutex" \in Sems /\ "full" \in Sems /\ "empty" \in Sems
      /\ count \in Nat /\ Blocks \in Nat
  <2>1. sem \in [Sems -> Nat \cup {Gone}] /\ count \in Nat
    BY DEF TypeOK
  <2>2. \A s \in Sems : Value(s) \in Nat
    BY <2>1 DEF Value
  <2>3. \A s \in Sems : Value(s)' \in {Value(s), 0} /\ (sem'[s] # Gone => sem'[s] = sem[s])
    BY DEF Value
  <2> QED BY <2>1, <2>2, <2>3, BlocksAssumption DEF Sems
<1>4. MutexCount'
  BY <1>1, <1>2, <1>3 DEF Counts, MutexCount
<1>5. EmptyCount'
  BY <1>1, <1>3 DEF Counts, EmptyCount
<1>6. FullCount'
  BY <1>1, <1>2, <1>3 DEF Counts, FullCount, Starting
<1> QED BY <1>4, <1>5, <1>6 DEF Counts

\* A step of a call: what leaves a semaphore comes into a hand, and back.
LEMMA CountsBalance ==
  ASSUME TypeOK, TypeOK', Counts, NEW p \in attached, NEW v \in Working \ InitPoints,
         attached' = attached, Moves(p, v), pc[p] \in Working \ InitPoints, ~Starting,
         \A s \in Sems : sem'[s] = Gone <=> sem[s] = Gone,
         Value("mutex")' + In(p, MutexHeld)' = Value("mutex") + In(p, MutexHeld),
         Value("empty")' + In(p, BlockInHand)' - count' = Value("empty") + In(p, BlockInHand) - count,
         Value("full")' + In(p, PlaceInHand)' + count' = Value("full") + In(p, PlaceInHand) + count
  PROVE  Counts'
<1>1. /\ attached \subseteq Procs /\ p \in Procs
      /\ \A q \in Procs : pc'[q] = IF q = p THEN v ELSE pc[q]
  BY DEF TypeOK, Moves
<1>2. OthersStay(p)
  BY <1>1 DEF OthersStay
<1>3. ASSUME NEW P
      PROVE  /\ Number(P) \in Nat /\ Number(P)' \in Nat
             /\ In(p, P) \in Int /\ In(p, P)' \in Int
             /\ Number(P)' = Number(P) + In(p, P)' - In(p, P)
  <2>1. In(p, P) \in Int /\ In(p, P)' \in Int
    BY DEF In
  <2> QED BY <1>1, <1>2, <2>1, NumberMoves
<1>4. /\ Places(InitPoints)' = Places(InitPoints)
      /\ Places(InitPoints \ {"setFull"})' = Places(InitPoints \ {"setFull"})
  BY <1>1 DEF Places
<1>5. Places(InitPoints) = {} /\ Places(InitPoints \ {"setFull"}) = {}
  BY DEF Starting, Places
<1>6. /\ \A s \in Sems : Value(s) \in Nat /\ Value(s)' \in Nat
      /\ \A s \in Sems : sem'[s] # Gone => Value(s)' = sem'[s] /\ Value(s) = sem[s] /\ sem[s] # Gone
      /\ "mutex" \in Sems /\ "full" \in Sems /\ "empty" \in Sems
      /\ count \in Nat /\ count' \in Nat /\ Blocks \in Nat
  BY BlocksAssumption DEF TypeOK, Value, Sems
<1>7. MutexCount'
  <2>1. Value("mutex") + Number(MutexHeld) <= 1
    BY DEF Counts, MutexCount
  <2>2. Value("mutex")' + Number(MutexHeld)' = Value("mutex") + Number(MutexHeld)
    <3>1. /\ Number(MutexHeld) \in Nat /\ Number(MutexHeld)' \in Nat
          /\ In(p, MutexHeld) \in Int /\ In(p, MutexHeld)' \in Int
          /\ Number(MutexHeld)' = Number(MutexHeld) + In(p, MutexHeld)' - In(p, MutexHeld)
      BY <1>3
    <3> QED BY <1>6, <3>1
  <2> QED BY <1>4, <1>5, <2>1, <2>2 DEF MutexCount
<1>8. EmptyCount'
  <2>1. Value("empty")' + Number(BlockInHand)' - count' = Value("empty") + Number(BlockInHand) - count
    <3>1. /\ Number(BlockInHand) \in Nat /\ Number(BlockInHand)' \in Nat
          /\ In(p, BlockInHand) \in Int /\ In(p, BlockInHand)' \in Int
          /\ Number(BlockInHand)' = Number(BlockInHand) + In(p, BlockInHand)' - In(p, BlockInHand)
      BY <1>3
    <3> QED BY <1>6, <3>1
  <2>2. Value("empty") + Number(BlockInHand) <= count
    BY DEF Counts, EmptyCount
  <2>3. sem'["empty"] # Gone => count = Value("empty") + Number(BlockInHand)
    BY <1>6 DEF Counts, EmptyCount
  <2>4. /\ Number(BlockInHand) \in Nat /\ Number(BlockInHand)' \in Nat
    BY <1>3
  <2>5. Value("empty")' + Number(BlockInHand)' <= count'
    BY <1>6, <2>1, <2>2, <2>4
  <2>6. ASSUME sem'["empty"] # Gone
        PROVE  count' = sem'["empty"] + Number(BlockInHand)'
    <3>1. /\ Value("empty")' = sem'["empty"] /\ Value("empty") \in Nat /\ Value("empty")' \in Nat
          /\ count \in Nat /\ count' \in Nat
      BY <1>6, <2>6
    <3>2. count = Value("empty") + Number(BlockInHand)
      BY <2>3, <2>6
    <3>3. Value("empty") + Number(BlockInHand) - count = 0
      BY <2>4, <3>1, <3>2
    <3>4. Value("empty")' + Number(BlockInHand)' - count' = 0
      BY <2>1, <3>3
    <3>5. count' = Value("empty")' + Number(BlockInHand)'
      BY <2>4, <3>1, <3>4
    <3> QED BY <3>1, <3>5
  <2> QED BY <2>5, <2>6 DEF EmptyCount
<1>9. FullCount'
  <2>1. Value("full")' + Number(PlaceInHand)' + count' = Value("full") + Number(PlaceInHand) + count
    <3>1. /\ Number(PlaceInHand) \in Nat /\ Number(PlaceInHand)' \in Nat
          /\ In(p, PlaceInHand) \in Int /\ In(p, PlaceInHand)' \in Int
          /\ Number(PlaceInHand)' = Number(PlaceInHand) + In(p, PlaceInHand)' - In(p, PlaceInHand)
      BY <1>3
    <3> QED BY <1>6, <3>1
  <2>2. Value("full") + Number(PlaceInHand) <= Blocks - count
    BY DEF Counts, FullCount
  <2>3. sem'["full"] # Gone => Blocks - count = Value("full") + Number(PlaceInHand)
    BY <1>6 DEF Counts, FullCount
  <2>4. /\ Number(PlaceInHand) \in Nat /\ Number(PlaceInHand)' \in Nat
    BY <1>3
  <2>5. Value("full")' + Number(PlaceInHand)' <= Blocks - count'
    BY <1>6, <2>1, <2>2, <2>4
  <2>6. sem'["full"] # Gone => Blocks - count' = sem'["full"] + Number(PlaceInHand)'
    BY <1>6, <2>1, <2>3, <2>4
  <2>7. ~Starting'
    BY <1>4, <1>5 DEF Starting
  <2> QED BY <2>5, <2>6, <2>7 DEF FullCount
<1> QED BY <1>7, <1>8, <1>9 DEF Counts

\* A new segment, or none: nothing is stored, held or counted.
LEMMA CountsFresh ==
  ASSUME TypeOK', count' = 0, \A s \in Sems : sem'[s] = Gone, NEW p,
         attached' \subseteq {p}, p \in attached' => pc'[p] = "createMutex"
  PROVE  Counts'
<1>1. /\ Places(MutexHeld)' = {} /\ Places(BlockInHand)' = {} /\ Places(PlaceInHand)' = {}
  BY DEF Places, MutexHeld, BlockInHand, PlaceInHand
<1>2. Number(MutexHeld)' = 0 /\ Number(BlockInHand)' = 0 /\ Number(PlaceInHand)' = 0
  BY <1>1, FS_EmptySet DEF Number
<1>3. /\ \A s \in Sems : Value(s)' = 0
      /\ "mutex" \in Sems /\ "full" \in Sems /\ "empty" \in Sems /\ Blocks \in Nat
  BY BlocksAssumption DEF Value, Sems
<1>4. MutexCount' /\ EmptyCount' /\ FullCount'
  BY <1>2, <1>3 DEF MutexCount, EmptyCount, FullCount
<1> QED BY <1>4 DEF Counts

\* While it creates and sets the semaphores, nobody but the creator p matters.
LEMMA CountsCreator ==
  ASSUME TypeOK, TypeOK', Handles, Counts, NEW p \in attached, NEW v \in Points, Moves(p, v),
         attached' = attached, pc[p] \in InitPoints, count' = count, v \notin MutexHeld,
         v \notin BlockInHand, v \notin PlaceInHand, Value("empty")' = 0,
         Value("mutex")' <= 1, v \in InitPoints \ {"setFull"} => Value("mutex")' = 0,
         Value("full")' = IF v \in InitPoints THEN 0 ELSE Blocks
  PROVE  Counts'
<1>1. /\ attached \subseteq Procs /\ p \in Procs
      /\ \A q \in Procs : pc'[q] = IF q = p THEN v ELSE pc[q]
  BY DEF TypeOK, Moves
<1>2. /\ count = 0
      /\ Number(MutexHeld) = 0 /\ Number(BlockInHand) = 0 /\ Number(PlaceInHand) = 0
  <2>1. Starting
    BY DEF Starting, Places
  <2> QED BY <2>1, NothingYet
<1>3. Places(MutexHeld) = {} /\ Places(BlockInHand) = {} /\ Places(PlaceInHand) = {}
  BY <1>2, NumberType
<1>4. Places(MutexHeld)' = {} /\ Places(BlockInHand)' = {} /\ Places(PlaceInHand)' = {}
  BY <1>1, <1>3 DEF Places
<1>5. Number(MutexHeld)' = 0 /\ Number(BlockInHand)' = 0 /\ Number(PlaceInHand)' = 0
  BY <1>4, FS_EmptySet DEF Number
<1>6. \A q \in attached : q # p => pc'[q] \notin InitPoints
  BY <1>1 DEF Handles, OneCreator
<1>7. /\ Places(InitPoints \ {"setFull"})' # {} => v \in InitPoints \ {"setFull"}
      /\ Starting' <=> v \in InitPoints
  BY <1>1, <1>6 DEF Starting, Places
<1>8. /\ \A s \in Sems : Value(s)' \in Nat
      /\ \A s \in Sems : sem'[s] # Gone => sem'[s] = Value(s)'
      /\ "mutex" \in Sems /\ "full" \in Sems /\ "empty" \in Sems
      /\ Blocks \in Nat
  BY BlocksAssumption DEF TypeOK, Value, Sems
<1>9. MutexCount'
  BY <1>5, <1>7, <1>8 DEF MutexCount
<1>10. EmptyCount'
  BY <1>2, <1>5, <1>8 DEF EmptyCount
<1>11. FullCount'
  <2>1. Value("full")' + Number(PlaceInHand)' <= Blocks - count'
    BY <1>2, <1>5, <1>8
  <2>2. sem'["full"] # Gone /\ ~Starting' => Blocks - count' = sem'["full"] + Number(PlaceInHand)'
    BY <1>2, <1>5, <1>7, <1>8
  <2>3. Starting' => count' = 0 /\ Value("full")' = 0 /\ Number(PlaceInHand)' = 0
    BY <1>2, <1>5, <1>7
  <2> QED BY <2>1, <2>2, <2>3 DEF FullCount
<1> QED BY <1>9, <1>10, <1>11 DEF Counts

\* The points of processes that the counts are about.
Counted == MutexHeld \cup BlockInHand \cup PlaceInHand \cup InitPoints

\* A step from and to points that are not counted, or of a process without the
\* segment.
LEMMA CountsApart ==
  ASSUME TypeOK, TypeOK', Counts, NEW p \in Procs, OthersStay(p), count' = count,
         \A s \in Sems : sem'[s] \in {sem[s], Gone},
         p \notin attached \/ pc[p] \notin Counted, p \notin attached' \/ pc'[p] \notin Counted
  PROVE  Counts'
<1>1. /\ In(p, MutexHeld) = 0 /\ In(p, BlockInHand) = 0 /\ In(p, PlaceInHand) = 0 /\ In(p, InitPoints) = 0
      /\ In(p, MutexHeld)' = 0 /\ In(p, BlockInHand)' = 0 /\ In(p, PlaceInHand)' = 0
      /\ In(p, InitPoints)' = 0
  BY DEF In, Counted
<1> QED BY <1>1, CountsStay

LEMMA CountsExit ==
  ASSUME Counts, UNCHANGED <<pc, sem, attached, count>>
  PROVE  Counts'
<1>1. /\ Number(MutexHeld)' = Number(MutexHeld) /\ Number(BlockInHand)' = Number(BlockInHand)
      /\ Number(PlaceInHand)' = Number(PlaceInHand) /\ Starting' = Starting
      /\ Places(InitPoints \ {"setFull"})' = Places(InitPoints \ {"setFull"})
  BY DEF Number, Places, Starting
<1>2. \A s \in Sems : Value(s)' = Value(s)
  BY DEF Value
<1>3. MutexCount' /\ EmptyCount' /\ FullCount'
  BY <1>1, <1>2 DEF Counts, MutexCount, EmptyCount, FullCount, Sems
<1> QED BY <1>3 DEF Counts

LEMMA CountsCreateSems ==
  ASSUME TypeOK, TypeOK', Handles, Counts, NEW p \in Procs, CreateSems(p), ~raced'
  PROVE  Counts'
<1> USE DEF Goto, At, Moves
<1>1. ASSUME NEW s \in Sems, NEW v \in InitPoints \ {"setFull"}, SemCreate(p, s, v),
             pc[p] \in CreatePoints, attached' = attached, count' = count
      PROVE  Counts'
  <2>1. CASE Exit(p) /\ UNCHANGED sem
    BY <1>1, <2>1, CountsExit DEF Exit
  <2>2. CASE /\ sem[s] = Gone /\ sem' = [sem EXCEPT ![s] = 0] /\ Moves(p, v) /\ p \in attached
    <3>1. /\ pc[p] \in InitPoints \ {"setFull"} /\ Starting
          /\ Places(InitPoints \ {"setFull"}) # {}
      BY <1>1, <2>2 DEF InitPoints, CreatePoints, Starting, Places
    <3>2. Value("mutex") = 0 /\ Value("full") = 0 /\ Value("empty") = 0
      BY <3>1, NothingYet DEF Counts, MutexCount, Value
    <3>3. \A r \in Sems : Value(r)' = Value(r)
      BY <1>1, <2>2 DEF Value, TypeOK, Gone
    <3>4. /\ v \in Points /\ v \notin MutexHeld /\ v \notin BlockInHand /\ v \notin PlaceInHand
      BY DEF InitPoints, CreatePoints, Points, MutexHeld, BlockInHand, PlaceInHand
    <3>5. /\ Value("empty")' = 0 /\ Value("mutex")' <= 1
          /\ v \in InitPoints \ {"setFull"} => Value("mutex")' = 0
          /\ Value("full")' = IF v \in InitPoints THEN 0 ELSE Blocks
      BY <3>2, <3>3 DEF Sems
    <3>6. pc[p] \in InitPoints
      BY <3>1
    <3> QED BY <1>1, <2>2, <3>4, <3>5, <3>6, CountsCreator
  <2> QED BY <1>1, <2>1, <2>2 DEF SemCreate
<1>2. /\ attached' = attached /\ count' = count
      /\ {"mutex", "full", "empty"} \subseteq Sems
      /\ {"createFull", "createEmpty", "setMutex"} \subseteq InitPoints \ {"setFull"}
      /\ {"createMutex", "createFull", "createEmpty"} \subseteq CreatePoints
  BY DEF CreateSems, Sems, InitPoints, CreatePoints, header
<1> QED BY <1>1, <1>2 DEF CreateSems

LEMMA CountsSetSems ==
  ASSUME TypeOK, TypeOK', Handles, Counts, NEW p \in Procs, SetSems(p), ~raced'
  PROVE  Counts'
<1> USE DEF Goto, At, Moves
<1>1. /\ attached' = attached /\ ids' = ids /\ count' = count
      /\ ids[p] # {} => p \in attached
      /\ "mutex" \in Sems /\ "full" \in Sems /\ "empty" \in Sems /\ Blocks \in Nat
      /\ attached \subseteq Procs
      /\ \A v : Moves(p, v) => pc'[p] = v /\ OthersStay(p)
  BY BlocksAssumption DEF SetSems, header, handles, Sems, Handles, HandlesFit, TypeOK, OthersStay
<1>2. CASE Exit(p) /\ UNCHANGED sem
  BY <1>1, <1>2, CountsExit DEF Exit
<1>3. CASE /\ pc[p] = "setMutex" /\ "mutex" \in ids[p] /\ sem' = [sem EXCEPT !["mutex"] = 1]
           /\ Moves(p, "setFull")
  <2>1. p \in attached /\ pc[p] \in InitPoints /\ Starting
    BY <1>1, <1>3 DEF InitPoints, Starting, Places
  <2>2. Value("mutex")' = 1 /\ Value("full")' = Value("full") /\ Value("empty")' = Value("empty")
    BY <1>1, <1>3 DEF Value, TypeOK, Gone
  <2>3. Value("full") = 0 /\ Value("empty") = 0
    BY <2>1, NothingYet
  <2>4. /\ "setFull" \in Points /\ "setFull" \notin MutexHeld /\ "setFull" \notin BlockInHand
        /\ "setFull" \notin PlaceInHand /\ "setFull" \in InitPoints
    BY DEF InitPoints, Points, MutexHeld, BlockInHand, PlaceInHand
  <2>5. /\ Value("empty")' = 0 /\ Value("mutex")' <= 1
        /\ Value("full")' = IF "setFull" \in InitPoints THEN 0 ELSE Blocks
    BY <2>2, <2>3, <2>4
  <2> QED BY <1>1, <1>3, <2>1, <2>4, <2>5, CountsCreator
<1>4. CASE /\ pc[p] = "setFull" /\ "full" \in ids[p] /\ sem' = [sem EXCEPT !["full"] = Blocks]
           /\ Moves(p, "setEmpty")
  <2>1. p \in attached /\ pc[p] \in InitPoints /\ Starting
    BY <1>1, <1>4 DEF InitPoints, Starting, Places
  <2>2. Value("mutex")' = Value("mutex") /\ Value("full")' = Blocks /\ Value("empty")' = Value("empty")
    BY <1>1, <1>4 DEF Value, TypeOK, Gone
  <2>3. Value("empty") = 0 /\ Value("mutex") <= 1
    <3>1. Number(MutexHeld) = 0 /\ Value("empty") = 0
      BY <2>1, NothingYet
    <3>2. Value("mutex") \in Nat /\ Value("mutex") + Number(MutexHeld) <= 1
      BY <1>1 DEF Counts, MutexCount, Value, TypeOK
    <3> QED BY <3>1, <3>2
  <2>4. /\ "setEmpty" \in Points /\ "setEmpty" \notin MutexHeld /\ "setEmpty" \notin BlockInHand
        /\ "setEmpty" \notin PlaceInHand /\ "setEmpty" \notin InitPoints
    BY DEF InitPoints, CreatePoints, Points, MutexHeld, BlockInHand, PlaceInHand
  <2> QED BY <1>1, <1>4, <2>1, <2>2, <2>3, <2>4, CountsCreator
<1>5. CASE /\ pc[p] = "setEmpty" /\ sem["empty"] = 0 /\ sem' = [sem EXCEPT !["empty"] = 0]
           /\ Moves(p, "idle")
  <2>1. sem' = sem
    BY <1>1, <1>5 DEF TypeOK
  <2>2. "setEmpty" \notin Counted /\ "idle" \notin Counted
    BY DEF Counted, InitPoints, CreatePoints, MutexHeld, BlockInHand, PlaceInHand
  <2> QED BY <1>1, <1>5, <2>1, <2>2, CountsApart
<1> QED BY <1>1, <1>2, <1>3, <1>4, <1>5 DEF SetSems, SemSetval

\* The semaphore a call waits for or posts, from where, and where p goes.
EnterPath == {<<"full", "putFull", "putMutex">>, <<"mutex", "putMutex", "copyIn">>,
              <<"empty", "getEmpty", "getMutex">>, <<"mutex", "getMutex", "copyOut">>}
LeavePath == {<<"mutex", "putLeave", "putEmpty">>, <<"empty", "putEmpty", "idle">>,
              <<"mutex", "getLeave", "getFull">>, <<"full", "getFull", "idle">>}

One(a, b) == IF a = b THEN 1 ELSE 0

\* What sem_p takes from a semaphore p has in hand afterwards.
LEMMA EnterHands ==
  ASSUME NEW p \in attached, attached' = attached, NEW s, NEW v, pc'[p] = v,
         <<s, pc[p], v>> \in EnterPath
  PROVE  /\ In(p, MutexHeld)' = In(p, MutexHeld) + One(s, "mutex")
         /\ In(p, BlockInHand)' = In(p, BlockInHand) + One(s, "empty")
         /\ In(p, PlaceInHand)' = In(p, PlaceInHand) + One(s, "full")
         /\ In(p, MutexHeld) \in Int /\ In(p, BlockInHand) \in Int /\ In(p, PlaceInHand) \in Int
         /\ pc[p] \in Working \ InitPoints /\ v \in Working \ InitPoints
BY PointsApart DEF In, One, EnterPath, MutexHeld, BlockInHand, PlaceInHand

LEMMA LeaveHands ==
  ASSUME NEW p \in attached, attached' = attached, NEW s, NEW v, pc'[p] = v,
         <<s, pc[p], v>> \in LeavePath
  PROVE  /\ In(p, MutexHeld)' = In(p, MutexHeld) - One(s, "mutex")
         /\ In(p, BlockInHand)' = In(p, BlockInHand) - One(s, "empty")
         /\ In(p, PlaceInHand)' = In(p, PlaceInHand) - One(s, "full")
         /\ In(p, MutexHeld) \in Int /\ In(p, BlockInHand) \in Int /\ In(p, PlaceInHand) \in Int
         /\ pc[p] \in Working \ InitPoints /\ v \in Working \ InitPoints
BY PointsApart DEF In, One, LeavePath, MutexHeld, BlockInHand, PlaceInHand

LEMMA CountsEnter ==
  ASSUME TypeOK, TypeOK', Handles, Counts, NEW p \in Procs, Enter(p)
  PROVE  Counts'
<1> USE DEF Goto, At, Moves
<1>1. /\ attached' = attached /\ ids' = ids /\ count' = count
      /\ ids[p] # {} => p \in attached
      /\ "mutex" \in Sems /\ "full" \in Sems /\ "empty" \in Sems
      /\ attached \subseteq Procs /\ count \in Nat
      /\ \A v : Moves(p, v) => pc'[p] = v
  BY BlocksAssumption DEF Enter, OnlySems, header, handles, Sems, Handles, HandlesFit, TypeOK
<1>2. CASE Exit(p) /\ UNCHANGED sem
  BY <1>1, <1>2, CountsExit DEF Exit
<1>3. ASSUME NEW s \in Sems, NEW v, <<s, pc[p], v>> \in EnterPath,
             s \in ids[p], sem[s] > 0, sem' = [sem EXCEPT ![s] = @ - 1], Moves(p, v)
      PROVE  Counts'
  <2>1. p \in attached /\ pc'[p] = v
    BY <1>1, <1>3
  <2>2. /\ Value("mutex")' = Value("mutex") - One(s, "mutex")
        /\ Value("full")' = Value("full") - One(s, "full")
        /\ Value("empty")' = Value("empty") - One(s, "empty")
        /\ Value("mutex") \in Nat /\ Value("full") \in Nat /\ Value("empty") \in Nat
        /\ Value(s) > 0
        /\ \A r \in Sems : sem'[r] = Gone <=> sem[r] = Gone
    <3>1. /\ sem[s] \in Nat /\ sem[s] # Gone /\ sem'[s] = sem[s] - 1 /\ sem'[s] # Gone
          /\ \A r \in Sems : r # s => sem'[r] = sem[r]
      <4>1. sem \in [Sems -> Nat \cup {Gone}]
        BY DEF TypeOK
      <4>2. sem[s] > 0 /\ sem' = [sem EXCEPT ![s] = sem[s] - 1]
        BY <1>3
      <4> QED BY <4>1, <4>2 DEF Gone
    <3>2. /\ Value(s) = sem[s] /\ Value(s)' = Value(s) - 1
          /\ \A r \in Sems : r # s => Value(r)' = Value(r)
          /\ \A r \in Sems : Value(r) \in Nat
      BY <3>1 DEF Value, TypeOK
    <3> QED BY <1>1, <1>3, <3>1, <3>2 DEF One
  <2>3. ~Starting
    <3>1. pc[p] \in BlockInHand \cup PlaceInHand \/ s = "full" \/ s = "empty"
      BY <1>3 DEF EnterPath, BlockInHand, PlaceInHand
    <3> QED BY <2>1, <2>2, <3>1, NotStarting
  <2>4. /\ In(p, MutexHeld)' = In(p, MutexHeld) + One(s, "mutex")
        /\ In(p, BlockInHand)' = In(p, BlockInHand) + One(s, "empty")
        /\ In(p, PlaceInHand)' = In(p, PlaceInHand) + One(s, "full")
        /\ In(p, MutexHeld) \in Int /\ In(p, BlockInHand) \in Int /\ In(p, PlaceInHand) \in Int
        /\ pc[p] \in Working \ InitPoints /\ v \in Working \ InitPoints
    BY <1>1, <1>3, <2>1, EnterHands
  <2>5. /\ One(s, "mutex") \in Int /\ One(s, "empty") \in Int /\ One(s, "full") \in Int
    BY DEF One
  <2>6. Value("mutex")' + In(p, MutexHeld)' = Value("mutex") + In(p, MutexHeld)
    BY <2>2, <2>4, <2>5
  <2>7. Value("empty")' + In(p, BlockInHand)' - count' = Value("empty") + In(p, BlockInHand) - count
    <3>1. Value("empty")' + In(p, BlockInHand)' = Value("empty") + In(p, BlockInHand)
      BY <2>2, <2>4, <2>5
    <3>2. count' = count /\ count \in Int
      BY <1>1
    <3>3. /\ Value("empty") \in Int /\ In(p, BlockInHand) \in Int
          /\ Value("empty")' \in Int /\ In(p, BlockInHand)' \in Int
      BY <2>2, <2>4, <2>5
    <3> QED BY <3>1, <3>2, <3>3
  <2>8. Value("full")' + In(p, PlaceInHand)' + count' = Value("full") + In(p, PlaceInHand) + count
    <3>1. Value("full")' + In(p, PlaceInHand)' = Value("full") + In(p, PlaceInHand)
      BY <2>2, <2>4, <2>5
    <3>2. count' = count
      BY <1>1
    <3> QED BY <3>1, <3>2
  <2> QED BY <1>1, <1>3, <2>1, <2>2, <2>3, <2>4, <2>6, <2>7, <2>8, CountsBalance
<1> QED BY <1>1, <1>2, <1>3 DEF Enter, SemP, EnterPath

LEMMA CountsLeave ==
  ASSUME TypeOK, TypeOK', Handles, Counts, NEW p \in Procs, Leave(p)
  PROVE  Counts'
<1> USE DEF Goto, At, Moves
<1>1. /\ attached' = attached /\ ids' = ids /\ count' = count
      /\ ids[p] # {} => p \in attached
      /\ \A s \in ids[p] : sem[s] # Gone
      /\ "mutex" \in Sems /\ "full" \in Sems /\ "empty" \in Sems
      /\ attached \subseteq Procs /\ count \in Nat
      /\ \A v : Moves(p, v) => pc'[p] = v
  BY BlocksAssumption DEF Leave, OnlySems, header, handles, Sems, Handles, HandlesFit, TypeOK
<1>2. CASE Exit(p) /\ UNCHANGED sem
  BY <1>1, <1>2, CountsExit DEF Exit
<1>3. ASSUME NEW s \in Sems, NEW v, <<s, pc[p], v>> \in LeavePath,
             s \in ids[p], sem' = [sem EXCEPT ![s] = @ + 1], Moves(p, v)
      PROVE  Counts'
  <2>1. p \in attached /\ pc'[p] = v /\ sem[s] # Gone
    BY <1>1, <1>3
  <2>2. /\ Value("mutex")' = Value("mutex") + One(s, "mutex")
        /\ Value("full")' = Value("full") + One(s, "full")
        /\ Value("empty")' = Value("empty") + One(s, "empty")
        /\ Value("mutex") \in Nat /\ Value("full") \in Nat /\ Value("empty") \in Nat
        /\ \A r \in Sems : sem'[r] = Gone <=> sem[r] = Gone
    <3>1. /\ sem[s] \in Nat /\ sem[s] # Gone /\ sem'[s] = sem[s] + 1 /\ sem'[s] # Gone
          /\ \A r \in Sems : r # s => sem'[r] = sem[r]
      <4>1. sem \in [Sems -> Nat \cup {Gone}]
        BY DEF TypeOK
      <4>2. sem[s] # Gone /\ sem' = [sem EXCEPT ![s] = sem[s] + 1]
        BY <1>3, <2>1
      <4> QED BY <4>1, <4>2 DEF Gone
    <3>2. /\ Value(s) = sem[s] /\ Value(s)' = Value(s) + 1
          /\ \A r \in Sems : r # s => Value(r)' = Value(r)
          /\ \A r \in Sems : Value(r) \in Nat
      BY <3>1 DEF Value, TypeOK
    <3> QED BY <1>1, <1>3, <3>1, <3>2 DEF One
  <2>3. ~Starting
    <3>1. pc[p] \in BlockInHand \cup PlaceInHand
      BY <1>3 DEF LeavePath, BlockInHand, PlaceInHand
    <3> QED BY <2>1, <3>1, NotStarting
  <2>4. /\ In(p, MutexHeld)' = In(p, MutexHeld) - One(s, "mutex")
        /\ In(p, BlockInHand)' = In(p, BlockInHand) - One(s, "empty")
        /\ In(p, PlaceInHand)' = In(p, PlaceInHand) - One(s, "full")
        /\ In(p, MutexHeld) \in Int /\ In(p, BlockInHand) \in Int /\ In(p, PlaceInHand) \in Int
        /\ pc[p] \in Working \ InitPoints /\ v \in Working \ InitPoints
    BY <1>1, <1>3, <2>1, LeaveHands
  <2>5. /\ One(s, "mutex") \in Int /\ One(s, "empty") \in Int /\ One(s, "full") \in Int
    BY DEF One
  <2>6. Value("mutex")' + In(p, MutexHeld)' = Value("mutex") + In(p, MutexHeld)
    BY <2>2, <2>4, <2>5
  <2>7. Value("empty")' + In(p, BlockInHand)' - count' = Value("empty") + In(p, BlockInHand) - count
    <3>1. Value("empty")' + In(p, BlockInHand)' = Value("empty") + In(p, BlockInHand)
      BY <2>2, <2>4, <2>5
    <3>2. count' = count /\ count \in Int
      BY <1>1
    <3>3. /\ Value("empty") \in Int /\ In(p, BlockInHand) \in Int
          /\ Value("empty")' \in Int /\ In(p, BlockInHand)' \in Int
      BY <2>2, <2>4, <2>5
    <3> QED BY <3>1, <3>2, <3>3
  <2>8. Value("full")' + In(p, PlaceInHand)' + count' = Value("full") + In(p, PlaceInHand) + count
    <3>1. Value("full")' + In(p, PlaceInHand)' = Value("full") + In(p, PlaceInHand)
      BY <2>2, <2>4, <2>5
    <3>2. count' = count
      BY <1>1
    <3> QED BY <3>1, <3>2
  <2> QED BY <1>1, <1>3, <2>1, <2>2, <2>3, <2>4, <2>6, <2>7, <2>8, CountsBalance
<1> QED BY <1>1, <1>2, <1>3 DEF Leave, SemV, LeavePath

\* Storing or taking a block hands it from one account to the other.
LEMMA CountsAdvance ==
  ASSUME TypeOK, TypeOK', Counts, NEW p \in attached, AdvanceWr(p) \/ AdvanceRd(p)
  PROVE  Counts'
<1> USE DEF Goto, At, Moves
<1>1. /\ attached' = attached /\ sem' = sem /\ attached \subseteq Procs /\ p \in Procs
      /\ pc[p] \in BlockInHand \cup PlaceInHand
      /\ count \in Nat /\ count' \in Nat
  BY DEF AdvanceWr, AdvanceRd, handles, TypeOK, BlockInHand, PlaceInHand
<1>2. ~Starting
  BY <1>1, NotStarting
<1>3. Value("mutex")' = Value("mutex") /\ Value("full")' = Value("full") /\ Value("empty")' = Value("empty")
  BY <1>1 DEF Value
<1>4. Value("mutex") \in Nat /\ Value("full") \in Nat /\ Value("empty") \in Nat
  BY DEF Value, TypeOK, Sems
<1>5. CASE AdvanceWr(p)
  <2>1. /\ Moves(p, "putLeave") /\ pc[p] = "advanceWr" /\ pc'[p] = "putLeave" /\ count' = count + 1
    BY <1>1, <1>5 DEF AdvanceWr, TypeOK
  <2>2. /\ In(p, MutexHeld)' = 1 /\ In(p, MutexHeld) = 1
        /\ In(p, BlockInHand)' = 1 /\ In(p, BlockInHand) = 0
        /\ In(p, PlaceInHand)' = 0 /\ In(p, PlaceInHand) = 1
    BY <1>1, <2>1 DEF In, MutexHeld, BlockInHand, PlaceInHand
  <2>3. /\ Value("mutex")' + In(p, MutexHeld)' = Value("mutex") + In(p, MutexHeld)
        /\ Value("empty")' + In(p, BlockInHand)' - count' = Value("empty") + In(p, BlockInHand) - count
        /\ Value("full")' + In(p, PlaceInHand)' + count' = Value("full") + In(p, PlaceInHand) + count
    BY <1>1, <1>3, <1>4, <2>1, <2>2
  <2>4. pc[p] \in Working \ InitPoints /\ "putLeave" \in Working \ InitPoints
    BY <2>1, PointsApart
  <2> QED BY <1>1, <1>2, <2>1, <2>3, <2>4, CountsBalance
<1>6. CASE AdvanceRd(p)
  <2>1. /\ Moves(p, "getLeave") /\ pc[p] = "advanceRd" /\ pc'[p] = "getLeave" /\ count' = count - 1
    BY <1>1, <1>6 DEF AdvanceRd, TypeOK
  <2>2. /\ In(p, MutexHeld)' = 1 /\ In(p, MutexHeld) = 1
        /\ In(p, BlockInHand)' = 0 /\ In(p, BlockInHand) = 1
        /\ In(p, PlaceInHand)' = 1 /\ In(p, PlaceInHand) = 0
    BY <1>1, <2>1 DEF In, MutexHeld, BlockInHand, PlaceInHand
  <2>3. /\ Value("mutex")' + In(p, MutexHeld)' = Value("mutex") + In(p, MutexHeld)
        /\ Value("empty")' + In(p, BlockInHand)' - count' = Value("empty") + In(p, BlockInHand) - count
        /\ Value("full")' + In(p, PlaceInHand)' + count' = Value("full") + In(p, PlaceInHand) + count
    BY <1>1, <1>3, <1>4, <2>1, <2>2
  <2>4. pc[p] \in Working \ InitPoints /\ "getLeave" \in Working \ InitPoints
    BY <2>1, PointsApart
  <2> QED BY <1>1, <1>2, <2>1, <2>3, <2>4, CountsBalance
<1> QED BY <1>5, <1>6

LEMMA CountsKept ==
  ASSUME TypeOK, TypeOK', Handles, Counts, NEW p \in Procs, Step(p), ~raced'
  PROVE  Counts'
<1> USE DEF Goto, At, Moves
<1>1. /\ attached \subseteq Procs
      /\ \A v : Moves(p, v) => pc'[p] = v /\ \A q \in Procs \ {p} : pc'[q] = pc[q]
      /\ \A v : Moves(p, v) /\ attached' \ {p} = attached \ {p} => OthersStay(p)
  BY DEF TypeOK, OthersStay
<1>2. /\ {"out", "make", "head", "idle", "putFull", "getEmpty", "openMutex", "openFull", "openEmpty",
           "removeFull", "removeEmpty", "removeShm"} \cap Counted = {}
  BY DEF Counted, MutexHeld, BlockInHand, PlaceInHand, InitPoints, CreatePoints
<1>3. CASE Probe(p) \/ Make(p)
  BY <1>1, <1>2, <1>3, CountsApart DEF Probe, Make, header
<1>4. CASE SetHead(p)
  <2>1. CASE p \in attached
    <3>1. attached = {p} /\ \A s \in Sems : sem[s] = Gone
      BY <1>4, <2>1, CreatorAlone DEF SetHead
    <3> QED BY <1>1, <1>4, <2>1, <3>1, CountsFresh DEF SetHead, handles
  <2>2. CASE p \notin attached
    BY <1>1, <1>4, <2>2, CountsApart DEF SetHead, handles
  <2> QED BY <2>1, <2>2
<1>5. CASE CreateSems(p)
  BY <1>5, CountsCreateSems
<1>6. CASE SetSems(p)
  BY <1>6, CountsSetSems
<1>7. CASE OpenSems(p)
  <2>1. CASE Exit(p)
    BY <1>7, <2>1, CountsExit DEF OpenSems, Exit, header
  <2>2. CASE ~Exit(p)
    BY <1>1, <1>2, <1>7, <2>2, CountsApart DEF OpenSems, SemOpen, header
  <2> QED BY <2>1, <2>2
<1>8. CASE CallPut(p) \/ CallGet(p)
  BY <1>1, <1>2, <1>8, CountsApart DEF CallPut, CallGet, header, handles
<1>9. CASE Enter(p)
  BY <1>9, CountsEnter
<1>10. CASE CopyIn(p) \/ CopyOut(p)
  <2>1. /\ sem' = sem /\ count' = count /\ OthersStay(p) /\ attached' = attached
        /\ \/ pc[p] = "copyIn" /\ pc'[p] = "advanceWr"
           \/ pc[p] = "copyOut" /\ pc'[p] = "advanceRd"
    BY <1>1, <1>10 DEF CopyIn, CopyOut, handles, header
  <2>2. /\ In(p, MutexHeld)' = In(p, MutexHeld) /\ In(p, BlockInHand)' = In(p, BlockInHand)
        /\ In(p, PlaceInHand)' = In(p, PlaceInHand)
        /\ In(p, InitPoints) = 0 /\ In(p, InitPoints)' = 0
    BY <2>1 DEF In, MutexHeld, BlockInHand, PlaceInHand, InitPoints, CreatePoints
  <2> QED BY <2>1, <2>2, CountsStay
<1>11. CASE AdvanceWr(p) \/ AdvanceRd(p)
  <2>1. CASE p \in attached
    BY <1>11, <2>1, CountsAdvance
  <2>2. CASE p \notin attached
    BY <1>1, <1>11, <2>2, CountsApart DEF AdvanceWr, AdvanceRd, handles
  <2> QED BY <2>1, <2>2
<1>12. CASE Leave(p)
  BY <1>12, CountsLeave
<1>13. CASE RemoveSems(p)
  <2>1. /\ attached' = attached /\ count' = count /\ OthersStay(p)
        /\ pc[p] \notin Counted /\ pc'[p] \notin Counted
    BY <1>1, <1>2, <1>13 DEF RemoveSems, SemRemove, header
  <2>2. \A s \in Sems : sem'[s] \in {sem[s], Gone}
    BY <1>13 DEF RemoveSems, SemRemove, TypeOK
  <2> QED BY <2>1, <2>2, CountsApart
<1>14. CASE RemoveShm(p)
  <2>1. CASE p \in attached
    <3>1. \A s \in Sems : sem[s] = Gone
      BY <1>14, <2>1 DEF RemoveShm, Handles, Made, Removed
    <3> QED BY <1>1, <1>14, <2>1, <3>1, CountsFresh DEF RemoveShm
  <2>2. CASE p \notin attached
    BY <1>1, <1>14, <2>2, CountsApart DEF RemoveShm, header
  <2> QED BY <2>1, <2>2
<1>15. CASE Die(p)
  BY <1>15, CountsExit DEF Die, Exit, header, handles
<1> QED
  BY <1>3, <1>4, <1>5, <1>6, <1>7, <1>8, <1>9, <1>10, <1>11, <1>12, <1>13, <1>14, <1>15
  DEF Step, InitStep, CallStep

-----------------------------------------------------------------------------
(* The ring. *)

\* Nobody but the holder of the mutex is at a point where it is held.
LEMMA OnlyHolder ==
  ASSUME TypeOK, Counts, NEW p \in attached, pc[p] \in MutexHeld
  PROVE  \A q \in attached : pc[q] \in MutexHeld => q = p
<1>1. Value("mutex") + Number(MutexHeld) <= 1 /\ Value("mutex") \in Nat /\ Number(MutexHeld) \in Nat
  BY NumberType DEF Counts, MutexCount, Value, TypeOK, Sems
<1>2. Number(MutexHeld) <= 1
  BY <1>1
<1> QED BY <1>2, NumberHas

\* Room for the block of a writer, and a block for a reader.
LEMMA RoomAndBlock ==
  ASSUME TypeOK, Counts, NEW p \in attached
  PROVE  /\ pc[p] \in PlaceInHand => count < Blocks
         /\ pc[p] \in BlockInHand => count > 0
<1>1. /\ Value("full") \in Nat /\ Value("empty") \in Nat /\ count \in Nat /\ Blocks \in Nat
      /\ Number(PlaceInHand) \in Nat /\ Number(BlockInHand) \in Nat
  BY BlocksAssumption, NumberType DEF Value, TypeOK, Sems
<1>2. ASSUME pc[p] \in PlaceInHand PROVE count < Blocks
  <2>1. Number(PlaceInHand) >= 1
    BY <1>2, NumberHas
  <2>2. Value("full") + Number(PlaceInHand) <= Blocks - count
    BY DEF Counts, FullCount
  <2> QED BY <1>1, <2>1, <2>2
<1>3. ASSUME pc[p] \in BlockInHand PROVE count > 0
  <2>1. Number(BlockInHand) >= 1
    BY <1>3, NumberHas
  <2>2. Value("empty") + Number(BlockInHand) <= count
    BY DEF Counts, EmptyCount
  <2> QED BY <1>1, <2>1, <2>2
<1> QED BY <1>2, <1>3

LEMMA TypeKept ==
  ASSUME QueueInv, ~raced, NEW p \in Procs, Step(p)
  PROVE  TypeOK'
<1> USE DEF Goto, At, Exit, handles, header
<1>1. TypeOK /\ Counts /\ Handles
  BY DEF QueueInv
<1>2. /\ {"out", "make", "setEmpty", "idle", "putFull", "getEmpty", "removeFull", "removeEmpty",
           "removeShm", "head", "openMutex", "openFull", "openEmpty", "createMutex", "createFull",
           "createEmpty", "setMutex", "setFull", "copyIn", "advanceWr", "putLeave", "copyOut",
           "advanceRd", "getLeave", "getMutex", "putEmpty", "putMutex", "getFull"} \subseteq Points
      /\ {"mutex", "full", "empty"} \subseteq Sems
      /\ Blocks \in Nat \ {0} /\ MaxPuts \in Nat /\ MaxInits \in Nat
      /\ 0 \in 0 .. Blocks - 1 /\ 0 \in 0 .. MaxPuts /\ 0 \in 0 .. Blocks
      /\ \A i \in 0 .. Blocks - 1 : After(i) \in 0 .. Blocks - 1
      /\ Gone \notin Nat /\ 0 \in Nat /\ 1 \in Nat
  BY BlocksAssumption, BoundsAssumption
  DEF Points, OpenPoints, InitPoints, CreatePoints, MutexHeld, BlockInHand, PlaceInHand, After, Sems, Gone
<1>3. /\ \A v \in Points : Goto(p, v) => pc' \in [Procs -> Points] /\ dead' \subseteq Procs
      /\ Exit(p) => pc' \in [Procs -> Points] /\ dead' \subseteq Procs
  BY <1>1 DEF TypeOK
<1>4. ASSUME NEW s \in Sems, NEW v \in Points, SemP(p, s, v), OnlySems
      PROVE  TypeOK'
  <2>1. sem' \in [Sems -> Nat \cup {Gone}]
    <3>1. CASE sem[s] > 0 /\ sem' = [sem EXCEPT ![s] = @ - 1]
      <4>1. sem[s] - 1 \in Nat
        BY <1>1, <1>4, <3>1 DEF TypeOK, Gone
      <4> QED BY <1>1, <3>1, <4>1 DEF TypeOK
    <3>2. CASE sem' = sem
      BY <1>1, <3>2 DEF TypeOK
    <3> QED BY <1>4, <3>1, <3>2 DEF SemP
  <2>2. pc' \in [Procs -> Points] /\ dead' \subseteq Procs
    BY <1>3, <1>4 DEF SemP
  <2> QED BY <1>1, <1>4, <2>1, <2>2 DEF TypeOK, OnlySems
<1>5. ASSUME NEW s \in Sems, NEW v \in Points, SemV(p, s, v), OnlySems
      PROVE  TypeOK'
  <2>1. \A r \in ids[p] : r \in Sems /\ sem[r] # Gone
    BY <1>1 DEF TypeOK, Handles, HandlesFit
  <2>2. sem' \in [Sems -> Nat \cup {Gone}]
    BY <1>1, <1>5, <2>1 DEF TypeOK, SemV
  <2>3. pc' \in [Procs -> Points] /\ dead' \subseteq Procs
    BY <1>3, <1>5 DEF SemV
  <2> QED BY <1>1, <1>5, <2>2, <2>3 DEF TypeOK, OnlySems
<1>6. CASE Probe(p)
  <2>1. pc' \in [Procs -> Points] /\ dead' \subseteq Procs
    BY <1>2, <1>3, <1>6 DEF Probe
  <2>2. inits' \in 0 .. MaxInits /\ attached' \subseteq Procs
    BY <1>1, <1>2, <1>6 DEF TypeOK, Probe
  <2> QED BY <1>1, <1>6, <2>1, <2>2 DEF TypeOK, Probe
<1>7. CASE Make(p) \/ SetHead(p)
  <2>1. CASE Make(p)
    <3>1. shm' \in BOOLEAN /\ attached' \subseteq Procs
      BY <1>1, <2>1 DEF TypeOK, Make
    <3>2. pc' \in [Procs -> Points] /\ dead' \subseteq Procs
      BY <1>2, <1>3, <2>1 DEF Make
    <3> QED BY <1>1, <2>1, <3>1, <3>2 DEF TypeOK, Make
  <2>2. CASE SetHead(p)
    <3>1. rd_index' \in 0 .. Blocks - 1 /\ wr_index' \in 0 .. Blocks - 1 /\ count' \in 0 .. Blocks
      BY <1>1, <2>2, BlocksAssumption DEF TypeOK, SetHead
    <3>2. raced' \in BOOLEAN
      BY <1>1, <2>2 DEF TypeOK, SetHead
    <3>3. pc' \in [Procs -> Points] /\ dead' \subseteq Procs
      BY <1>2, <1>3, <2>2 DEF SetHead
    <3> QED BY <1>1, <2>2, <3>1, <3>2, <3>3 DEF TypeOK, SetHead
  <2> QED BY <1>7, <2>1, <2>2
<1>8. CASE CreateSems(p)
  <2>1. ASSUME NEW s \in Sems, NEW v \in Points, SemCreate(p, s, v),
               UNCHANGED <<shm, header, attached, buf, puts, inits, taken>>
        PROVE  TypeOK'
    <3>1. pc' \in [Procs -> Points] /\ dead' \subseteq Procs
      BY <1>3, <2>1 DEF SemCreate
    <3>2. raced' \in BOOLEAN
      BY <1>1, <2>1 DEF TypeOK, SemCreate
    <3>3. sem' \in [Sems -> Nat \cup {Gone}] /\ ids' \in [Procs -> SUBSET Sems]
      <4>1. CASE UNCHANGED <<sem, ids>>
        BY <1>1, <4>1 DEF TypeOK
      <4>2. CASE sem' = [sem EXCEPT ![s] = 0] /\ ids' = [ids EXCEPT ![p] = @ \cup {s}]
        <5>1. sem' \in [Sems -> Nat \cup {Gone}]
          BY <1>1, <1>2, <2>1, <4>2 DEF TypeOK
        <5>2. ids' \in [Procs -> SUBSET Sems]
          BY <1>1, <2>1, <4>2 DEF TypeOK
        <5> QED BY <5>1, <5>2
      <4> QED BY <2>1, <4>1, <4>2 DEF SemCreate
    <3> QED BY <1>1, <2>1, <3>1, <3>2, <3>3 DEF TypeOK
  <2> QED BY <1>2, <1>8, <2>1 DEF CreateSems
<1>9. CASE SetSems(p)
  <2>1. ASSUME NEW s \in Sems, NEW n \in Nat, NEW v \in Points, SemSetval(p, s, n, v),
               UNCHANGED <<shm, header, handles, buf, puts, inits, taken>>
        PROVE  TypeOK'
    <3>1. pc' \in [Procs -> Points] /\ dead' \subseteq Procs
      BY <1>3, <2>1 DEF SemSetval
    <3>2. raced' \in BOOLEAN
      BY <1>1, <2>1 DEF TypeOK, SemSetval
    <3>3. sem' \in [Sems -> Nat \cup {Gone}]
      BY <1>1, <2>1 DEF TypeOK, SemSetval
    <3> QED BY <1>1, <2>1, <3>1, <3>2, <3>3 DEF TypeOK
  <2> QED BY <1>2, <1>9, <2>1 DEF SetSems
<1>10. CASE OpenSems(p)
  <2>1. ASSUME NEW s \in Sems, NEW v \in Points, SemOpen(p, s, v),
               UNCHANGED <<shm, header, sem, attached, buf, puts, inits, taken>>
        PROVE  TypeOK'
    <3>1. pc' \in [Procs -> Points] /\ dead' \subseteq Procs
      BY <1>3, <2>1 DEF SemOpen
    <3>2. ids' \in [Procs -> SUBSET Sems]
      <4>1. ids' = [ids EXCEPT ![p] = ids[p] \cup {s}] \/ ids' = ids
        BY <2>1 DEF SemOpen
      <4>2. ids[p] \cup {s} \subseteq Sems
        BY <1>1, <2>1 DEF TypeOK
      <4> QED BY <1>1, <4>1, <4>2 DEF TypeOK
    <3>3. raced' \in BOOLEAN
      BY <1>1, <2>1 DEF TypeOK, SemOpen
    <3> QED BY <1>1, <2>1, <3>1, <3>2, <3>3 DEF TypeOK
  <2> QED BY <1>2, <1>10, <2>1 DEF OpenSems
<1>11. CASE CallPut(p)
  <2>1. pc' \in [Procs -> Points] /\ dead' \subseteq Procs
    BY <1>2, <1>3, <1>11 DEF CallPut
  <2>2. puts + 1 \in 0 .. MaxPuts
    BY <1>1, <1>2, <1>11 DEF TypeOK, CallPut
  <2> QED BY <1>1, <1>11, <2>1, <2>2 DEF TypeOK, CallPut
<1>12. CASE CallGet(p)
  BY <1>1, <1>2, <1>3, <1>12 DEF TypeOK, CallGet
<1>13. CASE Enter(p)
  BY <1>2, <1>4, <1>13 DEF Enter
<1>14. CASE Leave(p)
  BY <1>2, <1>5, <1>14 DEF Leave
<1>15. CASE CopyIn(p) \/ CopyOut(p)
  <2>1. pc' \in [Procs -> Points] /\ dead' \subseteq Procs
    BY <1>2, <1>3, <1>15 DEF CopyIn, CopyOut
  <2>2. CASE CopyIn(p)
    <3>1. payload' \in [0 .. Blocks - 1 -> 0 .. MaxPuts]
      BY <1>1, <2>2 DEF TypeOK, CopyIn
    <3> QED BY <1>1, <2>1, <2>2, <3>1 DEF TypeOK, CopyIn
  <2>3. CASE CopyOut(p)
    <3>1. buf' \in [Procs -> 0 .. MaxPuts]
      BY <1>1, <1>2, <2>3 DEF TypeOK, CopyOut
    <3> QED BY <1>1, <2>1, <2>3, <3>1 DEF TypeOK, CopyOut
  <2> QED BY <1>15, <2>2, <2>3
<1>16. CASE AdvanceWr(p)
  <2>1. p \in attached => count < Blocks
    BY <1>1, <1>16, RoomAndBlock DEF AdvanceWr, PlaceInHand
  <2>2. wr_index' \in 0 .. Blocks - 1 /\ count' \in 0 .. Blocks
    <3>1. /\ wr_index \in 0 .. Blocks - 1 /\ count \in 0 .. Blocks
          /\ After(wr_index) \in 0 .. Blocks - 1
          /\ count < Blocks => count + 1 \in 0 .. Blocks
      BY <1>1, <1>2 DEF TypeOK
    <3>2. CASE p \in attached
      BY <1>16, <2>1, <3>1, <3>2 DEF AdvanceWr
    <3>3. CASE p \notin attached
      BY <1>16, <3>1, <3>3 DEF AdvanceWr
    <3> QED BY <3>2, <3>3
  <2>3. pc' \in [Procs -> Points] /\ dead' \subseteq Procs
    BY <1>2, <1>3, <1>16 DEF AdvanceWr
  <2>4. buf' \in [Procs -> 0 .. MaxPuts]
    BY <1>1, <1>2, <1>16 DEF TypeOK, AdvanceWr
  <2> QED BY <1>1, <1>16, <2>2, <2>3, <2>4 DEF TypeOK, AdvanceWr
<1>17. CASE AdvanceRd(p)
  <2>1. p \in attached => count > 0
    BY <1>1, <1>17, RoomAndBlock DEF AdvanceRd, BlockInHand
  <2>2. rd_index' \in 0 .. Blocks - 1 /\ count' \in 0 .. Blocks
    <3>1. /\ rd_index \in 0 .. Blocks - 1 /\ count \in 0 .. Blocks
          /\ After(rd_index) \in 0 .. Blocks - 1
          /\ count > 0 => count - 1 \in 0 .. Blocks
      BY <1>1, <1>2 DEF TypeOK
    <3>2. CASE p \in attached
      BY <1>17, <2>1, <3>1, <3>2 DEF AdvanceRd
    <3>3. CASE p \notin attached
      BY <1>17, <3>1, <3>3 DEF AdvanceRd
    <3> QED BY <3>2, <3>3
  <2>3. pc' \in [Procs -> Points] /\ dead' \subseteq Procs
    BY <1>2, <1>3, <1>17 DEF AdvanceRd
  <2>4. buf' \in [Procs -> 0 .. MaxPuts] /\ taken' \in 0 .. MaxPuts
    BY <1>1, <1>2, <1>17 DEF TypeOK, AdvanceRd
  <2> QED BY <1>1, <1>17, <2>2, <2>3, <2>4 DEF TypeOK, AdvanceRd
<1>18. CASE RemoveSems(p)
  <2>1. ASSUME NEW s \in Sems, NEW v \in Points, SemRemove(p, s, v),
               UNCHANGED <<shm, header, attached, buf, puts, inits, taken, raced>>
        PROVE  TypeOK'
    <3>1. /\ pc' \in [Procs -> Points] /\ dead' \subseteq Procs
          /\ sem' \in [Sems -> Nat \cup {Gone}] /\ ids' \in [Procs -> SUBSET Sems]
      BY <1>1, <1>3, <2>1 DEF TypeOK, SemRemove
    <3> QED BY <1>1, <2>1, <3>1 DEF TypeOK
  <2> QED BY <1>2, <1>18, <2>1 DEF RemoveSems
<1>19. CASE RemoveShm(p)
  BY <1>1, <1>2, <1>19 DEF TypeOK, RemoveShm
<1>20. CASE Die(p)
  BY <1>1, <1>20 DEF TypeOK, Die
<1> QED
  BY <1>6, <1>7, <1>8, <1>9, <1>10, <1>11, <1>12, <1>13, <1>14, <1>15, <1>16, <1>17, <1>18, <1>19,
     <1>20
  DEF Step, InitStep, CallStep

\* A step that leaves the header alone, and the blocks of all but p, who has what
\* it should.
LEMMA RingStays ==
  ASSUME Ring, OwnBlocks, BlocksReal, NEW p, UNCHANGED header, attached' \subseteq attached \cup {p},
         \A q \in attached : q # p => pc'[q] = pc[q] /\ buf'[q] = buf[q],
         p \in attached' => OwnBlock(p)'
  PROVE  Ring' /\ OwnBlocks' /\ BlocksReal'
<1>1. Ring'
  BY DEF Ring, header
<1>2. BlocksReal'
  BY DEF BlocksReal, Slot, header
<1>3. OwnBlocks'
  BY DEF OwnBlocks, OwnBlock, header
<1> QED BY <1>1, <1>2, <1>3

\* A new segment, or none.
LEMMA RingFresh ==
  ASSUME rd_index' = 0, wr_index' = 0, count' = 0, NEW p, attached' \subseteq {p},
         p \in attached' => pc'[p] = "createMutex"
  PROVE  Ring' /\ OwnBlocks' /\ BlocksReal'
<1>1. Ring' /\ BlocksReal'
  BY BlocksAssumption DEF Ring, BlocksReal
<1>2. OwnBlocks'
  BY DEF OwnBlocks, OwnBlock
<1> QED BY <1>1, <1>2

\* Where the blocks lie: in the ring, the next one at wr_index, none there while
\* there is room.
LEMMA Slots ==
  ASSUME TypeOK, Ring
  PROVE  /\ Slot(count + 1) = wr_index
         /\ \A i \in 1 .. Blocks : Slot(i) \in 0 .. Blocks - 1
         /\ count < Blocks => \A i \in 1 .. count : Slot(i) # wr_index
         /\ Slot(1) = rd_index
<1>1. /\ rd_index \in 0 .. Blocks - 1 /\ count \in 0 .. Blocks /\ Blocks \in Nat \ {0}
  BY BlocksAssumption DEF TypeOK
<1>2. wr_index = IF rd_index + count < Blocks THEN rd_index + count ELSE rd_index + count - Blocks
  BY DEF Ring
<1>3. Slot(count + 1) = wr_index
  BY <1>1, <1>2 DEF Slot
<1>4. \A i \in 1 .. Blocks : Slot(i) \in 0 .. Blocks - 1
  BY <1>1 DEF Slot
<1>5. ASSUME count < Blocks, NEW i \in 1 .. count
      PROVE  Slot(i) # wr_index
  BY <1>1, <1>2, <1>5 DEF Slot
<1>6. Slot(1) = rd_index
  BY <1>1 DEF Slot
<1> QED BY <1>3, <1>4, <1>5, <1>6

\* A block stored is the last one; a block taken shifts the others.
LEMMA StoreSlots ==
  ASSUME TypeOK, Ring, count < Blocks, wr_index' = After(wr_index), count' = count + 1,
         rd_index' = rd_index
  PROVE  Ring' /\ \A i \in 1 .. count + 1 : Slot(i)' = Slot(i)
<1>1. /\ rd_index \in 0 .. Blocks - 1 /\ count \in 0 .. Blocks /\ Blocks \in Nat \ {0}
  BY BlocksAssumption DEF TypeOK
<1> QED BY <1>1 DEF Ring, After, Slot

LEMMA TakeSlots ==
  ASSUME TypeOK, Ring, count > 0, rd_index' = After(rd_index), count' = count - 1,
         wr_index' = wr_index
  PROVE  Ring' /\ \A i \in 1 .. count - 1 : Slot(i)' = Slot(i + 1)
<1>1. /\ rd_index \in 0 .. Blocks - 1 /\ count \in 0 .. Blocks /\ Blocks \in Nat \ {0}
  BY BlocksAssumption DEF TypeOK
<1>2. Ring'
  BY <1>1 DEF Ring, After
<1>3. \A i \in 1 .. count - 1 : Slot(i)' = Slot(i + 1)
  BY <1>1 DEF After, Slot
<1> QED BY <1>2, <1>3

LEMMA RingCopyIn ==
  ASSUME TypeOK, Counts, Ring, OwnBlocks, BlocksReal, NEW p \in attached, CopyIn(p)
  PROVE  Ring' /\ OwnBlocks' /\ BlocksReal'
<1> USE DEF Goto, At, handles
<1>1. /\ attached' = attached /\ p \in Procs /\ attached \subseteq Procs /\ pc[p] = "copyIn"
      /\ \A q \in Procs : pc'[q] = IF q = p THEN "advanceWr" ELSE pc[q]
      /\ buf' = buf /\ rd_index' = rd_index /\ wr_index' = wr_index /\ count' = count
      /\ buf[p] # 0
      /\ \A i \in 0 .. Blocks - 1 : payload'[i] = IF i = wr_index THEN buf[p] ELSE payload[i]
      /\ wr_index \in 0 .. Blocks - 1
  BY DEF CopyIn, TypeOK, OwnBlocks, OwnBlock
<1>2. \A q \in attached : q # p => pc[q] \notin {"advanceWr", "advanceRd"}
  BY <1>1, OnlyHolder DEF MutexHeld
<1>3. Ring'
  BY <1>1 DEF Ring
<1>4. OwnBlocks'
  BY <1>1, <1>2 DEF OwnBlocks, OwnBlock
<1>5. BlocksReal'
  <2> SUFFICES ASSUME NEW i \in 1 .. count PROVE payload'[Slot(i)] # 0
    BY <1>1 DEF BlocksReal, Slot
  <2>1. i \in 1 .. Blocks
    BY BlocksAssumption DEF TypeOK
  <2>2. Slot(i) \in 0 .. Blocks - 1
    BY <2>1, Slots
  <2> QED BY <1>1, <2>2 DEF BlocksReal
<1> QED BY <1>3, <1>4, <1>5

LEMMA RingAdvanceWr ==
  ASSUME TypeOK, Counts, Ring, OwnBlocks, BlocksReal, NEW p \in attached, AdvanceWr(p)
  PROVE  Ring' /\ OwnBlocks' /\ BlocksReal'
<1> USE DEF Goto, At, handles
<1>1. /\ attached' = attached /\ p \in Procs /\ attached \subseteq Procs /\ pc[p] = "advanceWr"
      /\ \A q \in Procs : pc'[q] = IF q = p THEN "putLeave" ELSE pc[q]
      /\ \A q \in Procs : q # p => buf'[q] = buf[q]
      /\ rd_index' = rd_index /\ wr_index' = After(wr_index) /\ count' = count + 1
      /\ payload' = payload /\ buf[p] # 0 /\ payload[wr_index] = buf[p]
      /\ count \in Nat
  BY DEF AdvanceWr, TypeOK, OwnBlocks, OwnBlock
<1>2. count < Blocks
  BY <1>1, RoomAndBlock DEF PlaceInHand
<1>3. \A q \in attached : q # p => pc[q] # "advanceWr"
  BY <1>1, OnlyHolder DEF MutexHeld
<1>4. Ring' /\ \A i \in 1 .. count + 1 : Slot(i)' = Slot(i)
  BY <1>1, <1>2, StoreSlots
<1>5. OwnBlocks'
  BY <1>1, <1>3 DEF OwnBlocks, OwnBlock
<1>6. BlocksReal'
  <2> SUFFICES ASSUME NEW i \in 1 .. count + 1 PROVE payload[Slot(i)] # 0
    BY <1>1, <1>4 DEF BlocksReal
  <2>1. CASE i \in 1 .. count
    BY <2>1 DEF BlocksReal
  <2>2. CASE i = count + 1
    BY <1>1, <2>2, Slots
  <2> QED BY <1>1, <2>1, <2>2
<1> QED BY <1>4, <1>5, <1>6

LEMMA RingAdvanceRd ==
  ASSUME TypeOK, Counts, Ring, OwnBlocks, BlocksReal, NEW p \in attached, AdvanceRd(p)
  PROVE  Ring' /\ OwnBlocks' /\ BlocksReal'
<1> USE DEF Goto, At, handles
<1>1. /\ attached' = attached /\ p \in Procs /\ attached \subseteq Procs /\ pc[p] = "advanceRd"
      /\ \A q \in Procs : pc'[q] = IF q = p THEN "getLeave" ELSE pc[q]
      /\ \A q \in Procs : q # p => buf'[q] = buf[q]
      /\ wr_index' = wr_index /\ rd_index' = After(rd_index) /\ count' = count - 1
      /\ payload' = payload /\ count \in Nat
  BY DEF AdvanceRd, TypeOK
<1>2. count > 0
  BY <1>1, RoomAndBlock DEF BlockInHand
<1>3. \A q \in attached : q # p => pc[q] # "advanceRd"
  BY <1>1, OnlyHolder DEF MutexHeld
<1>4. Ring' /\ \A i \in 1 .. count - 1 : Slot(i)' = Slot(i + 1)
  BY <1>1, <1>2, TakeSlots
<1>5. OwnBlocks'
  BY <1>1, <1>3 DEF OwnBlocks, OwnBlock
<1>6. BlocksReal'
  <2> SUFFICES ASSUME NEW i \in 1 .. count - 1 PROVE payload[Slot(i + 1)] # 0
    BY <1>1, <1>4 DEF BlocksReal
  <2>1. i + 1 \in 1 .. count
    BY <1>1
  <2> QED BY <2>1 DEF BlocksReal
<1> QED BY <1>4, <1>5, <1>6

LEMMA RingKept ==
  ASSUME TypeOK, TypeOK', Handles, Counts, Ring, OwnBlocks, BlocksReal,
         NEW p \in Procs, Step(p), ~raced'
  PROVE  Ring' /\ OwnBlocks' /\ BlocksReal'
<1> USE DEF Goto, At, Exit, handles
<1>1. /\ attached \subseteq Procs
      /\ \A v : Goto(p, v) => pc'[p] = v /\ \A q \in Procs \ {p} : pc'[q] = pc[q]
      /\ p \in attached => OwnBlock(p)
  BY DEF TypeOK, OwnBlocks
<1>2. CASE Probe(p) \/ Make(p)
  BY <1>1, <1>2, RingStays DEF Probe, Make, OwnBlock
<1>3. CASE SetHead(p) /\ p \in attached
  BY <1>1, <1>3, RingFresh DEF SetHead
<1>4. CASE SetHead(p) /\ p \notin attached
  BY <1>1, <1>4, RingStays DEF SetHead, header
<1>5. CASE CreateSems(p)
  BY <1>1, <1>5, RingStays DEF CreateSems, SemCreate, OwnBlock
<1>6. CASE SetSems(p)
  BY <1>1, <1>6, RingStays DEF SetSems, SemSetval, OwnBlock
<1>7. CASE OpenSems(p)
  BY <1>1, <1>7, RingStays DEF OpenSems, SemOpen, OwnBlock
<1>8. CASE CallPut(p)
  <2>1. /\ buf'[p] # 0 /\ \A q \in Procs : q # p => buf'[q] = buf[q]
    BY <1>8, BoundsAssumption DEF CallPut, TypeOK
  <2>2. OwnBlock(p)'
    BY <1>1, <1>8, <2>1 DEF CallPut, OwnBlock
  <2> QED BY <1>1, <1>8, <2>1, <2>2, RingStays DEF CallPut
<1>9. CASE CallGet(p)
  BY <1>1, <1>9, RingStays DEF CallGet, OwnBlock
<1>10. CASE Enter(p)
  BY <1>1, <1>10, RingStays DEF Enter, SemP, OnlySems, OwnBlock
<1>11. CASE Leave(p)
  BY <1>1, <1>11, RingStays DEF Leave, SemV, OnlySems, OwnBlock
<1>12. CASE CopyIn(p) /\ p \in attached
  BY <1>12, RingCopyIn
<1>13. CASE AdvanceWr(p) /\ p \in attached
  BY <1>13, RingAdvanceWr
<1>14. CASE AdvanceRd(p) /\ p \in attached
  BY <1>14, RingAdvanceRd
<1>15. CASE (CopyIn(p) \/ AdvanceWr(p) \/ AdvanceRd(p)) /\ p \notin attached
  <2>1. \A q \in attached : q # p => pc'[q] = pc[q] /\ buf'[q] = buf[q]
    BY <1>1, <1>15 DEF CopyIn, AdvanceWr, AdvanceRd, TypeOK
  <2>2. UNCHANGED header /\ attached' = attached
    BY <1>15 DEF CopyIn, AdvanceWr, AdvanceRd, header
  <2> QED BY <1>15, <2>1, <2>2, RingStays
<1>16. CASE CopyOut(p)
  <2>1. \A q \in attached : q # p => pc'[q] = pc[q] /\ buf'[q] = buf[q]
    BY <1>1, <1>16 DEF CopyOut, TypeOK
  <2>2. UNCHANGED header /\ attached' = attached
    BY <1>16 DEF CopyOut
  <2>3. p \in attached => OwnBlock(p)'
    BY <1>1, <1>16 DEF CopyOut, OwnBlock, header, TypeOK
  <2> QED BY <2>1, <2>2, <2>3, RingStays
<1>17. CASE RemoveSems(p)
  BY <1>1, <1>17, RingStays DEF RemoveSems, SemRemove, OwnBlock
<1>18. CASE RemoveShm(p) /\ p \in attached
  BY <1>18, RingFresh DEF RemoveShm
<1>19. CASE RemoveShm(p) /\ p \notin attached
  BY <1>1, <1>19, RingStays DEF RemoveShm, OwnBlock
<1>20. CASE Die(p)
  <2>1. p \in attached => OwnBlock(p)'
    BY <1>1, <1>20 DEF Die, OwnBlock, header
  <2> QED BY <1>1, <1>20, <2>1, RingStays DEF Die
<1> QED
  BY <1>2, <1>3, <1>4, <1>5, <1>6, <1>7, <1>8, <1>9, <1>10, <1>11, <1>12, <1>13, <1>14, <1>15, <1>16,
     <1>17, <1>18, <1>19, <1>20
  DEF Step, InitStep, CallStep

-----------------------------------------------------------------------------
(* The invariant. *)

LEMMA QueueInit == Init => QueueInv
<1> SUFFICES ASSUME Init PROVE QueueInv
  OBVIOUS
<1>1. /\ attached = {} /\ count = 0 /\ rd_index = 0 /\ wr_index = 0
      /\ \A s \in Sems : sem[s] = Gone
      /\ \A p \in Procs : ids[p] = {}
  BY DEF Init
<1>2. TypeOK
  <2>1. /\ 0 \in 0 .. Blocks - 1 /\ 0 \in 0 .. Blocks /\ 0 \in 0 .. MaxPuts /\ 0 \in 0 .. MaxInits
        /\ "out" \in Points
    BY BlocksAssumption, BoundsAssumption DEF Points
  <2>2. /\ payload \in [0 .. Blocks - 1 -> 0 .. MaxPuts] /\ sem \in [Sems -> Nat \cup {Gone}]
        /\ pc \in [Procs -> Points] /\ ids \in [Procs -> SUBSET Sems]
        /\ buf \in [Procs -> 0 .. MaxPuts]
    BY <2>1 DEF Init
  <2> QED BY <2>1, <2>2 DEF Init, TypeOK
<1>3. Handles
  BY <1>1 DEF Handles, HandlesFit, Made, OneCreator, Founded
<1>4. Counts
  <2>1. /\ Places(MutexHeld) = {} /\ Places(BlockInHand) = {} /\ Places(PlaceInHand) = {}
        /\ Places(InitPoints) = {} /\ Places(InitPoints \ {"setFull"}) = {}
    BY <1>1 DEF Places
  <2>2. Number(MutexHeld) = 0 /\ Number(BlockInHand) = 0 /\ Number(PlaceInHand) = 0
    BY <2>1, FS_EmptySet DEF Number
  <2>3. /\ \A s \in Sems : Value(s) = 0
        /\ "mutex" \in Sems /\ "full" \in Sems /\ "empty" \in Sems
    BY <1>1 DEF Value, Sems
  <2>4. MutexCount /\ EmptyCount /\ FullCount
    BY <1>1, <2>1, <2>2, <2>3, BlocksAssumption DEF MutexCount, EmptyCount, FullCount, Starting
  <2> QED BY <2>4 DEF Counts
<1>5. Ring /\ OwnBlocks /\ BlocksReal
  BY <1>1, BlocksAssumption DEF Ring, OwnBlocks, BlocksReal
<1> QED BY <1>2, <1>3, <1>4, <1>5 DEF QueueInv

LEMMA QueueStep == QueueInv /\ [Next]_vars => QueueInv'
<1> SUFFICES ASSUME QueueInv, [Next]_vars PROVE QueueInv'
  OBVIOUS
<1>1. CASE UNCHANGED vars
  <2>1. UNCHANGED <<shm, rd_index, wr_index, payload, count, sem, pc, dead, attached, ids, buf, puts,
                    inits, taken, raced>>
    BY <1>1 DEF vars, header, handles
  <2>2. TypeOK' /\ Handles' = Handles
    BY <2>1 DEF QueueInv, TypeOK, Handles, HandlesFit, Made, OneCreator, Founded
  <2>3. Counts => Counts'
    BY <2>1, CountsExit
  <2>4. (Ring /\ OwnBlocks /\ BlocksReal) => (Ring' /\ OwnBlocks' /\ BlocksReal')
    BY <2>1 DEF Ring, OwnBlocks, OwnBlock, BlocksReal, Slot
  <2> QED BY <2>1, <2>2, <2>3, <2>4 DEF QueueInv
<1>2. ASSUME ~raced, NEW p \in Procs, Step(p)
      PROVE  QueueInv'
  <2>1. TypeOK /\ Handles /\ Counts /\ Ring /\ OwnBlocks /\ BlocksReal
    BY <1>2 DEF QueueInv
  <2>2. TypeOK'
    BY <1>2, TypeKept
  <2>3. ASSUME ~raced'
        PROVE  Handles' /\ Counts' /\ Ring' /\ OwnBlocks' /\ BlocksReal'
    <3>1. Handles'
      BY <1>2, <2>1, <2>2, <2>3, HandlesKept
    <3>2. Counts'
      BY <1>2, <2>1, <2>2, <2>3, CountsKept
    <3>3. Ring' /\ OwnBlocks' /\ BlocksReal'
      BY <1>2, <2>1, <2>2, <2>3, RingKept
    <3> QED BY <3>1, <3>2, <3>3
  <2> QED BY <2>2, <2>3 DEF QueueInv
<1> QED BY <1>1, <1>2 DEF Next

\* Every variable keeps its type: the indices stay in the ring and count within
\* its capacity, whatever processes do and wherever they die.
THEOREM TypeCorrect == Spec => []TypeOK
<1>1. QueueInv => TypeOK
  BY DEF QueueInv
<1> QED BY <1>1, QueueInit, QueueStep, PTL DEF Spec

\* One process at a time is between sem_p and sem_v of the mutex, for any number of
\* processes, unless the queue was put together wrongly.
THEOREM MutualExclusionHolds == Spec => []MutualExclusion
<1>1. QueueInv => MutualExclusion
  <2> SUFFICES ASSUME QueueInv, ~raced PROVE Number(MutexHeld) <= 1
    BY DEF MutualExclusion
  <2>1. Value("mutex") + Number(MutexHeld) <= 1
    BY DEF QueueInv, Counts, MutexCount
  <2>2. Value("mutex") \in Nat /\ Number(MutexHeld) \in Nat
    BY NumberType DEF QueueInv, Value, TypeOK, Sems
  <2> QED BY <2>1, <2>2
<1> QED BY <1>1, QueueInit, QueueStep, PTL DEF Spec

\* The semaphores account for every block and every free place, for any number of
\* processes and blocks, those in the hands of dead processes included.
THEOREM AccountedHolds == Spec => []Accounted
<1>1. QueueInv => Accounted
  BY DEF QueueInv, Counts, EmptyCount, FullCount, Accounted, Starting, Sems
<1> QED BY <1>1, QueueInit, QueueStep, PTL DEF Spec

-----------------------------------------------------------------------------
(* The ring implements the bounded queue. *)

LEMMA ContentsSeq ==
  ASSUME TypeOK
  PROVE  /\ Contents \in Seq(0 .. MaxPuts) /\ Len(Contents) = count
         /\ \A i \in 1 .. count : Contents[i] = payload[Slot(i)]
<1>1. /\ rd_index \in 0 .. Blocks - 1 /\ count \in 0 .. Blocks /\ Blocks \in Nat \ {0}
      /\ payload \in [0 .. Blocks - 1 -> 0 .. MaxPuts]
  BY BlocksAssumption DEF TypeOK
<1>2. \A i \in 1 .. count : payload[Slot(i)] \in 0 .. MaxPuts
  BY <1>1 DEF Slot
<1>3. Contents \in [1 .. count -> 0 .. MaxPuts]
  BY <1>2 DEF Contents
<1> QED BY <1>1, <1>3 DEF Contents

\* A function from 1 .. n is a sequence of length n.
LEMMA FunctionIsSeq ==
  ASSUME NEW n \in Nat, NEW S, NEW f \in [1 .. n -> S]
  PROVE  f \in Seq(S) /\ Len(f) = n
OBVIOUS

\* With the same blocks in the same places the queue is the same.
LEMMA SameContents ==
  ASSUME TypeOK, rd_index' = rd_index, count' = count, \A i \in 1 .. count : payload'[Slot(i)] = payload[Slot(i)]
  PROVE  Contents' = Contents
BY DEF Contents, Slot

LEMMA QueueStore ==
  ASSUME TypeOK, TypeOK', Counts, Ring, OwnBlocks, NEW p \in attached, AdvanceWr(p)
  PROVE  Queue!Store(buf[p])
<1>1. /\ pc[p] = "advanceWr" /\ payload' = payload /\ rd_index' = rd_index /\ taken' = taken
      /\ wr_index' = After(wr_index) /\ count' = count + 1 /\ payload[wr_index] = buf[p]
      /\ count \in Nat /\ buf[p] \in 0 .. MaxPuts
  BY DEF AdvanceWr, At, TypeOK, OwnBlocks, OwnBlock
<1>2. count < Blocks
  BY <1>1, RoomAndBlock DEF PlaceInHand
<1>3. \A i \in 1 .. count + 1 : Slot(i)' = Slot(i)
  BY <1>1, <1>2, StoreSlots
<1>4. /\ Contents \in Seq(0 .. MaxPuts) /\ Len(Contents) = count
      /\ \A i \in 1 .. count : Contents[i] = payload[Slot(i)]
  BY ContentsSeq
<1>5. /\ Append(Contents, buf[p]) \in Seq(0 .. MaxPuts) /\ Len(Append(Contents, buf[p])) = count + 1
      /\ \A i \in 1 .. count : Append(Contents, buf[p])[i] = Contents[i]
      /\ Append(Contents, buf[p])[count + 1] = buf[p]
  BY <1>1, <1>4, AppendProperties
<1>6. /\ Contents' \in Seq(0 .. MaxPuts) /\ Len(Contents') = count + 1
      /\ \A i \in 1 .. count + 1 : Contents'[i] = payload[Slot(i)]
  <2>1. Contents' = [i \in 1 .. count + 1 |-> payload[Slot(i)]]
    BY <1>1, <1>3 DEF Contents
  <2>2. \A i \in 1 .. count + 1 : Slot(i) \in 0 .. Blocks - 1 /\ payload[Slot(i)] \in 0 .. MaxPuts
    <3>1. count <= Blocks /\ Blocks \in Nat
      BY BlocksAssumption DEF TypeOK
    <3>2. \A i \in 1 .. count + 1 : i \in 1 .. Blocks
      BY <1>1, <1>2, <3>1
    <3> QED BY <3>2, Slots DEF TypeOK
  <2>3. [i \in 1 .. count + 1 |-> payload[Slot(i)]] \in [1 .. count + 1 -> 0 .. MaxPuts]
    BY <2>2
  <2> QED BY <1>1, <2>1, <2>3
<1>7. \A i \in 1 .. count + 1 : Contents'[i] = Append(Contents, buf[p])[i]
  <2> SUFFICES ASSUME NEW i \in 1 .. count + 1 PROVE Contents'[i] = Append(Contents, buf[p])[i]
    OBVIOUS
  <2>1. CASE i \in 1 .. count
    BY <1>4, <1>5, <1>6, <2>1
  <2>2. CASE i = count + 1
    <3>1. Slot(count + 1) = wr_index
      BY Slots
    <3>2. Contents'[i] = payload[Slot(count + 1)]
      BY <1>6, <2>2
    <3> QED BY <1>1, <1>5, <2>2, <3>1, <3>2
  <2>3. count \in Nat
    BY DEF TypeOK
  <2>4. i \in 1 .. count \/ i = count + 1
    BY <2>3
  <2> QED BY <2>1, <2>2, <2>4
<1>8. Contents' = Append(Contents, buf[p])
  BY <1>5, <1>6, <1>7, SeqEqual
<1> QED BY <1>1, <1>2, <1>4, <1>8 DEF Queue!Store

LEMMA QueueTake ==
  ASSUME TypeOK, TypeOK', Counts, Ring, OwnBlocks, NEW p \in attached, AdvanceRd(p)
  PROVE  Queue!Take
<1>1. /\ pc[p] = "advanceRd" /\ payload' = payload /\ wr_index' = wr_index /\ taken' = buf[p]
      /\ rd_index' = After(rd_index) /\ count' = count - 1 /\ payload[rd_index] = buf[p]
      /\ count \in Nat
  BY DEF AdvanceRd, At, TypeOK, OwnBlocks, OwnBlock
<1>2. count > 0
  BY <1>1, RoomAndBlock DEF BlockInHand
<1>3. \A i \in 1 .. count - 1 : Slot(i)' = Slot(i + 1)
  BY <1>1, <1>2, TakeSlots
<1>4. /\ Contents \in Seq(0 .. MaxPuts) /\ Len(Contents) = count
      /\ \A i \in 1 .. count : Contents[i] = payload[Slot(i)]
  BY ContentsSeq
<1>5. Contents # <<>>
  BY <1>2, <1>4
<1>6. /\ Tail(Contents) \in Seq(0 .. MaxPuts) /\ Len(Tail(Contents)) = count - 1
      /\ \A i \in 1 .. count - 1 : Tail(Contents)[i] = Contents[i + 1]
  BY <1>4, <1>5, HeadTailProperties
<1>7. Head(Contents) = buf[p]
  <2>1. Head(Contents) = Contents[1]
    BY <1>4
  <2>2. Contents[1] = payload[Slot(1)] /\ Slot(1) = rd_index
    BY <1>1, <1>2, <1>4, Slots
  <2> QED BY <1>1, <2>1, <2>2
<1>8. /\ Contents' \in Seq(0 .. MaxPuts) /\ Len(Contents') = count - 1
      /\ \A i \in 1 .. count - 1 : Contents'[i] = payload[Slot(i + 1)]
  <2>1. Contents' = [i \in 1 .. count - 1 |-> payload[Slot(i + 1)]]
    BY <1>1, <1>3 DEF Contents
  <2>2. \A i \in 1 .. count - 1 : payload[Slot(i + 1)] \in 0 .. MaxPuts
    <3>1. count <= Blocks /\ Blocks \in Nat
      BY BlocksAssumption DEF TypeOK
    <3>2. \A i \in 1 .. count - 1 : i + 1 \in 1 .. Blocks
      BY <1>1, <3>1
    <3> QED BY <3>2, Slots DEF TypeOK
  <2>3. [i \in 1 .. count - 1 |-> payload[Slot(i + 1)]] \in [1 .. count - 1 -> 0 .. MaxPuts]
    BY <2>2
  <2>4. count - 1 \in Nat
    BY <1>1, <1>2
  <2> DEFINE f == [i \in 1 .. count - 1 |-> payload[Slot(i + 1)]]
  <2>5. /\ f \in Seq(0 .. MaxPuts) /\ Len(f) = count - 1
    <3>1. f \in [1 .. count - 1 -> 0 .. MaxPuts]
      BY <2>3
    <3> HIDE DEF f
    <3> QED BY <3>1, <2>4, FunctionIsSeq
  <2>6. \A i \in 1 .. count - 1 : f[i] = payload[Slot(i + 1)]
    OBVIOUS
  <2> HIDE DEF f
  <2> QED BY <2>1, <2>5, <2>6 DEF f
<1>9. \A i \in 1 .. count - 1 : Contents'[i] = Tail(Contents)[i]
  <2> SUFFICES ASSUME NEW i \in 1 .. count - 1 PROVE Contents'[i] = Tail(Contents)[i]
    OBVIOUS
  <2>1. i + 1 \in 1 .. count
    BY <1>1
  <2> QED BY <1>4, <1>6, <1>8, <2>1
<1>10. Contents' = Tail(Contents)
  BY <1>6, <1>8, <1>9, SeqEqual
<1> QED BY <1>1, <1>5, <1>7, <1>10 DEF Queue!Take

LEMMA QueueMaps ==
  ASSUME QueueInv, [Next]_vars
  PROVE  [Queue!Next \/ raced']_<<Contents, taken>>
<1> USE DEF handles
<1>1. CASE UNCHANGED vars
  BY <1>1 DEF vars, header, Contents, Slot
<1>2. ASSUME ~raced, NEW p \in Procs, Step(p)
      PROVE  [Queue!Next \/ raced']_<<Contents, taken>>
  <2>1. TypeOK /\ Handles /\ Counts /\ Ring /\ OwnBlocks /\ BlocksReal /\ TypeOK'
    BY <1>2, TypeKept DEF QueueInv
  <2>2. ASSUME UNCHANGED <<header, taken>>
        PROVE  UNCHANGED <<Contents, taken>>
    BY <2>1, <2>2, SameContents DEF header
  <2>3. ASSUME rd_index' = 0, count' = 0, taken' = taken
        PROVE  Queue!Next
    <3>1. Contents' = <<>>
      BY <2>3 DEF Contents
    <3> QED BY <2>3, <3>1 DEF Queue!Next, Queue!Remove
  <2>4. CASE AdvanceWr(p) /\ p \in attached
    <3>1. Queue!Store(buf[p])
      BY <2>1, <2>4, QueueStore
    <3>2. buf[p] \in 1 .. MaxPuts
      BY <2>1, <2>4, BoundsAssumption DEF AdvanceWr, At, TypeOK, OwnBlocks, OwnBlock
    <3> QED BY <3>1, <3>2 DEF Queue!Next
  <2>5. CASE AdvanceRd(p) /\ p \in attached
    BY <2>1, <2>5, QueueTake DEF Queue!Next
  <2>6. CASE CopyIn(p) /\ p \in attached
    <3>1. pc[p] \in PlaceInHand
      BY <2>6 DEF CopyIn, At, PlaceInHand
    <3>2. count < Blocks /\ count \in Nat /\ Blocks \in Nat
      <4>1. count < Blocks
        BY <2>1, <2>6, <3>1, RoomAndBlock
      <4> QED BY <2>1, <4>1, BlocksAssumption DEF TypeOK
    <3>3. \A i \in 1 .. count : Slot(i) # wr_index /\ Slot(i) \in 0 .. Blocks - 1
      BY <2>1, <3>2, Slots
    <3>4. \A i \in 1 .. count : payload'[Slot(i)] = payload[Slot(i)]
      BY <2>1, <2>6, <3>3 DEF CopyIn, TypeOK
    <3> QED BY <2>1, <2>6, <3>4, SameContents DEF CopyIn
  <2>7. CASE (SetHead(p) \/ RemoveShm(p)) /\ p \in attached
    BY <2>3, <2>7 DEF SetHead, RemoveShm
  <2>8. CASE (SetHead(p) \/ RemoveShm(p) \/ AdvanceWr(p) \/ AdvanceRd(p) \/ CopyIn(p)) /\ p \notin attached
    BY <2>2, <2>8 DEF SetHead, RemoveShm, AdvanceWr, AdvanceRd, CopyIn, header
  <2>9. CASE \/ Probe(p) \/ Make(p) \/ CreateSems(p) \/ SetSems(p) \/ OpenSems(p) \/ CallPut(p)
             \/ CallGet(p) \/ Enter(p) \/ CopyOut(p) \/ Leave(p) \/ RemoveSems(p) \/ Die(p)
    BY <2>2, <2>9 DEF Probe, Make, CreateSems, SetSems, OpenSems, CallPut, CallGet, Enter, CopyOut, Leave,
       OnlySems, RemoveSems, Die
  <2> QED BY <1>2, <2>4, <2>5, <2>6, <2>7, <2>8, <2>9 DEF Step, InitStep, CallStep
<1> QED BY <1>1, <1>2 DEF Next

\* The ring with its semaphores is a bounded queue, for any number of processes and
\* blocks: what is taken was stored, in order and once, whoever dies where.
THEOREM RingImplementsQueue == Spec => ImplementsQueue
<1>1. Init => Queue!Init
  <2> SUFFICES ASSUME Init PROVE Queue!Init
    OBVIOUS
  <2>1. count = 0 /\ taken = 0
    BY DEF Init
  <2>2. Contents = <<>>
    BY <2>1 DEF Contents
  <2> QED BY <2>1, <2>2 DEF Queue!Init
<1>2. QueueInv /\ [Next]_vars => [Queue!Next \/ raced']_<<Contents, taken>>
  BY QueueMaps
<1> QED BY <1>1, <1>2, QueueInit, QueueStep, PTL DEF Spec, ImplementsQueue

=============================================================================
