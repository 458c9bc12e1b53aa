------------------------------- MODULE ShmFifo -------------------------------
(***************************************************************************)
(* The queue in shared memory of UNP/system_v/shmfifo: shmfifo.c and the   *)
(* System V semaphores of ipc.c.                                           *)
(*                                                                         *)
(* One key names one segment and three semaphores.  Any number of          *)
(* processes open the queue, put and get blocks, and remove it, each       *)
(* system call a step, and any of them may die between two steps: nothing  *)
(* is undone (no SEM_UNDO).  A semaphore or segment that was removed is    *)
(* gone for those who hold its id, and its key is free for another.        *)
(***************************************************************************)
EXTENDS Integers, Sequences, FiniteSets

CONSTANTS
  Procs,   \* processes
  Blocks,  \* the capacity every caller of shmfifo_init passes
  MaxPuts,    \* bound: blocks put in a behaviour; a block holds its number
  MaxInits,   \* bound: calls of shmfifo_init
  MaxCrashes  \* bound: processes that have exited when another dies

ASSUME ProcsAssumption  == IsFiniteSet(Procs)
ASSUME BlocksAssumption == Blocks \in Nat \ {0}
ASSUME BoundsAssumption == MaxPuts \in Nat /\ MaxInits \in Nat /\ MaxCrashes \in Nat

Sems == {"mutex", "full", "empty"}
Gone == -1

VARIABLES
  shm,       \* the key has a segment
  rd_index,  \* its header
  wr_index,
  payload,   \* its blocks
  sem,       \* semaphore -> value, Gone if its key has none
  pc,        \* where each process is
  dead,      \* processes that exited
  attached,  \* processes that attached the segment the key has now
  ids,       \* process -> the semaphores whose id it has and that exist
  buf,       \* process -> the block it puts or got
  puts,      \* blocks whose put began
  inits,     \* calls of shmfifo_init
  count,     \* ghost: blocks stored and not taken
  taken,     \* ghost: the block taken last
  raced      \* ghost: the queue was put together wrongly: a creator was not
             \*   alone, or a segment met semaphores that are not its own

header  == <<rd_index, wr_index, payload, count>>
handles == <<attached, ids>>
vars == <<shm, header, sem, pc, dead, handles, buf, puts, inits, taken, raced>>

Init ==
  /\ shm = FALSE /\ rd_index = 0 /\ wr_index = 0
  /\ payload = [i \in 0 .. Blocks - 1 |-> 0]
  /\ sem = [s \in Sems |-> Gone]
  /\ pc = [p \in Procs |-> "out"]
  /\ dead = {} /\ attached = {}
  /\ ids = [p \in Procs |-> {}]
  /\ buf = [p \in Procs |-> 0]
  /\ puts = 0 /\ inits = 0 /\ count = 0 /\ taken = 0 /\ raced = FALSE

At(p, point)   == p \notin dead /\ pc[p] = point
Goto(p, point) == pc' = [pc EXCEPT ![p] = point] /\ UNCHANGED dead
Exit(p)        == dead' = dead \cup {p} /\ UNCHANGED pc

-----------------------------------------------------------------------------
(* ipc.c: every call that fails ends the process. *)

SemP(p, s, next) ==
  \/ /\ s \in ids[p] /\ sem[s] > 0
     /\ sem' = [sem EXCEPT ![s] = @ - 1]
     /\ Goto(p, next)
  \/ s \notin ids[p] /\ Exit(p) /\ UNCHANGED sem

SemV(p, s, next) ==
  \/ /\ s \in ids[p]
     /\ sem' = [sem EXCEPT ![s] = @ + 1]
     /\ Goto(p, next)
  \/ s \notin ids[p] /\ Exit(p) /\ UNCHANGED sem

\* semget with IPC_CREAT | IPC_EXCL; the kernel starts a semaphore at 0.  The
\* segment it is for may be gone by now.
SemCreate(p, s, next) ==
  \/ /\ sem[s] = Gone
     /\ sem' = [sem EXCEPT ![s] = 0]
     /\ ids' = [ids EXCEPT ![p] = @ \cup {s}]
     /\ raced' = (raced \/ p \notin attached)
     /\ Goto(p, next)
  \/ sem[s] # Gone /\ Exit(p) /\ UNCHANGED <<sem, ids, raced>>

SemOpen(p, s, next) ==
  \/ /\ sem[s] # Gone
     /\ ids' = [ids EXCEPT ![p] = @ \cup {s}]
     /\ raced' = (raced \/ p \notin attached)
     /\ Goto(p, next)
  \/ sem[s] = Gone /\ Exit(p) /\ UNCHANGED <<ids, raced>>

\* SETVAL, which overwrites what others did to the semaphore since it exists.
SemSetval(p, s, val, next) ==
  \/ /\ s \in ids[p]
     /\ sem' = [sem EXCEPT ![s] = val]
     /\ raced' = (raced \/ sem[s] # 0)
     /\ Goto(p, next)
  \/ s \notin ids[p] /\ Exit(p) /\ UNCHANGED <<sem, raced>>

\* IPC_RMID; a failure is ignored.
SemRemove(p, s, next) ==
  /\ IF s \in ids[p]
       THEN /\ sem' = [sem EXCEPT ![s] = Gone]
            /\ ids' = [q \in Procs |-> ids[q] \ {s}]
       ELSE UNCHANGED <<sem, ids>>
  /\ Goto(p, next)

-----------------------------------------------------------------------------
(* shmfifo_init. *)

\* shmget(key, 0, 0): open the segment there is, or create one.
Probe(p) ==
  /\ At(p, "out") /\ inits < MaxInits
  /\ inits' = inits + 1
  /\ IF shm THEN attached' = attached \cup {p} /\ Goto(p, "openMutex")
            ELSE Goto(p, "make") /\ UNCHANGED attached
  /\ UNCHANGED <<shm, header, sem, ids, buf, puts, taken, raced>>

\* shmget(key, size, IPC_CREAT): the segment another has created meanwhile, or
\* a new one.
Make(p) ==
  /\ At(p, "make")
  /\ shm' = TRUE
  /\ attached' = attached \cup {p}
  /\ Goto(p, "head")
  /\ UNCHANGED <<header, sem, ids, buf, puts, inits, taken, raced>>

SetHead(p) ==
  /\ At(p, "head")
  /\ IF p \in attached
       THEN /\ rd_index' = 0 /\ wr_index' = 0 /\ count' = 0
            /\ raced' = (raced \/ attached # {p})
       ELSE UNCHANGED <<rd_index, wr_index, count, raced>>
  /\ Goto(p, "createMutex")
  /\ UNCHANGED <<shm, payload, sem, handles, buf, puts, inits, taken>>

CreateSems(p) ==
  /\ \/ At(p, "createMutex") /\ SemCreate(p, "mutex", "createFull")
     \/ At(p, "createFull") /\ SemCreate(p, "full", "createEmpty")
     \/ At(p, "createEmpty") /\ SemCreate(p, "empty", "setMutex")
  /\ UNCHANGED <<shm, header, attached, buf, puts, inits, taken>>

SetSems(p) ==
  /\ \/ At(p, "setMutex") /\ SemSetval(p, "mutex", 1, "setFull")
     \/ At(p, "setFull") /\ SemSetval(p, "full", Blocks, "setEmpty")
     \/ At(p, "setEmpty") /\ SemSetval(p, "empty", 0, "idle")
  /\ UNCHANGED <<shm, header, handles, buf, puts, inits, taken>>

OpenSems(p) ==
  /\ \/ At(p, "openMutex") /\ SemOpen(p, "mutex", "openFull")
     \/ At(p, "openFull") /\ SemOpen(p, "full", "openEmpty")
     \/ At(p, "openEmpty") /\ SemOpen(p, "empty", "idle")
  /\ UNCHANGED <<shm, header, sem, attached, buf, puts, inits, taken>>

-----------------------------------------------------------------------------
(* shmfifo_put and shmfifo_get. *)

CallPut(p) ==
  /\ At(p, "idle") /\ puts < MaxPuts
  /\ puts' = puts + 1
  /\ buf' = [buf EXCEPT ![p] = puts + 1]
  /\ Goto(p, "putFull")
  /\ UNCHANGED <<shm, header, sem, handles, inits, taken, raced>>

CallGet(p) ==
  /\ At(p, "idle")
  /\ Goto(p, "getEmpty")
  /\ UNCHANGED <<shm, header, sem, handles, buf, puts, inits, taken, raced>>

OnlySems == UNCHANGED <<shm, header, handles, buf, puts, inits, taken, raced>>

\* The two sem_p of a call: a place or a block first, then the mutex.
Enter_MutexFirst(p) ==
  /\ \/ At(p, "putFull") /\ SemP(p, "mutex", "putMutex")
     \/ At(p, "putMutex") /\ SemP(p, "full", "copyIn")
     \/ At(p, "getEmpty") /\ SemP(p, "empty", "getMutex")
     \/ At(p, "getMutex") /\ SemP(p, "mutex", "copyOut")
  /\ OnlySems

Enter_NoMutex(p) ==
  /\ \/ At(p, "putFull") /\ SemP(p, "full", "putMutex")
     \/ At(p, "putMutex") /\ Goto(p, "copyIn") /\ UNCHANGED sem
     \/ At(p, "getEmpty") /\ SemP(p, "empty", "getMutex")
     \/ At(p, "getMutex") /\ SemP(p, "mutex", "copyOut")
  /\ OnlySems

Enter(p) ==
  /\ \/ At(p, "putFull") /\ SemP(p, "full", "putMutex")
     \/ At(p, "putMutex") /\ SemP(p, "mutex", "copyIn")
     \/ At(p, "getEmpty") /\ SemP(p, "empty", "getMutex")
     \/ At(p, "getMutex") /\ SemP(p, "mutex", "copyOut")
  /\ OnlySems

\* (index + 1) % blocks
After_NoWrap(i) == i + 1
After(i) == IF i + 1 = Blocks THEN 0 ELSE i + 1

\* The memcpy of each call.  A segment that was removed is written in vain, and
\* what is read from it is never returned: the sem_v that follows fails.
CopyIn(p) ==
  /\ At(p, "copyIn")
  /\ payload' = IF p \in attached THEN [payload EXCEPT ![wr_index] = buf[p]] ELSE payload
  /\ Goto(p, "advanceWr")
  /\ UNCHANGED <<shm, rd_index, wr_index, count, sem, handles, buf, puts, inits, taken, raced>>

CopyOut_WrSide(p) ==
  /\ At(p, "copyOut")
  /\ buf' = [buf EXCEPT ![p] = IF p \in attached THEN payload[wr_index] ELSE 0]
  /\ Goto(p, "advanceRd")
  /\ UNCHANGED <<shm, header, sem, handles, puts, inits, taken, raced>>

CopyOut(p) ==
  /\ At(p, "copyOut")
  /\ buf' = [buf EXCEPT ![p] = IF p \in attached THEN payload[rd_index] ELSE 0]
  /\ Goto(p, "advanceRd")
  /\ UNCHANGED <<shm, header, sem, handles, puts, inits, taken, raced>>

AdvanceWr(p) ==
  /\ At(p, "advanceWr")
  /\ IF p \in attached
       THEN wr_index' = After(wr_index) /\ count' = count + 1
       ELSE UNCHANGED <<wr_index, count>>
  /\ buf' = [buf EXCEPT ![p] = 0]
  /\ Goto(p, "putLeave")
  /\ UNCHANGED <<shm, rd_index, payload, sem, handles, puts, inits, taken, raced>>

AdvanceRd(p) ==
  /\ At(p, "advanceRd")
  /\ IF p \in attached
       THEN rd_index' = After(rd_index) /\ count' = count - 1 /\ taken' = buf[p]
       ELSE UNCHANGED <<rd_index, count, taken>>
  /\ buf' = [buf EXCEPT ![p] = 0]
  /\ Goto(p, "getLeave")
  /\ UNCHANGED <<shm, wr_index, payload, sem, handles, puts, inits, raced>>

\* The two sem_v of a call.
Leave_OwnSide(p) ==
  /\ \/ At(p, "putLeave") /\ SemV(p, "mutex", "putEmpty")
     \/ At(p, "putEmpty") /\ SemV(p, "full", "idle")
     \/ At(p, "getLeave") /\ SemV(p, "mutex", "getFull")
     \/ At(p, "getFull") /\ SemV(p, "empty", "idle")
  /\ OnlySems

Leave(p) ==
  /\ \/ At(p, "putLeave") /\ SemV(p, "mutex", "putEmpty")
     \/ At(p, "putEmpty") /\ SemV(p, "empty", "idle")
     \/ At(p, "getLeave") /\ SemV(p, "mutex", "getFull")
     \/ At(p, "getFull") /\ SemV(p, "full", "idle")
  /\ OnlySems

-----------------------------------------------------------------------------
(* shmfifo_destroy, and the end of a process. *)

RemoveSems(p) ==
  /\ \/ At(p, "idle") /\ SemRemove(p, "mutex", "removeFull")
     \/ At(p, "removeFull") /\ SemRemove(p, "full", "removeEmpty")
     \/ At(p, "removeEmpty") /\ SemRemove(p, "empty", "removeShm")
  /\ UNCHANGED <<shm, header, attached, buf, puts, inits, taken, raced>>

\* shmdt and shmctl(IPC_RMID): who is attached keeps a segment without a key.
RemoveShm(p) ==
  /\ At(p, "removeShm")
  /\ IF p \in attached
       THEN /\ shm' = FALSE /\ attached' = {}
            /\ rd_index' = 0 /\ wr_index' = 0 /\ count' = 0
            /\ payload' = [i \in 0 .. Blocks - 1 |-> 0]
       ELSE UNCHANGED <<shm, attached, header>>
  /\ ids' = [ids EXCEPT ![p] = {}]
  /\ Goto(p, "out")
  /\ UNCHANGED <<sem, buf, puts, inits, taken, raced>>

Die(p) ==
  /\ p \notin dead /\ Cardinality(dead) < MaxCrashes
  /\ Exit(p)
  /\ UNCHANGED <<shm, header, sem, handles, buf, puts, inits, taken, raced>>

InitStep(p) == Make(p) \/ SetHead(p) \/ CreateSems(p) \/ SetSems(p) \/ OpenSems(p)

CallStep(p) == CopyIn(p) \/ CopyOut(p) \/ AdvanceWr(p) \/ AdvanceRd(p) \/ Leave(p)

Step(p) ==
  \/ Probe(p) \/ InitStep(p) \/ CallPut(p) \/ CallGet(p) \/ Enter(p) \/ CallStep(p)
  \/ RemoveSems(p) \/ RemoveShm(p) \/ Die(p)

\* A queue that was put together wrongly is not followed any further: its header
\* may hold anything, 0 blocks included, and nothing is claimed of it.
Next == ~raced /\ \E p \in Procs : Step(p)

Spec == Init /\ [][Next]_vars

\* Processes that can run do, and the kernel serves the waiters of a semaphore
\* in turn.  Nobody has to open, use or remove a queue.
FairSpec ==
  Spec /\ \A p \in Procs : WF_vars(InitStep(p)) /\ WF_vars(CallStep(p)) /\ SF_vars(Enter(p))

-----------------------------------------------------------------------------
(* Properties. *)

CreatePoints == {"createMutex", "createFull", "createEmpty"}
InitPoints   == CreatePoints \cup {"setMutex", "setFull"}
OpenPoints   == {"head", "openMutex", "openFull", "openEmpty"}
MutexHeld    == {"copyIn", "advanceWr", "putLeave", "copyOut", "advanceRd", "getLeave"}
BlockInHand  == {"getMutex", "copyOut", "advanceRd", "putLeave", "putEmpty"}
PlaceInHand  == {"putMutex", "copyIn", "advanceWr", "getLeave", "getFull"}
Points ==
  {"out", "make", "setEmpty", "idle", "putFull", "getEmpty",
   "removeFull", "removeEmpty", "removeShm"}
  \cup InitPoints \cup OpenPoints \cup MutexHeld \cup BlockInHand \cup PlaceInHand

\* Type correctness of every variable.
TypeOK ==
  /\ shm \in BOOLEAN /\ raced \in BOOLEAN
  /\ rd_index \in 0 .. Blocks - 1 /\ wr_index \in 0 .. Blocks - 1
  /\ payload \in [0 .. Blocks - 1 -> 0 .. MaxPuts]
  /\ sem \in [Sems -> Nat \cup {Gone}]
  /\ pc \in [Procs -> Points]
  /\ dead \subseteq Procs /\ attached \subseteq Procs
  /\ ids \in [Procs -> SUBSET Sems]
  /\ buf \in [Procs -> 0 .. MaxPuts]
  /\ puts \in 0 .. MaxPuts /\ inits \in 0 .. MaxInits
  /\ count \in 0 .. Blocks /\ taken \in 0 .. MaxPuts

\* The processes that use the queue the key names now, dead ones at the point
\* where they died.
Places(points) == {p \in attached : pc[p] \in points}
Number(points) == Cardinality(Places(points))

\* One process at a time is between sem_p and sem_v of the mutex, unless the
\* queue was put together wrongly.
MutualExclusion == raced \/ Number(MutexHeld) <= 1

\* The semaphores account for every block and every free place: what is not in a
\* semaphore is in the hands of a process that has not finished its call (or
\* died in it), and nowhere else.
Accounted ==
  (~raced /\ (\A s \in Sems : sem[s] # Gone) /\ Places(InitPoints) = {}) =>
    /\ count = sem["empty"] + Number(BlockInHand)
    /\ Blocks - count = sem["full"] + Number(PlaceInHand)

Slot(i) == IF rd_index + i - 1 < Blocks THEN rd_index + i - 1 ELSE rd_index + i - 1 - Blocks

\* The blocks of the ring, oldest first.
Contents == [i \in 1 .. count |-> payload[Slot(i)]]

Queue == INSTANCE BoundedQueue WITH Values <- 1 .. MaxPuts, contents <- Contents

\* The ring is a bounded queue: blocks come out in the order in which they went
\* in, each once, none overwritten, whoever dies where; unless, and until, a
\* creator is not alone or a segment meets semaphores that are not its own.
ImplementsQueue == Queue!Init /\ [][Queue!Next \/ raced']_<<Contents, taken>>

Crashed == \E p \in dead : pc[p] \notin {"out", "idle", "make"}

\* A process that waits for the mutex gets it, unless one died inside a call.
MutexWaitEnds ==
  \A p \in Procs :
    At(p, "putMutex") \/ At(p, "getMutex") ~>
      (~At(p, "putMutex") /\ ~At(p, "getMutex")) \/ Crashed \/ raced

\* A reader that waits while a block is stored gets one, or another takes it,
\* unless a process died inside a call.
BlocksReachReaders ==
  \A p \in Procs :
    At(p, "getEmpty") /\ count > 0 ~> ~At(p, "getEmpty") \/ count = 0 \/ Crashed \/ raced

-----------------------------------------------------------------------------
(* The strengthenings that make these inductive. *)

\* A process holds ids of semaphores that exist, for the segment it attached.
HandlesFit ==
  \A p \in Procs :
    /\ ids[p] # {} => p \in attached
    /\ \A s \in ids[p] : sem[s] # Gone
    /\ p \in attached => pc[p] \notin {"out", "make"}

\* The points of a process that has not created or opened s yet, of one that is
\* to create it, and of one that removed it.
NotYet(s) ==
  {"head", "createMutex", "openMutex"}
  \cup (IF s = "mutex" THEN {} ELSE {"createFull", "openFull"})
  \cup (IF s = "empty" THEN {"createEmpty", "openEmpty"} ELSE {})
Unmade(s)  == NotYet(s) \cap CreatePoints
Removed(s) ==
  {"removeShm"}
  \cup (IF s = "empty" THEN {} ELSE {"removeEmpty"})
  \cup (IF s = "mutex" THEN {"removeFull"} ELSE {})

\* A semaphore exists from its creation to its removal, and who is past opening
\* it has its id.
Made ==
  \A p \in attached : \A s \in Sems :
    /\ pc[p] \in Unmade(s) \cup Removed(s) => sem[s] = Gone
    /\ pc[p] \notin NotYet(s) /\ sem[s] # Gone => s \in ids[p]

\* One process creates the semaphores, and nobody is ahead of it.
OneCreator ==
  \A p, q \in attached : p # q =>
    /\ \A s \in Sems : pc[p] \in Unmade(s) => pc[q] \in NotYet(s)
    /\ pc[p] \notin InitPoints \/ pc[q] \notin InitPoints

\* Semaphores exist only with a segment of a process that found or made them.
Founded ==
  (\E s \in Sems : sem[s] # Gone) => \E p \in attached : pc[p] \notin NotYet("mutex")

Handles == HandlesFit /\ Made /\ OneCreator /\ Founded

Value(s) == IF sem[s] = Gone THEN 0 ELSE sem[s]
Starting == Places(InitPoints) # {}

\* What the three semaphores hold, with what processes have in hand.
MutexCount ==
  /\ Value("mutex") + Number(MutexHeld) <= 1
  /\ Places(InitPoints \ {"setFull"}) # {} => Value("mutex") = 0

EmptyCount ==
  /\ Value("empty") + Number(BlockInHand) <= count
  /\ sem["empty"] # Gone => count = sem["empty"] + Number(BlockInHand)

FullCount ==
  /\ Value("full") + Number(PlaceInHand) <= Blocks - count
  /\ sem["full"] # Gone /\ ~Starting => Blocks - count = sem["full"] + Number(PlaceInHand)
  /\ Starting => count = 0 /\ Value("full") = 0 /\ Number(PlaceInHand) = 0

\* The two indices enclose count blocks.
Ring ==
  wr_index = IF rd_index + count < Blocks THEN rd_index + count
             ELSE rd_index + count - Blocks

\* A writer has a block, and who copied one has what the ring has.
OwnBlock(p) ==
  /\ pc[p] \in {"putFull", "putMutex", "copyIn", "advanceWr"} => buf[p] # 0
  /\ pc[p] = "advanceWr" => payload[wr_index] = buf[p]
  /\ pc[p] = "advanceRd" => payload[rd_index] = buf[p]
OwnBlocks == \A p \in attached : OwnBlock(p)

\* Only blocks that were put are in the ring.
BlocksReal == \A i \in 1 .. count : payload[Slot(i)] # 0

Counts == MutexCount /\ EmptyCount /\ FullCount

QueueInv == TypeOK /\ (~raced => Handles /\ Counts /\ Ring /\ OwnBlocks /\ BlocksReal)
=============================================================================
