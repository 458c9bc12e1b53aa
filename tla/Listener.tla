------------------------------ MODULE Listener ------------------------------
(***************************************************************************)
(* The listening process of projects/miniftpd (main.c): the accept loop,   *)
(* the fork of one process per connection, the two connection tables and   *)
(* the SIGCHLD handler that interrupts the loop between two machine steps. *)
(*                                                                         *)
(* The loop is cut where the compiled code (CFLAGS=-Wall -g, no            *)
(* optimisation) loads and stores the data it shares with the handler:     *)
(* "++s_children" is a load and a store, and so is the "++count" of        *)
(* handle_ip_count.  The kernel delivers SIGCHLD before any of these       *)
(* steps; InterruptPoints names those at which a run lets it happen.       *)
(*                                                                         *)
(* hash_add_entry, hash_lookup_entry and hash_free_entry are atomic here:  *)
(* the table is a function, with 0 or NoIP for an absent key.              *)
(***************************************************************************)
EXTENDS Integers, FiniteSets

CONSTANTS
  PIDs,            \* the process ids the kernel hands out (and reuses)
  IPs,             \* client addresses
  NoIP,            \* "no entry in s_pid_ip_hash"
  MaxClients,      \* tunable_max_clients, 0 = no limit
  MaxPerIp,        \* tunable_max_per_ip, 0 = no limit
  UIntMax,         \* the largest unsigned int
  MaxConns,        \* bound: connections accepted in a behaviour
  Garbage,         \* what a load from freed memory may return
  InterruptPoints  \* the program points at which SIGCHLD may be delivered

MainPoints == {"accept", "loadChildren", "storeChildren", "copyChildren",
               "lookupIp", "loadIp", "storeIp", "fork", "record"}

ASSUME PidsAssumption   == IsFiniteSet(PIDs)
ASSUME NoIPAssumption   == NoIP \notin IPs
ASSUME LimitsAssumption == MaxClients \in 0 .. UIntMax /\ MaxPerIp \in 0 .. UIntMax
ASSUME WidthAssumption  == UIntMax \in Nat /\ MaxConns \in Nat /\ MaxConns < UIntMax
ASSUME GarbageAssumption == Garbage \subseteq 0 .. UIntMax
ASSUME PointsAssumption == InterruptPoints \subseteq MainPoints

VARIABLES
  mpc,         \* where the accept loop is, or "exit"
  inHandler,   \* handle_sigchld is running on top of the loop
  sigPending,  \* SIGCHLD is pending (signals do not queue: one bit)
  s_children,  \* the global of that name
  s_ip_count,  \* s_ip_count_hash: address -> count, 0 = no entry
  s_pid_ip,    \* s_pid_ip_hash: process -> address, NoIP = no entry
  reg,         \* the register between a load and its store
  ip,          \* the local "ip"
  numClients,  \* sess.num_clients
  numThisIp,   \* sess.num_this_ip
  pid,         \* the local "pid"
  child,       \* state of each process: "none", "check", "serve", "zombie"
  cIp,         \* the child's copies of ip, sess.num_clients, sess.num_this_ip,
  cNum,        \*   made by fork
  cNumIp,
  conns        \* connections accepted so far

mainVars   == <<mpc, reg, ip, numClients, numThisIp, pid>>
tableVars  == <<s_children, s_ip_count, s_pid_ip>>
signalVars == <<inHandler, sigPending>>
childVars  == <<child, cIp, cNum, cNumIp>>
vars == <<mainVars, tableVars, signalVars, childVars, conns>>

-----------------------------------------------------------------------------
(* Unsigned arithmetic, and the test of check_limits. *)

UInc(n) == IF n = UIntMax THEN 0 ELSE n + 1
UDec(n) == IF n = 0 THEN UIntMax ELSE n - 1

OverLimit_OffByOne(limit, n) == limit > 0 /\ n > limit + 1
OverLimit(limit, n) == limit > 0 /\ n > limit

Unreaped == {p \in PIDs : child[p] # "none"}
Live     == {p \in PIDs : child[p] \in {"check", "serve"}}
Serving  == {p \in PIDs : child[p] = "serve"}
Zombies  == {p \in PIDs : child[p] = "zombie"}

\* drop_ip_count on an address: an absent or zero count is left alone, and
\* an entry whose count reaches 0 is freed, which is how 0 encodes absence.
Dropped_KeepsOne(counts, i) ==
  [counts EXCEPT ![i] = IF @ = 0 THEN 0 ELSE IF @ = 1 THEN 1 ELSE @ - 1]
Dropped(counts, i) == [counts EXCEPT ![i] = IF @ = 0 THEN 0 ELSE @ - 1]

Init ==
  /\ mpc = "accept" /\ reg = 0 /\ ip \in IPs /\ pid \in PIDs
  /\ numClients = 0 /\ numThisIp = 0
  /\ s_children = 0
  /\ s_ip_count = [i \in IPs |-> 0]
  /\ s_pid_ip = [p \in PIDs |-> NoIP]
  /\ inHandler = FALSE /\ sigPending = FALSE
  /\ child = [p \in PIDs |-> "none"]
  /\ cIp = [p \in PIDs |-> NoIP]
  /\ cNum = [p \in PIDs |-> 0]
  /\ cNumIp = [p \in PIDs |-> 0]
  /\ conns = 0

-----------------------------------------------------------------------------
(* The accept loop.  It advances only while no handler runs on top of it.  *)

At(point) == mpc = point /\ ~inHandler
Goto(point) == mpc' = point

Accept_NoAddress(i) ==
  /\ At("accept") /\ conns < MaxConns
  /\ ip' = NoIP /\ conns' = conns + 1
  /\ Goto("loadChildren")
  /\ UNCHANGED <<reg, numClients, numThisIp, pid, tableVars, signalVars, childVars>>

\* accept_timeout returns a connection from address i.
Accept(i) ==
  /\ At("accept") /\ conns < MaxConns
  /\ ip' = i /\ conns' = conns + 1
  /\ Goto("loadChildren")
  /\ UNCHANGED <<reg, numClients, numThisIp, pid, tableVars, signalVars, childVars>>

\* accept_timeout fails: ERR_EXIT.
AcceptFail ==
  /\ At("accept")
  /\ Goto("exit")
  /\ UNCHANGED <<reg, ip, numClients, numThisIp, pid, tableVars, signalVars,
                 childVars, conns>>

LoadChildren ==
  /\ At("loadChildren")
  /\ reg' = s_children
  /\ Goto("storeChildren")
  /\ UNCHANGED <<ip, numClients, numThisIp, pid, tableVars, signalVars, childVars, conns>>

StoreChildren_Skip ==
  /\ At("storeChildren")
  /\ s_children' = reg
  /\ Goto("copyChildren")
  /\ UNCHANGED <<reg, ip, numClients, numThisIp, pid, s_ip_count, s_pid_ip,
                 signalVars, childVars, conns>>

StoreChildren ==
  /\ At("storeChildren")
  /\ s_children' = UInc(reg)
  /\ Goto("copyChildren")
  /\ UNCHANGED <<reg, ip, numClients, numThisIp, pid, s_ip_count, s_pid_ip,
                 signalVars, childVars, conns>>

\* sess.num_clients = s_children
CopyChildren ==
  /\ At("copyChildren")
  /\ numClients' = s_children
  /\ Goto("lookupIp")
  /\ UNCHANGED <<reg, ip, numThisIp, pid, tableVars, signalVars, childVars, conns>>

\* handle_ip_count: a new address gets an entry holding 1.
LookupIp ==
  /\ At("lookupIp")
  /\ \/ /\ s_ip_count[ip] = 0
        /\ s_ip_count' = [s_ip_count EXCEPT ![ip] = 1]
        /\ numThisIp' = 1
        /\ Goto("fork")
     \/ /\ s_ip_count[ip] # 0
        /\ Goto("loadIp")
        /\ UNCHANGED <<s_ip_count, numThisIp>>
  /\ UNCHANGED <<reg, ip, numClients, pid, s_children, s_pid_ip, signalVars,
                 childVars, conns>>

\* count = *p_count: the handler may have freed the entry p_count points to.
LoadIp ==
  /\ At("loadIp")
  /\ \/ s_ip_count[ip] # 0 /\ reg' = s_ip_count[ip]
     \/ s_ip_count[ip] = 0 /\ reg' \in Garbage
  /\ Goto("storeIp")
  /\ UNCHANGED <<ip, numClients, numThisIp, pid, tableVars, signalVars, childVars, conns>>

\* ++count; *p_count = count.  A store to a freed entry leaves the table
\* without that address, or corrupts the heap and the process dies.
StoreIp ==
  /\ At("storeIp")
  /\ \/ /\ s_ip_count[ip] # 0
        /\ s_ip_count' = [s_ip_count EXCEPT ![ip] = UInc(reg)]
        /\ numThisIp' = UInc(reg)
        /\ Goto("fork")
     \/ /\ s_ip_count[ip] = 0
        /\ numThisIp' = UInc(reg)
        /\ mpc' \in {"fork", "exit"}
        /\ UNCHANGED s_ip_count
  /\ UNCHANGED <<reg, ip, numClients, pid, s_children, s_pid_ip, signalVars,
                 childVars, conns>>

\* fork returns p to the loop; the child starts in check_limits with a copy
\* of sess.
Fork(p) ==
  /\ At("fork")
  /\ child[p] = "none"
  /\ child' = [child EXCEPT ![p] = "check"]
  /\ cIp' = [cIp EXCEPT ![p] = ip]
  /\ cNum' = [cNum EXCEPT ![p] = numClients]
  /\ cNumIp' = [cNumIp EXCEPT ![p] = numThisIp]
  /\ pid' = p
  /\ Goto("record")
  /\ UNCHANGED <<reg, ip, numClients, numThisIp, tableVars, signalVars, conns>>

\* fork fails: --s_children, then ERR_EXIT.
ForkFail ==
  /\ At("fork")
  /\ s_children' = UDec(s_children)
  /\ Goto("exit")
  /\ UNCHANGED <<reg, ip, numClients, numThisIp, pid, s_ip_count, s_pid_ip,
                 signalVars, childVars, conns>>

\* hash_add_entry refuses a key that is present ("duplicate hash key").
Record ==
  /\ At("record")
  /\ s_pid_ip' = [s_pid_ip EXCEPT ![pid] = IF @ = NoIP THEN ip ELSE @]
  /\ Goto("accept")
  /\ UNCHANGED <<reg, ip, numClients, numThisIp, pid, s_children, s_ip_count,
                 signalVars, childVars, conns>>

MainStep ==
  \/ \E i \in IPs : Accept(i)
  \/ LoadChildren \/ StoreChildren \/ CopyChildren
  \/ LookupIp \/ LoadIp \/ StoreIp
  \/ \E p \in PIDs : Fork(p)
  \/ Record

MainFail == AcceptFail \/ ForkFail

-----------------------------------------------------------------------------
(* handle_sigchld.                                                         *)

Deliver ==
  /\ sigPending /\ ~inHandler
  /\ mpc \in InterruptPoints
  /\ inHandler' = TRUE /\ sigPending' = FALSE
  /\ UNCHANGED <<mainVars, tableVars, childVars, conns>>

\* One turn of the waitpid loop: p is collected (its id is free again); its
\* address is looked up, and without an entry the turn ends there.
HandlerReap_Uncounted(p) ==
  /\ inHandler
  /\ child[p] = "zombie"
  /\ child' = [child EXCEPT ![p] = "none"]
  /\ s_children' = s_children
  /\ s_ip_count' = IF s_pid_ip[p] = NoIP THEN s_ip_count
                   ELSE Dropped(s_ip_count, s_pid_ip[p])
  /\ s_pid_ip' = [s_pid_ip EXCEPT ![p] = NoIP]
  /\ UNCHANGED <<mainVars, signalVars, cIp, cNum, cNumIp, conns>>

HandlerReap(p) ==
  /\ inHandler
  /\ child[p] = "zombie"
  /\ child' = [child EXCEPT ![p] = "none"]
  /\ s_children' = UDec(s_children)
  /\ s_ip_count' = IF s_pid_ip[p] = NoIP THEN s_ip_count
                   ELSE Dropped(s_ip_count, s_pid_ip[p])
  /\ s_pid_ip' = [s_pid_ip EXCEPT ![p] = NoIP]
  /\ UNCHANGED <<mainVars, signalVars, cIp, cNum, cNumIp, conns>>

\* waitpid finds no more zombies.
HandlerReturn_AfterOne ==
  /\ inHandler
  /\ inHandler' = FALSE
  /\ UNCHANGED <<mainVars, tableVars, sigPending, childVars, conns>>

HandlerReturn ==
  /\ inHandler
  /\ Zombies = {}
  /\ inHandler' = FALSE
  /\ UNCHANGED <<mainVars, tableVars, sigPending, childVars, conns>>

HandlerStep == (\E p \in PIDs : HandlerReap(p)) \/ HandlerReturn

-----------------------------------------------------------------------------
(* The children.                                                           *)

\* check_limits in the child: refuse and exit, or go on to begin_session.
CheckLimits(p) ==
  /\ child[p] = "check"
  /\ IF OverLimit(MaxClients, cNum[p]) \/ OverLimit(MaxPerIp, cNumIp[p])
       THEN child' = [child EXCEPT ![p] = "zombie"] /\ sigPending' = TRUE
       ELSE child' = [child EXCEPT ![p] = "serve"] /\ UNCHANGED sigPending
  /\ UNCHANGED <<mainVars, tableVars, inHandler, cIp, cNum, cNumIp, conns>>

\* The session ends: the process exits and the kernel raises SIGCHLD.
ChildExit(p) ==
  /\ child[p] = "serve"
  /\ child' = [child EXCEPT ![p] = "zombie"]
  /\ sigPending' = TRUE
  /\ UNCHANGED <<mainVars, tableVars, inHandler, cIp, cNum, cNumIp, conns>>

ChildStep == \E p \in PIDs : CheckLimits(p) \/ ChildExit(p)

Next == MainStep \/ MainFail \/ Deliver \/ HandlerStep \/ ChildStep

Spec == Init /\ [][Next]_vars

\* The kernel delivers a pending signal and schedules every process; nothing
\* obliges clients to connect or sessions to end.
FairSpec ==
  /\ Spec
  /\ WF_vars(Deliver) /\ WF_vars(HandlerStep)
  /\ WF_vars(LoadChildren \/ StoreChildren \/ CopyChildren \/ LookupIp
             \/ LoadIp \/ StoreIp \/ Record \/ ForkFail \/ \E p \in PIDs : Fork(p))
  /\ \A p \in PIDs : WF_vars(CheckLimits(p))

-----------------------------------------------------------------------------
(* Properties.                                                             *)

Points == MainPoints \cup {"exit"}
ChildStates == {"none", "check", "serve", "zombie"}

\* Type correctness of every variable.
TypeOK ==
  /\ mpc \in Points
  /\ inHandler \in BOOLEAN /\ sigPending \in BOOLEAN
  /\ s_children \in 0 .. UIntMax
  /\ s_ip_count \in [IPs -> 0 .. UIntMax]
  /\ s_pid_ip \in [PIDs -> IPs \cup {NoIP}]
  /\ reg \in 0 .. UIntMax
  /\ ip \in IPs /\ pid \in PIDs
  /\ numClients \in 0 .. UIntMax /\ numThisIp \in 0 .. UIntMax
  /\ child \in [PIDs -> ChildStates]
  /\ cIp \in [PIDs -> IPs \cup {NoIP}]
  /\ cNum \in [PIDs -> 0 .. UIntMax]
  /\ cNumIp \in [PIDs -> 0 .. UIntMax]
  /\ conns \in 0 .. MaxConns

\* How many connections of the loop itself s_children already counts although
\* no process exists for them yet.
Reserved == IF mpc \in {"copyChildren", "lookupIp", "loadIp", "storeIp", "fork"}
              THEN 1 ELSE 0

\* s_children never undercounts: wherever the handler interrupts the loop, it
\* covers every process not yet collected, so the handler's "--s_children"
\* cannot wrap to 2^32-1 and no client is admitted on a count too small.
ChildrenCovered ==
  mpc # "exit" => s_children >= Cardinality(Unreaped) + Reserved

\* The limit the administrator sets holds wherever signals arrive: never more
\* than max_clients sessions are served at once (main.c check_limits).
GlobalLimit == MaxClients > 0 => Cardinality(Serving) <= MaxClients

\* The limit on the sessions of one address (main.c check_limits).
PerIpLimit ==
  MaxPerIp > 0 =>
    \A i \in IPs : Cardinality({p \in Serving : cIp[p] = i}) <= MaxPerIp

\* The processes of address i not yet collected.
OfIp(i) == {p \in Unreaped : cIp[p] = i}

\* 1 while the loop has counted its own address but not forked.
ReservedIp(i) == IF mpc = "fork" /\ ip = i THEN 1 ELSE 0

\* Every address is charged for exactly its processes (handle_ip_count in the
\* loop against drop_ip_count in the handler).
IpCountsExact ==
  mpc # "exit" =>
    \A i \in IPs : s_ip_count[i] = Cardinality(OfIp(i)) + ReservedIp(i)

\* s_children is exact: no decrement of the handler is lost.
ChildrenExact ==
  mpc # "exit" => s_children = Cardinality(Unreaped) + Reserved

\* With nobody connected and nothing left to collect, the server holds no
\* phantom client against max_clients: a later client is not told that
\* "There are too many connected users" by an empty server.
NoPhantomClients ==
  (At("accept") /\ Unreaped = {}) => s_children = 0

\* A process that ended is collected, or the listener is gone.  Signals do
\* not queue, so this needs the loop around waitpid.
ZombiesCollected ==
  \A p \in PIDs : child[p] = "zombie" ~> (child[p] # "zombie" \/ mpc = "exit")

-----------------------------------------------------------------------------
(* The strengthenings that make the limits inductive.                      *)

\* Where the loop has read s_children, what it read is still enough.
ReadCovers ==
  /\ mpc = "storeChildren" => reg >= Cardinality(Unreaped)
  /\ mpc \in {"lookupIp", "loadIp", "storeIp", "fork"} =>
        numClients >= Cardinality(Unreaped) + 1

\* No counter exceeds the number of connections accepted, so none wraps.
Bounded ==
  /\ s_children <= conns
  /\ mpc \in {"loadChildren", "storeChildren"} => s_children < conns
  /\ mpc = "storeChildren" => reg < conns

\* The handler only runs on top of a point where signals may arrive.
HandlerPlace == inHandler => mpc \in InterruptPoints

\* At most k running children were told a num_clients of k or less.
AdmissionRank ==
  \A k \in 0 .. UIntMax : Cardinality({p \in Live : cNum[p] <= k}) <= k

\* A process that serves passed check_limits.
ServingPassed == \A p \in Serving : ~OverLimit(MaxClients, cNum[p])

CountInv ==
  /\ TypeOK /\ ChildrenCovered /\ ReadCovers /\ Bounded /\ HandlerPlace
  /\ AdmissionRank /\ ServingPassed

\* The window of handle_ip_count: the entry it looked up is still the one in
\* the table and holds what was read.
WindowSafe ==
  /\ mpc \in {"loadIp", "storeIp"} => s_ip_count[ip] # 0
  /\ mpc = "storeIp" => reg = s_ip_count[ip]
  /\ mpc = "fork" => numThisIp >= s_ip_count[ip]

\* s_pid_ip_hash holds every process with its own address, but for the one
\* fork has just returned.
PidTableExact ==
  /\ mpc = "record" => child[pid] # "none" /\ cIp[pid] = ip
  /\ \A p \in Unreaped : cIp[p] \in IPs
  /\ \A p \in PIDs :
       s_pid_ip[p] = IF child[p] = "none" \/ (mpc = "record" /\ p = pid)
                       THEN NoIP ELSE cIp[p]

\* No count of an address exceeds the number of connections accepted.
IpBounded ==
  \A i \in IPs :
    /\ s_ip_count[i] <= conns
    /\ mpc \in MainPoints \ {"accept", "fork", "record"} => s_ip_count[i] < conns

IpAdmissionRank ==
  \A i \in IPs : \A k \in 0 .. UIntMax :
    Cardinality({p \in Live : cIp[p] = i /\ cNumIp[p] <= k}) <= k

IpServingPassed == \A p \in Serving : ~OverLimit(MaxPerIp, cNumIp[p])

IpInv ==
  /\ TypeOK /\ HandlerPlace /\ IpCountsExact /\ WindowSafe /\ PidTableExact
  /\ IpBounded /\ IpAdmissionRank /\ IpServingPassed

\* What makes s_children exact when ++s_children is not interrupted.
ReadExact == mpc = "storeChildren" => reg = s_children

ExactInv == CountInv /\ ChildrenExact /\ ReadExact
=============================================================================
