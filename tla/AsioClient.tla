----------------------------- MODULE AsioClient -----------------------------
(***************************************************************************)
(* The boost_asio_client: main.cpp's thread sends, the thread that runs    *)
(* the io_service completes connects and reads, and a thread started at    *)
(* the first error (CheckConnect of Connector.hpp) reconnects, once a      *)
(* second.  The three share the socket and m_isConnected without a lock; a *)
(* step here is one access to either.                                      *)
(*                                                                         *)
(* Asio's part is external: closing the socket fails what is under way on  *)
(* it, a connect on a socket in use fails and leaves it alone, and the     *)
(* handlers of what has completed run one at a time, in order.             *)
(***************************************************************************)
EXTENDS Integers, Sequences

CONSTANTS
  MaxOutages,  \* bound: times the server goes down
  MaxSends,    \* bound: lines the user types
  MaxReady     \* bound: handlers waiting when the checking thread connects

VARIABLES
  m_isConnected, \* the flag
  sock,          \* "closed", "connecting", "connected", or "broken" by the peer
  reads,         \* async_reads under way on the socket
  completions,   \* handlers ready to run: "connected", "connectError", "readError"
  m_chkThread,   \* the checking thread has been created
  pc,            \* where each thread is
  up,            \* the server listens
  outages, sends, \* how often so far (for the bounds)
  timely         \* a connect ends, and is handled, within the checking thread's sleep

shared == <<m_isConnected, sock, reads, completions, m_chkThread>>
environment == <<up, outages, sends, timely>>
vars == <<shared, pc, environment>>

Threads == {"main", "io", "chk"}
Goto(t, l) == pc' = [pc EXCEPT ![t] = l]

\* main has called Start: the connect is under way, and Start sleeps.
Init ==
  /\ m_isConnected = FALSE /\ sock = "connecting" /\ reads = 0
  /\ completions = <<>> /\ m_chkThread = FALSE
  /\ pc = [main |-> "start", io |-> "run", chk |-> "none"]
  /\ up \in BOOLEAN /\ timely \in BOOLEAN /\ outages = 0 /\ sends = 0

-----------------------------------------------------------------------------
(* The network and the io_service.                                         *)

ReadErrors(n) == [i \in 1 .. n |-> "readError"]

\* The connect under way ends: a server that is up answers.
ConnectEnds ==
  /\ sock = "connecting"
  /\ sock' = IF up THEN "connected" ELSE "closed"
  /\ completions' = Append(completions, IF up THEN "connected" ELSE "connectError")
  /\ UNCHANGED <<m_isConnected, reads, m_chkThread, pc, environment>>

\* The server goes, and with it the connection; reads under way fail.
ServerDown ==
  /\ up /\ outages < MaxOutages
  /\ up' = FALSE /\ outages' = outages + 1
  /\ sock' = IF sock = "connected" THEN "broken" ELSE sock
  /\ reads' = 0 /\ completions' = completions \o ReadErrors(reads)
  /\ UNCHANGED <<m_isConnected, m_chkThread, pc, sends, timely>>

ServerUp ==
  /\ ~up /\ up' = TRUE
  /\ UNCHANGED <<shared, pc, outages, sends, timely>>

\* async_connect of Start
AsyncConnect ==
  /\ IF sock = "closed"
       THEN sock' = "connecting" /\ UNCHANGED completions
       ELSE completions' = Append(completions, "connectError") /\ UNCHANGED sock
  /\ UNCHANGED <<m_isConnected, reads, m_chkThread>>

\* CloseSocket: what is under way on the socket completes with an error.
CloseSocket ==
  /\ sock' = "closed" /\ reads' = 0
  /\ completions' = completions \o ReadErrors(reads)
                    \o (IF sock = "connecting" THEN <<"connectError">> ELSE <<>>)
  /\ UNCHANGED <<m_isConnected, m_chkThread>>

-----------------------------------------------------------------------------
(* The io thread.                                                          *)

\* The next handler: that of a connect sets or clears the flag first.
RunHandler ==
  /\ pc.io = "run" /\ completions # <<>>
  /\ LET c == Head(completions) IN
       \/ c = "connected" /\ m_isConnected' = TRUE /\ Goto("io", "read")
       \/ c = "connectError" /\ m_isConnected' = FALSE /\ Goto("io", "connClose")
       \/ c = "readError" /\ Goto("io", "close") /\ UNCHANGED m_isConnected
  /\ completions' = Tail(completions)
  /\ UNCHANGED <<sock, reads, m_chkThread, environment>>

\* HandleRead
HandleRead ==
  /\ pc.io = "read"
  /\ Goto("io", "run")
  /\ IF sock = "connected"
       THEN reads' = reads + 1 /\ UNCHANGED completions
       ELSE completions' = Append(completions, "readError") /\ UNCHANGED reads
  /\ UNCHANGED <<m_isConnected, sock, m_chkThread, environment>>

\* HandleConnectError, the flag being cleared
HandleConnectError ==
  /\ pc.io = "connClose"
  /\ CloseSocket /\ Goto("io", "check")
  /\ UNCHANGED environment

-----------------------------------------------------------------------------
(* Errors of a read or a write, in the io or the main thread.              *)

\* HandleError closes the socket, and then calls HandleRWError.
HandleError(t) ==
  /\ pc[t] = "close"
  /\ CloseSocket /\ Goto(t, "flag")
  /\ UNCHANGED environment

HandleRWError_FlagKept(t) ==
  /\ pc[t] = "flag"
  /\ Goto(t, "check")
  /\ UNCHANGED <<shared, environment>>

HandleRWError(t) ==
  /\ pc[t] = "flag"
  /\ m_isConnected' = FALSE
  /\ Goto(t, "check")
  /\ UNCHANGED <<sock, reads, completions, m_chkThread, environment>>

Return(t) == Goto(t, IF t = "io" THEN "run" ELSE "idle")

\* CheckConnect: the test of m_chkThread, and its assignment.  A second thread
\* assigned over the first destroys a std::thread that runs: std::terminate.
CheckConnect(t) ==
  /\ \/ /\ pc[t] = "check" /\ m_chkThread
        /\ Return(t) /\ UNCHANGED m_chkThread
     \/ /\ pc[t] = "check" /\ ~m_chkThread
        /\ Goto(t, "create") /\ UNCHANGED m_chkThread
     \/ /\ pc[t] = "create" /\ ~m_chkThread
        /\ m_chkThread' = TRUE
        /\ pc' = [pc EXCEPT ![t] = IF t = "io" THEN "run" ELSE "idle", !.chk = "test"]
     \/ /\ pc[t] = "create" /\ m_chkThread
        /\ pc' = [u \in Threads |-> "terminated"] /\ UNCHANGED m_chkThread
  /\ UNCHANGED <<m_isConnected, sock, reads, completions, environment>>

\* The loop of the checking thread: the test of the flag, and Start.
Settled == sock # "connecting" /\ pc.io # "connClose" /\ \A i \in 1 .. Len(completions) : completions[i] = "readError"

CheckLoop_Once ==
  /\ \/ /\ pc.chk = "test" /\ ~m_isConnected /\ (timely => Settled)
        /\ Goto("chk", "connect") /\ UNCHANGED shared
     \/ /\ pc.chk = "connect" /\ Len(completions) < MaxReady
        /\ AsyncConnect /\ Goto("chk", "none")
  /\ UNCHANGED environment

CheckLoop ==
  /\ \/ /\ pc.chk = "test" /\ ~m_isConnected /\ (timely => Settled)
        /\ Goto("chk", "connect") /\ UNCHANGED shared
     \/ /\ pc.chk = "connect" /\ Len(completions) < MaxReady
        /\ AsyncConnect /\ Goto("chk", "test")
  /\ UNCHANGED environment

-----------------------------------------------------------------------------
(* The main thread.                                                        *)

\* Start's sleep is over: without a connection main only waits to be ended.
Started ==
  /\ pc.main = "start"
  /\ Goto("main", IF m_isConnected THEN "idle" ELSE "parked")
  /\ UNCHANGED <<shared, environment>>

\* A line is typed: Send looks at the flag first.
Send ==
  /\ pc.main = "idle" /\ sends < MaxSends
  /\ sends' = sends + 1
  /\ Goto("main", IF m_isConnected THEN "write" ELSE "idle")
  /\ UNCHANGED <<shared, up, outages, timely>>

\* HandleWrite: the first write after the peer has gone may still succeed.
HandleWrite ==
  /\ pc.main = "write"
  /\ \/ sock \in {"connected", "broken"} /\ Goto("main", "idle")
     \/ sock # "connected" /\ Goto("main", "close")
  /\ UNCHANGED <<shared, environment>>

-----------------------------------------------------------------------------
Errors(t) == HandleError(t) \/ HandleRWError(t) \/ CheckConnect(t)
IoThread == RunHandler \/ HandleRead \/ HandleConnectError \/ Errors("io")
MainThread == Started \/ HandleWrite \/ Errors("main")

Next == ConnectEnds \/ ServerDown \/ ServerUp \/ IoThread \/ MainThread \/ CheckLoop \/ Send

Spec == Init /\ [][Next]_vars

\* Every thread runs and a connect ends; nothing brings the server up or makes
\* the user type.
Fairness == WF_vars(ConnectEnds) /\ WF_vars(IoThread) /\ WF_vars(MainThread) /\ WF_vars(CheckLoop)

-----------------------------------------------------------------------------
(* Properties.                                                             *)

\* Type correctness of every variable.
TypeOK ==
  /\ m_isConnected \in BOOLEAN /\ m_chkThread \in BOOLEAN
  /\ sock \in {"closed", "connecting", "connected", "broken"}
  /\ reads \in Nat /\ (reads > 0 => sock = "connected")
  /\ completions \in Seq({"connected", "connectError", "readError"})
  /\ pc \in [Threads -> {"start", "parked", "idle", "write", "run", "read", "connClose", "close",
                         "flag", "check", "create", "none", "test", "connect", "terminated"}]
  /\ up \in BOOLEAN /\ timely \in BOOLEAN
  /\ outages \in 0 .. MaxOutages /\ sends \in 0 .. MaxSends

\* The flag never stays set over a socket without a connection: whichever thread
\* closed it, an error is on its way that will clear the flag, and lines typed
\* are not dropped into a dead socket for good.
FlagFollowsSocket ==
  m_isConnected /\ sock # "connected" /\ pc.io # "terminated" =>
    \/ \E i \in 1 .. Len(completions) : completions[i] # "connected"
    \/ pc.io \in {"read", "close", "flag"} \/ pc.main = "flag"

\* Once the server is up for good and no more lines come, the client is connected
\* in the end, reads, and says so, if no connect takes longer than the sleep
\* between two tests and the two threads did not both create the checking one.
Reconnects ==
  <>[](up /\ timely /\ pc.io # "terminated")
    => <>[](m_isConnected /\ sock = "connected" /\ reads > 0)
=============================================================================
