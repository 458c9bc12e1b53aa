----------------------------- MODULE AsioServer -----------------------------
(***************************************************************************)
(* The boost_asio_server: Server.hpp keeps a pool of connection ids and a  *)
(* map of handlers, RWHandler.hpp reads from one connection.  All handlers *)
(* run in the thread that calls io_service::run, one at a time; here a     *)
(* step is a handler.                                                      *)
(***************************************************************************)
EXTENDS Integers, Sequences

CONSTANTS MaxConnectionNum  \* ids in the pool

VARIABLES
  m_cnnIdPool, \* the ids not in use, in the order of the list
  m_handlers,  \* the ids of the handlers in the map
  accepting,   \* the id of the handler async_accept waits for, 0 = none
  acceptor,    \* "open", or "closed" by StopAccept
  sock,        \* each handler's socket: "none", "open", "closed"
  reading,     \* the ids whose handler has an async_read under way
  run          \* "running", "stopped" by m_ios.stop(), or "undefined": front() of an empty list

vars == <<m_cnnIdPool, m_handlers, accepting, acceptor, sock, reading, run>>

Ids == 1 .. MaxConnectionNum

\* Accept: CreateHandler takes the first id of the pool for the handler that
\* async_accept will fill.
Accept(next) ==
  IF m_cnnIdPool = <<>>
    THEN run' = "undefined" /\ accepting' = 0 /\ UNCHANGED m_cnnIdPool
    ELSE run' = next /\ accepting' = Head(m_cnnIdPool) /\ m_cnnIdPool' = Tail(m_cnnIdPool)

\* Server's constructor fills the pool, and main calls Accept.
Init ==
  /\ accepting = 1 /\ m_cnnIdPool = [i \in 1 .. MaxConnectionNum - 1 |-> i + 1]
  /\ m_handlers = {} /\ acceptor = "open"
  /\ sock = [i \in Ids |-> "none"] /\ reading = {}
  /\ run = "running"

\* The handler of async_accept: insert, HandleRead, Accept.
Inserted(next) ==
  /\ run = "running" /\ accepting # 0 /\ acceptor = "open"
  /\ m_handlers' = m_handlers \cup {accepting}
  /\ reading' = reading \cup {accepting}
  /\ Accept(next)

Accepted ==
  /\ Inserted("running")
  /\ sock' = [sock EXCEPT ![accepting] = "open"]
  /\ UNCHANGED acceptor

\* With an error HandleAcpError closes socket and acceptor and stops the
\* io_service; then the handler goes on as if there were a connection.
AcceptError ==
  /\ Inserted("stopped")
  /\ sock' = [sock EXCEPT ![accepting] = "closed"]
  /\ acceptor' = "closed"

\* The peer closes or resets the connection: HandleRead's handler closes the
\* socket, and RecyclConnid gives the id back.
RecyclConnid_NotErased(connId) == m_cnnIdPool' = Append(m_cnnIdPool, connId) /\ UNCHANGED m_handlers

RecyclConnid(connId) ==
  /\ m_handlers' = m_handlers \ {connId}
  /\ m_cnnIdPool' = Append(m_cnnIdPool, connId)

ReadError(connId) ==
  /\ run = "running" /\ connId \in reading
  /\ sock' = [sock EXCEPT ![connId] = "closed"]
  /\ reading' = reading \ {connId}
  /\ RecyclConnid(connId)
  /\ UNCHANGED <<accepting, acceptor, run>>

Next == Accepted \/ AcceptError \/ \E connId \in Ids : ReadError(connId)

Spec == Init /\ [][Next]_vars

-----------------------------------------------------------------------------
(* Properties.                                                             *)

\* Type correctness of every variable.
TypeOK ==
  /\ m_cnnIdPool \in Seq(Ids) /\ m_handlers \subseteq Ids /\ accepting \in Ids \cup {0}
  /\ acceptor \in {"open", "closed"} /\ sock \in [Ids -> {"none", "open", "closed"}]
  /\ reading \subseteq Ids /\ run \in {"running", "stopped", "undefined"}

Pooled == {m_cnnIdPool[i] : i \in 1 .. Len(m_cnnIdPool)}

\* While the server runs it is accepting, and the handlers of the map are those
\* that read from an open socket: a connection that has ended is gone.
MapIsLive ==
  run = "running" => /\ accepting # 0
                     /\ m_handlers = reading
                     /\ \A i \in m_handlers : sock[i] = "open"

\* However connections come, end and fail, every id is in one place, once: in the
\* pool, with a handler of the map, or with the accept under way.  No two
\* connections share an id, none is lost to the pool, and none stays with a
\* connection that has ended.
IdsConserved ==
  /\ \A i, j \in 1 .. Len(m_cnnIdPool) : m_cnnIdPool[i] = m_cnnIdPool[j] => i = j
  /\ Pooled \cap m_handlers = {}
  /\ accepting \notin Pooled \cup m_handlers
  /\ Pooled \cup m_handlers \cup ({accepting} \ {0}) = Ids
  /\ MapIsLive
=============================================================================
