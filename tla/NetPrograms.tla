---------------------------- MODULE NetPrograms ----------------------------
(***************************************************************************)
(* The four network programs of the repository that share no code with     *)
(* miniftpd: the UDP chat room, the Boost.Asio server and its client, and  *)
(* the control server of Pelco_Server_interface.  They do not interact: a  *)
(* behaviour is one of one program, the other three stay as they begin.    *)
(* What this module adds to theirs is the assumptions on their constants,  *)
(* the fairness, and their properties by one name each.                    *)
(***************************************************************************)
EXTENDS Integers, Sequences, FiniteSets

CONSTANTS
  Programs,                                      \* the programs to model
  Clients, Names, NoOne, Buffer, MaxRequests,    \* of Chat
  MaxConnectionNum,                              \* of AsioServer
  MaxOutages, MaxSends, MaxReady,                \* of AsioClient
  Kinds, Byte, MaxConns, MaxFrames, MaxJobs      \* of PelcoServer

VARIABLES
  program, \* the one that runs, a member of Programs
  client_list, replies, inbox, cli, requests, spoiltClients,          \* Chat
  m_cnnIdPool, m_handlers, accepting, acceptor, sockets, reading, run, \* AsioServer
  m_isConnected, sock, reads, completions, m_chkThread, pc, up, outages,
  lines, timely,                                                      \* AsioClient
  at, conn, peer, rest, wire, unionBuf, more, sends, linked, sendSeq, recvSeq,
  g_executing_inspection, insp, frames, counted, mixed, spoilt        \* PelcoServer

Room   == INSTANCE Chat WITH spoilt <- spoiltClients
Server == INSTANCE AsioServer WITH sock <- sockets
Client == INSTANCE AsioClient WITH sends <- lines
Pelco  == INSTANCE PelcoServer

chatVars == <<client_list, replies, inbox, cli, requests, spoiltClients>>
serverVars == <<m_cnnIdPool, m_handlers, accepting, acceptor, sockets, reading, run>>
clientVars == <<m_isConnected, sock, reads, completions, m_chkThread, pc, up, outages, lines, timely>>
pelcoVars == <<at, conn, peer, rest, wire, unionBuf, more, sends, linked, sendSeq, recvSeq,
               g_executing_inspection, insp, frames, counted, mixed, spoilt>>
vars == <<program, chatVars, serverVars, clientVars, pelcoVars>>

ASSUME ProgramsAssumption == Programs \subseteq {"chat", "server", "client", "pelco"}
ASSUME ChatAssumption ==
  /\ IsFiniteSet(Names) /\ NoOne \notin Names \cup Clients
  /\ Room!Server \notin Clients
  /\ Buffer \in Nat \ {0} /\ MaxRequests \in Nat
\* Accept's first front() needs an id: Server.hpp's pool has 65536.
ASSUME ServerAssumption == MaxConnectionNum \in Nat \ {0}
ASSUME ClientAssumption == {MaxOutages, MaxSends, MaxReady} \subseteq Nat
\* A number of a sequence pair grows by two: Byte is even, as 256 is.
ASSUME PelcoAssumption ==
  /\ Kinds \subseteq Pelco!AllKinds
  /\ Byte \in Nat \ {0} /\ Byte % 2 = 0
  /\ {MaxConns, MaxFrames, MaxJobs} \subseteq Nat

\* Only the client's Init leaves a choice.
Init ==
  /\ program \in Programs
  /\ Room!Init /\ Server!Init /\ Client!Init /\ Pelco!Init
  /\ program # "client" => ~up /\ ~timely

ChatRoom ==
  /\ program = "chat" /\ Room!Next
  /\ UNCHANGED <<program, serverVars, clientVars, pelcoVars>>

AsioServer ==
  /\ program = "server" /\ Server!Next
  /\ UNCHANGED <<program, chatVars, clientVars, pelcoVars>>

AsioClient ==
  /\ program = "client" /\ Client!Next
  /\ UNCHANGED <<program, chatVars, serverVars, pelcoVars>>

PelcoServer ==
  /\ program = "pelco" /\ Pelco!Next
  /\ UNCHANGED <<program, chatVars, serverVars, clientVars>>

Next == ChatRoom \/ AsioServer \/ AsioClient \/ PelcoServer

Spec == Init /\ [][Next]_vars

\* Fairness is assumed of the client only, where a property is about progress.
FairSpec == Spec /\ (program = "client" => Client!Fairness)

-----------------------------------------------------------------------------
(* Properties: each is the one of its module, where the comment on it says *)
(* what it means.                                                          *)

\* Type correctness of every program.
TypeOK ==
  /\ program \in Programs
  /\ Room!TypeOK /\ Server!TypeOK /\ Client!TypeOK /\ Pelco!TypeOK

\* Chat room: clients that lost no datagram have the server's list of users.
ListsAgree == Room!ListsAgree

\* Asio server: every connection id is in one place, once.
IdsConserved == Server!IdsConserved

\* Asio client: a flag set over a dead socket is about to be cleared.
FlagFollowsSocket == Client!FlagFollowsSocket

\* Asio client: with the server up for good it is connected in the end.
Reconnects == program = "client" => Client!Reconnects

\* Pelco: whatever frames a recv brings together, those executed were sent.
FramesIntact == Pelco!FramesIntact

\* Pelco: one inspection at a time, and the flag tells of it.
OneInspection == Pelco!OneInspection

\* Pelco: the sequence bytes count, through carry and wrap, answers and frames of
\* the numbered kinds, not every frame received.
SeqExact == Pelco!SeqExact
=============================================================================
