------------------------------ MODULE PrivSock ------------------------------
(***************************************************************************)
(* The two processes of one miniftpd session and the socket pair between   *)
(* them: the ftp process asks, the nobody process makes the data           *)
(* connection and passes the descriptor back.  The repository has two      *)
(* programs of this design.  In projects/miniftpd (session.c, privsock.c,  *)
(* privparent.c, get_port_fd of ftpproto.c) nobody only connects; in       *)
(* UNP/miniftpd (nobody.c, ftpproto.c) it also listens for PASV, accepts,  *)
(* and is asked whether it listens.                                        *)
(*                                                                         *)
(* A message on the stream is a record of its kind and of the request it   *)
(* belongs to.  Each process starts with both ends of the pair and closes  *)
(* one; a read finds the end of the stream only when no process holds the  *)
(* other end any more.                                                     *)
(***************************************************************************)
EXTENDS Integers, Sequences

CONSTANTS
  Programs,  \* the programs to model: "projects", "UNP"
  MaxCalls   \* bound: connections and listeners a session asks for

ASSUME ProgramsAssumption == Programs \subseteq {"projects", "UNP"}
ASSUME MaxCallsAssumption == MaxCalls \in Nat

VARIABLES
  program,   \* which of the programs runs, a member of Programs
  fpc,       \* where the ftp process is
  npc,       \* where the nobody process is
  fEnds,     \* ends of the pair the ftp process holds: "parent_fd", "child_fd"
  nEnds,     \* ends the nobody process holds
  toNobody,  \* bytes written to child_fd, not yet read from parent_fd
  toFtp,     \* bytes written to parent_fd, not yet read from child_fd
  call,      \* number of the ftp process's last request
  data_fd,   \* request the connection sess->data_fd names was made for, 0 = none
  ret,       \* ret of get_transfer_fd: 0 = no connection was made
  port,      \* request whose port and address nobody has read, 0 = none
  fd,        \* nobody's socket: the request it is connected for, 0 = none
  p_sock,    \* UNP: sess->p_sock # NULL, a PORT waits for its transfer
  pasv_listen_fd \* UNP: nobody's listener: the PASV it was made for, 0 = -1

channels == <<toNobody, toFtp>>
ftpVars == <<program, fpc, fEnds, call, data_fd, ret, p_sock>>
nobodyVars == <<program, npc, nEnds, port, fd, pasv_listen_fd>>
vars == <<ftpVars, nobodyVars, channels>>

Message(kind) == [kind |-> kind, req |-> call]
BothEnds == {"parent_fd", "child_fd"}

\* socketpair and fork: both processes hold both ends.
Init ==
  /\ program \in Programs
  /\ fpc = "start" /\ npc = "start"
  /\ fEnds = BothEnds /\ nEnds = BothEnds
  /\ toNobody = <<>> /\ toFtp = <<>>
  /\ call = 0 /\ data_fd = 0 /\ ret = 1 /\ port = 0 /\ fd = 0
  /\ p_sock = FALSE /\ pasv_listen_fd = 0

FtpExits    == fpc' = "dead" /\ fEnds' = {}
NobodyExits == npc' = "dead" /\ nEnds' = {} /\ fd' = 0 /\ pasv_listen_fd' = 0

-----------------------------------------------------------------------------
(* The ftp process. *)

\* priv_sock_set_child_context
ChildContext_KeepsParent ==
  /\ fpc = "start"
  /\ fpc' = "idle"
  /\ UNCHANGED <<fEnds, call, data_fd, ret, p_sock, nobodyVars, channels>>

ChildContext ==
  /\ fpc = "start"
  /\ fEnds' = fEnds \ {"parent_fd"}
  /\ fpc' = "idle"
  /\ UNCHANGED <<call, data_fd, ret, p_sock, nobodyVars, channels>>

\* writen on child_fd: SIGPIPE when nobody has gone.
FtpWrites(kind, next) ==
  IF "parent_fd" \in fEnds \cup nEnds
    THEN /\ toNobody' = Append(toNobody, Message(kind))
         /\ fpc' = next
         /\ UNCHANGED fEnds
    ELSE FtpExits /\ UNCHANGED toNobody

FtpKeeps == UNCHANGED <<nobodyVars>>

\* get_port_fd writes the command, the port, and the address: its length and
\* its characters.
SendCmd ==
  /\ \/ program = "projects" /\ fpc = "idle" /\ call < MaxCalls
     \/ fpc = "getPortFd"
  /\ call' = call + 1
  /\ IF "parent_fd" \in fEnds \cup nEnds
       THEN /\ toNobody' = Append(toNobody, [kind |-> "cmd", req |-> call + 1])
            /\ fpc' = "sendPort"
            /\ UNCHANGED fEnds
       ELSE FtpExits /\ UNCHANGED toNobody
  /\ FtpKeeps /\ UNCHANGED <<toFtp, data_fd, ret, p_sock>>

SendAddress_NoLength ==
  /\ \/ fpc = "sendPort" /\ FtpWrites("port", "sendIp")
     \/ fpc = "sendIp" /\ FtpWrites("ip", "getResult")
  /\ FtpKeeps /\ UNCHANGED <<toFtp, call, data_fd, ret, p_sock>>

SendAddress ==
  /\ \/ fpc = "sendPort" /\ FtpWrites("port", "sendLen")
     \/ fpc = "sendLen" /\ FtpWrites("len", "sendIp")
     \/ fpc = "sendIp" /\ FtpWrites("ip", "getResult")
  /\ FtpKeeps /\ UNCHANGED <<toFtp, call, data_fd, ret, p_sock>>

\* get_port_fd and get_pasv_fd return to get_transfer_fd, which in UNP, after a
\* PORT, goes on to ask whether PASV is active as well.  The transfer begins only
\* if a connection was made.
AfterFd_RetIgnored(got) ==
  /\ fpc' = IF p_sock THEN "ask3" ELSE "transfer"
  /\ ret' = 1

AfterFd(got) ==
  /\ fpc' = IF p_sock THEN "ask3" ELSE IF got = 1 THEN "transfer" ELSE "idle"
  /\ ret' = IF p_sock THEN got ELSE 1

\* priv_sock_get_result: anything but one byte ends the process; BAD ends the
\* call, OK goes on to the descriptor.
Result ==
  IF Head(toFtp).kind = "ok" THEN fpc' = "recvFd" /\ UNCHANGED ret ELSE AfterFd(0)

GetResult_NoEof ==
  /\ fpc = "getResult" /\ toFtp # <<>>
  /\ toFtp' = Tail(toFtp)
  /\ Result
  /\ FtpKeeps /\ UNCHANGED <<fEnds, toNobody, call, data_fd, p_sock>>

GetResult ==
  /\ fpc = "getResult"
  /\ \/ /\ toFtp # <<>>
        /\ toFtp' = Tail(toFtp)
        /\ Result
        /\ UNCHANGED fEnds
     \/ /\ toFtp = <<>> /\ "parent_fd" \notin fEnds \cup nEnds
        /\ FtpExits
        /\ UNCHANGED <<toFtp, ret>>
  /\ FtpKeeps /\ UNCHANGED <<toNobody, call, data_fd, p_sock>>

\* recv_fd: a byte without a descriptor, or the end of the stream, is ERR_EXIT.
\* What data_fd named before is overwritten.
RecvFd ==
  /\ fpc = "recvFd"
  /\ \/ /\ toFtp # <<>> /\ Head(toFtp).kind = "fd"
        /\ data_fd' = Head(toFtp).req
        /\ AfterFd(1)
        /\ toFtp' = Tail(toFtp)
        /\ UNCHANGED fEnds
     \/ /\ toFtp # <<>> /\ Head(toFtp).kind # "fd"
        /\ FtpExits
        /\ toFtp' = Tail(toFtp)
        /\ UNCHANGED <<data_fd, ret>>
     \/ /\ toFtp = <<>> /\ "parent_fd" \notin fEnds \cup nEnds
        /\ FtpExits
        /\ UNCHANGED <<toFtp, data_fd, ret>>
  /\ FtpKeeps /\ UNCHANGED <<toNobody, call, p_sock>>

\* The end of a transfer closes the data connection.
CloseData ==
  /\ fpc = "transfer"
  /\ fpc' = "idle" /\ data_fd' = 0
  /\ FtpKeeps /\ UNCHANGED <<fEnds, channels, call, ret, p_sock>>

\* A transfer that fails before it begins (the file cannot be opened, locked or
\* positioned) returns with data_fd as it is, and the connection stays open.
TransferFails ==
  /\ fpc = "transfer"
  /\ fpc' = "idle"
  /\ FtpKeeps /\ UNCHANGED <<fEnds, channels, call, data_fd, ret, p_sock>>

\* QUIT, a lost control connection, a timer or SIGPIPE, at any point.
FtpDies ==
  /\ fpc # "dead"
  /\ FtpExits
  /\ FtpKeeps /\ UNCHANGED <<channels, call, data_fd, ret, p_sock>>

-----------------------------------------------------------------------------
(* The ftp process of UNP/miniftpd.                                        *)

\* do_port: the address waits for the next transfer.
DoPort ==
  /\ program = "UNP" /\ fpc = "idle"
  /\ p_sock' = TRUE
  /\ FtpKeeps /\ UNCHANGED <<fpc, fEnds, call, data_fd, ret, channels>>

\* do_pasv asks nobody to listen, and waits for the number of the port.
DoPasv ==
  /\ program = "UNP" /\ fpc = "idle" /\ call < MaxCalls
  /\ call' = call + 1
  /\ IF "parent_fd" \in fEnds \cup nEnds
       THEN /\ toNobody' = Append(toNobody, [kind |-> "listen", req |-> call + 1])
            /\ fpc' = "intPort"
            /\ UNCHANGED fEnds
       ELSE FtpExits /\ UNCHANGED toNobody
  /\ FtpKeeps /\ UNCHANGED <<toFtp, data_fd, ret, p_sock>>

\* get_transfer_fd asks nobody up to three times whether PASV is active: first
\* if there was no PORT, before get_port_fd if there was, and in the end.
Transfer ==
  /\ program = "UNP" /\ fpc = "idle"
  /\ p_sock => call < MaxCalls
  /\ fpc' = IF p_sock THEN "ask2" ELSE "ask1"
  /\ FtpKeeps /\ UNCHANGED <<fEnds, call, data_fd, ret, p_sock, channels>>

\* pasv_active and get_pasv_fd: the command.
Ask ==
  /\ \/ fpc = "ask1" /\ FtpWrites("active", "int1")
     \/ fpc = "ask2" /\ FtpWrites("active", "int2")
     \/ fpc = "ask3" /\ FtpWrites("active", "int3")
     \/ fpc = "getPasvFd" /\ FtpWrites("accept", "getResult")
  /\ FtpKeeps /\ UNCHANGED <<toFtp, call, data_fd, ret, p_sock>>

\* The answer: neither PORT nor PASV is a 425, both at once end the process.
Answered(active) ==
  \/ fpc \in {"int2", "int3"} /\ active /\ (fpc = "int3" => p_sock) /\ FtpExits
     /\ UNCHANGED <<p_sock, ret>>
  \/ /\ UNCHANGED fEnds
     /\ \/ fpc = "intPort" /\ fpc' = "idle" /\ UNCHANGED <<p_sock, ret>>
        \/ fpc = "int1" /\ fpc' = (IF active THEN "ask3" ELSE "idle") /\ UNCHANGED <<p_sock, ret>>
        \/ fpc = "int2" /\ ~active /\ fpc' = "getPortFd" /\ UNCHANGED <<p_sock, ret>>
        \/ fpc = "int3" /\ active /\ ~p_sock /\ fpc' = "getPasvFd" /\ UNCHANGED <<p_sock, ret>>
        \/ /\ fpc = "int3" /\ ~active
           /\ fpc' = (IF ret = 1 THEN "transfer" ELSE "idle")
           /\ p_sock' = FALSE /\ ret' = 1

\* priv_sock_get_int; the end of the stream ends the process.
GetInt ==
  /\ fpc \in {"intPort", "int1", "int2", "int3"}
  /\ \/ /\ toFtp # <<>>
        /\ toFtp' = Tail(toFtp)
        /\ Answered(Head(toFtp).req # 0)
     \/ /\ toFtp = <<>> /\ "parent_fd" \notin fEnds \cup nEnds
        /\ FtpExits
        /\ UNCHANGED <<toFtp, p_sock, ret>>
  /\ FtpKeeps /\ UNCHANGED <<toNobody, call, data_fd>>

\* What the ftp process does by itself once a command is there.
FtpCall ==
  \/ SendAddress \/ GetResult \/ RecvFd \/ Ask \/ GetInt
  \/ fpc = "getPortFd" /\ SendCmd

-----------------------------------------------------------------------------
(* The nobody process. *)

NobodyKeeps == UNCHANGED <<ftpVars>>

\* priv_sock_set_parent_context, then minimize_privilege, which may fail.
ParentContext_KeepsChild ==
  /\ npc = "start"
  /\ npc' = "getCmd" /\ UNCHANGED <<nEnds, fd, pasv_listen_fd>>
  /\ NobodyKeeps /\ UNCHANGED <<channels, port>>

ParentContext ==
  /\ npc = "start"
  /\ \/ npc' = "getCmd" /\ nEnds' = nEnds \ {"child_fd"} /\ UNCHANGED <<fd, pasv_listen_fd>>
     \/ NobodyExits
  /\ NobodyKeeps /\ UNCHANGED <<channels, port>>

\* readn on parent_fd for a field of the request: the end of the stream, before
\* or inside a request, ends the process.
NobodyReads(next, result) ==
  \/ /\ toNobody # <<>>
     /\ toNobody' = Tail(toNobody)
     /\ npc' = next
     /\ port' = result
     /\ UNCHANGED <<nEnds, fd, pasv_listen_fd>>
  \/ /\ toNobody = <<>> /\ "child_fd" \notin fEnds \cup nEnds
     /\ NobodyExits
     /\ UNCHANGED <<toNobody, port>>

\* handle_parent and handle_nobody: the function of each command.
Handler(kind) ==
  CASE kind = "active" -> "sendActive"
    [] kind = "listen" -> "listen"
    [] kind = "accept" -> "accept"
    [] OTHER -> "getPort"

ReadRequest ==
  /\ \/ npc = "getCmd" /\ NobodyReads(Handler(Head(toNobody).kind), Head(toNobody).req)
     \/ npc = "getPort" /\ NobodyReads("getLen", Head(toNobody).req)
     \/ npc = "getLen" /\ NobodyReads("getIp", port)
     \/ npc = "getIp" /\ NobodyReads("client", port)
  /\ NobodyKeeps /\ UNCHANGED toFtp

\* tcp_client(20): every failure in it is ERR_EXIT.
TcpClient ==
  /\ npc = "client"
  /\ \/ npc' = "connect" /\ fd' = port /\ UNCHANGED <<nEnds, pasv_listen_fd>>
     \/ NobodyExits
  /\ NobodyKeeps /\ UNCHANGED <<channels, port>>

\* writen and sendmsg on parent_fd: SIGPIPE when the ftp process has gone.
NobodyWrites(kind, req, next, fdNext, listenNext) ==
  \/ /\ "child_fd" \in fEnds \cup nEnds
     /\ toFtp' = Append(toFtp, [kind |-> kind, req |-> req])
     /\ npc' = next /\ fd' = fdNext /\ pasv_listen_fd' = listenNext
     /\ UNCHANGED nEnds
  \/ /\ "child_fd" \notin fEnds \cup nEnds
     /\ NobodyExits
     /\ UNCHANGED toFtp

\* connect_timeout and the result; after BAD the socket is closed and the
\* command is over.
ConnectAndAnswer_OwnEnd ==
  /\ npc = "connect"
  /\ toNobody' = Append(toNobody, [kind |-> "ok", req |-> fd])
  /\ npc' = "sendFd"
  /\ NobodyKeeps /\ UNCHANGED <<nEnds, toFtp, port, fd, pasv_listen_fd>>

ConnectAndAnswer ==
  /\ npc = "connect"
  /\ \/ NobodyWrites("ok", fd, "sendFd", fd, pasv_listen_fd)
     \/ NobodyWrites("bad", fd, "getCmd", 0, pasv_listen_fd)
  /\ NobodyKeeps /\ UNCHANGED <<toNobody, port>>

\* priv_sock_send_fd, then close(fd).
SendFd ==
  /\ npc = "sendFd"
  /\ NobodyWrites("fd", fd, "getCmd", 0, pasv_listen_fd)
  /\ NobodyKeeps /\ UNCHANGED <<toNobody, port>>

\* UNP: privop_pasv_active answers whether it listens.
PasvActive ==
  /\ npc = "sendActive"
  /\ NobodyWrites("int", pasv_listen_fd, "getCmd", fd, pasv_listen_fd)
  /\ NobodyKeeps /\ UNCHANGED <<toNobody, port>>

\* UNP: privop_pasv_listen.  tcp_server may be ERR_EXIT; a listener that is
\* there already is forgotten and stays open.
PasvListen ==
  /\ npc = "listen"
  /\ \/ NobodyWrites("int", port, "getCmd", fd, port)
     \/ NobodyExits /\ UNCHANGED toFtp
  /\ NobodyKeeps /\ UNCHANGED <<toNobody, port>>

\* UNP: privop_pasv_accept.  The listener is closed whether or not the client
\* connected in time.
PasvAccept ==
  /\ npc = "accept"
  /\ \/ NobodyWrites("ok", pasv_listen_fd, "sendFd", pasv_listen_fd, 0)
     \/ NobodyWrites("bad", 0, "getCmd", 0, 0)
  /\ NobodyKeeps /\ UNCHANGED <<toNobody, port>>

NobodyStep == ParentContext \/ ReadRequest \/ TcpClient \/ ConnectAndAnswer \/ SendFd
              \/ PasvActive \/ PasvListen \/ PasvAccept

\* A command of the client.
Command == SendCmd \/ DoPort \/ DoPasv \/ Transfer \/ CloseData \/ TransferFails

Next == ChildContext \/ Command \/ FtpCall \/ FtpDies \/ NobodyStep

Spec == Init /\ [][Next]_vars

\* Both processes run, and connect_timeout returns; nothing obliges the client
\* to make the ftp process call, or to leave.
FairSpec ==
  Spec /\ WF_vars(ChildContext) /\ WF_vars(FtpCall) /\ WF_vars(NobodyStep)

-----------------------------------------------------------------------------
(* Properties.                                                             *)

ReqKinds == {"cmd", "port", "len", "ip", "active", "listen", "accept"}
AnswerKinds == {"ok", "bad", "fd", "int"}
Messages(kinds) == [kind : kinds, req : 0 .. MaxCalls]

\* Type correctness of every variable.
TypeOK ==
  /\ program \in Programs
  /\ fpc \in {"start", "idle", "sendPort", "sendLen", "sendIp", "getResult", "recvFd",
              "ask1", "ask2", "ask3", "int1", "int2", "int3", "intPort", "getPortFd",
              "getPasvFd", "transfer", "dead"}
  /\ npc \in {"start", "getCmd", "getPort", "getLen", "getIp", "client", "connect",
              "sendFd", "sendActive", "listen", "accept", "dead"}
  /\ fEnds \subseteq BothEnds /\ nEnds \subseteq BothEnds
  /\ toNobody \in Seq(Messages(ReqKinds))
  /\ toFtp \in Seq(Messages(AnswerKinds))
  /\ {call, data_fd, port, fd, pasv_listen_fd} \subseteq 0 .. MaxCalls
  /\ ret \in {0, 1} /\ p_sock \in BOOLEAN

\* What each process reads next.
NobodyExpects ==
  CASE npc \in {"start", "getCmd"} -> {"cmd", "active", "listen", "accept"}
    [] npc = "getPort" -> {"port"} [] npc = "getLen" -> {"len"} [] npc = "getIp" -> {"ip"}
    [] OTHER -> {}
FtpExpects ==
  CASE fpc = "getResult" -> {"ok", "bad"} [] fpc = "recvFd" -> {"fd"}
    [] fpc \in {"intPort", "int1", "int2", "int3"} -> {"int"}
    [] OTHER -> {}

\* The two sides never lose step on their unframed streams: what one is about
\* to read was written as that, nobody's for the request it has begun; and
\* between two calls nothing is in flight, so that a result or a descriptor of
\* one call can never be taken for that of the next.
InStep ==
  /\ (npc # "dead" /\ toNobody # <<>>) =>
       /\ Head(toNobody).kind \in NobodyExpects
       /\ npc \in {"getPort", "getLen", "getIp"} => Head(toNobody).req = port
  /\ (fpc # "dead" /\ toFtp # <<>>) => Head(toFtp).kind \in FtpExpects
  /\ (fpc \in {"idle", "transfer"} /\ npc # "dead") => toNobody = <<>> /\ npc \in {"start", "getCmd"}

\* A transfer runs on the connection made for the last request, the last PORT or
\* the last PASV: never without one, and never on one that an earlier transfer
\* left open when it failed before it began, though data_fd may still name that
\* one when the next request is refused.  Nobody is asked to accept only while
\* it listens.  Between two requests nobody holds no connection, so that the ftp
\* process's close ends the data connection for the client.
FdIsForCall ==
  /\ fpc = "transfer" => data_fd = call /\ call # 0
  /\ npc = "accept" => pasv_listen_fd # 0
  /\ npc \in {"getCmd", "dead"} => fd = 0

\* When the ftp process ends, however it ends and in whatever state nobody is,
\* nobody ends too and the listener's count drops.
NoOrphan == fpc = "dead" ~> npc = "dead"

\* A call ends, with an answer or with the process, even if nobody dies in it.
CallEnds ==
  (fpc \notin {"start", "idle", "transfer", "dead"}) ~> (fpc \in {"idle", "transfer", "dead"})
=============================================================================
