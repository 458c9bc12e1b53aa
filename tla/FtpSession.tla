----------------------------- MODULE FtpSession -----------------------------
(***************************************************************************)
(* One session process of projects/miniftpd (ftpproto.c): the command loop *)
(* with the commands that keep state from one command to the next, the     *)
(* data connection, the transfer loops, and the two signal handlers that   *)
(* run on top of them: SIGALRM (idle and data timers) and SIGURG (ABOR).   *)
(*                                                                         *)
(* Descriptors are the kernel's: the lowest free one is handed out, so a   *)
(* number kept after close may name another object later.  Time is         *)
(* abstract: an armed alarm may fire at any step.  A handler of a command  *)
(* is cut where a signal would see or change something: between a system   *)
(* call that moves data and its record in data_process, and between the    *)
(* close of the data connection and data_fd = -1.                          *)
(***************************************************************************)
EXTENDS Integers, Sequences, FiniteSets

CONSTANTS
  Fds,       \* descriptors the process may use for data (its open-file limit)
  Size,      \* chunks in the file, and the most an upload sends
  Commands,  \* commands the client sends
  FaultSets, \* sets of "open", "lock", "seek", "net", "disk", "truncate", "rate"
  Tunables   \* timer settings: records [idle |-> BOOLEAN, data |-> BOOLEAN]

ASSUME FdsAssumption == Fds \subseteq Nat /\ IsFiniteSet(Fds)
ASSUME SizeAssumption == Size \in Nat
ASSUME TunablesAssumption == Tunables \subseteq [idle : BOOLEAN, data : BOOLEAN]

None == -1
Transfers == {"RETR", "STOR", "APPE", "LIST"}

VARIABLES
  faults,         \* what may fail in this behaviour, a member of FaultSets
  tunable,        \* idle_session_timeout > 0, data_connection_timeout > 0
  pc,             \* where the process is
  cmd,            \* sess.cmd
  why,            \* why it exited, "" while it runs
  port_addr,      \* sess.port_addr # NULL
  pasv_listen_fd, \* sess.pasv_listen_fd
  data_fd,        \* sess.data_fd
  data_process,   \* sess.data_process
  abor_received,  \* sess.abor_received
  restart_pos,    \* sess.restart_pos
  sigurg,         \* handle_sigurg is installed (do_pass succeeded)
  alarm,          \* the armed alarm's handler: "none", "cmdio", "data"
  fdt,            \* the descriptor table of the kernel
  fd,             \* local fd of the transfer: the opened file
  offset,         \* local offset
  pos,            \* file position of fd
  left,           \* bytes_to_send (RETR); chunks received so far (STOR, APPE)
  flag,           \* local flag
  ret,            \* local ret: what sendfile or read returned, until it is used
  replies,        \* reply codes sent for the current command
  aborted,        \* an ABOR arrived during the current transfer
  moved           \* chunks that this command moved since the data alarm was armed

envVars   == <<faults, tunable>>
sessVars  == <<port_addr, pasv_listen_fd, data_fd, data_process, abor_received,
               restart_pos, sigurg>>
localVars == <<fd, offset, pos, left, flag, ret>>
ghostVars == <<replies, aborted, moved>>
vars == <<envVars, pc, cmd, why, sessVars, alarm, fdt, localVars, ghostVars>>

\* A socket of the data connection: open, closed by the peer, shut by us.
DataKinds == {"data", "eof", "shut"}

Free == {f \in Fds : fdt[f] = "free"}
Lowest(S) == CHOOSE f \in S : \A g \in S : f <= g
Kind(f) == IF f \in Fds THEN fdt[f] ELSE "free"

Running == pc # "exit"
InTransfer == pc \in {"open", "recv", "received", "recvCheck", "send", "sent", "sendCheck",
                      "list", "finish", "closed", "listClosed"}

Reply(code) == replies' = Append(replies, code)
Exit(reason) == pc' = "exit" /\ why' = reason

Init ==
  /\ faults \in FaultSets /\ tunable \in Tunables
  /\ pc = "idle" /\ cmd = "none" /\ why = ""
  /\ port_addr = FALSE /\ pasv_listen_fd = None /\ data_fd = None
  /\ data_process = FALSE /\ abor_received = FALSE /\ restart_pos = 0
  /\ sigurg = FALSE
  /\ alarm = IF tunable.idle THEN "cmdio" ELSE "none"
  /\ fdt = [f \in Fds |-> "free"]
  /\ fd = None /\ offset = 0 /\ pos = 0 /\ left = 0 /\ flag = 0 /\ ret = 0
  /\ replies = <<>> /\ aborted = FALSE /\ moved = 0

-----------------------------------------------------------------------------
(* The timers. *)

\* start_cmdio_alarm: leaves an armed alarm alone when there is no idle timeout.
AfterCmdioAlarm_Kept(a) == a
AfterCmdioAlarm(a) == IF tunable.idle THEN "cmdio" ELSE a

\* start_data_alarm: without a data timeout it cancels the idle alarm.
AfterDataAlarm_NoCancel(a) == IF tunable.data THEN "data" ELSE a
AfterDataAlarm(a) ==
  IF tunable.data THEN "data" ELSE IF tunable.idle THEN "none" ELSE a

\* handle_alarm_timeout
IdleTimeout ==
  /\ Running /\ alarm = "cmdio"
  /\ Exit("idleTimeout")
  /\ Reply("421")
  /\ UNCHANGED <<envVars, cmd, sessVars, alarm, fdt, localVars, aborted, moved>>

\* handle_sigalrm: exit, unless data moved since the last time it looked.
DataTimeout_NoReset ==
  /\ Running /\ alarm = "data"
  /\ \/ /\ ~data_process
        /\ Exit("dataTimeout") /\ Reply("421")
        /\ UNCHANGED <<data_process, alarm, moved>>
     \/ /\ data_process
        /\ alarm' = AfterDataAlarm(alarm)
        /\ moved' = 0
        /\ UNCHANGED <<pc, why, replies, data_process>>
  /\ UNCHANGED <<envVars, cmd, port_addr, pasv_listen_fd, data_fd, abor_received,
                 restart_pos, sigurg, fdt, localVars, aborted>>

DataTimeout ==
  /\ Running /\ alarm = "data"
  /\ \/ /\ ~data_process
        /\ Exit("dataTimeout") /\ Reply("421")
        /\ UNCHANGED <<data_process, alarm, moved>>
     \/ /\ data_process
        /\ data_process' = FALSE
        /\ alarm' = AfterDataAlarm(alarm)
        /\ moved' = 0
        /\ UNCHANGED <<pc, why, replies>>
  /\ UNCHANGED <<envVars, cmd, port_addr, pasv_listen_fd, data_fd, abor_received,
                 restart_pos, sigurg, fdt, localVars, aborted>>

-----------------------------------------------------------------------------
(* handle_sigurg.  Without a data connection it leaves the line to the     *)
(* command loop; a line other than ABOR is answered and changes nothing.   *)
(* shutdown of a descriptor just closed fails and changes nothing either.  *)

SigUrg ==
  /\ Running /\ sigurg /\ data_fd # None
  /\ \/ /\ abor_received' = TRUE
        /\ fdt' = [fdt EXCEPT ![data_fd] = IF @ \in DataKinds THEN "shut" ELSE @]
        /\ aborted' = TRUE
        /\ UNCHANGED <<pc, why>>
     \/ /\ Exit("ctrlClosed")
        /\ UNCHANGED <<abor_received, fdt, aborted>>
  /\ UNCHANGED <<envVars, cmd, port_addr, pasv_listen_fd, data_fd, data_process,
                 restart_pos, sigurg, alarm, localVars, replies, moved>>

-----------------------------------------------------------------------------
(* The command loop.                                                       *)

\* The bottom of the loop and its top: the idle alarm is armed again.
BackToIdle == pc' = "idle" /\ alarm' = AfterCmdioAlarm(alarm)

\* readline returns a command line; the locals of the last command are gone.
ReadCommand(c) ==
  /\ pc = "idle"
  /\ cmd' = c /\ pc' = "dispatch"
  /\ fd' = None /\ offset' = 0 /\ pos' = 0 /\ left' = 0 /\ flag' = 0 /\ ret' = 0
  /\ replies' = <<>> /\ aborted' = FALSE /\ moved' = 0
  /\ UNCHANGED <<envVars, why, sessVars, alarm, fdt>>

\* readline returns 0: the client closed the control connection.
CtrlEof ==
  /\ pc = "idle"
  /\ Exit("ctrlClosed")
  /\ UNCHANGED <<envVars, cmd, sessVars, alarm, fdt, localVars, ghostVars>>

DoQuit ==
  /\ pc = "dispatch" /\ cmd = "QUIT"
  /\ Reply("221") /\ Exit("quit")
  /\ UNCHANGED <<envVars, cmd, sessVars, alarm, fdt, localVars, aborted, moved>>

\* do_pass with the right password; a wrong one changes nothing but the reply.
DoPass ==
  /\ pc = "dispatch" /\ cmd = "PASS"
  /\ \/ sigurg' = TRUE /\ Reply("230")
     \/ Reply("530") /\ UNCHANGED sigurg
  /\ BackToIdle
  /\ UNCHANGED <<envVars, cmd, why, port_addr, pasv_listen_fd, data_fd,
                 data_process, abor_received, restart_pos, fdt, localVars,
                 aborted, moved>>

DoPort ==
  /\ pc = "dispatch" /\ cmd = "PORT"
  /\ port_addr' = TRUE
  /\ Reply("200") /\ BackToIdle
  /\ UNCHANGED <<envVars, cmd, why, pasv_listen_fd, data_fd, data_process,
                 abor_received, restart_pos, sigurg, fdt, localVars, aborted, moved>>

\* tcp_server takes a new descriptor; the old listener, if any, stays open.
\* Out of descriptors, it is ERR_EXIT.
DoPasv ==
  /\ pc = "dispatch" /\ cmd = "PASV"
  /\ \/ /\ Free # {}
        /\ pasv_listen_fd' = Lowest(Free)
        /\ fdt' = [fdt EXCEPT ![Lowest(Free)] = "listen"]
        /\ Reply("227") /\ BackToIdle
        /\ UNCHANGED why
     \/ /\ Free = {}
        /\ Exit("error")
        /\ UNCHANGED <<pasv_listen_fd, fdt, replies, alarm>>
  /\ UNCHANGED <<envVars, cmd, port_addr, data_fd, data_process, abor_received,
                 restart_pos, sigurg, localVars, aborted, moved>>

DoRest ==
  /\ pc = "dispatch" /\ cmd = "REST"
  /\ restart_pos' \in 0 .. Size + 1
  /\ Reply("350") /\ BackToIdle
  /\ UNCHANGED <<envVars, cmd, why, port_addr, pasv_listen_fd, data_fd,
                 data_process, abor_received, sigurg, fdt, localVars, aborted, moved>>

\* do_abor: an ABOR that reaches the command loop finds no transfer.
DoAbor ==
  /\ pc = "dispatch" /\ cmd = "ABOR"
  /\ Reply("225") /\ BackToIdle
  /\ UNCHANGED <<envVars, cmd, why, sessVars, fdt, localVars, aborted, moved>>

-----------------------------------------------------------------------------
(* get_transfer_fd.                                                        *)

\* port_active and pasv_active call each other when both addresses are set,
\* and neither call returns: the stack overflows.
BothActive == port_addr /\ pasv_listen_fd # None

Overflow ==
  /\ pc = "dispatch" /\ cmd \in Transfers /\ BothActive
  /\ Exit("overflow")
  /\ UNCHANGED <<envVars, cmd, sessVars, alarm, fdt, localVars, ghostVars>>

\* Neither: get_transfer_fd answers 425, and so does its caller.
NoTransferFd ==
  /\ pc = "dispatch" /\ cmd \in Transfers
  /\ ~port_addr /\ pasv_listen_fd = None
  /\ replies' = replies \o <<"425", "425">> /\ BackToIdle
  /\ UNCHANGED <<envVars, cmd, why, sessVars, fdt, localVars, aborted, moved>>

StartActive ==
  /\ pc = "dispatch" /\ cmd \in Transfers
  /\ port_addr /\ pasv_listen_fd = None
  /\ pc' = "connect"
  /\ UNCHANGED <<envVars, cmd, why, sessVars, alarm, fdt, localVars, ghostVars>>

StartPassive ==
  /\ pc = "dispatch" /\ cmd \in Transfers
  /\ ~port_addr /\ pasv_listen_fd # None
  /\ pc' = "accept"
  /\ UNCHANGED <<envVars, cmd, why, sessVars, alarm, fdt, localVars, ghostVars>>

\* The data connection is there: the data alarm is armed and the transfer
\* command goes on.
Connected(f, kinds) ==
  /\ data_fd' = f
  /\ fdt' = [kinds EXCEPT ![f] = "data"]
  /\ alarm' = AfterDataAlarm(alarm) /\ moved' = 0
  /\ pc' = "open"

\* get_port_fd: the nobody process connects and passes the descriptor, says
\* PRIV_SOCK_RESULT_BAD, or is gone (every priv_sock_ call then exits).
Connect ==
  /\ pc = "connect"
  /\ \/ /\ Free # {} /\ Connected(Lowest(Free), fdt)
        /\ port_addr' = FALSE
        /\ UNCHANGED <<why, replies>>
     \/ /\ port_addr' = FALSE
        /\ Reply("425") /\ BackToIdle
        /\ UNCHANGED <<why, data_fd, fdt, moved>>
     \/ /\ Exit("error")
        /\ UNCHANGED <<port_addr, data_fd, fdt, alarm, moved, replies>>
  /\ UNCHANGED <<envVars, cmd, pasv_listen_fd, data_process, abor_received,
                 restart_pos, sigurg, localVars, aborted>>

\* accept_timeout on pasv_listen_fd: a connection, after which the listener
\* is closed but its number kept; or -1 (timeout, not a listening socket, no
\* descriptor left), which keeps the listener.
Accept ==
  /\ pc = "accept"
  /\ \/ /\ Kind(pasv_listen_fd) = "listen" /\ Free # {}
        /\ Connected(Lowest(Free), [fdt EXCEPT ![pasv_listen_fd] = "free"])
        /\ UNCHANGED <<why, replies>>
     \/ /\ Reply("425") /\ BackToIdle
        /\ UNCHANGED <<why, data_fd, fdt, moved>>
  /\ UNCHANGED <<envVars, cmd, port_addr, pasv_listen_fd, data_process,
                 abor_received, restart_pos, sigurg, localVars, aborted>>

-----------------------------------------------------------------------------
(* Opening the file (do_retr, upload_common) or the listing (do_list).     *)

OpenVars == <<envVars, cmd, why, port_addr, pasv_listen_fd, data_fd,
              data_process, abor_received, sigurg, aborted>>

\* Every failure between the data connection and the 150 reply returns with
\* the data connection still open; after open, with the file open too.
OpenFails(fault, keepsFile) ==
  /\ pc = "open" /\ cmd # "LIST"
  /\ restart_pos' = 0 /\ offset' = restart_pos
  /\ IF keepsFile
       THEN /\ fault \in faults /\ Free # {}
            /\ fd' = Lowest(Free)
            /\ fdt' = [fdt EXCEPT ![Lowest(Free)] = "file"]
       ELSE /\ fault \in faults \/ Free = {}
            /\ UNCHANGED <<fd, fdt>>
  /\ Reply(IF cmd = "RETR" THEN "550" ELSE "553") /\ BackToIdle
  /\ UNCHANGED <<OpenVars, pos, left, flag, ret, moved>>

OpenFault == OpenFails("open", FALSE) \/ OpenFails("lock", TRUE) \/ OpenFails("seek", TRUE)

OpenFile ==
  /\ Free # {}
  /\ fd' = Lowest(Free)
  /\ fdt' = [fdt EXCEPT ![Lowest(Free)] = "file"]
  /\ restart_pos' = 0 /\ offset' = restart_pos

\* do_retr: from offset to the end; an offset beyond it sends nothing.
OpenRetr_FromStart ==
  /\ pc = "open" /\ cmd = "RETR" /\ OpenFile
  /\ pos' = 0
  /\ left' = IF restart_pos > Size THEN 0 ELSE Size - restart_pos
  /\ flag' = 0
  /\ Reply("150") /\ pc' = "send"
  /\ UNCHANGED <<OpenVars, alarm, ret, moved>>

OpenRetr_NoClamp ==
  /\ pc = "open" /\ cmd = "RETR" /\ OpenFile
  /\ pos' = restart_pos
  /\ left' = Size - restart_pos
  /\ flag' = 0
  /\ Reply("150") /\ pc' = "send"
  /\ UNCHANGED <<OpenVars, alarm, ret, moved>>

OpenRetr ==
  /\ pc = "open" /\ cmd = "RETR" /\ OpenFile
  /\ pos' = restart_pos
  /\ left' = IF restart_pos > Size THEN 0 ELSE Size - restart_pos
  /\ flag' = 0
  /\ Reply("150") /\ pc' = "send"
  /\ UNCHANGED <<OpenVars, alarm, ret, moved>>

\* upload_common: the position at which writing starts.  Size stands for the
\* end of the file that is there.
UploadStart(append, at) ==
  IF ~append /\ at = 0 THEN 0           \* STOR: truncate, seek to 0
  ELSE IF append /\ at # 0 THEN at      \* "REST+STOR"
  ELSE IF append THEN Size              \* APPE
  ELSE 0                                \* STOR after REST: no seek at all

OpenUpload ==
  /\ pc = "open" /\ cmd \in {"STOR", "APPE"} /\ OpenFile
  /\ pos' = UploadStart(cmd = "APPE", restart_pos)
  /\ left' = 0 /\ flag' = 0
  /\ Reply("150") /\ pc' = "recv"
  /\ alarm' = AfterDataAlarm(alarm) /\ moved' = 0
  /\ UNCHANGED <<OpenVars, ret>>

OpenList ==
  /\ pc = "open" /\ cmd = "LIST"
  /\ left' = Size
  /\ Reply("150") /\ pc' = "list"
  /\ UNCHANGED <<OpenVars, restart_pos, alarm, fdt, fd, offset, pos, flag, ret, moved>>

-----------------------------------------------------------------------------
(* The transfer loops.                                                     *)

LoopVars == <<envVars, cmd, port_addr, pasv_listen_fd, data_fd, abor_received,
              restart_pos, sigurg, alarm, fd, offset, replies, aborted>>

\* The client has sent (or taken) all it wants and closes its end.
PeerClose ==
  /\ InTransfer /\ data_fd # None
  /\ fdt[data_fd] = "data"
  /\ fdt' = [fdt EXCEPT ![data_fd] = "eof"]
  /\ UNCHANGED <<envVars, pc, cmd, why, sessVars, alarm, localVars, ghostVars>>

\* sendfile returns n, which is in ret until limit_rate has looked at it.
SendReturns(n) ==
  /\ ret' = n
  /\ moved' = IF n > 0 THEN moved + n ELSE moved
  /\ pc' = "sent"
  /\ UNCHANGED <<LoopVars, why, data_process, fdt, left>>

SendChunk ==
  /\ pc = "send" /\ left > 0 /\ pos < Size
  /\ Kind(data_fd) \in {"data", "eof"}
  /\ pos' = pos + 1
  /\ SendReturns(1) /\ UNCHANGED flag

\* sendfile fails without SIGPIPE (an error of the file or the network): the
\* loop goes on, and SendCheck adds one to what is left.
SendError ==
  /\ pc = "send" /\ left > 0 /\ left <= Size      \* the bound of left
  /\ "net" \in faults /\ Kind(data_fd) \in {"data", "eof"}
  /\ flag' = 2
  /\ SendReturns(-1) /\ UNCHANGED pos

\* At the end of the file, or of one truncated meanwhile, sendfile returns 0.
SendNothing ==
  /\ pc = "send" /\ left > 0
  /\ pos >= Size \/ "truncate" \in faults
  /\ SendReturns(0) /\ UNCHANGED <<pos, flag>>

\* Writing to a connection that is shut, or that the client has closed, raises
\* SIGPIPE, which nothing catches.
BrokenPipe ==
  /\ pc \in {"send", "list"} /\ left > 0
  /\ Kind(data_fd) \in {"eof", "shut"}
  /\ Exit("sigpipe")
  /\ UNCHANGED <<envVars, cmd, sessVars, alarm, fdt, localVars, ghostVars>>

\* limit_rate begins by recording progress, whatever the system call returned;
\* the pause it may make comes before the test of abor_received.
LimitRate_NoProgress ==
  /\ pc \in {"sent", "received"}
  /\ pc' = IF pc = "sent" THEN "sendCheck" ELSE "recvCheck"
  /\ UNCHANGED <<LoopVars, why, data_process, fdt, pos, left, flag, ret, moved>>

LimitRate ==
  /\ pc \in {"sent", "received"}
  /\ data_process' = TRUE
  /\ pc' = IF pc = "sent" THEN "sendCheck" ELSE "recvCheck"
  /\ UNCHANGED <<LoopVars, why, fdt, pos, left, flag, ret, moved>>

\* Its division is of integers: with a maximum rate of 0 a transfer that is
\* faster than 0 bytes a second ends the process by SIGFPE.
RateZero ==
  /\ pc \in {"sent", "received"} /\ ret # 0 /\ "rate" \in faults
  /\ Exit("sigfpe")
  /\ data_process' = TRUE
  /\ UNCHANGED <<LoopVars, fdt, pos, left, flag, ret, moved>>

\* An ABOR breaks the loop before what was sent is subtracted.
SendCheck ==
  /\ pc = "sendCheck"
  /\ \/ abor_received /\ flag' = 1 /\ pc' = "finish" /\ UNCHANGED left
     \/ ~abor_received /\ left' = left - ret /\ pc' = "send" /\ UNCHANGED flag
  /\ ret' = 0
  /\ UNCHANGED <<LoopVars, why, data_process, fdt, pos, moved>>

\* The loop ends with nothing left to send.
SendDone ==
  /\ pc = "send" /\ left = 0
  /\ flag' = 0 /\ pc' = "finish"
  /\ UNCHANGED <<LoopVars, why, data_process, fdt, pos, left, ret, moved>>

\* upload_common: read returns data, which a shut connection may still hold.
RecvChunk ==
  /\ pc = "recv" /\ left < Size
  /\ Kind(data_fd) \in DataKinds
  /\ left' = left + 1 /\ ret' = 1
  /\ moved' = moved + 1
  /\ pc' = "received"
  /\ UNCHANGED <<LoopVars, why, data_process, fdt, pos, flag>>

RecvEof ==
  /\ pc = "recv"
  /\ \/ Kind(data_fd) \in {"eof", "shut"} /\ flag' = 0
     \/ "net" \in faults /\ flag' = 1
  /\ pc' = "finish"
  /\ UNCHANGED <<LoopVars, why, data_process, fdt, pos, left, ret, moved>>

RecvCheck ==
  /\ pc = "recvCheck"
  /\ \/ abor_received /\ flag' = 1 /\ pc' = "finish" /\ UNCHANGED pos
     \/ ~abor_received /\ "disk" \in faults /\ flag' = 2 /\ pc' = "finish" /\ UNCHANGED pos
     \/ ~abor_received /\ pos' = pos + 1 /\ pc' = "recv" /\ UNCHANGED flag
  /\ ret' = 0
  /\ UNCHANGED <<LoopVars, why, data_process, fdt, left, moved>>

\* list_common writes entries without recording progress.
ListEntry ==
  /\ pc = "list" /\ left > 0
  /\ Kind(data_fd) \in {"data", "eof"}
  /\ left' = left - 1 /\ moved' = moved + 1
  /\ UNCHANGED <<LoopVars, pc, why, data_process, fdt, pos, flag, ret>>

\* The end of a loop closes the data connection; data_fd keeps the number until
\* the next statement, where Finish and ListDone go on.
CloseData ==
  /\ fdt' = [fdt EXCEPT ![data_fd] = "free"]
  /\ UNCHANGED <<LoopVars, why, data_process, pos, left, flag, ret, moved>>

LoopEnds == pc = "finish" /\ pc' = "closed" /\ CloseData
ListEnds == pc = "list" /\ pc' = "listClosed" /\ CloseData

ListDone_FdKept ==
  /\ pc = "listClosed"
  /\ Reply("226") /\ BackToIdle
  /\ UNCHANGED <<envVars, cmd, why, sessVars, fdt, localVars, aborted, moved>>

ListDone ==
  /\ pc = "listClosed"
  /\ data_fd' = None
  /\ Reply("226") /\ BackToIdle
  /\ UNCHANGED <<envVars, cmd, why, port_addr, pasv_listen_fd, data_process,
                 abor_received, restart_pos, sigurg, fdt, localVars, aborted, moved>>

\* The reply of do_retr and of upload_common to each outcome of the loop.
Verdict_Unguarded(c, f, abor) ==
  CASE f = 0 -> <<"226">>
    [] f = 1 -> <<IF c = "RETR" THEN "451" ELSE "426">>
    [] OTHER -> <<IF c = "RETR" THEN "426" ELSE "451">>
Verdict(c, f, abor) ==
  CASE f = 0 -> IF c = "RETR" /\ abor THEN <<>> ELSE <<"226">>
    [] f = 1 -> <<IF c = "RETR" THEN "451" ELSE "426">>
    [] OTHER -> <<IF c = "RETR" THEN "426" ELSE "451">>

\* The close of the file at the end of do_retr and upload_common.
CloseFile_Forgotten(kinds) == kinds
CloseFile(kinds) == [kinds EXCEPT ![fd] = "free"]

\* check_abor, after the replies already sent.
CheckAbor_Skipped(sent) == replies' = sent /\ UNCHANGED abor_received
CheckAbor(sent) ==
  /\ replies' = sent \o (IF abor_received THEN <<"226abor">> ELSE <<>>)
  /\ abor_received' = FALSE

\* data_fd = -1, from where on SIGURG does nothing; then close the file, answer,
\* check_abor, arm the idle alarm.
Finish ==
  /\ pc = "closed"
  /\ data_fd' = None
  /\ fdt' = CloseFile(fdt)
  /\ CheckAbor(replies \o Verdict(cmd, flag, abor_received))
  /\ BackToIdle
  /\ UNCHANGED <<envVars, cmd, why, port_addr, pasv_listen_fd, data_process,
                 restart_pos, sigurg, localVars, aborted, moved>>

-----------------------------------------------------------------------------
CommandStep ==
  DoQuit \/ DoPass \/ DoPort \/ DoPasv \/ DoRest \/ DoAbor
  \/ Overflow \/ NoTransferFd \/ StartActive \/ StartPassive

OpenStep == OpenFault \/ OpenRetr \/ OpenUpload \/ OpenList

LoopStep ==
  SendChunk \/ SendError \/ SendNothing \/ BrokenPipe \/ SendCheck \/ SendDone
  \/ RecvChunk \/ RecvEof \/ RecvCheck \/ LimitRate \/ RateZero
  \/ ListEntry \/ ListEnds \/ ListDone \/ LoopEnds \/ Finish

Process == CommandStep \/ Connect \/ Accept \/ OpenStep \/ LoopStep

Client == (\E c \in Commands : ReadCommand(c)) \/ CtrlEof \/ PeerClose

Signals == IdleTimeout \/ DataTimeout \/ SigUrg

Next == Process \/ Client \/ Signals

Spec == Init /\ [][Next]_vars

\* An armed alarm goes off and the process runs; nothing obliges the client.
FairSpec ==
  Spec /\ WF_vars(CommandStep \/ Connect \/ Accept \/ OpenStep)
       /\ WF_vars(LimitRate \/ SendCheck \/ SendDone \/ RecvEof \/ RecvCheck)
       /\ WF_vars(LoopEnds \/ Finish \/ ListDone)
       /\ WF_vars(IdleTimeout) /\ WF_vars(DataTimeout)

-----------------------------------------------------------------------------
(* Properties.                                                             *)

Codes == {"150", "200", "221", "225", "226", "226abor", "227", "230", "350",
          "421", "425", "426", "451", "530", "550", "553"}
Sent(code) == \E i \in DOMAIN replies : replies[i] = code

\* Type correctness of every variable.
TypeOK ==
  /\ faults \in FaultSets /\ tunable \in Tunables
  /\ pc \in {"idle", "dispatch", "connect", "accept", "open", "recv", "received",
             "recvCheck", "send", "sent", "sendCheck", "list", "finish", "closed",
             "listClosed", "exit"}
  /\ cmd \in Commands \cup {"none"}
  /\ why \in {"", "quit", "ctrlClosed", "error", "overflow", "sigpipe", "sigfpe",
              "idleTimeout", "dataTimeout"}
  /\ port_addr \in BOOLEAN /\ data_process \in BOOLEAN /\ abor_received \in BOOLEAN
  /\ sigurg \in BOOLEAN /\ aborted \in BOOLEAN /\ moved \in Nat
  /\ {pasv_listen_fd, data_fd, fd} \subseteq Fds \cup {None}
  /\ fdt \in [Fds -> DataKinds \cup {"free", "listen", "file"}]
  /\ alarm \in {"none", "cmdio", "data"}
  /\ restart_pos \in 0 .. Size + 1 /\ offset \in 0 .. Size + 1
  /\ pos \in 0 .. 2 * Size + 1 /\ left \in 0 .. Size + 1 /\ flag \in 0 .. 2
  /\ ret \in -1 .. 1
  /\ replies \in Seq(Codes)

\* data_fd, which handle_sigurg tests and shuts, never names the file, a listener
\* or anything else opened later, whatever fails and wherever SIGURG falls: it is
\* -1 or an open data socket.  Between close(data_fd) and data_fd = -1 it names a
\* descriptor that is closed and not yet handed out again, so that the shutdown
\* of a late ABOR meets nothing.  And a transfer never runs without one.
DataFdValid ==
  /\ Running /\ data_fd # None =>
       \/ Kind(data_fd) \in DataKinds
       \/ Kind(data_fd) = "free" /\ pc \in {"closed", "listClosed"}
  /\ InTransfer => data_fd # None

\* "226 Transfer complete." after a RETR means that the client did not abort it
\* and that the file was sent up to its end from the restart position, whatever
\* sendfile returned on the way.
RetrComplete ==
  cmd = "RETR" /\ Sent("226") =>
    ~aborted /\ (pc = "idle" => left = 0 /\ pos >= Size)

\* Between two commands nothing of a transfer is left: no data socket and no
\* file, if nothing failed on the way; and never the data timer, which would end
\* a session that waits for a command, unless there is no idle timeout to take
\* its place.
IdleHoldsNothing ==
  pc = "idle" =>
    /\ faults = {} => \A f \in Fds : fdt[f] \in {"free", "listen"}
    /\ alarm = "data" => ~tunable.idle

\* An ABOR during a RETR, STOR or APPE is acknowledged before the next command
\* is read, and leaves nothing behind for the next transfer, if nothing else
\* fails (do_list has no check_abor: AborOkOnlyIfAborted).
AborSettled ==
  (pc = "idle" /\ cmd # "LIST" /\ aborted /\ faults = {}) =>
    /\ ~abor_received
    /\ replies # <<>> /\ replies[Len(replies)] = "226abor"

Ends(reason) == why = "" /\ why' = reason

\* The idle timer never ends a transfer, for any setting of the two timeouts.
NoIdleKillInTransfer == [][Ends("idleTimeout") => ~InTransfer]_vars

\* The chunk that sendfile or read has moved and limit_rate has not recorded yet.
Unrecorded == IF pc \in {"sent", "received"} /\ ret > 0 THEN 1 ELSE 0

\* The data timer ends a RETR, STOR or APPE only if no data moved since it was
\* armed, but for one chunk at most: the one whose system call has returned when
\* SIGALRM falls before limit_rate sets data_process (which list_common never
\* sets).  All that earlier turns of the loop moved is seen.
DataTimeoutOnlyWhenStalled ==
  [][Ends("dataTimeout") /\ InTransfer /\ cmd # "LIST" => moved <= Unrecorded]_vars

\* With a data timeout a transfer ends, whatever the client does or stops doing,
\* if nothing fails: a file truncated meanwhile keeps the loop of do_retr going,
\* since limit_rate records progress when sendfile returns 0.
TransferEnds == (InTransfer /\ tunable.data /\ faults = {}) ~> ~InTransfer

\* The program's own words, which the runs refute.

\* "both port and pasv are active." ends the process by exit (port_active and
\* pasv_active), not by a stack overflow.
NoOverflow == why # "overflow"

\* "Transfer complete." is not the answer to an upload the client aborted.
UploadCompleteNotAborted == (cmd \in {"STOR", "APPE"} /\ aborted) => ~Sent("226")

\* "ABOR successful." answers an ABOR that arrived during this transfer.
AborOkOnlyIfAborted == Sent("226abor") => aborted
=============================================================================
