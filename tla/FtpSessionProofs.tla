-------------------------- MODULE FtpSessionProofs --------------------------
(***************************************************************************)
(* Theorems about one session process, for every descriptor table, file    *)
(* size, set of commands, set of faults and setting of the timers.         *)
(*                                                                         *)
(* The invariants hold at every point of the command loop and between any  *)
(* two steps of a handler, since SIGALRM and SIGURG may run there.         *)
(***************************************************************************)
EXTENDS FtpSession, SequenceTheorems, FiniteSetTheorems, WellFoundedInduction, TLAPS

Sending == {"send", "sent", "sendCheck"}
Receiving == {"recv", "received", "recvCheck"}
Looping == Sending \cup Receiving \cup {"finish", "list"}
WithFile == Sending \cup Receiving \cup {"finish", "closed"}
Closing == {"closed", "listClosed"}

\* The place in the code tells the command, and bounds the counts of the loops.
Course ==
  /\ pc \in {"connect", "accept", "open"} => cmd \in Transfers
  /\ pc \in Sending => cmd = "RETR"
  /\ pc \in Receiving => cmd \in {"STOR", "APPE"} /\ left <= Size
  /\ pc \in {"finish", "closed"} => cmd \in {"RETR", "STOR", "APPE"}
  /\ pc \in {"list", "listClosed"} => cmd = "LIST"
  /\ pc = "recv" => pos <= Size + 1 + left
  /\ pc \in {"received", "recvCheck"} => pos <= Size + left

\* data_fd is None, an open data socket, or just closed; a transfer past its 150
\* has its file open as well, under another number.
Sockets ==
  /\ DataFdValid
  /\ pc \in Closing => Kind(data_fd) = "free"
  /\ pc \in WithFile => fd # None /\ fd # data_fd /\ Kind(fd) = "file"
  /\ pc \in {"dispatch", "connect", "accept", "open", "list", "listClosed"} => fd = None

\* What the loop of do_retr has sent, and what its verdict will rest on; between
\* sendfile and the end of the turn ret is still to be subtracted.
Progress ==
  /\ pc = "send" => pos + left >= Size
  /\ pc \in {"sent", "sendCheck"} =>
       pos + (left - ret) >= Size /\ left - ret \in 0 .. Size + 1
  /\ (pc \in {"finish", "closed"} /\ cmd = "RETR" /\ flag = 0) => left = 0 /\ pos >= Size
  /\ aborted => abor_received \/ pc \in {"idle", "exit"}
  /\ (cmd = "RETR" /\ Sent("226")) =>
       /\ pc \in {"idle", "exit"} /\ data_fd = None /\ ~aborted
       /\ left = 0 /\ pos >= Size

\* Which timer may be armed, and what it will find.
Timers ==
  /\ alarm = "cmdio" => tunable.idle /\ ~InTransfer
  /\ (tunable.idle /\ pc = "idle") => alarm = "cmdio"
  /\ (InTransfer /\ cmd # "LIST" /\ ~data_process) => moved <= Unrecorded

SInv == TypeOK /\ Course /\ Sockets /\ Progress /\ Timers

\* While nothing fails: what is in the descriptor table besides listeners belongs
\* to the transfer, and there is a descriptor for its file.
Tidy ==
  (faults = {} /\ Running) =>
    /\ \A f \in Fds : fdt[f] \in {"free", "listen"} \/ (InTransfer /\ f \in {data_fd, fd})
    /\ ~InTransfer => data_fd = None
    /\ pc \in {"dispatch", "connect", "accept"} => ~aborted
    /\ pasv_listen_fd = None => \A f \in Fds : fdt[f] # "listen"
    /\ pc = "connect" => pasv_listen_fd = None
    /\ pc = "open" => Free # {}

TInv == SInv /\ Tidy /\ AborSettled

-----------------------------------------------------------------------------
(* The helpers.                                                            *)

\* The kernel hands out a descriptor that is free.
LEMMA LowestFree ==
  ASSUME Free # {}
  PROVE  Lowest(Free) \in Fds /\ fdt[Lowest(Free)] = "free"
<1>1. Free \subseteq Nat
  BY FdsAssumption DEF Free
<1>2. PICK f \in Free : \A g \in Free : ~ (<<g, f>> \in OpToRel(<, Nat))
  BY <1>1, NatLessThanWellFounded, WFMin
<1>3. \A g \in Nat : g < f => <<g, f>> \in OpToRel(<, Nat)
  BY <1>1 DEF OpToRel
<1>4. \A g \in Free : f <= g
  <2> TAKE g \in Free
  <2>1. f \in Nat /\ g \in Nat /\ ~(g < f)
    BY <1>1, <1>2, <1>3
  <2> QED BY <2>1
<1>5. Lowest(Free) \in Free
  BY <1>4 DEF Lowest
<1> QED BY <1>5 DEF Free

\* A reply adds its code and no other.
LEMMA Replying ==
  ASSUME replies \in Seq(Codes), NEW code \in Codes, Reply(code)
  PROVE  /\ replies' \in Seq(Codes)
         /\ \A c \in Codes \ {code} : Sent(c)' <=> Sent(c)
<1>1. /\ replies' \in Seq(Codes) /\ Len(replies) \in Nat
      /\ DOMAIN replies = 1 .. Len(replies) /\ DOMAIN replies' = 1 .. Len(replies) + 1
      /\ \A i \in 1 .. Len(replies) : replies'[i] = replies[i]
      /\ replies'[Len(replies) + 1] = code
  BY AppendProperties, LenProperties DEF Reply
<1> QED BY <1>1 DEF Sent

FlagTypes ==
  /\ port_addr \in BOOLEAN /\ data_process \in BOOLEAN /\ abor_received \in BOOLEAN
  /\ sigurg \in BOOLEAN /\ aborted \in BOOLEAN

LEMMA Zeros == 0 \in 0 .. Size + 1 /\ 0 \in 0 .. 2 * Size + 1 /\ 0 \in 0 .. 2 /\ 0 \in -1 .. 1 /\ 0 \in Nat
  BY SizeAssumption

\* Several replies at once.
Among(c, s) == \E i \in DOMAIN s : s[i] = c

LEMMA Joined ==
  ASSUME NEW s \in Seq(Codes), NEW t \in Seq(Codes)
  PROVE  /\ s \o t \in Seq(Codes)
         /\ \A c : Among(c, s \o t) <=> Among(c, s) \/ Among(c, t)
         /\ t # <<>> => s \o t # <<>> /\ (s \o t)[Len(s \o t)] = t[Len(t)]
<1> DEFINE st == s \o t
<1>1. /\ st \in Seq(Codes) /\ Len(s) \in Nat /\ Len(t) \in Nat
      /\ DOMAIN s = 1 .. Len(s) /\ DOMAIN t = 1 .. Len(t)
      /\ Len(st) = Len(s) + Len(t)
      /\ DOMAIN st = 1 .. Len(s) + Len(t)
      /\ \A i \in 1 .. Len(s) : st[i] = s[i]
      /\ \A i \in 1 .. Len(t) : st[Len(s) + i] = t[i]
      /\ t # <<>> => Len(t) # 0
  BY ConcatProperties, LenProperties, EmptySeq
<1> HIDE DEF st
<1>2. ASSUME NEW c PROVE Among(c, st) <=> Among(c, s) \/ Among(c, t)
  <2>1. ASSUME Among(c, st) PROVE Among(c, s) \/ Among(c, t)
    <3>1. PICK i \in 1 .. Len(s) + Len(t) : st[i] = c
      BY <1>1, <2>1 DEF Among
    <3>2. CASE i <= Len(s)
      BY <1>1, <3>1, <3>2, SMTT(30) DEF Among
    <3>3. CASE i > Len(s)
      <4>1. i - Len(s) \in 1 .. Len(t) /\ Len(s) + (i - Len(s)) = i
        BY <1>1, <3>3
      <4> QED BY <1>1, <3>1, <4>1 DEF Among
    <3> QED BY <1>1, <3>2, <3>3
  <2>2. ASSUME NEW i \in DOMAIN t, t[i] = c PROVE Among(c, st)
    <3>1. Len(s) + i \in 1 .. Len(s) + Len(t)
      BY <1>1
    <3> QED BY <1>1, <2>2, <3>1 DEF Among
  <2>3. Among(c, s) => Among(c, st)
    BY <1>1 DEF Among
  <2> QED BY <2>1, <2>2, <2>3 DEF Among
<1>3. t # <<>> => st # <<>> /\ st[Len(st)] = t[Len(t)]
  <2> SUFFICES ASSUME t # <<>> PROVE st # <<>> /\ st[Len(st)] = t[Len(t)]
    OBVIOUS
  <2>1. Len(t) \in 1 .. Len(t) /\ Len(st) # 0
    BY <1>1
  <2> QED BY <1>1, <2>1, EmptySeq
<1> QED BY <1>1, <1>2, <1>3 DEF st

-----------------------------------------------------------------------------
(* The command loop.                                                       *)

\* The replies that the dispatch and the ends of a transfer add.
Ctl == DoQuit \/ DoPass \/ DoPort \/ DoPasv \/ DoRest \/ DoAbor

LEMMA CtlInv ==
  ASSUME SInv, Ctl
  PROVE  SInv'
<1>1. /\ pc = "dispatch" /\ pc' \in {"idle", "exit"}
      /\ UNCHANGED <<faults, tunable, cmd, data_fd, fd, left, pos, flag, ret, moved, aborted,
                     data_process, abor_received, offset>>
      /\ why' \in {why, "quit", "error"}
      /\ alarm' = IF pc' = "idle" THEN AfterCmdioAlarm(alarm) ELSE alarm
      /\ port_addr' \in {TRUE, port_addr} /\ sigurg' \in {TRUE, sigurg}
      /\ restart_pos' \in (0 .. Size + 1) \cup {restart_pos}
      /\ \/ Reply("221") \/ Reply("230") \/ Reply("530") \/ Reply("200") \/ Reply("227")
         \/ Reply("350") \/ Reply("225") \/ UNCHANGED replies
      /\ \/ UNCHANGED <<fdt, pasv_listen_fd>>
         \/ /\ Free # {} /\ pasv_listen_fd' = Lowest(Free)
            /\ fdt' = [fdt EXCEPT ![Lowest(Free)] = "listen"]
  BY DEF Ctl, DoQuit, DoPass, DoPort, DoPasv, DoRest, DoAbor, BackToIdle, Exit,
         sessVars, envVars, localVars
<1>2. /\ replies' \in Seq(Codes)
      /\ Sent("226")' <=> Sent("226")
  <2>1. {"221", "230", "530", "200", "227", "350", "225"} \subseteq Codes \ {"226"} /\ "226" \in Codes
    BY DEF Codes
  <2>2. CASE UNCHANGED replies
    BY <2>2 DEF SInv, TypeOK, Sent
  <2> QED BY <1>1, <2>1, <2>2, Replying DEF SInv, TypeOK
<1>3. /\ fdt' \in [Fds -> DataKinds \cup {"free", "listen", "file"}]
      /\ pasv_listen_fd' \in Fds \cup {None}
      /\ \A f \in Fds : fdt[f] # "free" => fdt'[f] = fdt[f]
  BY <1>1, LowestFree DEF SInv, TypeOK
<1>4. TypeOK'
  <2>1. alarm' \in {"none", "cmdio", "data"}
    BY <1>1 DEF SInv, TypeOK, AfterCmdioAlarm
  <2>2. restart_pos' \in 0 .. Size + 1 /\ port_addr' \in BOOLEAN /\ sigurg' \in BOOLEAN
    BY <1>1 DEF SInv, TypeOK
  <2>3. FlagTypes'
    BY <1>1, <2>2 DEF SInv, TypeOK, FlagTypes
  <2> QED BY <1>1, <1>2, <1>3, <2>1, <2>2, <2>3, ZenonT(60) DEF SInv, TypeOK, FlagTypes
<1>5. Course'
  BY <1>1 DEF SInv, Course, Sending, Receiving
<1>6. Sockets'
  BY <1>1, <1>3 DEF SInv, Sockets, DataFdValid, TypeOK, InTransfer, WithFile, Sending, Receiving, Kind, DataKinds, Running, Closing
<1>7. Progress'
  BY <1>1, <1>2 DEF SInv, Progress, Sending
<1>8. Timers'
  BY <1>1 DEF SInv, Timers, InTransfer, AfterCmdioAlarm, Unrecorded
<1> QED BY <1>4, <1>5, <1>6, <1>7, <1>8 DEF SInv

LEMMA ReadCommandInv ==
  ASSUME SInv, NEW c \in Commands, ReadCommand(c)
  PROVE  SInv'
<1> USE DEF ReadCommand, envVars, sessVars
<1>1. <<>> \in Seq(Codes) /\ ~Sent("226")'
  BY EmptySeq DEF Sent
<1>2. TypeOK'
  BY <1>1, Zeros DEF SInv, TypeOK
<1>3. Course' /\ Sockets' /\ Progress' /\ Timers'
  BY <1>1 DEF SInv, Course, Sockets, Progress, Timers, Sending, Receiving, WithFile, InTransfer,
              DataFdValid, Kind, Running, Closing, Unrecorded
<1> QED BY <1>2, <1>3 DEF SInv

\* get_transfer_fd before it has a descriptor.
LEMMA TransferFdInv ==
  ASSUME SInv, Overflow \/ StartActive \/ StartPassive
  PROVE  SInv'
<1> USE DEF Overflow, StartActive, StartPassive, Exit, envVars, sessVars, localVars, ghostVars
<1>1. TypeOK'
  <2>1. FlagTypes'
    BY DEF SInv, TypeOK, FlagTypes
  <2> QED BY <2>1 DEF SInv, TypeOK, FlagTypes
<1>2. Course' /\ Sockets' /\ Progress' /\ Timers'
  BY DEF SInv, Course, Sockets, Progress, Timers, Sending, Receiving, WithFile, InTransfer,
         DataFdValid, Kind, Sent, Running, Closing, Unrecorded
<1> QED BY <1>1, <1>2 DEF SInv

LEMMA NoTransferFdInv ==
  ASSUME SInv, NoTransferFd
  PROVE  SInv'
<1> USE DEF NoTransferFd, BackToIdle, AfterCmdioAlarm, envVars, sessVars, localVars
<1>1. replies' \in Seq(Codes) /\ (Sent("226")' <=> Sent("226"))
  <2> DEFINE more == <<"425", "425">>
  <2>1. more \in Seq(Codes) /\ \A i \in DOMAIN more : more[i] = "425"
    BY DEF Codes
  <2>2. replies' = replies \o more
    OBVIOUS
  <2> HIDE DEF more
  <2>3. replies \in Seq(Codes)
    BY DEF SInv, TypeOK
  <2>4. replies' \in Seq(Codes) /\ (Sent("226")' <=> Sent("226") \/ Among("226", more))
    <3>1. Among("226", replies \o more) <=> Among("226", replies) \/ Among("226", more)
      BY <2>1, <2>3, Joined
    <3>2. replies \o more \in Seq(Codes)
      BY <2>1, <2>3, Joined
    <3>3. Sent("226") <=> Among("226", replies)
      BY DEF Sent, Among
    <3>4. Sent("226")' <=> Among("226", replies \o more)
      BY <2>2 DEF Sent, Among
    <3> QED BY <2>2, <3>1, <3>2, <3>3, <3>4
  <2>5. ~Among("226", more)
    BY <2>1 DEF Among
  <2> QED BY <2>4, <2>5
<1>2. TypeOK'
  <2>1. alarm' \in {"none", "cmdio", "data"}
    BY DEF SInv, TypeOK
  <2> QED BY <1>1, <2>1 DEF SInv, TypeOK
<1>3. Course' /\ Sockets' /\ Progress' /\ Timers'
  BY <1>1 DEF SInv, Course, Sockets, Progress, Timers, Sending, Receiving, WithFile, InTransfer,
         DataFdValid, Kind, Running, Closing, Unrecorded
<1> QED BY <1>2, <1>3 DEF SInv

\* The end of the process leaves everything as it is.
LEMMA CtrlEofInv ==
  ASSUME SInv, CtrlEof
  PROVE  SInv'
<1> USE DEF CtrlEof, Exit, envVars, sessVars, localVars, ghostVars
<1>1. TypeOK'
  BY DEF SInv, TypeOK
<1>2. Course' /\ Sockets' /\ Progress' /\ Timers'
  BY DEF SInv, Course, Sockets, Progress, Timers, Sending, Receiving, WithFile, InTransfer,
         DataFdValid, Kind, Sent, Running, Closing, Unrecorded
<1> QED BY <1>1, <1>2 DEF SInv

-----------------------------------------------------------------------------
(* The data connection.                                                    *)

\* The descriptor of a new connection was free, so that nothing that is kept has
\* its number.
LEMMA ConnectedInv ==
  ASSUME SInv, pc \in {"connect", "accept"}, Free # {}, NEW kinds,
         kinds = fdt \/ (Kind(pasv_listen_fd) = "listen" /\ kinds = [fdt EXCEPT ![pasv_listen_fd] = "free"]),
         Connected(Lowest(Free), kinds), port_addr' \in {FALSE, port_addr},
         UNCHANGED <<why, replies, envVars, cmd, pasv_listen_fd, data_process, abor_received,
                     restart_pos, sigurg, localVars, aborted>>
  PROVE  SInv'
<1> USE DEF Connected, envVars, localVars
<1>1. /\ Lowest(Free) \in Fds /\ data_fd' = Lowest(Free) /\ pc' = "open" /\ fd = None
      /\ moved' = 0 /\ alarm' = AfterDataAlarm(alarm)
  BY LowestFree DEF SInv, Sockets, Closing
<1>2. fdt' \in [Fds -> DataKinds \cup {"free", "listen", "file"}] /\ fdt'[data_fd'] = "data"
  BY <1>1 DEF SInv, TypeOK, DataKinds
<1>3. alarm' \in {"none", "data"}
  BY <1>1 DEF SInv, TypeOK, Timers, AfterDataAlarm, Unrecorded
<1>4. ~Sent("226") \/ cmd # "RETR"
  BY DEF SInv, Progress
<1>5. TypeOK'
  <2>1. FlagTypes'
    BY <1>1 DEF SInv, TypeOK, FlagTypes
  <2> QED BY <1>1, <1>2, <1>3, <2>1, Zeros DEF SInv, TypeOK, FlagTypes
<1>6. Course' /\ Timers' /\ Progress'
  BY <1>1, <1>3, <1>4 DEF SInv, Course, Progress, Timers, Sending, Receiving, InTransfer, Sent, Unrecorded
<1>7. Sockets'
  BY <1>1, <1>2, FdsAssumption DEF SInv, Sockets, WithFile, Sending, Receiving, DataFdValid, Kind, DataKinds, None, Running, Closing
<1> QED BY <1>5, <1>6, <1>7 DEF SInv

LEMMA ConnectInv ==
  ASSUME SInv, Connect \/ Accept
  PROVE  SInv'
<1>1. CASE pc' = "open"
  <2>1. Free # {} /\ port_addr' \in {FALSE, port_addr}
        /\ UNCHANGED <<why, replies, envVars, cmd, pasv_listen_fd, data_process, abor_received,
                       restart_pos, sigurg, localVars, aborted>>
    BY <1>1 DEF Connect, Accept, BackToIdle, Exit
  <2>2. CASE Connected(Lowest(Free), fdt)
    BY <2>1, <2>2, ConnectedInv DEF Connect, Accept
  <2>3. CASE /\ Kind(pasv_listen_fd) = "listen"
             /\ Connected(Lowest(Free), [fdt EXCEPT ![pasv_listen_fd] = "free"])
    BY <2>1, <2>3, ConnectedInv DEF Connect, Accept
  <2> QED BY <1>1, <2>2, <2>3 DEF Connect, Accept, BackToIdle, Exit
<1>2. CASE pc' # "open"
  <2>1. /\ \/ pc' = "idle" /\ Reply("425") /\ alarm' = AfterCmdioAlarm(alarm) /\ moved' = moved /\ why' = why
           \/ pc' = "exit" /\ why' = "error" /\ UNCHANGED <<alarm, moved, replies>>
        /\ port_addr' \in {FALSE, port_addr} /\ pc \in {"connect", "accept"}
        /\ UNCHANGED <<faults, tunable, cmd, pasv_listen_fd, data_process, abor_received, restart_pos, sigurg,
                       fd, offset, pos, left, flag, ret, aborted, data_fd, fdt>>
    BY <1>2 DEF Connect, Accept, Connected, BackToIdle, Exit, envVars, localVars
  <2>2. alarm' \in {"none", "cmdio", "data"}
    BY <2>1 DEF SInv, TypeOK, AfterCmdioAlarm
  <2>3. replies' \in Seq(Codes) /\ (Sent("226")' <=> Sent("226"))
    <3>1. "425" \in Codes \ {"226"} /\ "226" \in Codes
      BY DEF Codes
    <3>2. CASE UNCHANGED replies
      BY <3>2 DEF SInv, TypeOK, Sent
    <3> QED BY <2>1, <3>1, <3>2, Replying DEF SInv, TypeOK
  <2>4. TypeOK'
    BY <2>1, <2>2, <2>3 DEF SInv, TypeOK
  <2>5. Course' /\ Sockets' /\ Progress'
    BY <2>1, <2>3 DEF SInv, Course, Sockets, Progress, Sending, Receiving, WithFile, InTransfer, DataFdValid, Kind, Running, Closing
  <2>6. Timers'
    BY <2>1 DEF SInv, Timers, InTransfer, AfterCmdioAlarm, Unrecorded
  <2> QED BY <2>4, <2>5, <2>6 DEF SInv
<1> QED BY <1>1, <1>2

-----------------------------------------------------------------------------
(* Opening.                                                                *)

\* Whatever fails, the data connection stays valid.
LEMMA OpenFaultInv ==
  ASSUME SInv, OpenFault
  PROVE  SInv'
<1>1. /\ pc = "open" /\ cmd # "LIST" /\ pc' = "idle" /\ alarm' = AfterCmdioAlarm(alarm)
      /\ restart_pos' = 0 /\ offset' = restart_pos
      /\ Reply("550") \/ Reply("553")
      /\ \/ Free # {} /\ fd' = Lowest(Free) /\ fdt' = [fdt EXCEPT ![Lowest(Free)] = "file"]
         \/ UNCHANGED <<fd, fdt>>
      /\ UNCHANGED <<faults, tunable, cmd, why, port_addr, pasv_listen_fd, data_fd, data_process,
                     abor_received, sigurg, aborted, pos, left, flag, ret, moved>>
  BY DEF OpenFault, OpenFails, BackToIdle, OpenVars, envVars
<1>2. replies' \in Seq(Codes) /\ (Sent("226")' <=> Sent("226"))
  <2>1. {"550", "553"} \subseteq Codes \ {"226"} /\ "226" \in Codes
    BY DEF Codes
  <2> QED BY <1>1, <2>1, Replying DEF SInv, TypeOK
<1>3. /\ fdt' \in [Fds -> DataKinds \cup {"free", "listen", "file"}]
      /\ fd' \in Fds \cup {None}
      /\ \A f \in Fds : fdt[f] # "free" => fdt'[f] = fdt[f]
  BY <1>1, LowestFree DEF SInv, TypeOK
<1>4. alarm' \in {"none", "cmdio", "data"}
  BY <1>1 DEF SInv, TypeOK, AfterCmdioAlarm
<1>5. TypeOK'
  <2>1. FlagTypes'
    BY <1>1 DEF SInv, TypeOK, FlagTypes
  <2> QED BY <1>1, <1>2, <1>3, <1>4, <2>1, Zeros, ZenonT(60) DEF SInv, TypeOK, FlagTypes
<1>6. Course' /\ Progress'
  BY <1>1, <1>2 DEF SInv, Course, Progress, Sending, Receiving
<1>7. Sockets'
  BY <1>1, <1>3 DEF SInv, TypeOK, Sockets, WithFile, Sending, Receiving, InTransfer, DataFdValid, Kind, DataKinds, Running, Closing
<1>8. Timers'
  BY <1>1 DEF SInv, Timers, InTransfer, AfterCmdioAlarm, Unrecorded
<1> QED BY <1>5, <1>6, <1>7, <1>8 DEF SInv

LEMMA StartBounds ==
  ASSUME NEW p \in 0 .. Size + 1, NEW l \in 0 .. Size
  PROVE  l <= Size /\ p <= Size + 1 + l
BY SizeAssumption

\* The file gets another descriptor than the data connection has.
LEMMA OpenedInv ==
  ASSUME SInv, OpenFile, pc = "open", Reply("150"), flag' = 0,
         pc' = IF cmd = "RETR" THEN "send" ELSE "recv",
         cmd # "LIST", pos' \in 0 .. Size + 1, left' \in 0 .. Size,
         cmd = "RETR" => pos' + left' >= Size,
         alarm' \in {alarm, AfterDataAlarm(alarm)}, moved' \in {moved, 0}, ret' = ret,
         UNCHANGED OpenVars
  PROVE  SInv'
<1>1. /\ Free # {} /\ fd' = Lowest(Free) /\ fdt' = [fdt EXCEPT ![Lowest(Free)] = "file"]
      /\ restart_pos' = 0 /\ offset' = restart_pos
      /\ UNCHANGED <<faults, tunable, cmd, why, port_addr, pasv_listen_fd, data_fd, data_process,
                     abor_received, sigurg, aborted>>
  BY DEF OpenFile, OpenVars, envVars
<1>2. replies' \in Seq(Codes) /\ (Sent("226")' <=> Sent("226"))
  <2>1. {"150"} \subseteq Codes \ {"226"} /\ "226" \in Codes
    BY DEF Codes
  <2> QED BY <2>1, Replying DEF SInv, TypeOK
<1>3. /\ fdt' \in [Fds -> DataKinds \cup {"free", "listen", "file"}]
      /\ fd' \in Fds /\ fdt[fd'] = "free" /\ fdt'[fd'] = "file"
      /\ \A f \in Fds : fdt[f] # "free" => fdt'[f] = fdt[f]
  BY <1>1, LowestFree DEF SInv, TypeOK
<1>4. alarm' \in {"none", "data"} /\ moved' \in Nat
  BY Zeros DEF SInv, TypeOK, AfterDataAlarm, Timers, InTransfer, Unrecorded
<1>5. cmd \in {"RETR", "STOR", "APPE"}
  BY DEF SInv, Course, Transfers
<1>6. TypeOK'
  <2>1. pos' \in 0 .. 2 * Size + 1 /\ left' \in 0 .. Size + 1
    BY SizeAssumption
  <2>2. FlagTypes'
    BY <1>1 DEF SInv, TypeOK, FlagTypes
  <2> QED BY <1>1, <1>2, <1>3, <1>4, <2>1, <2>2, Zeros, ZenonT(60) DEF SInv, TypeOK, FlagTypes
<1>7. Course'
  <2>1. left' <= Size /\ pos' <= Size + 1 + left'
    BY StartBounds
  <2> QED BY <1>1, <1>5, <2>1 DEF SInv, Course, Sending, Receiving
<1>8. Progress'
  BY <1>1, <1>2, <1>5 DEF SInv, Progress, Sending
<1>9. Sockets'
  <2>1. data_fd \in Fds /\ Kind(data_fd) \in DataKinds /\ Kind(data_fd) # "free"
    BY FdsAssumption DEF SInv, TypeOK, Sockets, InTransfer, DataFdValid, Kind, DataKinds, Running, Closing
  <2>2. fd' # data_fd /\ Kind(data_fd)' = Kind(data_fd) /\ Kind(fd)' = "file" /\ fd' # None /\ data_fd # None
    BY <1>1, <1>3, <2>1, FdsAssumption DEF Kind, None
  <2> QED BY <1>1, <2>1, <2>2 DEF Sockets, DataFdValid, Running, Closing, WithFile, Sending, Receiving,
                                  InTransfer
<1>10. Timers'
  BY <1>1, <1>4 DEF SInv, Timers, InTransfer, Unrecorded
<1> QED BY <1>6, <1>7, <1>8, <1>9, <1>10 DEF SInv

LEMMA OpenRetrInv ==
  ASSUME SInv, OpenRetr
  PROVE  SInv'
<1> USE DEF OpenRetr
<1>1. restart_pos \in 0 .. Size + 1 /\ pos' = restart_pos
      /\ left' = IF restart_pos > Size THEN 0 ELSE Size - restart_pos
  BY DEF SInv, TypeOK
<1>2. pos' \in 0 .. Size + 1 /\ left' \in 0 .. Size /\ pos' + left' >= Size
  BY <1>1, SizeAssumption
<1> QED BY <1>2, OpenedInv

LEMMA OpenUploadInv ==
  ASSUME SInv, OpenUpload
  PROVE  SInv'
<1> USE DEF OpenUpload
<1>1. restart_pos \in 0 .. Size + 1 /\ pos' \in {0, restart_pos, Size} /\ left' = 0
  BY DEF SInv, TypeOK, UploadStart
<1>2. pos' \in 0 .. Size + 1 /\ left' \in 0 .. Size
  BY <1>1, SizeAssumption
<1> QED BY <1>2, OpenedInv

LEMMA OpenListInv ==
  ASSUME SInv, OpenList
  PROVE  SInv'
<1> USE DEF OpenList, OpenVars, envVars
<1>1. replies' \in Seq(Codes) /\ (Sent("226")' <=> Sent("226"))
  <2>1. {"150"} \subseteq Codes \ {"226"} /\ "226" \in Codes
    BY DEF Codes
  <2> QED BY <2>1, Replying DEF SInv, TypeOK
<1>2. TypeOK'
  <2>1. Size \in 0 .. Size + 1
    BY SizeAssumption
  <2> QED BY <1>1, <2>1 DEF SInv, TypeOK
<1>3. Course' /\ Sockets' /\ Progress' /\ Timers'
  BY <1>1 DEF SInv, Course, Sockets, Progress, Timers, Sending, Receiving, WithFile, InTransfer,
         DataFdValid, Kind, Running, Closing, Unrecorded
<1> QED BY <1>2, <1>3 DEF SInv

-----------------------------------------------------------------------------
(* The loops.  Their steps leave the descriptors, the replies and the      *)
(* command alone.                                                          *)

LEMMA LoopInv ==
  ASSUME SInv, UNCHANGED LoopVars, UNCHANGED <<why, fdt>>,
         pc \in Looping, pc' \in Looping,
         Course', data_process' \in BOOLEAN, moved' \in Nat, ret' \in -1 .. 1,
         pos' \in 0 .. 2 * Size + 1, left' \in 0 .. Size + 1, flag' \in 0 .. 2,
         pc' = "send" => pos' + left' >= Size,
         pc' \in {"sent", "sendCheck"} =>
           pos' + (left' - ret') >= Size /\ left' - ret' \in 0 .. Size + 1,
         (pc' = "finish" /\ cmd = "RETR" /\ flag' = 0) => left' = 0 /\ pos' >= Size,
         pc' = "list" <=> pc = "list",
         (cmd # "LIST" /\ ~data_process') => moved' <= Unrecorded'
  PROVE  SInv'
<1> USE DEF LoopVars, envVars
<1>1. TypeOK'
  <2>1. FlagTypes'
    BY DEF SInv, TypeOK, FlagTypes
  <2> QED BY <2>1 DEF SInv, TypeOK, FlagTypes, Looping, Sending, Receiving
<1>2. Sockets'
  BY DEF SInv, Sockets, Looping, WithFile, Closing, Sending, Receiving, InTransfer, DataFdValid, Kind,
         Running
<1>3. Progress'
  BY DEF SInv, Progress, Looping, Sending, Receiving, Sent
<1>4. Timers'
  BY DEF SInv, Timers, Looping, Sending, Receiving, InTransfer, Unrecorded
<1> QED BY <1>1, <1>2, <1>3, <1>4 DEF SInv

\* At the top of a turn all that moved is recorded.
LEMMA TurnStarts ==
  ASSUME SInv, pc \in {"send", "recv", "sendCheck", "recvCheck"}
  PROVE  /\ moved \in Nat /\ data_process \in BOOLEAN
         /\ ~data_process => moved = 0
<1>1. moved \in Nat /\ data_process \in BOOLEAN
  BY DEF SInv, TypeOK
<1>2. InTransfer /\ cmd # "LIST" /\ Unrecorded = 0
  BY DEF SInv, Course, Sending, Receiving, InTransfer, Unrecorded
<1>3. ~data_process => moved <= 0
  BY <1>2 DEF SInv, Timers, Unrecorded
<1> QED BY <1>1, <1>3

LEMMA SendInv ==
  ASSUME SInv, SendChunk \/ SendError \/ SendNothing
  PROVE  SInv'
<1>1. /\ pc = "send" /\ pc' = "sent" /\ data_process' = data_process
      /\ UNCHANGED <<LoopVars, why, fdt>>
      /\ flag' \in {flag, 2}
      /\ left > 0 /\ left' = left
      /\ \/ pos < Size /\ pos' = pos + 1 /\ ret' = 1 /\ moved' = moved + 1
         \/ left <= Size /\ ret' = -1 /\ pos' = pos /\ moved' = moved
         \/ ret' = 0 /\ pos' = pos /\ moved' = moved
  BY DEF SendChunk, SendError, SendNothing, SendReturns
<1>2. /\ pos \in 0 .. 2 * Size + 1 /\ left \in 0 .. Size + 1 /\ flag \in 0 .. 2
      /\ pos + left >= Size /\ cmd = "RETR"
  BY <1>1 DEF SInv, TypeOK, Progress, Course, Sending
<1>3. /\ pos' \in 0 .. 2 * Size + 1 /\ left' \in 0 .. Size + 1 /\ flag' \in 0 .. 2
      /\ pos' + (left' - ret') >= Size /\ left' - ret' \in 0 .. Size + 1
      /\ ret' \in -1 .. 1
  BY <1>1, <1>2, SizeAssumption
<1>4. Course'
  BY <1>1, <1>2 DEF LoopVars, Course, Sending, Receiving
<1>5. /\ data_process' \in BOOLEAN /\ moved' \in Nat
      /\ ~data_process' => moved' <= Unrecorded'
  BY <1>1, TurnStarts DEF Unrecorded
<1> QED BY <1>1, <1>3, <1>4, <1>5, LoopInv DEF Looping, Sending

\* limit_rate: from here on what moved is recorded.
LEMMA LimitRateInv ==
  ASSUME SInv, LimitRate
  PROVE  SInv'
<1>1. /\ \/ pc = "sent" /\ pc' = "sendCheck"
         \/ pc = "received" /\ pc' = "recvCheck"
      /\ data_process' = TRUE
      /\ UNCHANGED <<LoopVars, why, fdt, pos, left, flag, ret, moved>>
  BY DEF LimitRate
<1>2. /\ pos \in 0 .. 2 * Size + 1 /\ left \in 0 .. Size + 1 /\ flag \in 0 .. 2
      /\ ret \in -1 .. 1 /\ moved \in Nat
  BY DEF SInv, TypeOK
<1>3. pc = "sent" => pos + (left - ret) >= Size /\ left - ret \in 0 .. Size + 1
  BY DEF SInv, Progress
<1>4. Course'
  BY <1>1 DEF LoopVars, SInv, Course, Sending, Receiving
<1> QED BY <1>1, <1>2, <1>3, <1>4, LoopInv DEF Looping, Sending, Receiving

LEMMA SendEndsInv ==
  ASSUME SInv, SendCheck \/ SendDone
  PROVE  SInv'
<1>1. /\ pc \in {"send", "sendCheck"} /\ pc' \in {"send", "finish"}
      /\ UNCHANGED <<LoopVars, why, data_process, fdt, pos, moved>>
      /\ flag' \in {flag, 0, 1} /\ ret' \in {ret, 0}
      /\ \/ pc = "sendCheck" /\ pc' = "send" /\ left' = left - ret
         \/ pc' = "finish" /\ flag' = 1 /\ left' = left
         \/ pc = "send" /\ pc' = "finish" /\ flag' = 0 /\ left' = left /\ left = 0
  BY DEF SendCheck, SendDone
<1>2. /\ pos \in 0 .. 2 * Size + 1 /\ left \in 0 .. Size + 1 /\ flag \in 0 .. 2
      /\ ret \in -1 .. 1 /\ cmd = "RETR"
      /\ pc = "send" => pos + left >= Size
      /\ pc = "sendCheck" => pos + (left - ret) >= Size /\ left - ret \in 0 .. Size + 1
  BY <1>1 DEF SInv, TypeOK, Progress, Course, Sending
<1>3. /\ left' \in 0 .. Size + 1 /\ flag' \in 0 .. 2 /\ ret' \in -1 .. 1
      /\ pc' = "send" => pos' + left' >= Size
      /\ (pc' = "finish" /\ flag' = 0) => left' = 0 /\ pos' >= Size
  BY <1>1, <1>2, SizeAssumption
<1>4. Course'
  BY <1>1, <1>2 DEF LoopVars, Course, Sending, Receiving
<1>5. /\ data_process' \in BOOLEAN /\ moved' \in Nat
      /\ ~data_process' => moved' <= Unrecorded'
  BY <1>1, TurnStarts DEF Unrecorded
<1> QED BY <1>1, <1>2, <1>3, <1>4, <1>5, LoopInv DEF Looping, Sending

LEMMA RecvInv ==
  ASSUME SInv, RecvChunk \/ RecvEof \/ RecvCheck
  PROVE  SInv'
<1>1. /\ UNCHANGED <<LoopVars, why, data_process, fdt>>
      /\ flag' \in {flag, 0, 1, 2}
      /\ \/ /\ pc = "recv" /\ pc' = "received" /\ left < Size /\ left' = left + 1 /\ pos' = pos
            /\ ret' = 1 /\ moved' = moved + 1
         \/ /\ pc \in {"recv", "recvCheck"} /\ pc' = "finish" /\ left' = left /\ pos' = pos
            /\ ret' \in {ret, 0} /\ moved' = moved
         \/ /\ pc = "recvCheck" /\ pc' = "recv" /\ left' = left /\ pos' = pos + 1
            /\ ret' = 0 /\ moved' = moved
  <2>1. CASE RecvChunk
    BY <2>1 DEF RecvChunk
  <2>2. CASE RecvEof
    BY <2>2 DEF RecvEof
  <2>3. CASE RecvCheck
    BY <2>3 DEF RecvCheck
  <2> QED BY <2>1, <2>2, <2>3
<1>2. /\ pos \in 0 .. 2 * Size + 1 /\ left \in 0 .. Size + 1 /\ flag \in 0 .. 2 /\ ret \in -1 .. 1
      /\ cmd \in {"STOR", "APPE"} /\ left <= Size
      /\ pc = "recv" => pos <= Size + 1 + left
      /\ pc = "recvCheck" => pos <= Size + left
  BY <1>1 DEF SInv, TypeOK, Course, Receiving
<1>3. /\ pos' \in 0 .. 2 * Size + 1 /\ left' \in 0 .. Size + 1 /\ left' <= Size
      /\ pc' = "recv" => pos' <= Size + 1 + left'
      /\ pc' = "received" => pos' <= Size + left'
  BY <1>1, <1>2, SizeAssumption
<1>4. Course'
  BY <1>1, <1>2, <1>3 DEF LoopVars, Course, Sending, Receiving
<1>5. flag' \in 0 .. 2 /\ ret' \in -1 .. 1
  BY <1>1, <1>2
<1>6. /\ data_process' \in BOOLEAN /\ moved' \in Nat
      /\ ~data_process' => moved' <= Unrecorded'
  BY <1>1, TurnStarts DEF Unrecorded
<1> QED BY <1>1, <1>2, <1>3, <1>4, <1>5, <1>6, LoopInv DEF Looping, Receiving

LEMMA ListEntryInv ==
  ASSUME SInv, ListEntry
  PROVE  SInv'
<1>1. /\ pc = "list" /\ pc' = "list" /\ left > 0 /\ left' = left - 1
      /\ UNCHANGED <<LoopVars, why, data_process, fdt, pos, flag, ret>> /\ moved' = moved + 1
  BY DEF ListEntry
<1>2. /\ pos \in 0 .. 2 * Size + 1 /\ left \in 0 .. Size + 1 /\ flag \in 0 .. 2 /\ data_process \in BOOLEAN
      /\ cmd = "LIST" /\ moved \in Nat /\ ret \in -1 .. 1
  BY <1>1 DEF SInv, TypeOK, Course
<1>3. left' \in 0 .. Size + 1 /\ moved' \in Nat
  BY <1>1, <1>2, SizeAssumption
<1>4. Course'
  BY <1>1, <1>2 DEF LoopVars, Course, Sending, Receiving
<1> QED BY <1>1, <1>2, <1>3, <1>4, LoopInv DEF LoopVars, Looping

\* SIGPIPE and SIGFPE end the process where it is.
LEMMA KilledInv ==
  ASSUME SInv, BrokenPipe \/ RateZero
  PROVE  SInv'
<1>1. /\ pc' = "exit" /\ why' \in {"sigpipe", "sigfpe"} /\ data_process' \in {data_process, TRUE}
      /\ pc \in {"send", "list", "sent", "received"}
      /\ UNCHANGED <<faults, tunable, cmd, port_addr, pasv_listen_fd, data_fd, abor_received, restart_pos,
                     sigurg, alarm, fdt, fd, offset, pos, left, flag, ret, replies, aborted, moved>>
  BY DEF BrokenPipe, RateZero, Exit, LoopVars, envVars, sessVars, localVars, ghostVars
<1>2. TypeOK'
  BY <1>1 DEF SInv, TypeOK
<1>3. Course' /\ Timers'
  BY <1>1 DEF SInv, Course, Timers, Sending, Receiving, InTransfer, Unrecorded
<1>4. Sockets'
  BY <1>1 DEF SInv, Sockets, Sending, Receiving, WithFile, Closing, InTransfer, DataFdValid, Running
<1>5. Progress'
  BY <1>1 DEF SInv, Progress, Sent
<1> QED BY <1>2, <1>3, <1>4, <1>5 DEF SInv

-----------------------------------------------------------------------------
(* The ends of a transfer.                                                 *)

\* The data connection is closed and the descriptor is still in data_fd.
LEMMA ClosingInv ==
  ASSUME SInv, LoopEnds \/ ListEnds
  PROVE  SInv'
<1>1. /\ \/ pc = "finish" /\ pc' = "closed"
         \/ pc = "list" /\ pc' = "listClosed"
      /\ fdt' = [fdt EXCEPT ![data_fd] = "free"]
      /\ UNCHANGED <<faults, tunable, cmd, why, port_addr, pasv_listen_fd, data_fd, data_process,
                     abor_received, restart_pos, sigurg, alarm, fd, offset, pos, left, flag, ret, replies,
                     aborted, moved>>
  BY DEF LoopEnds, ListEnds, CloseData, LoopVars, envVars
<1>2. data_fd \in Fds /\ data_fd # None
  BY <1>1 DEF SInv, TypeOK, Sockets, DataFdValid, InTransfer, Running, Closing
<1>3. /\ fdt' \in [Fds -> DataKinds \cup {"free", "listen", "file"}]
      /\ fdt'[data_fd] = "free" /\ \A f \in Fds \ {data_fd} : fdt'[f] = fdt[f]
  BY <1>1, <1>2 DEF SInv, TypeOK
<1>4. TypeOK'
  <2>1. FlagTypes'
    BY <1>1 DEF SInv, TypeOK, FlagTypes
  <2> QED BY <1>1, <1>3, <2>1 DEF SInv, TypeOK, FlagTypes
<1>5. Course'
  BY <1>1 DEF SInv, Course, Sending, Receiving
<1>6. Sockets'
  BY <1>1, <1>2, <1>3 DEF SInv, Sockets, Sending, Receiving, WithFile, Closing, InTransfer, DataFdValid, Kind, Running
<1>7. Progress'
  BY <1>1 DEF SInv, Progress, Sent
<1>8. Timers'
  BY <1>1 DEF SInv, Timers, InTransfer, Unrecorded
<1> QED BY <1>4, <1>5, <1>6, <1>7, <1>8 DEF SInv

LEMMA ListDoneInv ==
  ASSUME SInv, ListDone
  PROVE  SInv'
<1>1. /\ pc = "listClosed" /\ pc' = "idle" /\ alarm' = AfterCmdioAlarm(alarm)
      /\ data_fd' = None /\ Reply("226")
      /\ UNCHANGED <<faults, tunable, cmd, why, port_addr, pasv_listen_fd, data_process, fdt,
                     abor_received, restart_pos, sigurg, fd, offset, pos, left, flag, ret, aborted, moved>>
  BY DEF ListDone, BackToIdle, envVars, localVars
<1>2. replies' \in Seq(Codes)
  BY <1>1, Replying DEF Codes, SInv, TypeOK
<1>3. alarm' \in {"none", "cmdio", "data"}
  BY <1>1 DEF SInv, TypeOK, AfterCmdioAlarm
<1>4. TypeOK'
  BY <1>1, <1>2, <1>3 DEF SInv, TypeOK
<1>5. Course' /\ Sockets' /\ Progress'
  BY <1>1 DEF SInv, Course, Sockets, Progress, Sending, Receiving, WithFile, Closing, InTransfer, DataFdValid, Running
<1>6. Timers'
  BY <1>1 DEF SInv, Timers, InTransfer, AfterCmdioAlarm, Unrecorded
<1> QED BY <1>4, <1>5, <1>6 DEF SInv

\* The verdict and check_abor: a RETR is complete only if the loop ended with
\* nothing left and no ABOR came; an ABOR is answered last.
LEMMA FinishReplies ==
  ASSUME SInv, Finish
  PROVE  /\ replies' \in Seq(Codes)
         /\ (cmd = "RETR" /\ Sent("226")') => flag = 0 /\ ~abor_received
         /\ abor_received => replies' # <<>> /\ replies'[Len(replies')] = "226abor"
<1> DEFINE verdict == Verdict(cmd, flag, abor_received)
           abor == IF abor_received THEN <<"226abor">> ELSE <<>>
<1>1. /\ replies' = (replies \o verdict) \o abor /\ pc = "closed"
      /\ replies \in Seq(Codes) /\ flag \in 0 .. 2 /\ abor_received \in BOOLEAN
  BY DEF Finish, CheckAbor, SInv, TypeOK
<1>2. /\ verdict \in Seq(Codes)
      /\ Among("226", verdict) => flag = 0 /\ ~(cmd = "RETR" /\ abor_received)
  <2>1. CASE flag = 0 /\ cmd = "RETR" /\ abor_received
    <3>1. verdict = <<>>
      BY <2>1 DEF Verdict
    <3> QED BY <3>1, EmptySeq DEF Among
  <2>2. CASE flag = 0 /\ ~(cmd = "RETR" /\ abor_received)
    <3>1. verdict = <<"226">>
      BY <2>2 DEF Verdict
    <3> HIDE DEF verdict
    <3> QED BY <2>2, <3>1 DEF Codes
  <2>3. CASE flag # 0
    <3>1. verdict = <<"451">> \/ verdict = <<"426">>
      BY <1>1, <2>3 DEF Verdict
    <3> HIDE DEF verdict
    <3> QED BY <3>1 DEF Among, Codes
  <2> QED BY <2>1, <2>2, <2>3
<1>3. /\ abor \in Seq(Codes) /\ ~Among("226", abor)
      /\ abor_received => abor # <<>> /\ abor[Len(abor)] = "226abor"
  <2>1. CASE abor_received
    <3>1. abor = <<"226abor">>
      BY <2>1
    <3> HIDE DEF abor
    <3> QED BY <3>1 DEF Codes, Among
  <2>2. CASE ~abor_received
    <3>1. abor = <<>>
      BY <2>2
    <3> HIDE DEF abor
    <3> QED BY <2>2, <3>1, EmptySeq DEF Among
  <2> QED BY <2>1, <2>2
<1> HIDE DEF verdict, abor
<1>4. /\ replies \o verdict \in Seq(Codes)
      /\ Among("226", replies \o verdict) <=> Among("226", replies) \/ Among("226", verdict)
  BY <1>1, <1>2, Joined
<1>5. /\ replies' \in Seq(Codes)
      /\ Among("226", replies') <=> Among("226", replies \o verdict) \/ Among("226", abor)
      /\ abor # <<>> => replies' # <<>> /\ replies'[Len(replies')] = abor[Len(abor)]
  BY <1>1, <1>3, <1>4, Joined
<1>6. cmd = "RETR" => ~Among("226", replies)
  BY <1>1 DEF SInv, Progress, Sent, Among
<1> QED BY <1>2, <1>3, <1>4, <1>5, <1>6 DEF Sent, Among

LEMMA FinishInv ==
  ASSUME SInv, Finish
  PROVE  SInv'
<1>1. /\ pc = "closed" /\ pc' = "idle" /\ alarm' = AfterCmdioAlarm(alarm)
      /\ fdt' = [fdt EXCEPT ![fd] = "free"]
      /\ data_fd' = None /\ abor_received' = FALSE
      /\ UNCHANGED <<faults, tunable, cmd, why, port_addr, pasv_listen_fd, data_process,
                     restart_pos, sigurg, fd, offset, pos, left, flag, ret, aborted, moved>>
  BY DEF Finish, BackToIdle, CloseFile, CheckAbor, envVars, localVars
<1>2. /\ replies' \in Seq(Codes)
      /\ (cmd = "RETR" /\ Sent("226")') => flag = 0 /\ ~abor_received
  BY FinishReplies
<1>3. alarm' \in {"none", "cmdio", "data"}
  BY <1>1 DEF SInv, TypeOK, AfterCmdioAlarm
<1>4. TypeOK'
  BY <1>1, <1>2, <1>3 DEF SInv, TypeOK
<1>5. Course' /\ Sockets' /\ Progress'
  BY <1>1, <1>2 DEF SInv, Course, Sockets, Progress, Sending, Receiving, WithFile, InTransfer, DataFdValid, Running, Closing
<1>6. Timers'
  BY <1>1 DEF SInv, Timers, InTransfer, AfterCmdioAlarm, Unrecorded
<1> QED BY <1>4, <1>5, <1>6 DEF SInv

-----------------------------------------------------------------------------
(* The client and the signals.                                             *)

LEMMA PeerCloseInv ==
  ASSUME SInv, PeerClose
  PROVE  SInv'
<1> USE DEF PeerClose, envVars, sessVars, localVars, ghostVars
<1>1. fdt' \in [Fds -> DataKinds \cup {"free", "listen", "file"}]
  BY DEF SInv, TypeOK, DataKinds
<1>2. TypeOK'
  <2>1. UNCHANGED <<faults, tunable, pc, cmd, why, port_addr, pasv_listen_fd, data_fd, data_process,
                    abor_received, restart_pos, sigurg, alarm, fd, offset, pos, left, flag, ret, replies,
                    aborted, moved>>
    OBVIOUS
  <2>2. FlagTypes'
    BY <2>1 DEF SInv, TypeOK, FlagTypes
  <2> QED BY <1>1, <2>1, <2>2 DEF SInv, TypeOK, FlagTypes
<1>3. data_fd \in Fds /\ fdt'[data_fd] = "eof" /\ \A f \in Fds \ {data_fd} : fdt'[f] = fdt[f]
  BY DEF SInv, TypeOK
<1>4. Sockets'
  BY <1>3 DEF SInv, Sockets, WithFile, InTransfer, DataFdValid, Kind, DataKinds, Running, Closing
<1>5. Course' /\ Progress' /\ Timers'
  BY DEF SInv, Course, Progress, Timers, InTransfer, Sending, Receiving, Sent, Unrecorded
<1> QED BY <1>2, <1>4, <1>5 DEF SInv

LEMMA SigUrgInv ==
  ASSUME SInv, SigUrg
  PROVE  SInv'
<1>1. /\ data_fd # None /\ Running
      /\ UNCHANGED <<faults, tunable, cmd, port_addr, pasv_listen_fd, data_fd, data_process,
                     restart_pos, sigurg, alarm, fd, offset, pos, left, flag, ret, replies, moved>>
      /\ \/ /\ abor_received' = TRUE /\ aborted' = TRUE /\ UNCHANGED <<pc, why>>
            /\ fdt' = [fdt EXCEPT ![data_fd] = IF fdt[data_fd] \in DataKinds THEN "shut" ELSE fdt[data_fd]]
         \/ /\ pc' = "exit" /\ why' = "ctrlClosed" /\ UNCHANGED <<abor_received, fdt, aborted>>
  BY DEF SigUrg, Exit, envVars, localVars
<1>2. data_fd \in Fds /\ (fdt[data_fd] \in DataKinds \/ (fdt[data_fd] = "free" /\ pc \in Closing))
  <2>1. data_fd \in Fds /\ Kind(data_fd) = fdt[data_fd]
    BY <1>1 DEF SInv, TypeOK, Kind
  <2>2. Running /\ data_fd # None /\ DataFdValid
    BY <1>1 DEF SInv, Sockets
  <2>3. Kind(data_fd) \in DataKinds \/ (Kind(data_fd) = "free" /\ pc \in Closing)
    BY <2>2 DEF DataFdValid, Closing
  <2> QED BY <2>1, <2>3
<1>3. /\ fdt' \in [Fds -> DataKinds \cup {"free", "listen", "file"}]
      /\ fdt[data_fd] \in DataKinds => fdt'[data_fd] \in DataKinds
      /\ fdt[data_fd] = "free" => fdt'[data_fd] = "free"
      /\ \A f \in Fds \ {data_fd} : fdt'[f] = fdt[f]
  BY <1>1, <1>2 DEF SInv, TypeOK, DataKinds
<1>4. TypeOK'
  <2>1. FlagTypes'
    BY <1>1 DEF SInv, TypeOK, FlagTypes
  <2> QED BY <1>1, <1>3, <2>1, ZenonT(60) DEF SInv, TypeOK, FlagTypes
<1>5. Sockets'
  BY <1>1, <1>2, <1>3 DEF SInv, Sockets, WithFile, Closing, Sending, Receiving, InTransfer, DataFdValid, Kind,
                          Running, DataKinds
<1>6. Course' /\ Timers'
  BY <1>1 DEF SInv, Course, Timers, InTransfer, Sending, Receiving, Unrecorded
<1>7. Progress'
  BY <1>1 DEF SInv, Progress, Sending, Sent, Running
<1> QED BY <1>4, <1>5, <1>6, <1>7 DEF SInv

LEMMA TimeoutInv ==
  ASSUME SInv, IdleTimeout \/ DataTimeout
  PROVE  SInv'
<1>1. /\ UNCHANGED <<faults, tunable, cmd, port_addr, pasv_listen_fd, data_fd, abor_received,
                     restart_pos, sigurg, fdt, fd, offset, pos, left, flag, ret, aborted>>
      /\ \/ /\ pc' = "exit" /\ why' \in {"idleTimeout", "dataTimeout"} /\ Reply("421")
            /\ UNCHANGED <<data_process, alarm, moved>>
         \/ /\ alarm = "data" /\ data_process' = FALSE /\ alarm' = AfterDataAlarm(alarm) /\ moved' = 0
            /\ UNCHANGED <<pc, why, replies>>
  BY DEF IdleTimeout, DataTimeout, Exit, envVars, sessVars, localVars
<1>2. replies' \in Seq(Codes) /\ (Sent("226")' <=> Sent("226"))
  <2>1. "421" \in Codes \ {"226"} /\ "226" \in Codes
    BY DEF Codes
  <2>2. CASE UNCHANGED replies
    BY <2>2 DEF SInv, TypeOK, Sent
  <2> QED BY <1>1, <2>1, <2>2, Replying DEF SInv, TypeOK
<1>3. alarm' \in {"none", "cmdio", "data"}
  BY <1>1 DEF SInv, TypeOK, AfterDataAlarm
<1>4. TypeOK'
  <2>1. FlagTypes' /\ moved' \in Nat
    BY <1>1, Zeros DEF SInv, TypeOK, FlagTypes
  <2> QED BY <1>1, <1>2, <1>3, <2>1 DEF SInv, TypeOK, FlagTypes
<1>5. Course' /\ Sockets' /\ Progress'
  BY <1>1, <1>2 DEF SInv, Course, Sockets, Progress, Sending, Receiving, WithFile, InTransfer, DataFdValid,
                    Kind, Running, Closing
<1>6. Timers'
  BY <1>1 DEF SInv, Timers, InTransfer, AfterDataAlarm, Unrecorded
<1> QED BY <1>4, <1>5, <1>6 DEF SInv

-----------------------------------------------------------------------------
(* The invariant.                                                          *)

LEMMA SessionInit == Init => SInv
<1> SUFFICES ASSUME Init PROVE SInv
  OBVIOUS
<1>0. replies = <<>>
  BY DEF Init
<1>1. <<>> \in Seq(Codes) /\ ~Sent("226")
  BY <1>0, EmptySeq DEF Sent
<1> USE DEF Init
<1>2. alarm \in {"none", "cmdio"}
  OBVIOUS
<1>3. TypeOK
  BY <1>1, <1>2, Zeros DEF TypeOK
<1>4. Course /\ Sockets /\ Progress /\ Timers
  BY <1>1 DEF Course, Sockets, Progress, Timers, Sending, Receiving, WithFile, InTransfer, DataFdValid,
              Running, Closing
<1> QED BY <1>3, <1>4 DEF SInv

LEMMA SessionStep == SInv /\ [Next]_vars => SInv'
<1> SUFFICES ASSUME SInv, [Next]_vars PROVE SInv'
  OBVIOUS
<1>1. CASE CommandStep
  BY <1>1, CtlInv, TransferFdInv, NoTransferFdInv DEF CommandStep, Ctl
<1>2. CASE Connect \/ Accept
  BY <1>2, ConnectInv
<1>3. CASE OpenStep
  BY <1>3, OpenFaultInv, OpenRetrInv, OpenUploadInv, OpenListInv DEF OpenStep
<1>4. CASE LoopStep
  BY <1>4, SendInv, LimitRateInv, SendEndsInv, RecvInv, ListEntryInv, KilledInv, ClosingInv, ListDoneInv, FinishInv
     DEF LoopStep
<1>5. CASE Client
  BY <1>5, ReadCommandInv, CtrlEofInv, PeerCloseInv DEF Client
<1>6. CASE Signals
  BY <1>6, TimeoutInv, SigUrgInv DEF Signals
<1>7. CASE UNCHANGED vars
  <2>1. UNCHANGED <<faults, tunable, pc, cmd, why, port_addr, pasv_listen_fd, data_fd, data_process,
                    abor_received, restart_pos, sigurg, alarm, fdt, fd, offset, pos, left, flag, ret, replies,
                    aborted, moved>>
    BY <1>7 DEF vars, envVars, sessVars, localVars, ghostVars
  <2>2. TypeOK'
    <3>1. FlagTypes'
      BY <2>1 DEF SInv, TypeOK, FlagTypes
    <3> QED BY <2>1, <3>1 DEF SInv, TypeOK, FlagTypes
  <2>3. Course' /\ Sockets' /\ Timers'
    BY <2>1 DEF SInv, Course, Sockets, Timers, InTransfer, DataFdValid, Kind, Running, Closing, Unrecorded
  <2>4. Progress'
    BY <2>1 DEF SInv, Progress, Sent
  <2> QED BY <2>2, <2>3, <2>4 DEF SInv
<1> QED BY <1>1, <1>2, <1>3, <1>4, <1>5, <1>6, <1>7 DEF Next, Process

\* Every variable of the session has its type: the counts of the loops stay
\* within the file, and the replies among those the code sends.
THEOREM TypeCorrect == Spec => []TypeOK
<1>1. SInv => TypeOK
  BY DEF SInv
<1> QED BY <1>1, SessionInit, SessionStep, PTL DEF Spec

\* data_fd, which handle_sigurg shuts, is None or an open data socket, or, between
\* close and data_fd = -1, a descriptor nothing else has taken, at every point at
\* which SIGURG may arrive and whatever failed before.
THEOREM DataFdValidHolds == Spec => []DataFdValid
<1>1. SInv => DataFdValid
  BY DEF SInv, Sockets, Closing
<1> QED BY <1>1, SessionInit, SessionStep, PTL DEF Spec

\* do_retr reports success only for a whole file that was not aborted.
THEOREM RetrCompleteHolds == Spec => []RetrComplete
<1>1. SInv => RetrComplete
  BY DEF SInv, Progress, RetrComplete
<1> QED BY <1>1, SessionInit, SessionStep, PTL DEF Spec

-----------------------------------------------------------------------------
(* What the timers may end.                                                *)

\* Only the handlers end the process for a timeout.
LEMMA TimeoutReason ==
  ASSUME [Next]_vars, why' \in {"idleTimeout", "dataTimeout"}, why = ""
  PROVE  IdleTimeout \/ DataTimeout
<1> USE DEF Exit, BackToIdle
<1>1. ~CommandStep
  BY DEF CommandStep, DoQuit, DoPass, DoPort, DoPasv, DoRest, DoAbor, Overflow, NoTransferFd, StartActive, StartPassive
<1>2. ~(Connect \/ Accept)
  BY DEF Connect, Accept
<1>3. ~OpenStep
  BY DEF OpenStep, OpenFault, OpenFails, OpenRetr, OpenUpload, OpenList, OpenVars
<1>4. ~LoopStep
  BY DEF LoopStep, SendChunk, SendError, SendNothing, SendReturns, BrokenPipe, SendCheck, SendDone,
         LimitRate, RateZero, RecvChunk, RecvEof, RecvCheck, ListEntry, ListEnds, LoopEnds, CloseData,
         ListDone, Finish
<1>5. ~Client
  BY DEF Client, ReadCommand, CtrlEof, PeerClose
<1>6. ~SigUrg
  BY DEF SigUrg
<1>7. ~UNCHANGED vars
  BY DEF vars
<1> QED BY <1>1, <1>2, <1>3, <1>4, <1>5, <1>6, <1>7 DEF Next, Process, Signals

\* start_data_alarm replaces or cancels the idle alarm before a transfer, for
\* every setting of the two timeouts.
THEOREM NoIdleKillInTransferHolds == Spec => NoIdleKillInTransfer
<1>1. SInv /\ [Next]_vars => [Ends("idleTimeout") => ~InTransfer]_vars
  <2> SUFFICES ASSUME SInv, [Next]_vars, Ends("idleTimeout") PROVE ~InTransfer
    OBVIOUS
  <2>1. IdleTimeout \/ DataTimeout
    BY TimeoutReason DEF Ends
  <2>2. alarm = "cmdio"
    BY <2>1 DEF IdleTimeout, DataTimeout, Exit, Ends
  <2> QED BY <2>2 DEF SInv, Timers, Unrecorded
<1> QED BY <1>1, SessionInit, SessionStep, PTL DEF Spec, NoIdleKillInTransfer

\* handle_sigalrm ends a RETR, STOR or APPE only if nothing moved since it looked,
\* but for the chunk that limit_rate was about to record.
THEOREM DataTimeoutOnlyWhenStalledHolds == Spec => DataTimeoutOnlyWhenStalled
<1>1. SInv /\ [Next]_vars =>
        [Ends("dataTimeout") /\ InTransfer /\ cmd # "LIST" => moved <= Unrecorded]_vars
  <2> SUFFICES ASSUME SInv, [Next]_vars, Ends("dataTimeout"), InTransfer, cmd # "LIST"
               PROVE  moved <= Unrecorded
    OBVIOUS
  <2>1. IdleTimeout \/ DataTimeout
    BY TimeoutReason DEF Ends
  <2>2. ~data_process
    BY <2>1 DEF IdleTimeout, DataTimeout, Exit, Ends
  <2> QED BY <2>2 DEF SInv, Timers, Unrecorded
<1> QED BY <1>1, SessionInit, SessionStep, PTL DEF Spec, DataTimeoutOnlyWhenStalled

-----------------------------------------------------------------------------
(* While nothing fails.  The transfer needs one descriptor for its data    *)
(* connection and one for its file.                                        *)

Settled == Tidy /\ AborSettled

\* A step that keeps the descriptors: outside a transfer, or between the opening
\* of the file and the closes.
LEMMA KeptSettled ==
  ASSUME TInv, faults = {}, Running, UNCHANGED <<faults, fdt, pasv_listen_fd, data_fd>>,
         pc' # "exit" =>
           /\ InTransfer' <=> InTransfer
           /\ InTransfer => fd' = fd
           /\ pc' = "open" => pc = "open"
           /\ pc' = "connect" => pasv_listen_fd = None
           /\ pc' \in {"dispatch", "connect", "accept"} => ~aborted'
           /\ pc' = "idle" => \/ ~aborted'
                              \/ pc = "idle" /\ UNCHANGED <<cmd, aborted, abor_received, replies>>
  PROVE  Settled'
<1>1. Tidy'
  BY DEF TInv, Tidy, Running, Free
<1>2. AborSettled'
  BY DEF TInv, AborSettled
<1> QED BY <1>1, <1>2 DEF Settled

LEMMA CommandSettled ==
  ASSUME TInv, faults = {}, CommandStep \/ (\E c \in Commands : ReadCommand(c)) \/ CtrlEof
  PROVE  Settled'
<1>0. pc = "dispatch" => ~aborted /\ data_fd = None
  BY DEF TInv, Tidy, Running, InTransfer
<1>1. CASE DoPasv
  <2>1. /\ pc = "dispatch" /\ pc' \in {"idle", "exit"} /\ UNCHANGED <<faults, data_fd, aborted>>
        /\ pc' = "idle" => /\ Free # {} /\ pasv_listen_fd' = Lowest(Free)
                          /\ fdt' = [fdt EXCEPT ![Lowest(Free)] = "listen"]
    BY <1>1 DEF DoPasv, BackToIdle, Exit, envVars
  <2>2. Tidy'
    <3>1. pc' = "idle" => Lowest(Free) \in Fds /\ Lowest(Free) # None
      BY <2>1, LowestFree, FdsAssumption DEF None
    <3>2. \A f \in Fds : fdt[f] \in {"free", "listen"}
      BY <2>1 DEF TInv, Tidy, Running, InTransfer
    <3>3. pc' = "idle" => \A f \in Fds : fdt'[f] \in {"free", "listen"}
      BY <2>1, <3>1, <3>2 DEF TInv, SInv, TypeOK
    <3> QED BY <1>0, <2>1, <3>1, <3>3 DEF Tidy, Running, InTransfer
  <2>3. AborSettled'
    BY <1>0, <2>1 DEF AborSettled
  <2> QED BY <2>2, <2>3 DEF Settled
<1>2. CASE DoQuit \/ DoPass \/ DoPort \/ DoRest \/ DoAbor \/ Overflow \/ NoTransferFd \/ StartActive \/ StartPassive
  <2>1. /\ pc = "dispatch" /\ pc' \in {"idle", "exit", "connect", "accept"}
        /\ UNCHANGED <<faults, fdt, pasv_listen_fd, data_fd, aborted>>
        /\ pc' = "connect" => pasv_listen_fd = None
    BY <1>2 DEF DoQuit, DoPass, DoPort, DoRest, DoAbor, Overflow, NoTransferFd, StartActive, StartPassive,
                BackToIdle, Exit, envVars, sessVars, ghostVars
  <2>2. Running /\ ~InTransfer /\ ~InTransfer' /\ ~aborted'
    BY <1>0, <2>1 DEF InTransfer, Running
  <2>3. pc' # "open"
    BY <2>1
  <2> QED BY <2>1, <2>2, <2>3, KeptSettled
<1>3. CASE (\E c \in Commands : ReadCommand(c)) \/ CtrlEof
  <2>1. /\ pc = "idle" /\ pc' \in {"dispatch", "exit"} /\ (pc' = "dispatch" => ~aborted')
        /\ UNCHANGED <<faults, fdt, pasv_listen_fd, data_fd>>
    BY <1>3 DEF ReadCommand, CtrlEof, Exit, envVars, sessVars
  <2> QED BY <2>1, KeptSettled DEF InTransfer, Running
<1> QED BY <1>1, <1>2, <1>3 DEF CommandStep

\* After a PORT no listener was ever made, so that of two descriptors one is left;
\* after an accept the listener's is.
LEMMA ConnectSettled ==
  ASSUME TInv, faults = {}, Connect \/ Accept, NEW f1 \in Fds, NEW f2 \in Fds, f1 # f2
  PROVE  Settled'
<1>0. /\ ~aborted /\ data_fd = None /\ fd = None /\ (pc = "connect" => pasv_listen_fd = None)
      /\ \A f \in Fds : fdt[f] \in {"free", "listen"}
      /\ pasv_listen_fd = None => \A f \in Fds : fdt[f] # "listen"
      /\ fdt \in [Fds -> DataKinds \cup {"free", "listen", "file"}]
  BY DEF TInv, Tidy, Running, InTransfer, Connect, Accept, SInv, Sockets, TypeOK, Closing
<1>1. CASE pc' = "open"
  <2>1. Free # {} /\ data_fd' = Lowest(Free) /\ UNCHANGED <<faults, pasv_listen_fd, fd, aborted>>
    BY <1>1 DEF Connect, Accept, Connected, BackToIdle, Exit, envVars, localVars
  <2>2. Lowest(Free) \in Fds /\ fdt[Lowest(Free)] = "free"
    BY <2>1, LowestFree
  <2>3. /\ \A f \in Fds \ {data_fd'} : fdt'[f] \in {"free", fdt[f]}
        /\ \E f \in Fds : fdt'[f] = "free"
    <3>1. CASE pc = "connect"
      <4>1. fdt' = [fdt EXCEPT ![Lowest(Free)] = "data"] /\ \A f \in Fds : fdt[f] = "free"
        BY <1>0, <1>1, <3>1 DEF Connect, Accept, Connected, BackToIdle, Exit
      <4>2. PICK f \in Fds : f # Lowest(Free)
        OBVIOUS
      <4> QED BY <1>0, <2>1, <2>2, <4>1, <4>2
    <3>2. CASE pc = "accept"
      <4>1. /\ fdt' = [[fdt EXCEPT ![pasv_listen_fd] = "free"] EXCEPT ![Lowest(Free)] = "data"]
            /\ Kind(pasv_listen_fd) = "listen"
        BY <1>1, <3>2 DEF Connect, Accept, Connected, BackToIdle, Exit
      <4>2. pasv_listen_fd \in Fds /\ pasv_listen_fd # Lowest(Free)
        BY <2>2, <4>1 DEF Kind
      <4> QED BY <1>0, <2>1, <2>2, <4>1, <4>2
    <3> QED BY <3>1, <3>2 DEF Connect, Accept
  <2>5. fdt'[data_fd'] = "data"
    BY <1>0, <1>1, <2>1, <2>2 DEF Connect, Accept, Connected, BackToIdle, Exit
  <2>4. Tidy'
    <3>1. InTransfer'
      BY <1>1 DEF InTransfer
    <3>2. \A f \in Fds : fdt'[f] \in {"free", "listen"} \/ f = data_fd'
      BY <1>0, <2>3
    <3>3. pasv_listen_fd' = None => \A f \in Fds : fdt'[f] # "listen"
      <4>1. SUFFICES ASSUME pasv_listen_fd' = None, NEW f \in Fds PROVE fdt'[f] # "listen"
        OBVIOUS
      <4>2. CASE f = data_fd'
        BY <2>1, <2>5, <4>2
      <4>3. CASE f # data_fd'
        BY <1>0, <2>1, <2>3, <4>1, <4>3
      <4> QED BY <4>2, <4>3
    <3>4. (Free # {})'
      BY <2>3 DEF Free
    <3> QED BY <1>1, <3>1, <3>2, <3>3, <3>4 DEF Tidy
  <2>6. AborSettled'
    BY <1>1 DEF AborSettled
  <2> QED BY <2>4, <2>6 DEF Settled
<1>2. CASE pc' # "open"
  <2>1. pc \in {"connect", "accept"} /\ pc' \in {"idle", "exit"} /\ UNCHANGED <<faults, fdt, pasv_listen_fd, data_fd, aborted>>
    BY <1>2 DEF Connect, Accept, Connected, BackToIdle, Exit, envVars
  <2>2. Running /\ ~InTransfer /\ ~InTransfer' /\ ~aborted'
    BY <1>0, <2>1 DEF InTransfer, Running
  <2>3. pc' \notin {"open", "connect"}
    BY <2>1
  <2> QED BY <2>1, <2>2, <2>3, KeptSettled
<1> QED BY <1>1, <1>2

\* There is a descriptor for the file, so that nothing fails.
LEMMA OpenSettled ==
  ASSUME TInv, faults = {}, OpenStep
  PROVE  Settled'
<1>1. /\ pc = "open" /\ Free # {} /\ fd = None
      /\ \A f \in Fds : fdt[f] \in {"free", "listen"} \/ f = data_fd
      /\ pasv_listen_fd = None => \A f \in Fds : fdt[f] # "listen"
      /\ fdt \in [Fds -> DataKinds \cup {"free", "listen", "file"}]
  <2>1. pc = "open"
    BY DEF OpenStep, OpenFault, OpenFails, OpenRetr, OpenUpload, OpenList
  <2>2. data_fd # None /\ fd = None
    BY <2>1 DEF TInv, SInv, Sockets, DataFdValid, InTransfer, Running, Closing
  <2>3. InTransfer /\ Running
    BY <2>1 DEF InTransfer, Running
  <2>4. /\ \A f \in Fds : fdt[f] \in {"free", "listen"} \/ f \in {data_fd, fd}
        /\ pasv_listen_fd = None => \A f \in Fds : fdt[f] # "listen"
        /\ Free # {}
    BY <2>1, <2>3 DEF TInv, Tidy
  <2>5. \A f \in Fds : f # None
    BY FdsAssumption DEF None
  <2>6. fdt \in [Fds -> DataKinds \cup {"free", "listen", "file"}]
    BY DEF TInv, SInv, TypeOK
  <2> QED BY <2>1, <2>2, <2>4, <2>5, <2>6
<1>2. ~OpenFault
  BY <1>1 DEF OpenFault, OpenFails
<1>3. CASE OpenRetr \/ OpenUpload
  <2>1. /\ pc' \in {"send", "recv"} /\ fd' = Lowest(Free) /\ fdt' = [fdt EXCEPT ![Lowest(Free)] = "file"]
        /\ UNCHANGED <<faults, pasv_listen_fd, data_fd>>
    BY <1>3 DEF OpenRetr, OpenUpload, OpenFile, OpenVars, envVars
  <2>2. Lowest(Free) \in Fds /\ \A f \in Fds \ {fd'} : fdt'[f] = fdt[f]
    BY <1>1, <2>1, LowestFree
  <2>4. fdt'[fd'] = "file"
    BY <1>1, <2>1, <2>2
  <2>3. Tidy' /\ AborSettled'
    BY <1>1, <2>1, <2>2, <2>4 DEF Tidy, InTransfer, AborSettled
  <2> QED BY <2>3 DEF Settled
<1>4. CASE OpenList
  <2>1. pc' = "list" /\ fd' = fd /\ UNCHANGED <<faults, fdt, pasv_listen_fd, data_fd>>
    BY <1>4 DEF OpenList, OpenVars, envVars
  <2> QED BY <1>1, <2>1, KeptSettled DEF InTransfer, Running
<1> QED BY <1>2, <1>3, <1>4 DEF OpenStep

LEMMA LoopSettled ==
  ASSUME TInv, faults = {}, LoopStep
  PROVE  Settled'
<1>1. CASE SendChunk \/ SendError \/ SendNothing \/ SendCheck \/ SendDone \/ LimitRate
           \/ RecvChunk \/ RecvEof \/ RecvCheck \/ ListEntry
  <2>1. /\ pc \in Looping /\ pc' \in Looping
        /\ UNCHANGED <<faults, fdt, pasv_listen_fd, data_fd, fd>>
    BY <1>1 DEF SendChunk, SendError, SendNothing, SendReturns, SendCheck, SendDone, LimitRate, RecvChunk,
                RecvEof, RecvCheck, ListEntry, LoopVars, envVars, Looping, Sending, Receiving
  <2> QED BY <2>1, KeptSettled DEF InTransfer, Running, Looping, Sending, Receiving
<1>2. CASE BrokenPipe \/ RateZero
  BY <1>2, KeptSettled DEF BrokenPipe, RateZero, Exit, LoopVars, envVars, sessVars, Running
<1>3. /\ fdt \in [Fds -> DataKinds \cup {"free", "listen", "file"}]
      /\ pc \in {"list", "listClosed"} => fd = None
      /\ pc \in Closing => Kind(data_fd) = "free"
      /\ pc \in {"list", "finish", "listClosed", "closed"} =>
           /\ data_fd # None
           /\ pasv_listen_fd = None => \A f \in Fds : fdt[f] # "listen"
           /\ \A f \in Fds : fdt[f] \in {"free", "listen"} \/ f \in {data_fd, fd}
  BY DEF TInv, SInv, TypeOK, Tidy, Running, Sockets, DataFdValid, InTransfer, Closing
<1>4. CASE LoopEnds \/ ListEnds
  <2>1. /\ pc \in {"list", "finish"} /\ pc' \in Closing /\ fdt' = [fdt EXCEPT ![data_fd] = "free"]
        /\ UNCHANGED <<faults, pasv_listen_fd, data_fd, fd>>
    BY <1>4 DEF LoopEnds, ListEnds, CloseData, LoopVars, envVars, Closing
  <2>2. \A f \in Fds : fdt'[f] \in {"free", fdt[f]}
    BY <1>3, <2>1
  <2>3. Tidy' /\ AborSettled'
    BY <1>3, <2>1, <2>2 DEF Tidy, AborSettled, InTransfer, Closing
  <2> QED BY <2>3 DEF Settled
<1>5. CASE ListDone
  <2>1. /\ pc = "listClosed" /\ pc' = "idle" /\ cmd' = cmd /\ data_fd' = None
        /\ UNCHANGED <<faults, fdt, pasv_listen_fd>>
    BY <1>5 DEF ListDone, BackToIdle, envVars
  <2>2. \A f \in Fds : fdt[f] \in {"free", "listen"}
    BY <1>3, <2>1, FdsAssumption DEF Closing, Kind, None
  <2>3. Tidy' /\ AborSettled'
    BY <1>3, <2>1, <2>2 DEF Tidy, AborSettled, InTransfer, TInv, SInv, Course
  <2> QED BY <2>3 DEF Settled
<1>6. CASE Finish
  <2>1. /\ pc = "closed" /\ pc' = "idle" /\ fdt' = [fdt EXCEPT ![fd] = "free"]
        /\ data_fd' = None /\ abor_received' = FALSE /\ UNCHANGED <<faults, pasv_listen_fd, aborted>>
    BY <1>6 DEF Finish, BackToIdle, CloseFile, CheckAbor, envVars
  <2>2. \A f \in Fds : fdt'[f] \in {"free", fdt[f]} /\ fdt'[f] \in {"free", "listen"}
    BY <1>3, <2>1 DEF Closing, Kind
  <2>3. Tidy'
    BY <1>3, <2>1, <2>2 DEF Tidy, InTransfer
  <2>4. aborted => abor_received
    BY <2>1 DEF TInv, SInv, Progress
  <2>5. AborSettled'
    BY <1>6, <2>1, <2>4, FinishReplies DEF AborSettled, TInv
  <2> QED BY <2>3, <2>5 DEF Settled
<1> QED BY <1>1, <1>2, <1>4, <1>5, <1>6 DEF LoopStep

\* Without a failure there is no data connection outside a transfer for SIGURG or
\* the client to change.
LEMMA EventSettled ==
  ASSUME TInv, faults = {}, PeerClose \/ Signals
  PROVE  Settled'
<1>1. CASE IdleTimeout \/ DataTimeout
  <2>1. /\ UNCHANGED <<faults, fdt, pasv_listen_fd, data_fd, fd, cmd, aborted, abor_received>>
        /\ pc' = "exit" \/ UNCHANGED <<pc, replies>>
        /\ Running
    BY <1>1 DEF IdleTimeout, DataTimeout, Exit, envVars, sessVars, localVars
  <2>2. /\ pc \in {"dispatch", "connect", "accept"} => ~aborted
        /\ pc = "connect" => pasv_listen_fd = None
    BY <2>1 DEF TInv, Tidy
  <2> QED BY <2>1, <2>2, KeptSettled DEF InTransfer
<1>2. CASE SigUrg /\ pc' = "exit"
  BY <1>2, KeptSettled DEF SigUrg, Exit, envVars, Running
<1>3. CASE PeerClose \/ (SigUrg /\ pc' # "exit")
  <2>1. /\ UNCHANGED <<faults, pc, pasv_listen_fd, data_fd, fd>> /\ Running /\ data_fd # None
        /\ \E k \in DataKinds \cup {fdt[data_fd]} :
             /\ fdt' = [fdt EXCEPT ![data_fd] = k]
             /\ fdt[data_fd] = "free" => k = "free"
    <3>1. CASE PeerClose
      BY <3>1 DEF PeerClose, InTransfer, Running, envVars, sessVars, localVars, DataKinds
    <3>2. CASE SigUrg /\ pc' # "exit"
      <4>1. /\ UNCHANGED <<faults, pc, pasv_listen_fd, data_fd, fd>> /\ Running /\ data_fd # None
            /\ fdt' = [fdt EXCEPT ![data_fd] = IF fdt[data_fd] \in DataKinds THEN "shut" ELSE fdt[data_fd]]
        BY <3>2 DEF SigUrg, Exit, Running, envVars, localVars
      <4> QED BY <4>1 DEF DataKinds
    <3> QED BY <1>3, <3>1, <3>2
  <2>2. InTransfer
    BY <2>1 DEF TInv, Tidy
  <2>3. data_fd \in Fds /\ fdt[data_fd] \in DataKinds \cup {"free"}
        /\ fdt \in [Fds -> DataKinds \cup {"free", "listen", "file"}]
    BY <2>1 DEF TInv, SInv, TypeOK, Sockets, DataFdValid, Kind, DataKinds, Running, Closing
  <2>4. \A f \in Fds : IF f = data_fd /\ fdt[f] # "free" THEN fdt'[f] \in DataKinds ELSE fdt'[f] = fdt[f]
    BY <2>1, <2>3
  <2>5. (Free # {})' <=> Free # {}
    BY <2>3, <2>4 DEF Free, DataKinds
  <2>6. Tidy'
    BY <2>1, <2>2, <2>4, <2>5 DEF TInv, Tidy, InTransfer, Running, DataKinds
  <2>7. AborSettled'
    BY <2>1, <2>2 DEF AborSettled, InTransfer
  <2> QED BY <2>6, <2>7 DEF Settled
<1> QED BY <1>1, <1>2, <1>3 DEF Signals

LEMMA SettledStep ==
  ASSUME NEW f1 \in Fds, NEW f2 \in Fds, f1 # f2
  PROVE  TInv /\ [Next]_vars => TInv'
<1> SUFFICES ASSUME TInv, [Next]_vars PROVE TInv'
  OBVIOUS
<1>1. SInv'
  BY SessionStep DEF TInv
<1>2. Settled'
  <2>1. CASE UNCHANGED vars
    <3>1. UNCHANGED <<faults, fdt, pasv_listen_fd, data_fd, fd, cmd, aborted, abor_received, pc, replies>>
      BY <2>1 DEF vars, envVars, sessVars, localVars, ghostVars
    <3>2. Tidy' /\ AborSettled'
      BY <3>1 DEF TInv, Tidy, AborSettled, Running, InTransfer, Free
    <3> QED BY <3>2 DEF Settled
  <2>2. CASE faults # {}
    <3>1. faults' = faults
      BY DEF Next, Process, Client, Signals, CommandStep, OpenStep, LoopStep, DoQuit, DoPass, DoPort, DoPasv,
             DoRest, DoAbor, Overflow, NoTransferFd, StartActive, StartPassive, Connect, Accept, OpenFault,
             OpenFails, OpenRetr, OpenUpload, OpenList, OpenVars, SendChunk, SendError, SendNothing, SendReturns,
             BrokenPipe, SendCheck, SendDone, RecvChunk, RecvEof, RecvCheck, LimitRate, RateZero, ListEntry,
             ListEnds, LoopEnds, CloseData, ListDone, Finish, LoopVars,
             ReadCommand, CtrlEof, PeerClose, IdleTimeout, DataTimeout, SigUrg, vars, envVars
    <3> QED BY <2>2, <3>1 DEF Settled, Tidy, AborSettled
  <2>3. CASE faults = {} /\ Next
    BY <2>3, CommandSettled, ConnectSettled, OpenSettled, LoopSettled, EventSettled DEF Next, Process, Client
  <2> QED BY <2>1, <2>2, <2>3
<1> QED BY <1>1, <1>2 DEF TInv, Settled

\* If the process has two descriptors for data, a session in which nothing fails
\* waits for its next command with no data connection and no file open, and with
\* the idle timer rather than the data timer.
THEOREM IdleHoldsNothingHolds ==
  ASSUME NEW f1 \in Fds, NEW f2 \in Fds, f1 # f2
  PROVE  Spec => []IdleHoldsNothing
<1>1. Init => TInv
  BY SessionInit DEF Init, TInv, Tidy, AborSettled, InTransfer, Running
<1>2. TInv /\ [Next]_vars => TInv'
  BY SettledStep
<1>3. TInv => IdleHoldsNothing
  BY DEF TInv, SInv, Timers, Tidy, Running, InTransfer, IdleHoldsNothing, Unrecorded
<1> QED BY <1>1, <1>2, <1>3, PTL DEF Spec

\* Under the same assumption an ABOR during a transfer is acknowledged once,
\* before the next command is read, and forgotten.
THEOREM AborSettledHolds ==
  ASSUME NEW f1 \in Fds, NEW f2 \in Fds, f1 # f2
  PROVE  Spec => []AborSettled
<1>1. Init => TInv
  BY SessionInit DEF Init, TInv, Tidy, AborSettled, InTransfer, Running
<1>2. TInv /\ [Next]_vars => TInv'
  BY SettledStep
<1>3. TInv => AborSettled
  BY DEF TInv
<1> QED BY <1>1, <1>2, <1>3, PTL DEF Spec
=============================================================================
