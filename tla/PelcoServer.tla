----------------------------- MODULE PelcoServer ----------------------------
(***************************************************************************)
(* The control server of Pelco_Server_interface (Pelco_ServerDlg.cpp): one *)
(* thread accepts a client at a time, divides what it receives into        *)
(* frames and answers them; an inspection runs in a thread of its own and  *)
(* reports on the socket it was started from.  Both threads stamp what     *)
(* they send with one pair of sequence bytes, without a lock.              *)
(*                                                                         *)
(* A frame travels as two halves, so that a recv may end inside one.  What *)
(* the handlers do to the track, the database and the dialog is left out;  *)
(* of an answer its numbered sends are kept.  An SQL statement is of up to *)
(* three frames: of more, ackExecuteSQL's loop goes round more often.      *)
(***************************************************************************)
EXTENDS Integers, Sequences

CONSTANTS
  Kinds,     \* the frames clients send, a subset of AllKinds
  Byte,      \* the number of values of an unsigned char, even
  MaxConns,  \* bound: connections
  MaxFrames, \* bound: frames sent in a behaviour
  MaxJobs    \* bound: jobs of an inspection

VARIABLES
  at,        \* where the server thread is
  conn,      \* number of the current connection, or of the last one
  peer,      \* its client: "open", "closed", "reset"
  rest,      \* frames of an SQL statement the client has still to send
  wire,      \* halves sent and not yet received
  unionBuf,  \* halves received and not yet divided off
  more,      \* frames of an SQL statement ackExecuteSQL still expects
  sends,     \* numbered sends the current handler still has to make
  linked,    \* g_connected_middleware, g_connected_video and g_connected_net_disk
  sendSeq, recvSeq, \* the pairs <<sendSeq2, sendSeq3>>, <<recvSeq4, recvSeq5>>
  g_executing_inspection,
  insp,      \* inspection threads: where each is, sends it has to make
  frames,    \* frames sent so far (for the bound)
  counted,   \* history: numbered answers and frames of numbered kinds since accept
  mixed,     \* history: an inspection ran since accept
  spoilt     \* history: a recv ended inside a frame, or brought more than its handler takes

serverVars == <<at, unionBuf, more, sends>>
clientVars == <<conn, peer, rest, wire, frames>>
seqVars == <<sendSeq, recvSeq, counted>>
inspVars == <<g_executing_inspection, insp>>
vars == <<serverVars, clientVars, seqVars, inspVars, linked, mixed, spoilt>>

AllKinds == {"connect", "call", "database", "inspect", "preset", "prepare", "setPreset",
             "hand", "sql", "history", "unknown"}
MaxRest == 2 \* bound: frames of an SQL statement that follow its first
\* The kinds whose frames recvSeq is to number (history variable counted.recd).
Numbered == {"connect", "call", "database", "preset", "prepare", "setPreset", "hand", "sql"}
Slots == {1, 2}  \* threads: a second one would be the one too many
None == [at |-> "none", sends |-> 0]
Running == {t \in Slots : insp[t].at \notin {"none", "stopped"}}

\* A half tells how many frames of its statement follow: the first frame does.
Half(kind, h, left) == [kind |-> kind, half |-> h, left |-> left, conn |-> conn]
Whole(kind, left) == <<Half(kind, 1, left), Half(kind, 2, left)>>

Init ==
  /\ at = "accept" /\ conn = 0 /\ peer = "closed" /\ rest = 0 /\ wire = <<>> /\ frames = 0
  /\ unionBuf = <<>> /\ more = 0 /\ sends = 0 /\ linked = TRUE
  /\ sendSeq = <<0, 0>> /\ recvSeq = <<0, 0>> /\ counted = [sent |-> 0, recd |-> 0]
  /\ g_executing_inspection = FALSE /\ insp = [t \in Slots |-> None]
  /\ mixed = FALSE /\ spoilt = FALSE

-----------------------------------------------------------------------------
(* The client, and the pings of OnTimer.                                   *)

\* An SQL statement may need several frames; nothing else is sent between them.
ClientSends(kind) ==
  /\ peer = "open" /\ rest = 0 /\ frames < MaxFrames
  /\ frames' = frames + 1
  /\ rest' \in 0 .. (IF kind = "sql" THEN MaxRest ELSE 0)
  /\ wire' = wire \o Whole(kind, rest')
  /\ UNCHANGED <<serverVars, conn, peer, seqVars, inspVars, linked, mixed, spoilt>>

ClientContinues ==
  /\ peer = "open" /\ rest > 0
  /\ rest' = rest - 1
  /\ wire' = wire \o Whole("cont", rest')
  /\ UNCHANGED <<serverVars, conn, peer, frames, seqVars, inspVars, linked, mixed, spoilt>>

\* A client that resets the connection takes what it had sent with it.
ClientLeaves ==
  /\ peer = "open"
  /\ \/ peer' = "closed" /\ UNCHANGED wire
     \/ peer' = "reset" /\ wire' = <<>>
  /\ UNCHANGED <<serverVars, conn, rest, frames, seqVars, inspVars, linked, mixed, spoilt>>

OnTimer ==
  /\ linked' = ~linked
  /\ UNCHANGED <<serverVars, clientVars, seqVars, inspVars, mixed, spoilt>>

-----------------------------------------------------------------------------
(* Sequence numbers.                                                       *)

\* The carry and the addition of setSendSeqAndRecvSeq and recvSeqAdd1.
Carry_Late(seq) == <<seq[1], IF seq[1] = 0 THEN (seq[2] + 1) % Byte ELSE seq[2]>>
Carry(seq) == <<seq[1], IF seq[1] \in {Byte - 2, Byte - 1} THEN (seq[2] + 1) % Byte ELSE seq[2]>>
Plus2(seq) == <<(seq[1] + 2) % Byte, seq[2]>>

Added(seq) == Plus2(Carry(seq))

RecvSeqAdd1 == recvSeq' = Added(recvSeq) /\ UNCHANGED sendSeq
RecvSeqAdd2 == recvSeq' = Added(Added(recvSeq)) /\ UNCHANGED sendSeq

-----------------------------------------------------------------------------
(* startServer.                                                            *)

\* accept and what follows it; unionBuf is as the last connection left it.
Accept ==
  /\ at = "accept" /\ conn < MaxConns
  /\ conn' = conn + 1 /\ peer' = "open" /\ rest' = 0 /\ wire' = <<>>
  /\ sendSeq' = <<0, 0>> /\ recvSeq' = <<0, 0>> /\ counted' = [sent |-> 0, recd |-> 0]
  /\ mixed' = (Running # {})
  /\ at' = "recv"
  /\ UNCHANGED <<unionBuf, more, sends, frames, inspVars, linked, spoilt>>

\* closesocket
Close ==
  /\ peer' = "closed" /\ wire' = <<>> /\ at' = "accept"
  /\ UNCHANGED <<unionBuf, more, sends, conn, rest, frames, seqVars, inspVars, linked, mixed, spoilt>>

\* The connection ends if another machine is not reachable, if the client is
\* gone, or if what was received does not begin like a frame (the rest of one may,
\* by chance).
Break ==
  /\ at = "recv"
  /\ \/ ~linked
     \/ linked /\ wire = <<>> /\ peer # "open"
     \/ linked /\ wire # <<>> /\ Head(wire).half = 2
  /\ Close

\* What a recv of n halves does to the frames: it may end inside one, or bring the
\* rest of an SQL statement that ackExecuteSQL expects to receive itself.
Spoils(n) == wire[n].half = 1 \/ \E i \in 1 .. n - 2 : wire[i].left > 0

Recv ==
  /\ at = "recv" /\ linked /\ wire # <<>>
  /\ \E n \in 1 .. Len(wire) :
       /\ unionBuf' = unionBuf \o SubSeq(wire, 1, n)
       /\ wire' = SubSeq(wire, n + 1, Len(wire))
       /\ spoilt' = (spoilt \/ Spoils(n))
  /\ at' = "divide"
  /\ UNCHANGED <<more, sends, conn, peer, rest, frames, seqVars, inspVars, linked, mixed>>

\* The handlers, by how many numbered sends each has to make.  AckConnect confirms
\* without a number; the handler that sets a preset position sends nothing if the
\* database fails, and the query of videos sends one answer for each that is found.
AckConnect == {0}
AckAllCall == {4}
AckWriteDatabases == {1}
AckExecuteYuzhiOperation == {1}
AckYuzhiOperation == {1}
AckWriteYuzhiOperation == {0, 1}
AckHandOperation == {2}
AckExecuteSQL == {1}
AckQueryHistoryVideo == {0, 2}

Handler(kind) ==
  CASE kind = "connect" -> AckConnect
    [] kind = "call" -> AckAllCall
    [] kind = "database" -> AckWriteDatabases
    [] kind = "preset" -> AckExecuteYuzhiOperation
    [] kind = "prepare" -> AckYuzhiOperation
    [] kind = "setPreset" -> AckWriteYuzhiOperation
    [] kind = "hand" -> AckHandOperation
    [] kind = "sql" -> AckExecuteSQL
    [] kind = "history" -> AckQueryHistoryVideo
    [] OTHER -> {0}

\* The kinds whose frame startServer and its handler do not count: the query never
\* does, a frame of no known type has no handler, an inspection counts its own.
Uncounted == {"history", "inspect", "unknown"}

\* Where a handler begins; ackExecuteSQL has to receive if its statement is longer.
Entry(kind, left, answers) ==
  IF kind = "inspect" THEN "inspect"
  ELSE IF kind = "sql" /\ left > 0 THEN "sql"
  ELSE IF answers = 0 THEN "divide" ELSE "carry"

\* The loop that divides unionBuf: a whole frame goes to its handler, which may
\* count it, and one of no known type to none; a frame put together from two others,
\* or the rest of an SQL statement, is taken for something it is not.
Divide ==
  /\ at = "divide" /\ Len(unionBuf) >= 2
  /\ LET kind == unionBuf[1].kind
         left == unionBuf[1].left IN
       /\ unionBuf' = SubSeq(unionBuf, 3, Len(unionBuf))
       /\ IF unionBuf[1].half = 1 /\ unionBuf[2] = Half(kind, 2, left) /\ kind # "cont"
            THEN /\ sends' \in Handler(kind) /\ more' = left
                 /\ at' = Entry(kind, left, sends')
                 /\ IF kind \in Uncounted THEN UNCHANGED <<sendSeq, recvSeq>> ELSE RecvSeqAdd1
                 /\ counted' = IF kind \in Numbered THEN [counted EXCEPT !.recd = @ + 1] ELSE counted
            ELSE at' = "misread" /\ UNCHANGED <<more, sends, seqVars>>
  /\ UNCHANGED <<clientVars, inspVars, linked, mixed, spoilt>>

Divided_IfNotWhile ==
  /\ at = "divide"
  /\ at' = "recv"
  /\ UNCHANGED <<unionBuf, more, sends, clientVars, seqVars, inspVars, linked, mixed, spoilt>>

Divided ==
  /\ at = "divide" /\ Len(unionBuf) < 2
  /\ at' = "recv"
  /\ UNCHANGED <<unionBuf, more, sends, clientVars, seqVars, inspVars, linked, mixed, spoilt>>

\* Whether a recv of n halves brings whole frames of the statement, no more than
\* are expected.
OfStatement(n) ==
  /\ n % 2 = 0 /\ n <= 2 * more
  /\ \A i \in 1 .. n : /\ wire[i].kind = "cont" /\ wire[i].conn = conn
                       /\ wire[i].half = IF i % 2 = 1 THEN 1 ELSE 2

\* ackExecuteSQL receives the rest of the statement itself, a frame or two at a
\* time, and takes all that a recv brings for it; after a reset its loop does not
\* end.
SqlRecv ==
  /\ at = "sql"
  /\ \/ /\ wire # <<>>
        /\ \E n \in 1 .. Len(wire) :
             /\ wire' = SubSeq(wire, n + 1, Len(wire))
             /\ spoilt' = (spoilt \/ wire[n].half = 1 \/ n > 2 * more)
             /\ IF OfStatement(n)
                  THEN /\ more' = more - n \div 2
                       /\ at' = IF more' = 0 THEN "carry" ELSE "sql"
                       /\ IF n = 2 THEN RecvSeqAdd1 ELSE RecvSeqAdd2
                       /\ counted' = [counted EXCEPT !.recd = @ + n \div 2]
                  ELSE at' = "misread" /\ UNCHANGED <<more, seqVars>>
        /\ UNCHANGED sends
     \/ /\ wire = <<>> /\ peer = "closed"
        /\ at' = "divide" /\ sends' = 0 /\ more' = 0
        /\ UNCHANGED <<wire, spoilt, seqVars>>
  /\ UNCHANGED <<unionBuf, conn, peer, rest, frames, inspVars, linked, mixed>>

\* setSendSeqAndRecvSeq of the server thread, and send, which fails when the
\* client is gone: the handler returns, and startServer goes on dividing.
Answer ==
  /\ \/ at = "carry" /\ sendSeq' = Carry(sendSeq) /\ at' = "add" /\ UNCHANGED <<sends, counted>>
     \/ at = "add" /\ sendSeq' = Plus2(sendSeq) /\ at' = "send" /\ UNCHANGED <<sends, counted>>
     \/ /\ at = "send" /\ counted' = [counted EXCEPT !.sent = @ + 1]
        /\ sends' \in IF peer = "open" THEN {sends - 1} ELSE {sends - 1, 0}
        /\ at' = IF sends' = 0 THEN "divide" ELSE "carry"
        /\ UNCHANGED sendSeq
  /\ UNCHANGED <<unionBuf, more, clientVars, recvSeq, inspVars, linked, mixed, spoilt>>

\* An inspection is started if none is under way.
Started ==
  \E t \in Slots :
    /\ insp[t].at \in {"none", "stopped"}
    /\ insp' = [insp EXCEPT ![t] = [at |-> "start", sends |-> 0]]
    /\ g_executing_inspection' = TRUE /\ mixed' = TRUE

StartInspection_Unguarded ==
  /\ at = "inspect" /\ at' = "divide"
  /\ Started
  /\ UNCHANGED <<unionBuf, more, sends, clientVars, seqVars, linked, spoilt>>

StartInspection ==
  /\ at = "inspect" /\ at' = "divide"
  /\ IF g_executing_inspection THEN UNCHANGED <<inspVars, mixed>> ELSE Started
  /\ UNCHANGED <<unionBuf, more, sends, clientVars, seqVars, linked, spoilt>>

ServerThread ==
  Accept \/ Break \/ Recv \/ Divide \/ Divided \/ SqlRecv \/ Answer \/ StartInspection

-----------------------------------------------------------------------------
(* ackExecuteInspection.                                                   *)

Move(t, next) == insp' = [insp EXCEPT ![t].at = next]

\* The frame is read from a buffer of a block that the server thread has left:
\* if it is no longer one of an inspection, the thread returns, and the flag
\* stays.  A job sends twice, and the end of the inspection once.
Begin(t) ==
  /\ insp[t].at = "start"
  /\ \/ /\ \E jobs \in 0 .. MaxJobs :
            insp' = [insp EXCEPT ![t].at = "carry", ![t].sends = 2 * jobs + 1]
        /\ RecvSeqAdd1
     \/ Move(t, "stopped") /\ UNCHANGED <<sendSeq, recvSeq>>
  /\ UNCHANGED <<g_executing_inspection, counted>>

\* setSendSeqAndRecvSeq
Stamp(t) ==
  /\ \/ insp[t].at = "carry" /\ sendSeq' = Carry(sendSeq) /\ Move(t, "add")
     \/ insp[t].at = "add" /\ sendSeq' = Plus2(sendSeq) /\ Move(t, "send")
  /\ UNCHANGED <<recvSeq, counted, g_executing_inspection>>

\* send: an error, of the client's socket or the pattern recognition's, ends the
\* thread without clearing the flag.
Report(t) ==
  /\ insp[t].at = "send"
  /\ \/ Move(t, "stopped") /\ UNCHANGED g_executing_inspection
     \/ /\ insp[t].sends > 1 /\ UNCHANGED g_executing_inspection
        /\ insp' = [insp EXCEPT ![t].at = "carry", ![t].sends = @ - 1]
     \/ /\ insp[t].sends = 1
        /\ insp' = [insp EXCEPT ![t] = None] /\ g_executing_inspection' = FALSE
  /\ UNCHANGED seqVars

Inspection(t) ==
  /\ Begin(t) \/ Stamp(t) \/ Report(t)
  /\ UNCHANGED <<serverVars, clientVars, linked, mixed, spoilt>>

-----------------------------------------------------------------------------
Next ==
  \/ ServerThread \/ ClientContinues \/ ClientLeaves \/ OnTimer
  \/ \E t \in Slots : Inspection(t)
  \/ \E kind \in Kinds : ClientSends(kind)

Spec == Init /\ [][Next]_vars

-----------------------------------------------------------------------------
(* Properties.                                                             *)

Halves == [kind : AllKinds \cup {"cont"}, half : {1, 2}, left : 0 .. MaxRest, conn : 1 .. MaxConns]
Pairs == (0 .. Byte - 1) \X (0 .. Byte - 1)

\* Type correctness of every variable.
TypeOK ==
  /\ at \in {"accept", "recv", "divide", "sql", "inspect", "carry", "add", "send", "misread"}
  /\ conn \in 0 .. MaxConns /\ frames \in 0 .. MaxFrames /\ sends \in 0 .. 4
  /\ rest \in 0 .. MaxRest /\ more \in 0 .. MaxRest
  /\ peer \in {"open", "closed", "reset"}
  /\ wire \in Seq(Halves) /\ unionBuf \in Seq(Halves)
  /\ sendSeq \in Pairs /\ recvSeq \in Pairs /\ counted \in [{"sent", "recd"} -> Nat]
  /\ {g_executing_inspection, linked, mixed, spoilt} \subseteq BOOLEAN
  /\ insp \in [Slots -> [at : {"none", "start", "carry", "add", "send", "stopped"},
                         sends : 0 .. 2 * MaxJobs + 1]]

\* As long as no recv ends inside a frame, and none brings the rest of an SQL
\* statement too early or something else with it, every frame that is executed is
\* one the current client sent, however many frames a recv brings and whenever the
\* connection before it ended.
FramesIntact == at = "misread" => spoilt

\* Two inspections never move the track at once, and a request is turned down
\* only during one, or after one that could not report.
OneInspection ==
  /\ \A s, t \in Running : s = t
  /\ g_executing_inspection <=> \E t \in Slots : insp[t].at # "none"

\* On a connection without inspections the sequence bytes, carries and wraps
\* included, are the number of frames received of the numbered kinds (queries of
\* history videos and frames of no known type are received and never counted) and
\* the number of the answer about to be sent, since the client connected.
Number(seq) == (seq[2] * Byte + seq[1]) \div 2
Numbers == (Byte * Byte) \div 2
SeqExact ==
  ~mixed =>
    /\ Number(recvSeq) = counted.recd % Numbers
    /\ at \notin {"add", "send"} => Number(sendSeq) = counted.sent % Numbers
    /\ at = "send" => Number(sendSeq) = (counted.sent + 1) % Numbers
=============================================================================
