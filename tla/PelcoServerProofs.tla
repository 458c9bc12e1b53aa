------------------------- MODULE PelcoServerProofs -------------------------
(***************************************************************************)
(* The control server of Pelco_Server_interface, for every number of       *)
(* connections, frames and jobs, and every even number of values of a      *)
(* byte: one inspection runs at a time, the sequence bytes count exactly,  *)
(* and the frames that are executed are those that were sent.              *)
(***************************************************************************)
EXTENDS PelcoServer, SequenceTheorems, TLAPS

(* One inspection at a time.  OneInspection is not inductive: it speaks of *)
(* threads that run, and says nothing of two that stopped in an error and  *)
(* left the flag set.  The invariant is that no more than one thread has   *)
(* been started since the flag was last clear, whether it runs or has      *)
(* stopped: the flag is then the only thing StartInspection looks at.      *)

Stages == {"none", "start", "carry", "add", "send", "stopped"}
Busy(t) == insp[t].at # "none"

Inv ==
  /\ insp \in [Slots -> [at : Stages, sends : Int]]
  /\ g_executing_inspection \in BOOLEAN
  /\ \A s, t \in Slots : Busy(s) /\ Busy(t) => s = t
  /\ g_executing_inspection <=> \E t \in Slots : Busy(t)

LEMMA InitInv == Init => Inv
<1> SUFFICES ASSUME Init PROVE Inv
  OBVIOUS
<1>1. insp = [t \in Slots |-> None] /\ g_executing_inspection = FALSE
  BY DEF Init
<1>2. None \in [at : Stages, sends : Int] /\ None.at = "none"
  BY DEF None, Stages
<1>3. \A t \in Slots : ~Busy(t)
  BY <1>1, <1>2 DEF Busy
<1> QED BY <1>1, <1>2, <1>3 DEF Inv

\* The server thread starts an inspection only when the flag is clear, which is
\* when no thread is there.
LEMMA StartInv ==
  ASSUME Inv, StartInspection
  PROVE  Inv'
<1>1. CASE g_executing_inspection
  BY <1>1 DEF StartInspection, inspVars, Inv, Busy
<1>2. CASE ~g_executing_inspection
  <2>1. PICK t \in Slots :
          insp' = [insp EXCEPT ![t] = [at |-> "start", sends |-> 0]] /\ g_executing_inspection' = TRUE
    BY <1>2 DEF StartInspection, Started
  <2>2. \A s \in Slots : insp[s].at = "none"
    BY <1>2 DEF Inv, Busy
  <2>3. insp'[t].at = "start" /\ \A s \in Slots : s # t => insp'[s].at = "none"
    BY <2>1, <2>2 DEF Inv
  <2>4. insp' \in [Slots -> [at : Stages, sends : Int]]
    BY <2>1 DEF Inv, Stages
  <2> QED BY <2>1, <2>3, <2>4 DEF Inv, Busy
<1> QED BY <1>1, <1>2

\* A step of an inspection thread: until it clears the flag the thread is busy,
\* and when it does no other is.
LEMMA InspectionInv ==
  ASSUME MaxJobs \in Nat, Inv, NEW t \in Slots, Inspection(t)
  PROVE  Inv'
<1> DEFINE Stays == /\ insp' \in [Slots -> [at : Stages, sends : Int]]
                    /\ insp'[t].at # "none" /\ \A s \in Slots \ {t} : insp'[s] = insp[s]
<1>1. ASSUME Busy(t), Stays, UNCHANGED g_executing_inspection
      PROVE  Inv'
  <2>1. \A s \in Slots : Busy(s)' <=> Busy(s)
    BY <1>1 DEF Busy
  <2> QED BY <2>1, <1>1 DEF Inv
<1>2. ASSUME Busy(t), insp' = [insp EXCEPT ![t] = None], g_executing_inspection' = FALSE
      PROVE  Inv'
  <2>1. insp' \in [Slots -> [at : Stages, sends : Int]]
    BY <1>2 DEF Inv, None, Stages
  <2>2. \A s \in Slots : ~Busy(s)'
    BY <1>2 DEF Inv, Busy, None
  <2> QED BY <2>1, <2>2, <1>2 DEF Inv
<1>3. ASSUME NEW next \in Stages \ {"none"}, Move(t, next)
      PROVE  Stays
  BY <1>3 DEF Move, Inv
<1>4. ASSUME NEW n \in Int, insp' = [insp EXCEPT ![t].at = "carry", ![t].sends = n]
      PROVE  Stays
  BY <1>4 DEF Inv, Stages
<1>5. insp[t].sends \in Int
  BY DEF Inv
<1> HIDE DEF Stays
<1>6. CASE Begin(t)
  <2>1. Busy(t) /\ UNCHANGED g_executing_inspection
    BY <1>6 DEF Begin, Busy
  <2>2. CASE \E jobs \in 0 .. MaxJobs :
               insp' = [insp EXCEPT ![t].at = "carry", ![t].sends = 2 * jobs + 1]
    <3>1. PICK jobs \in 0 .. MaxJobs :
            insp' = [insp EXCEPT ![t].at = "carry", ![t].sends = 2 * jobs + 1]
      BY <2>2
    <3>2. 2 * jobs + 1 \in Int
      OBVIOUS
    <3> QED BY <1>1, <1>4, <2>1, <3>1, <3>2
  <2>3. CASE Move(t, "stopped")
    BY <1>1, <1>3, <2>1, <2>3 DEF Stages
  <2> QED BY <1>6, <2>2, <2>3 DEF Begin
<1>7. CASE Stamp(t)
  <2>1. Busy(t) /\ UNCHANGED g_executing_inspection
    BY <1>7 DEF Stamp, Busy
  <2>2. Move(t, "add") \/ Move(t, "send")
    BY <1>7 DEF Stamp
  <2> QED BY <1>1, <1>3, <2>1, <2>2 DEF Stages
<1>8. CASE Report(t)
  <2>1. Busy(t)
    BY <1>8 DEF Report, Busy
  <2>2. CASE Move(t, "stopped") /\ UNCHANGED g_executing_inspection
    BY <1>1, <1>3, <2>1, <2>2 DEF Stages
  <2>3. CASE /\ insp' = [insp EXCEPT ![t].at = "carry", ![t].sends = @ - 1]
             /\ UNCHANGED g_executing_inspection
    <3>1. insp[t].sends - 1 \in Int
      BY <1>5
    <3> QED BY <1>1, <1>4, <2>1, <2>3, <3>1
  <2>4. CASE insp' = [insp EXCEPT ![t] = None] /\ g_executing_inspection' = FALSE
    BY <1>2, <2>1, <2>4
  <2> QED BY <1>8, <2>2, <2>3, <2>4 DEF Report
<1> QED BY <1>6, <1>7, <1>8 DEF Inspection

\* Two inspections never move the track at once, and the flag is set exactly while
\* one runs or after one that could not report, for every value of the constants.
THEOREM OneInspectionHolds ==
  ASSUME MaxJobs \in Nat
  PROVE  Spec => []OneInspection
<1>1. Inv /\ [Next]_vars => Inv'
  <2> SUFFICES ASSUME Inv, [Next]_vars PROVE Inv'
    OBVIOUS
  <2>1. CASE UNCHANGED inspVars
    BY <2>1 DEF inspVars, Inv, Busy
  <2>2. CASE StartInspection
    BY <2>2, StartInv
  <2>3. ASSUME NEW t \in Slots, Inspection(t) PROVE Inv'
    BY <2>3, InspectionInv
  <2>4. ServerThread => StartInspection \/ UNCHANGED inspVars
    BY DEF ServerThread, Accept, Break, Close, Recv, Divide, Divided, SqlRecv, Answer
  <2>5. ClientContinues \/ ClientLeaves \/ OnTimer \/ (\E kind \in Kinds : ClientSends(kind)) => UNCHANGED inspVars
    BY DEF ClientContinues, ClientLeaves, OnTimer, ClientSends
  <2>6. UNCHANGED vars => UNCHANGED inspVars
    BY DEF vars
  <2> QED BY <2>1, <2>2, <2>3, <2>4, <2>5, <2>6 DEF Next
<1>2. Inv => OneInspection
  BY DEF Inv, Busy, OneInspection, Running
<1> QED BY InitInv, <1>1, <1>2, PTL DEF Spec

-----------------------------------------------------------------------------
(* What the program's constants are: NetPrograms assumes it.               *)

Parameters ==
  /\ Kinds \subseteq AllKinds
  /\ Byte \in Nat \ {0} /\ Byte % 2 = 0
  /\ {MaxConns, MaxFrames, MaxJobs} \subseteq Nat

-----------------------------------------------------------------------------
(* Types.                                                                  *)

\* A client is connected once there was a connection, and what still has to be
\* sent is.
Counts ==
  /\ peer = "open" => conn >= 1
  /\ at \in {"carry", "add", "send", "sql"} => sends >= 1
  /\ at = "sql" => more >= 1
  /\ \A t \in Slots : insp[t].at \in {"carry", "add", "send"} => insp[t].sends >= 1

TInv == TypeOK /\ Counts

Flags == {g_executing_inspection, linked, mixed, spoilt} \subseteq BOOLEAN
Places == {"accept", "recv", "divide", "sql", "inspect", "carry", "add", "send", "misread"}
AllSlots == [Slots -> [at : {"none", "start", "carry", "add", "send", "stopped"},
                       sends : 0 .. 2 * MaxJobs + 1]]

LEMMA SeqTypes ==
  ASSUME Parameters, NEW seq \in Pairs
  PROVE  Carry(seq) \in Pairs /\ Plus2(seq) \in Pairs
<1>1. \A x \in Nat : x % Byte \in 0 .. Byte - 1
  BY DEF Parameters
<1>2. seq = <<seq[1], seq[2]>> /\ seq[1] \in Nat /\ seq[2] \in Nat
      /\ seq[1] \in 0 .. Byte - 1 /\ seq[2] \in 0 .. Byte - 1
  BY DEF Pairs
<1>3. seq[1] + 2 \in Nat /\ seq[2] + 1 \in Nat
  BY <1>2
<1>4. (seq[1] + 2) % Byte \in 0 .. Byte - 1 /\ (seq[2] + 1) % Byte \in 0 .. Byte - 1
  BY <1>1, <1>3
<1> QED BY <1>2, <1>4 DEF Carry, Plus2, Pairs

LEMMA WholeTypes ==
  ASSUME TInv, peer = "open", NEW kind \in AllKinds \cup {"cont"}, NEW left \in 0 .. MaxRest
  PROVE  Whole(kind, left) \in Seq(Halves) /\ Len(Whole(kind, left)) = 2
<1>1. conn \in 1 .. MaxConns
  BY DEF TInv, TypeOK, Counts
<1> QED BY <1>1 DEF Whole, Half, Halves

LEMMA HandlerTypes == \A kind : Handler(kind) \subseteq 0 .. 4
BY DEF Handler, AckConnect, AckAllCall, AckWriteDatabases, AckExecuteYuzhiOperation, AckYuzhiOperation,
       AckWriteYuzhiOperation, AckHandOperation, AckExecuteSQL, AckQueryHistoryVideo

LEMMA ServerInit == Parameters /\ Init => TInv
<1> SUFFICES ASSUME Parameters, Init PROVE TInv
  OBVIOUS
<1>1. 0 \in 0 .. MaxConns /\ 0 \in 0 .. MaxFrames /\ 0 \in 0 .. 2 * MaxJobs + 1 /\ 0 \in 0 .. Byte - 1
  BY DEF Parameters
<1>2. insp \in AllSlots
  BY <1>1 DEF Init, None, AllSlots
<1>3. Flags
  BY DEF Init, Flags
<1>4. <<0, 0>> \in Pairs /\ [sent |-> 0, recd |-> 0] \in [{"sent", "recd"} -> Nat]
  BY <1>1 DEF Pairs
<1>7. rest \in 0 .. MaxRest /\ more \in 0 .. MaxRest /\ wire \in Seq(Halves) /\ unionBuf \in Seq(Halves)
  BY EmptySeq DEF Init, MaxRest
<1>5. TypeOK
  BY <1>1, <1>2, <1>3, <1>4, <1>7 DEF Init, TypeOK, Flags, AllSlots
<1>6. Counts
  BY DEF Init, Counts, None
<1> QED BY <1>5, <1>6 DEF TInv

\* The client and the timer.
LEMMA ClientTypes ==
  ASSUME Parameters, TInv,
         ClientContinues \/ ClientLeaves \/ OnTimer \/ (\E kind \in Kinds : ClientSends(kind))
  PROVE  TInv'
<1> USE DEF TInv
<1>1. /\ UNCHANGED <<at, unionBuf, more, sends, conn, sendSeq, recvSeq, counted, insp, mixed, spoilt, g_executing_inspection>>
      /\ peer' = peer \/ peer' \in {"closed", "reset"}
      /\ linked' \in BOOLEAN
  BY DEF ClientContinues, ClientLeaves, OnTimer, ClientSends, serverVars, clientVars, seqVars, inspVars, TypeOK
<1>2. frames' \in 0 .. MaxFrames
  <2>1. frames' = frames \/ (frames < MaxFrames /\ frames' = frames + 1)
    BY DEF ClientContinues, ClientLeaves, OnTimer, ClientSends, clientVars
  <2> QED BY <2>1 DEF Parameters, TypeOK
<1>3. wire' \in Seq(Halves) /\ rest' \in 0 .. MaxRest
  <2>1. CASE ClientLeaves \/ OnTimer
    <3>1. (wire' = wire \/ wire' = <<>>) /\ UNCHANGED rest
      BY <2>1 DEF ClientLeaves, OnTimer, clientVars
    <3> QED BY <3>1, EmptySeq DEF TypeOK
  <2>2. ASSUME NEW kind \in Kinds, ClientSends(kind) PROVE wire' \in Seq(Halves) /\ rest' \in 0 .. MaxRest
    <3>1. /\ peer = "open" /\ wire' = wire \o Whole(kind, rest') /\ rest' \in 0 .. MaxRest
          /\ kind \in AllKinds
      BY <2>2 DEF ClientSends, MaxRest, Parameters
    <3>2. Whole(kind, rest') \in Seq(Halves)
      BY <3>1, WholeTypes
    <3> QED BY <3>1, <3>2 DEF TypeOK
  <2>3. CASE ClientContinues
    <3>1. /\ peer = "open" /\ wire' = wire \o Whole("cont", rest') /\ rest' \in 0 .. MaxRest
      BY <2>3 DEF ClientContinues, TypeOK, MaxRest
    <3>2. Whole("cont", rest') \in Seq(Halves)
      BY <3>1, WholeTypes
    <3> QED BY <3>1, <3>2 DEF TypeOK
  <2> QED BY <2>1, <2>2, <2>3
<1>4. Flags'
  BY <1>1 DEF TypeOK, Flags
<1>5. TypeOK'
  BY <1>1, <1>2, <1>3, <1>4 DEF TypeOK, Flags
<1>6. Counts'
  BY <1>1 DEF Counts
<1> QED BY <1>5, <1>6

\* What is left and what is taken of a buffer.
LEMMA Parts ==
  ASSUME NEW s \in Seq(Halves), NEW n \in 1 .. Len(s)
  PROVE  /\ SubSeq(s, 1, n) \in Seq(Halves) /\ Len(SubSeq(s, 1, n)) = n
         /\ \A i \in 1 .. n : SubSeq(s, 1, n)[i] = s[i]
         /\ SubSeq(s, n + 1, Len(s)) \in Seq(Halves) /\ Len(SubSeq(s, n + 1, Len(s))) = Len(s) - n
         /\ \A i \in 1 .. Len(s) - n : SubSeq(s, n + 1, Len(s))[i] = s[i + n]
<1>1. Len(s) \in Nat /\ n \in Nat /\ n <= Len(s) /\ n >= 1
  BY LenProperties
<1>2. \A i \in 1 .. Len(s) : s[i] \in Halves
  BY ElementOfSeq
<1> QED BY <1>1, <1>2, SubSeqProperties

LEMMA ReceiveTypes ==
  ASSUME Parameters, TInv, Accept \/ Break \/ Recv \/ Divided
  PROVE  TInv'
<1> USE DEF TInv
<1>1. CASE Accept
  <2>1. /\ conn < MaxConns /\ conn' = conn + 1 /\ peer' = "open" /\ wire' = <<>> /\ at' = "recv"
        /\ sendSeq' = <<0, 0>> /\ recvSeq' = <<0, 0>> /\ counted' = [sent |-> 0, recd |-> 0]
        /\ mixed' = (Running # {})
        /\ rest' = 0
        /\ UNCHANGED <<unionBuf, more, sends, frames, g_executing_inspection, insp, linked, spoilt>>
    BY <1>1 DEF Accept, inspVars
  <2>2. conn' \in 0 .. MaxConns /\ conn' >= 1 /\ 0 \in 0 .. Byte - 1
    BY <2>1 DEF TypeOK, Parameters
  <2>3. Flags'
    BY <2>1 DEF TypeOK, Flags
  <2>4. sendSeq' \in Pairs /\ recvSeq' \in Pairs /\ counted' \in [{"sent", "recd"} -> Nat]
    BY <2>1, <2>2 DEF Pairs
  <2>7. wire' \in Seq(Halves) /\ unionBuf' \in Seq(Halves) /\ insp' \in AllSlots
    BY <2>1, EmptySeq DEF TypeOK, AllSlots
  <2>8. at' \in Places /\ frames' \in 0 .. MaxFrames /\ sends' \in 0 .. 4 /\ peer' \in {"open", "closed", "reset"}
    BY <2>1 DEF TypeOK, Places
  <2>9. rest' \in 0 .. MaxRest /\ more' \in 0 .. MaxRest
    BY <2>1 DEF TypeOK, MaxRest
  <2>5. TypeOK'
    BY <2>2, <2>3, <2>4, <2>7, <2>8, <2>9 DEF TypeOK, Flags, AllSlots, Places
  <2>6. Counts'
    BY <2>1, <2>2 DEF Counts
  <2> QED BY <2>5, <2>6
<1>2. CASE Break \/ Divided
  <2>1. /\ UNCHANGED <<unionBuf, more, sends, conn, rest, frames, sendSeq, recvSeq, counted, insp, g_executing_inspection, linked, mixed, spoilt>>
        /\ wire' = wire \/ wire' = <<>>
        /\ peer' = peer \/ peer' = "closed"
        /\ at' \in {"accept", "recv"}
    BY <1>2 DEF Break, Close, Divided, clientVars, seqVars, inspVars
  <2>2. Flags' /\ wire' \in Seq(Halves)
    BY <2>1, EmptySeq DEF TypeOK, Flags
  <2>3. TypeOK'
    BY <2>1, <2>2 DEF TypeOK, Flags
  <2>4. Counts'
    BY <2>1 DEF Counts
  <2> QED BY <2>3, <2>4
<1>3. CASE Recv
  <2>1. /\ at' = "divide"
        /\ UNCHANGED <<more, sends, conn, peer, rest, frames, sendSeq, recvSeq, counted, insp, g_executing_inspection, linked, mixed>>
    BY <1>3 DEF Recv, seqVars, inspVars
  <2>2. PICK n \in 1 .. Len(wire) :
          /\ unionBuf' = unionBuf \o SubSeq(wire, 1, n)
          /\ wire' = SubSeq(wire, n + 1, Len(wire))
          /\ spoilt' = (spoilt \/ Spoils(n))
    BY <1>3 DEF Recv
  <2>3. unionBuf' \in Seq(Halves) /\ wire' \in Seq(Halves)
    BY <2>2, Parts, ConcatProperties DEF TypeOK
  <2>4. Flags'
    BY <2>1, <2>2 DEF TypeOK, Flags
  <2>5. TypeOK'
    BY <2>1, <2>3, <2>4 DEF TypeOK, Flags
  <2>6. Counts'
    BY <2>1 DEF Counts
  <2> QED BY <2>5, <2>6
<1> QED BY <1>1, <1>2, <1>3

LEMMA DivideTypes ==
  ASSUME Parameters, TInv, Divide \/ SqlRecv
  PROVE  TInv'
<1> USE DEF TInv
<1>1. recvSeq' \in Pairs /\ sendSeq' \in Pairs /\ counted' \in [{"sent", "recd"} -> Nat]
  <2>1. recvSeq \in Pairs /\ sendSeq \in Pairs /\ counted \in [{"sent", "recd"} -> Nat]
    BY DEF TypeOK
  <2>2. UNCHANGED <<sendSeq, recvSeq>> \/ RecvSeqAdd1 \/ RecvSeqAdd2
    BY DEF Divide, SqlRecv, seqVars
  <2>3. recvSeq' \in Pairs /\ sendSeq' \in Pairs
    BY <2>1, <2>2, SeqTypes DEF RecvSeqAdd1, RecvSeqAdd2, Added
  <2>4. counted' = counted \/ \E k \in Nat : counted' = [counted EXCEPT !.recd = @ + k]
    <3>1. CASE Divide
      <4>1. counted' = counted \/ counted' = [counted EXCEPT !.recd = @ + 1]
        BY <3>1 DEF Divide, seqVars
      <4> QED BY <4>1
    <3>2. CASE SqlRecv
      <4>1. UNCHANGED counted \/ \E n \in 1 .. Len(wire) : counted' = [counted EXCEPT !.recd = @ + n \div 2]
        BY <3>2 DEF SqlRecv, seqVars
      <4>2. \A n \in 1 .. Len(wire) : n \div 2 \in Nat
        BY LenProperties DEF TypeOK
      <4> QED BY <4>1, <4>2
    <3> QED BY <3>1, <3>2
  <2>5. counted' \in [{"sent", "recd"} -> Nat]
    BY <2>1, <2>4
  <2> QED BY <2>3, <2>5
<1>2. CASE Divide
  <2>1. /\ at = "divide"
        /\ unionBuf' = SubSeq(unionBuf, 3, Len(unionBuf)) /\ Len(unionBuf) >= 2
        /\ UNCHANGED <<conn, peer, rest, wire, frames, insp, g_executing_inspection, linked, mixed, spoilt>>
    BY <1>2 DEF Divide, clientVars, inspVars
  <2>2. unionBuf' \in Seq(Halves)
    <3>1. Len(unionBuf) \in Nat /\ unionBuf \in Seq(Halves)
      BY LenProperties DEF TypeOK
    <3> QED BY <2>1, <3>1, Parts
  <2>3. /\ at' \in Places /\ sends' \in 0 .. 4 /\ more' \in 0 .. MaxRest
        /\ at' \in {"carry", "add", "send", "sql"} => sends' >= 1
        /\ at' = "sql" => more' >= 1
    <3>1. CASE at' = "misread" /\ UNCHANGED <<more, sends>>
      BY <3>1 DEF TypeOK, Places
    <3>2. ASSUME NEW kind, kind = unionBuf[1].kind, NEW left, left = unionBuf[1].left, sends' \in Handler(kind),
                 more' = left, at' = Entry(kind, left, sends')
          PROVE  /\ at' \in Places /\ sends' \in 0 .. 4 /\ more' \in 0 .. MaxRest
                 /\ at' \in {"carry", "add", "send", "sql"} => sends' >= 1
                 /\ at' = "sql" => more' >= 1
      <4>1. sends' \in 0 .. 4 /\ (kind = "sql" => sends' = 1) /\ (kind = "inspect" => sends' = 0)
        BY <3>2, HandlerTypes DEF Handler, AckExecuteSQL
      <4>2. unionBuf[1] \in Halves
        <5>1. unionBuf \in Seq(Halves) /\ 1 \in 1 .. Len(unionBuf)
          BY <2>1, LenProperties DEF TypeOK
        <5> QED BY <5>1, ElementOfSeq
      <4>3. left \in 0 .. MaxRest
        BY <3>2, <4>2 DEF Halves
      <4> QED BY <3>2, <4>1, <4>3 DEF Places, Entry, MaxRest
    <3> QED BY <1>2, <3>1, <3>2 DEF Divide
  <2>4. Flags'
    BY <2>1 DEF TypeOK, Flags
  <2>5. TypeOK'
    BY <1>1, <2>1, <2>2, <2>3, <2>4 DEF TypeOK, Flags, Places
  <2>6. Counts'
    BY <2>1, <2>3 DEF Counts
  <2> QED BY <2>5, <2>6
<1>3. CASE SqlRecv
  <2>1. /\ at = "sql" /\ sends' \in {sends, 0}
        /\ at' \in {"carry", "sql", "misread", "divide"}
        /\ at' \in {"carry", "sql"} => sends' = sends
        /\ UNCHANGED <<unionBuf, conn, peer, rest, frames, insp, g_executing_inspection, linked, mixed>>
    BY <1>3 DEF SqlRecv, inspVars
  <2>2. /\ spoilt' \in BOOLEAN
        /\ wire' = wire \/ \E n \in 1 .. Len(wire) : wire' = SubSeq(wire, n + 1, Len(wire))
    BY <1>3 DEF SqlRecv, TypeOK
  <2>3. wire' \in Seq(Halves)
    <3>1. wire \in Seq(Halves)
      BY DEF TypeOK
    <3> QED BY <2>2, <3>1, Parts
  <2>4. Flags'
    BY <2>1, <2>2 DEF TypeOK, Flags
  <2>5. at' \in Places /\ sends' \in 0 .. 4
    BY <2>1 DEF TypeOK, Places
  <2>6. more' \in 0 .. MaxRest /\ (at' = "sql" => more' >= 1)
    <3>1. CASE at' = "misread" /\ UNCHANGED more
      BY <3>1 DEF TypeOK
    <3>2. CASE at' = "divide" /\ more' = 0
      BY <3>2 DEF MaxRest
    <3>3. ASSUME NEW n \in 1 .. Len(wire), OfStatement(n), more' = more - n \div 2,
                 at' = IF more' = 0 THEN "carry" ELSE "sql"
          PROVE  more' \in 0 .. MaxRest /\ (at' = "sql" => more' >= 1)
      <4>1. n \in Nat /\ n % 2 = 0 /\ n <= 2 * more /\ more \in 0 .. MaxRest
        BY <3>3, LenProperties DEF OfStatement, TypeOK
      <4>2. more - n \div 2 \in 0 .. MaxRest
        BY <4>1 DEF MaxRest
      <4> QED BY <3>3, <4>2 DEF MaxRest
    <3> QED BY <1>3, <3>1, <3>2, <3>3 DEF SqlRecv
  <2>7. TypeOK'
    BY <1>1, <2>1, <2>3, <2>4, <2>5, <2>6 DEF TypeOK, Flags, Places
  <2>8. Counts'
    BY <2>1, <2>6 DEF Counts
  <2> QED BY <2>7, <2>8
<1> QED BY <1>2, <1>3

LEMMA AnswerTypes ==
  ASSUME Parameters, TInv, Answer \/ StartInspection
  PROVE  TInv'
<1> USE DEF TInv
<1>1. CASE Answer
  <2>1. /\ UNCHANGED <<unionBuf, more, conn, peer, rest, wire, frames, recvSeq, insp, g_executing_inspection, linked, mixed, spoilt>>
        /\ at \in {"carry", "add", "send"}
    BY <1>1 DEF Answer, clientVars, inspVars
  <2>2. sendSeq' \in Pairs /\ counted' \in [{"sent", "recd"} -> Nat]
    BY <1>1, SeqTypes DEF Answer, TypeOK
  <2>3. /\ at' \in Places /\ sends' \in 0 .. 4
        /\ at' \in {"carry", "add", "send", "sql"} => sends' >= 1
        /\ at' # "sql"
    BY <1>1 DEF Answer, TypeOK, Counts, Places
  <2>4. Flags'
    BY <2>1 DEF TypeOK, Flags
  <2>5. TypeOK'
    BY <2>1, <2>2, <2>3, <2>4 DEF TypeOK, Flags, Places
  <2>6. Counts'
    BY <2>1, <2>3 DEF Counts
  <2> QED BY <2>5, <2>6
<1>2. CASE StartInspection
  <2>1. /\ UNCHANGED <<unionBuf, more, sends, conn, peer, rest, wire, frames, sendSeq, recvSeq, counted, linked, spoilt>>
        /\ at' = "divide"
    BY <1>2 DEF StartInspection, clientVars, seqVars
  <2>2. /\ g_executing_inspection' \in BOOLEAN /\ mixed' \in BOOLEAN
        /\ \/ UNCHANGED insp
           \/ \E t \in Slots : insp' = [insp EXCEPT ![t] = [at |-> "start", sends |-> 0]]
    BY <1>2 DEF StartInspection, Started, inspVars, TypeOK
  <2>3. 0 \in 0 .. 2 * MaxJobs + 1
    BY DEF Parameters
  <2>4. insp' \in AllSlots /\ \A t \in Slots : insp'[t] = insp[t] \/ insp'[t].at = "start"
    <3>1. insp \in AllSlots
      BY DEF TypeOK, AllSlots
    <3> QED BY <2>2, <2>3, <3>1 DEF AllSlots
  <2>5. Flags'
    BY <2>1, <2>2 DEF TypeOK, Flags
  <2>6. TypeOK'
    BY <2>1, <2>4, <2>5 DEF TypeOK, Flags, AllSlots
  <2>7. Counts'
    BY <2>1, <2>4 DEF Counts
  <2> QED BY <2>6, <2>7
<1> QED BY <1>1, <1>2

\* An inspection thread.
LEMMA InspectionTypes ==
  ASSUME Parameters, TInv, NEW t \in Slots, Inspection(t)
  PROVE  TInv'
<1> USE DEF TInv
<1>1. UNCHANGED <<at, unionBuf, more, sends, conn, peer, rest, wire, frames, linked, mixed, spoilt>>
  BY DEF Inspection, serverVars, clientVars
<1>2. g_executing_inspection' \in BOOLEAN
  BY DEF Inspection, Begin, Stamp, Report, TypeOK
<1>3. recvSeq' \in Pairs /\ sendSeq' \in Pairs /\ counted' \in [{"sent", "recd"} -> Nat]
  <2>1. CASE UNCHANGED <<sendSeq, recvSeq, counted>>
    BY <2>1 DEF TypeOK
  <2>2. CASE RecvSeqAdd1 /\ UNCHANGED counted
    BY <2>2, SeqTypes DEF RecvSeqAdd1, Added, TypeOK
  <2>3. CASE Stamp(t)
    BY <2>3, SeqTypes DEF Stamp, TypeOK
  <2> QED BY <2>1, <2>2, <2>3 DEF Inspection, Begin, Report, seqVars
<1>4. /\ insp' \in AllSlots /\ \A s \in Slots \ {t} : insp'[s] = insp[s]
      /\ insp'[t].at \in {"carry", "add", "send"} => insp'[t].sends >= 1
  <2>1. insp \in AllSlots /\ insp[t].sends \in 0 .. 2 * MaxJobs + 1 /\ 0 \in 0 .. 2 * MaxJobs + 1
    BY DEF TypeOK, Parameters, AllSlots
  <2>2. CASE Begin(t)
    <3>1. CASE Move(t, "stopped")
      BY <2>1, <3>1 DEF Move, AllSlots
    <3>2. ASSUME NEW jobs \in 0 .. MaxJobs,
                 insp' = [insp EXCEPT ![t].at = "carry", ![t].sends = 2 * jobs + 1]
          PROVE  /\ insp' \in AllSlots /\ \A s \in Slots \ {t} : insp'[s] = insp[s]
                 /\ insp'[t].at \in {"carry", "add", "send"} => insp'[t].sends >= 1
      <4>1. 2 * jobs + 1 \in 0 .. 2 * MaxJobs + 1 /\ 2 * jobs + 1 >= 1
        BY DEF Parameters
      <4> QED BY <2>1, <3>2, <4>1 DEF AllSlots
    <3> QED BY <2>2, <3>1, <3>2 DEF Begin
  <2>3. CASE Stamp(t)
    <3>1. insp[t].sends >= 1 /\ (Move(t, "add") \/ Move(t, "send"))
      BY <2>3 DEF Stamp, Counts
    <3> QED BY <2>1, <3>1 DEF Move, AllSlots
  <2>4. CASE Report(t)
    <3>1. CASE Move(t, "stopped")
      BY <2>1, <3>1 DEF Move, AllSlots
    <3>2. CASE insp[t].sends > 1 /\ insp' = [insp EXCEPT ![t].at = "carry", ![t].sends = @ - 1]
      <4>1. insp[t].sends - 1 \in 0 .. 2 * MaxJobs + 1 /\ insp[t].sends - 1 >= 1
        <5>1. 2 * MaxJobs + 1 \in Nat
          BY DEF Parameters
        <5> QED BY <2>1, <3>2, <5>1
      <4> QED BY <2>1, <3>2, <4>1 DEF AllSlots
    <3>3. CASE insp' = [insp EXCEPT ![t] = None]
      BY <2>1, <3>3 DEF AllSlots, None
    <3> QED BY <2>4, <3>1, <3>2, <3>3 DEF Report
  <2> QED BY <2>2, <2>3, <2>4 DEF Inspection
<1>5. Flags'
  BY <1>1, <1>2 DEF TypeOK, Flags
<1>6. TypeOK'
  BY <1>1, <1>3, <1>4, <1>5 DEF TypeOK, Flags, AllSlots
<1>7. Counts'
  BY <1>1, <1>4 DEF Counts
<1> QED BY <1>6, <1>7

LEMMA ServerStep == Parameters /\ TInv /\ [Next]_vars => TInv'
<1> SUFFICES ASSUME Parameters, TInv, [Next]_vars PROVE TInv'
  OBVIOUS
<1>1. CASE UNCHANGED vars
  BY <1>1 DEF TInv, TypeOK, Counts, vars, serverVars, clientVars, seqVars, inspVars
<1>2. CASE ServerThread
  BY <1>2, ReceiveTypes, DivideTypes, AnswerTypes DEF ServerThread
<1>3. CASE ClientContinues \/ ClientLeaves \/ OnTimer \/ \E kind \in Kinds : ClientSends(kind)
  BY <1>3, ClientTypes
<1>4. ASSUME NEW t \in Slots, Inspection(t) PROVE TInv'
  BY <1>4, InspectionTypes
<1> QED BY <1>1, <1>2, <1>3, <1>4 DEF Next

\* Type correctness: the sequence bytes keep their width, no handler and no
\* inspection sends more than it has to, and no connection is of client 0.
THEOREM TypeCorrect ==
  ASSUME Parameters
  PROVE  Spec => []TypeOK
<1>1. TInv => TypeOK
  BY DEF TInv
<1>2. Init => TInv
  BY ServerInit
<1>3. TInv /\ [Next]_vars => TInv'
  BY ServerStep
<1> QED BY <1>1, <1>2, <1>3, PTL DEF Spec

-----------------------------------------------------------------------------
(* The sequence bytes: arithmetic of the carry and the wrap.               *)

\* The library has no facts about the remainder of a sum.
LEMMA Division ==
  ASSUME NEW n \in Nat \ {0}, NEW a \in Nat
  PROVE  /\ a \div n \in Nat /\ a % n \in 0 .. n - 1
         /\ a = n * (a \div n) + (a % n)
OBVIOUS

LEMMA Unique ==
  ASSUME NEW n \in Nat \ {0}, NEW q \in Nat, NEW r \in 0 .. n - 1, NEW p \in Nat, NEW s \in 0 .. n - 1,
         n * q + r = n * p + s
  PROVE  r = s
<1>1. n * (q - p) = s - r
  OBVIOUS
<1>2. CASE q - p >= 1
  <2>1. n * (q - p) >= n
    BY <1>2
  <2> QED BY <1>1, <2>1
<1>3. CASE q - p <= -1
  <2>1. n * (p - q) >= n
    BY <1>3
  <2>2. n * (p - q) = r - s
    OBVIOUS
  <2> QED BY <2>1, <2>2
<1>4. CASE q = p
  BY <1>1, <1>4
<1> QED BY <1>2, <1>3, <1>4

LEMMA ModSuccessor ==
  ASSUME NEW n \in Nat \ {0}, NEW a \in Nat
  PROVE  (a + 1) % n = IF a % n = n - 1 THEN 0 ELSE (a % n) + 1
<1> DEFINE q == a \div n
           r == a % n
           p == (a + 1) \div n
           s == (a + 1) % n
<1>1. q \in Nat /\ r \in 0 .. n - 1 /\ a = n * q + r
  BY Division
<1>2. p \in Nat /\ s \in 0 .. n - 1 /\ a + 1 = n * p + s
  <2>1. a + 1 \in Nat
    OBVIOUS
  <2> QED BY <2>1, Division
<1> HIDE DEF q, r, p, s
<1>3. CASE r = n - 1
  <2>1. n * (q + 1) + 0 = n * p + s
    BY <1>1, <1>2, <1>3
  <2>2. 0 \in 0 .. n - 1 /\ q + 1 \in Nat
    BY <1>1
  <2>3. s = 0
    BY <1>2, <2>1, <2>2, Unique
  <2> QED BY <1>3, <2>3 DEF r, s
<1>4. CASE r < n - 1
  <2>1. n * q + (r + 1) = n * p + s /\ r + 1 \in 0 .. n - 1
    BY <1>1, <1>2, <1>4
  <2>2. s = r + 1
    BY <1>1, <1>2, <2>1, Unique
  <2> QED BY <1>4, <2>2 DEF r, s
<1> QED BY <1>1, <1>3, <1>4
LEMMA Halved ==
  ASSUME NEW n \in Nat
  PROVE  (2 * n) \div 2 = n
OBVIOUS

LEMMA HalfByte ==
  ASSUME Byte \in Nat \ {0}, Byte % 2 = 0
  PROVE  \E b \in Nat \ {0} : Byte = 2 * b
<1>1. Byte \div 2 \in Nat \ {0} /\ Byte = 2 * (Byte \div 2)
  OBVIOUS
<1> QED BY <1>1

LEMMA NumberIs ==
  ASSUME NEW b \in Nat \ {0}, Byte = 2 * b, NEW l \in Nat, NEW h \in Nat
  PROVE  Number(<<2 * l, h>>) = h * b + l
<1>1. h * Byte + 2 * l = 2 * (h * b + l)
  OBVIOUS
<1>2. h * b + l \in Nat
  OBVIOUS
<1>3. (2 * (h * b + l)) \div 2 = h * b + l
  BY <1>2, Halved
<1> QED BY <1>1, <1>3 DEF Number

LEMMA NumbersIs ==
  ASSUME NEW b \in Nat \ {0}, Byte = 2 * b
  PROVE  Numbers = 2 * (b * b) /\ Numbers \in Nat \ {0}
<1>1. Byte * Byte = 2 * (2 * (b * b))
  OBVIOUS
<1>2. 2 * (b * b) \in Nat \ {0}
  OBVIOUS
<1>3. (2 * (2 * (b * b))) \div 2 = 2 * (b * b)
  BY <1>2, Halved
<1> QED BY <1>1, <1>2, <1>3 DEF Numbers


LEMMA ModSmall ==
  ASSUME NEW n \in Nat \ {0}, NEW a \in 0 .. n - 1
  PROVE  a % n = a
OBVIOUS

\* A pair that is counted on, with its carry, goes to the next number and from the
\* last to zero.
EvenPair(seq) == seq \in Pairs /\ seq[1] % 2 = 0

LEMMA NextNumber ==
  ASSUME Byte \in Nat \ {0}, Byte % 2 = 0, NEW seq, EvenPair(seq)
  PROVE  /\ EvenPair(Carry(seq)) /\ EvenPair(Plus2(Carry(seq)))
         /\ \A n \in Nat : Number(seq) = n % Numbers => Number(Plus2(Carry(seq))) = (n + 1) % Numbers
<1>1. PICK b \in Nat \ {0} : Byte = 2 * b
  BY HalfByte
<1>2. PICK l \in 0 .. b - 1, h \in 0 .. Byte - 1 : seq = <<2 * l, h>>
  <2>1. seq = <<seq[1], seq[2]>> /\ seq[1] \in 0 .. Byte - 1 /\ seq[2] \in 0 .. Byte - 1
    BY DEF EvenPair, Pairs
  <2>2. seq[1] % 2 = 0
    BY DEF EvenPair
  <2>3. seq[1] \div 2 \in 0 .. b - 1 /\ 2 * (seq[1] \div 2) = seq[1]
    BY <1>1, <2>1, <2>2
  <2> QED BY <2>1, <2>3
<1>3. 2 * l \in {Byte - 2, Byte - 1} <=> l = b - 1
  BY <1>1
<1>4. Numbers = 2 * (b * b) /\ Numbers \in Nat \ {0}
  BY <1>1, NumbersIs
<1>5. Number(seq) = h * b + l
  <2>1. l \in Nat /\ h \in Nat
    BY <1>1
  <2> QED BY <1>1, <1>2, <2>1, NumberIs
<1> DEFINE Next1(n) == IF n % Numbers = Numbers - 1 THEN 0 ELSE (n % Numbers) + 1
<1>8. \A n \in Nat : (n + 1) % Numbers = Next1(n)
  BY <1>4, ModSuccessor
<1>9. \A n \in Nat : n % Numbers = Numbers - 1 => Next1(n) = 0
  OBVIOUS
<1>10. \A n \in Nat : n % Numbers # Numbers - 1 => Next1(n) = (n % Numbers) + 1
  OBVIOUS
<1> HIDE DEF Next1
<1>6. CASE l < b - 1
  <2>1. Carry(seq) = <<2 * l, h>>
    BY <1>2, <1>3, <1>6 DEF Carry
  <2>2. (2 * l + 2) % Byte = 2 * (l + 1)
    BY <1>1, <1>6, ModSmall
  <2>3. Plus2(Carry(seq)) = <<2 * (l + 1), h>>
    BY <2>1, <2>2 DEF Plus2
  <2>4. EvenPair(Carry(seq)) /\ EvenPair(Plus2(Carry(seq)))
    <3>1. 2 * (l + 1) \in 0 .. Byte - 1 /\ (2 * (l + 1)) % 2 = 0
      BY <1>1, <1>6
    <3> QED BY <1>2, <2>1, <2>3, <3>1 DEF EvenPair, Pairs
  <2>5. Number(Plus2(Carry(seq))) = h * b + (l + 1)
    <3>1. l + 1 \in Nat /\ h \in Nat
      BY <1>1
    <3> QED BY <1>1, <2>3, <3>1, NumberIs
  <2>6. h * b + l # Numbers - 1
    <3>1. h * b <= (2 * b - 1) * b
      BY <1>1
    <3>2. (2 * b - 1) * b = 2 * (b * b) - b
      OBVIOUS
    <3> QED BY <1>4, <1>6, <3>1, <3>2
  <2>7. ASSUME NEW n \in Nat, Number(seq) = n % Numbers
        PROVE  Number(Plus2(Carry(seq))) = (n + 1) % Numbers
    <3>1. n % Numbers = h * b + l /\ n % Numbers # Numbers - 1
      BY <1>5, <2>6, <2>7
    <3>2. (n + 1) % Numbers = (h * b + l) + 1
      BY <1>8, <1>10, <3>1
    <3>3. h * b + (l + 1) = (h * b + l) + 1
      OBVIOUS
    <3> QED BY <2>5, <3>2, <3>3
  <2> QED BY <2>4, <2>7
<1>7. CASE l = b - 1
  <2>1. Carry(seq) = <<2 * l, (h + 1) % Byte>>
    BY <1>2, <1>3, <1>7 DEF Carry
  <2>2. (2 * l + 2) % Byte = 0
    BY <1>1, <1>7
  <2>3. Plus2(Carry(seq)) = <<0, (h + 1) % Byte>>
    BY <2>1, <2>2 DEF Plus2
  <2>4. (h + 1) % Byte = IF h = Byte - 1 THEN 0 ELSE h + 1
    BY <1>1, ModSmall
  <2>5. EvenPair(Carry(seq)) /\ EvenPair(Plus2(Carry(seq)))
    BY <1>1, <1>2, <2>1, <2>3, <2>4 DEF EvenPair, Pairs
  <2>6. ASSUME NEW n \in Nat, Number(seq) = n % Numbers
        PROVE  Number(Plus2(Carry(seq))) = (n + 1) % Numbers
    <3>1. CASE h = Byte - 1
      <4>1. Number(Plus2(Carry(seq))) = 0
        <5>1. Plus2(Carry(seq)) = <<2 * 0, 0>> /\ 0 * b + 0 = 0
          BY <2>3, <2>4, <3>1
        <5> QED BY <1>1, <5>1, NumberIs
      <4>2. Number(seq) = Numbers - 1
        <5>1. (2 * b - 1) * b + (b - 1) = 2 * (b * b) - 1
          OBVIOUS
        <5> QED BY <1>1, <1>4, <1>5, <1>7, <3>1, <5>1
      <4> QED BY <1>8, <1>9, <2>6, <4>1, <4>2
    <3>2. CASE h # Byte - 1
      <4>1. Number(Plus2(Carry(seq))) = (h + 1) * b
        <5>1. Plus2(Carry(seq)) = <<2 * 0, h + 1>> /\ (h + 1) * b + 0 = (h + 1) * b
          BY <2>3, <2>4, <3>2
        <5> QED BY <1>1, <5>1, NumberIs
      <4>2. (h + 1) * b = (h * b + l) + 1
        BY <1>7
      <4>3. h * b + l # Numbers - 1
        <5>1. h * b <= (2 * b - 2) * b
          BY <1>1, <3>2
        <5>2. (2 * b - 2) * b = 2 * (b * b) - 2 * b
          OBVIOUS
        <5> QED BY <1>4, <1>7, <5>1, <5>2
      <4> QED BY <1>5, <1>8, <1>10, <2>6, <4>1, <4>2, <4>3
    <3> QED BY <3>1, <3>2
  <2> QED BY <2>5, <2>6
<1> QED BY <1>6, <1>7

\* The bytes follow the counts, and on the way from the carry to the addition will
\* do so again after it; unless an inspection ran none is there to stamp between.
Counted ==
  ~mixed =>
    /\ \A t \in Slots : insp[t].at \in {"none", "stopped"}
    /\ EvenPair(recvSeq) /\ Number(recvSeq) = counted.recd % Numbers
    /\ EvenPair(sendSeq)
    /\ at \notin {"add", "send"} => Number(sendSeq) = counted.sent % Numbers
    /\ at = "add" => /\ EvenPair(Plus2(sendSeq))
                     /\ Number(Plus2(sendSeq)) = (counted.sent + 1) % Numbers
    /\ at = "send" => Number(sendSeq) = (counted.sent + 1) % Numbers

LEMMA ZeroNumber ==
  ASSUME Parameters
  PROVE  EvenPair(<<0, 0>>) /\ Number(<<0, 0>>) = 0 % Numbers
<1>1. PICK b \in Nat \ {0} : Byte = 2 * b
  BY HalfByte DEF Parameters
<1>2. Numbers \in Nat \ {0}
  BY <1>1, NumbersIs
<1>3. 0 % Numbers = 0
  BY <1>2
<1>4. Number(<<0, 0>>) = 0
  <2>1. <<0, 0>> = <<2 * 0, 0>> /\ 0 * b + 0 = 0
    BY <1>1
  <2> QED BY <1>1, <2>1, NumberIs
<1>5. EvenPair(<<0, 0>>)
  BY <1>1 DEF EvenPair, Pairs
<1> QED BY <1>3, <1>4, <1>5

\* recvSeqAdd1, of a thread that no other interrupts, once and twice
LEMMA RecvCounted ==
  ASSUME Parameters, TInv, Counted, ~mixed
  PROVE  /\ RecvSeqAdd1 => EvenPair(recvSeq') /\ Number(recvSeq') = (counted.recd + 1) % Numbers
         /\ RecvSeqAdd2 => EvenPair(recvSeq') /\ Number(recvSeq') = (counted.recd + 2) % Numbers
<1>1. EvenPair(recvSeq) /\ Number(recvSeq) = counted.recd % Numbers
  BY DEF Counted
<1>2. counted.recd \in Nat /\ counted.recd + 1 \in Nat /\ (counted.recd + 1) + 1 = counted.recd + 2
  BY DEF TInv, TypeOK
<1>3. Byte \in Nat \ {0} /\ Byte % 2 = 0
  BY DEF Parameters
<1>4. EvenPair(Added(recvSeq)) /\ Number(Added(recvSeq)) = (counted.recd + 1) % Numbers
  BY <1>1, <1>2, <1>3, NextNumber DEF Added
<1>5. /\ EvenPair(Added(Added(recvSeq)))
      /\ Number(Added(Added(recvSeq))) = (counted.recd + 2) % Numbers
  <2>1. /\ EvenPair(Plus2(Carry(Added(recvSeq))))
        /\ \A n \in Nat : Number(Added(recvSeq)) = n % Numbers
                            => Number(Plus2(Carry(Added(recvSeq)))) = (n + 1) % Numbers
    BY <1>3, <1>4, NextNumber
  <2>2. Number(Plus2(Carry(Added(recvSeq)))) = ((counted.recd + 1) + 1) % Numbers
    BY <1>2, <1>4, <2>1
  <2>3. Added(Added(recvSeq)) = Plus2(Carry(Added(recvSeq)))
    BY DEF Added
  <2> QED BY <1>2, <2>1, <2>2, <2>3
<1> QED BY <1>4, <1>5 DEF RecvSeqAdd1, RecvSeqAdd2

LEMMA CountedInit == Parameters /\ Init => Counted
<1> SUFFICES ASSUME Parameters, Init PROVE Counted
  OBVIOUS
<1>1. /\ at = "accept" /\ sendSeq = <<0, 0>> /\ recvSeq = <<0, 0>>
      /\ counted.sent = 0 /\ counted.recd = 0 /\ \A t \in Slots : insp[t].at = "none"
  BY DEF Init, None
<1> QED BY <1>1, ZeroNumber DEF Counted

LEMMA CountedServer ==
  ASSUME Parameters, TInv, Counted, ServerThread
  PROVE  Counted'
<1> SUFFICES ASSUME ~mixed' PROVE Counted'
  BY DEF Counted
<1>1. CASE Accept
  <2>1. /\ at' = "recv" /\ sendSeq' = <<0, 0>> /\ recvSeq' = <<0, 0>>
        /\ counted' = [sent |-> 0, recd |-> 0] /\ Running = {} /\ UNCHANGED insp
    BY <1>1 DEF Accept, inspVars
  <2>2. \A t \in Slots : insp'[t].at \in {"none", "stopped"}
    BY <2>1 DEF Running
  <2> QED BY <2>1, <2>2, ZeroNumber DEF Counted
<1>2. CASE Break \/ Recv \/ Divided
  <2>1. /\ UNCHANGED <<sendSeq, recvSeq, counted, insp, mixed>>
        /\ at \notin {"add", "send"} /\ at' \notin {"add", "send"}
    BY <1>2 DEF Break, Close, Recv, Divided, seqVars, inspVars
  <2> QED BY <2>1 DEF Counted
<1>3. CASE Divide \/ SqlRecv
  <2>1. /\ UNCHANGED <<insp, mixed, sendSeq>>
        /\ at \notin {"add", "send"} /\ at' \notin {"add", "send"}
    BY <1>3 DEF Divide, SqlRecv, Entry, seqVars, inspVars, RecvSeqAdd1, RecvSeqAdd2
  <2>2. counted \in [{"sent", "recd"} -> Nat]
    BY DEF TInv, TypeOK
  <2>3. \/ UNCHANGED <<recvSeq, counted>>
        \/ RecvSeqAdd1 /\ counted' = [counted EXCEPT !.recd = @ + 1]
        \/ RecvSeqAdd2 /\ counted' = [counted EXCEPT !.recd = @ + 2]
    <3>1. CASE Divide
      <4>1. unionBuf \in Seq(Halves) /\ 1 \in 1 .. Len(unionBuf)
        BY <3>1, LenProperties DEF Divide, TInv, TypeOK
      <4>2. unionBuf[1].kind \in AllKinds \cup {"cont"}
        <5>1. unionBuf[1] \in Halves
          BY <4>1, ElementOfSeq
        <5> QED BY <5>1 DEF Halves
      <4>3. unionBuf[1].kind # "cont" => (unionBuf[1].kind \in Uncounted <=> unionBuf[1].kind \notin Numbered)
        BY <4>2 DEF AllKinds, Uncounted, Numbered
      <4> QED BY <3>1, <4>3 DEF Divide, seqVars
    <3>2. CASE SqlRecv
      <4>1. CASE UNCHANGED seqVars
        BY <4>1 DEF seqVars
      <4>2. ASSUME NEW n \in 1 .. Len(wire), OfStatement(n),
                   IF n = 2 THEN RecvSeqAdd1 ELSE RecvSeqAdd2,
                   counted' = [counted EXCEPT !.recd = @ + n \div 2]
            PROVE  \/ RecvSeqAdd1 /\ counted' = [counted EXCEPT !.recd = @ + 1]
                   \/ RecvSeqAdd2 /\ counted' = [counted EXCEPT !.recd = @ + 2]
        <5>1. n \in Nat /\ n >= 1 /\ n % 2 = 0 /\ n <= 2 * more /\ more \in 0 .. MaxRest
          BY <4>2, LenProperties DEF OfStatement, TInv, TypeOK
        <5>2. (n = 2 /\ n \div 2 = 1) \/ (n = 4 /\ n \div 2 = 2)
          BY <5>1 DEF MaxRest
        <5> QED BY <4>2, <5>2
      <4> QED BY <3>2, <4>1, <4>2 DEF SqlRecv
    <3> QED BY <1>3, <3>1, <3>2
  <2>4. counted.recd \in Nat /\ counted'.sent = counted.sent
    BY <2>2, <2>3
  <2>5. EvenPair(recvSeq') /\ Number(recvSeq') = counted'.recd % Numbers
    <3>1. ~mixed
      BY <2>1
    <3>2. CASE UNCHANGED <<recvSeq, counted>>
      BY <3>1, <3>2 DEF Counted
    <3>3. CASE RecvSeqAdd1 /\ counted' = [counted EXCEPT !.recd = @ + 1]
      <4>1. counted'.recd = counted.recd + 1
        BY <2>2, <3>3
      <4> QED BY <3>1, <3>3, <4>1, RecvCounted
    <3>4. CASE RecvSeqAdd2 /\ counted' = [counted EXCEPT !.recd = @ + 2]
      <4>1. counted'.recd = counted.recd + 2
        BY <2>2, <3>4
      <4> QED BY <3>1, <3>4, <4>1, RecvCounted
    <3> QED BY <2>3, <3>2, <3>3, <3>4
  <2> QED BY <2>1, <2>4, <2>5 DEF Counted
<1>4. CASE Answer
  <2>1. UNCHANGED <<insp, mixed, recvSeq>>
    BY <1>4 DEF Answer, inspVars
  <2>2. /\ EvenPair(recvSeq) /\ Number(recvSeq) = counted.recd % Numbers
        /\ EvenPair(sendSeq) /\ counted \in [{"sent", "recd"} -> Nat]
        /\ \A t \in Slots : insp[t].at \in {"none", "stopped"}
    BY <2>1 DEF Counted, TInv, TypeOK
  <2>3. CASE at = "carry"
    <3>1. sendSeq' = Carry(sendSeq) /\ at' = "add" /\ UNCHANGED counted
      BY <1>4, <2>3 DEF Answer
    <3>2. Number(sendSeq) = counted.sent % Numbers
      BY <2>1, <2>3 DEF Counted
    <3>3. /\ EvenPair(Carry(sendSeq)) /\ EvenPair(Plus2(Carry(sendSeq)))
          /\ Number(Plus2(Carry(sendSeq))) = (counted.sent + 1) % Numbers
      <4>1. Byte \in Nat \ {0} /\ Byte % 2 = 0 /\ counted.sent \in Nat
        BY <2>2 DEF Parameters
      <4> QED BY <2>2, <3>2, <4>1, NextNumber
    <3>4. EvenPair(sendSeq') /\ EvenPair(Plus2(sendSeq')) /\ Number(Plus2(sendSeq')) = (counted'.sent + 1) % Numbers
      BY <3>1, <3>3
    <3> QED BY <2>1, <2>2, <3>1, <3>4 DEF Counted
  <2>4. CASE at = "add"
    <3>1. sendSeq' = Plus2(sendSeq) /\ UNCHANGED counted /\ at' = "send"
      BY <1>4, <2>4 DEF Answer
    <3>2. EvenPair(Plus2(sendSeq)) /\ Number(Plus2(sendSeq)) = (counted.sent + 1) % Numbers
      BY <2>1, <2>4 DEF Counted
    <3> QED BY <2>1, <2>2, <3>1, <3>2 DEF Counted
  <2>5. CASE at = "send"
    <3>1. UNCHANGED sendSeq /\ counted' = [counted EXCEPT !.sent = @ + 1] /\ at' \notin {"add", "send"}
      BY <1>4, <2>5 DEF Answer
    <3>2. Number(sendSeq) = (counted.sent + 1) % Numbers
      BY <2>1, <2>5 DEF Counted
    <3>3. counted'.sent = counted.sent + 1 /\ counted'.recd = counted.recd
      BY <2>2, <3>1
    <3> QED BY <2>1, <2>2, <3>1, <3>2, <3>3 DEF Counted
  <2> QED BY <1>4, <2>3, <2>4, <2>5 DEF Answer
<1>5. CASE StartInspection
  <2>1. /\ UNCHANGED <<sendSeq, recvSeq, counted, insp, mixed>>
        /\ at \notin {"add", "send"} /\ at' \notin {"add", "send"}
    BY <1>5 DEF StartInspection, Started, seqVars, inspVars
  <2> QED BY <2>1 DEF Counted
<1> QED BY <1>1, <1>2, <1>3, <1>4, <1>5 DEF ServerThread

LEMMA CountedStep == Parameters /\ TInv /\ Counted /\ [Next]_vars => Counted'
<1> SUFFICES ASSUME Parameters, TInv, Counted, [Next]_vars PROVE Counted'
  OBVIOUS
<1>1. CASE UNCHANGED vars \/ ClientContinues \/ ClientLeaves \/ OnTimer \/ \E kind \in Kinds : ClientSends(kind)
  <2>1. UNCHANGED <<at, sendSeq, recvSeq, counted, insp, mixed>>
    BY <1>1 DEF vars, ClientContinues, ClientLeaves, OnTimer, ClientSends, serverVars, seqVars, inspVars
  <2> QED BY <2>1 DEF Counted
<1>2. CASE ServerThread
  BY <1>2, CountedServer
<1>3. ASSUME NEW t \in Slots, Inspection(t) PROVE Counted'
  <2>1. insp[t].at \notin {"none", "stopped"} /\ UNCHANGED mixed
    BY <1>3 DEF Inspection, Begin, Stamp, Report
  <2> QED BY <2>1 DEF Counted
<1> QED BY <1>1, <1>2, <1>3 DEF Next

\* On a connection without inspections the bytes are the number of frames received,
\* but queries of history videos and frames of no known type, which no handler
\* counts, and the number of the answer to send, for every number of them and every
\* even Byte.
THEOREM SeqExactHolds ==
  ASSUME Parameters
  PROVE  Spec => []SeqExact
<1>1. Counted => SeqExact
  BY DEF Counted, SeqExact
<1>2. Init => TInv /\ Counted
  BY ServerInit, CountedInit
<1>3. (TInv /\ Counted) /\ [Next]_vars => (TInv /\ Counted)'
  BY ServerStep, CountedStep
<1> QED BY <1>1, <1>2, <1>3, PTL DEF Spec

-----------------------------------------------------------------------------
(* The stream of frames.                                                   *)

Starts(s) == {i \in 1 .. Len(s) : i % 2 = 1}

\* A buffer of whole frames of this connection; only statements have a rest.
Paired(s) ==
  /\ Len(s) % 2 = 0
  /\ \A i \in Starts(s) : /\ s[i].half = 1 /\ s[i].conn = conn
                          /\ s[i + 1] = Half(s[i].kind, 2, s[i].left)
                          /\ s[i].left > 0 => s[i].kind \in {"sql", "cont"}

\* After a frame that left so many of its statement comes the next of them, or a
\* frame of no statement begun before.
Continues(left, frame) ==
  IF left > 0 THEN frame.kind = "cont" /\ frame.left = left - 1 ELSE frame.kind # "cont"
Follows(s) == \A i \in Starts(s) : i + 2 \in Starts(s) => Continues(s[i].left, s[i + 2])

\* How many frames of its statement the last one left that the server has.
Expected == IF at = "sql" THEN more ELSE IF unionBuf = <<>> THEN 0 ELSE unionBuf[Len(unionBuf)].left

\* The wire goes on where the server is, and the client where the wire ends.
Left(s, before) == IF s = <<>> THEN before ELSE s[Len(s)].left
Statements ==
  /\ Follows(wire)
  /\ wire # <<>> => Continues(Expected, wire[1])
  /\ peer = "open" => rest = Left(wire, Expected)

\* A frame that ackExecuteSQL has to complete is the last that was received.
Received ==
  /\ at \in {"accept", "recv", "sql"} => unionBuf = <<>>
  /\ \A i \in Starts(unionBuf) : /\ unionBuf[i].kind # "cont"
                                 /\ i + 2 \in Starts(unionBuf) => unionBuf[i].left = 0

WholeFrames == ~spoilt => at # "misread" /\ Paired(wire) /\ Paired(unionBuf) /\ Statements /\ Received

LEMMA Nothing == Starts(<<>>) = {} /\ Len(<<>>) % 2 = 0 /\ Follows(<<>>)
BY DEF Starts, Follows

LEMMA FramesInit == Init => WholeFrames
<1> SUFFICES ASSUME Init PROVE WholeFrames
  OBVIOUS
<1>1. at = "accept" /\ wire = <<>> /\ unionBuf = <<>> /\ rest = 0
  BY DEF Init
<1> QED BY <1>1, Nothing DEF WholeFrames, Paired, Statements, Received, Expected, Left

\* The first frame of a buffer of whole ones.
LEMMA FirstFrame ==
  ASSUME NEW s \in Seq(Halves), Paired(s), s # <<>>
  PROVE  /\ Len(s) >= 2 /\ 1 \in Starts(s)
         /\ s[1].half = 1 /\ s[1].conn = conn /\ s[2] = Half(s[1].kind, 2, s[1].left)
<1>1. Len(s) \in Nat /\ Len(s) # 0
  BY LenProperties, EmptySeq
<1>2. Len(s) >= 2
  BY <1>1 DEF Paired
<1>3. 1 \in Starts(s)
  BY <1>1, <1>2 DEF Starts
<1> QED BY <1>2, <1>3 DEF Paired

\* And the last, by its second half.
LEMMA LastFrame ==
  ASSUME NEW s \in Seq(Halves), Paired(s), NEW n \in 1 .. Len(s), n % 2 = 0
  PROVE  n - 1 \in Starts(s) /\ s[n].left = s[n - 1].left /\ s[n] = Half(s[n - 1].kind, 2, s[n - 1].left)
<1>1. Len(s) \in Nat /\ n \in Nat /\ n <= Len(s) /\ n >= 1
  BY LenProperties
<1>2. n - 1 \in Starts(s) /\ (n - 1) + 1 = n
  BY <1>1 DEF Starts
<1>3. s[n] = Half(s[n - 1].kind, 2, s[n - 1].left)
  BY <1>2 DEF Paired
<1> QED BY <1>2, <1>3 DEF Half

\* A recv that ends with a second half leaves whole frames on both sides.
LEMMA CutFrames ==
  ASSUME NEW s \in Seq(Halves), Paired(s), NEW n \in 1 .. Len(s), s[n].half # 1
  PROVE  /\ n % 2 = 0 /\ Paired(SubSeq(s, 1, n)) /\ Paired(SubSeq(s, n + 1, Len(s)))
         /\ \A i \in Starts(SubSeq(s, 1, n)) : i \in Starts(s) /\ i \in 1 .. n /\ SubSeq(s, 1, n)[i] = s[i]
         /\ \A i \in Starts(SubSeq(s, n + 1, Len(s))) :
              i + n \in Starts(s) /\ i \in 1 .. Len(s) - n /\ SubSeq(s, n + 1, Len(s))[i] = s[i + n]
<1>1. Len(s) \in Nat /\ n \in Nat /\ n <= Len(s) /\ n >= 1
  BY LenProperties
<1>2. n % 2 = 0
  <2>1. n \notin Starts(s)
    BY DEF Paired
  <2> QED BY <1>1, <2>1 DEF Starts
<1> DEFINE a == SubSeq(s, 1, n)
           z == SubSeq(s, n + 1, Len(s))
<1>3. /\ Len(a) = n /\ \A i \in 1 .. n : a[i] = s[i]
      /\ Len(z) = Len(s) - n /\ \A i \in 1 .. Len(s) - n : z[i] = s[i + n]
  BY Parts
<1> HIDE DEF a, z
<1>4. Len(s) % 2 = 0
  BY DEF Paired
<1>5. ASSUME NEW i \in Starts(a)
      PROVE  /\ i \in Starts(s) /\ i \in 1 .. n /\ a[i] = s[i] /\ a[i + 1] = s[i + 1]
  <2>1. i \in 1 .. n /\ i % 2 = 1
    BY <1>3 DEF Starts
  <2>2. i + 1 \in 1 .. n /\ i \in 1 .. Len(s)
    BY <1>1, <1>2, <2>1
  <2> QED BY <1>3, <2>1, <2>2 DEF Starts
<1>6. ASSUME NEW i \in Starts(z)
      PROVE  /\ i + n \in Starts(s) /\ i \in 1 .. Len(s) - n /\ z[i] = s[i + n] /\ z[i + 1] = s[(i + n) + 1]
  <2>1. i \in 1 .. Len(s) - n /\ i % 2 = 1
    BY <1>3 DEF Starts
  <2>2. i + 1 \in 1 .. Len(s) - n /\ i + n \in 1 .. Len(s) /\ (i + n) % 2 = 1 /\ (i + 1) + n = (i + n) + 1
    BY <1>1, <1>2, <1>4, <2>1
  <2> QED BY <1>3, <2>1, <2>2 DEF Starts
<1>7. Paired(a)
  BY <1>2, <1>3, <1>5 DEF Paired
<1>8. Paired(z)
  <2>1. Len(z) % 2 = 0
    <3>1. \A x, y \in Nat : x % 2 = 0 /\ y % 2 = 0 => (x - y) % 2 = 0
      OBVIOUS
    <3> QED BY <1>1, <1>2, <1>3, <1>4, <3>1
  <2> QED BY <1>6, <2>1 DEF Paired
<1> QED BY <1>2, <1>5, <1>6, <1>7, <1>8 DEF a, z

\* A frame sent follows those before it.
LEMMA MoreFrames ==
  ASSUME NEW s \in Seq(Halves), Paired(s), Follows(s), NEW kind, NEW left \in 0 .. MaxRest,
         Whole(kind, left) \in Seq(Halves), Len(Whole(kind, left)) = 2,
         left > 0 => kind \in {"sql", "cont"},
         NEW before, Continues(Left(s, before), Half(kind, 1, left))
  PROVE  /\ Paired(s \o Whole(kind, left)) /\ Follows(s \o Whole(kind, left))
         /\ s \o Whole(kind, left) # <<>> /\ Left(s \o Whole(kind, left), before) = left
         /\ IF s = <<>> THEN Continues(before, (s \o Whole(kind, left))[1])
                        ELSE (s \o Whole(kind, left))[1] = s[1]
<1> DEFINE w == Whole(kind, left)
           t == s \o w
<1>1. /\ w[1] = Half(kind, 1, left) /\ w[2] = Half(kind, 2, left)
      /\ w[1].kind = kind /\ w[1].half = 1 /\ w[1].conn = conn /\ w[1].left = left /\ w[2].left = left
  BY DEF Whole, Half
<1>2. Len(s) \in Nat /\ Len(s) % 2 = 0
  BY LenProperties DEF Paired
<1>7. w \in Seq(Halves) /\ Len(w) = 2
  OBVIOUS
<1> HIDE DEF w
<1>3. /\ t \in Seq(Halves) /\ Len(t) = Len(s) + 2
      /\ \A i \in 1 .. Len(s) : t[i] = s[i]
      /\ t[Len(s) + 1] = w[1] /\ t[Len(s) + 2] = w[2]
  <2>2. /\ t \in Seq(Halves) /\ Len(t) = Len(s) + 2
        /\ \A i \in 1 .. Len(s) + 2 : t[i] = IF i <= Len(s) THEN s[i] ELSE w[i - Len(s)]
    <3>1. /\ t \in Seq(Halves) /\ Len(t) = Len(s) + Len(w)
          /\ \A i \in 1 .. Len(s) + Len(w) : t[i] = IF i <= Len(s) THEN s[i] ELSE w[i - Len(s)]
      BY <1>7, ConcatProperties
    <3> QED BY <1>7, <3>1
  <2>3. (Len(s) + 1) - Len(s) = 1 /\ (Len(s) + 2) - Len(s) = 2
    BY <1>2
  <2>4. t[Len(s) + 1] = w[1] /\ t[Len(s) + 2] = w[2]
    <3>1. /\ Len(s) + 1 \in 1 .. Len(s) + 2 /\ ~(Len(s) + 1 <= Len(s))
          /\ Len(s) + 2 \in 1 .. Len(s) + 2 /\ ~(Len(s) + 2 <= Len(s))
      BY <1>2
    <3> QED BY <2>2, <2>3, <3>1
  <2>5. \A i \in 1 .. Len(s) : t[i] = s[i]
    BY <1>2, <2>2
  <2> QED BY <2>2, <2>4, <2>5
<1> HIDE DEF t
<1>4. Starts(t) = Starts(s) \cup {Len(s) + 1}
  <2>1. ASSUME NEW i \in Starts(t) PROVE i \in Starts(s) \cup {Len(s) + 1}
    <3>1. i \in 1 .. Len(s) + 2 /\ i % 2 = 1
      BY <1>3 DEF Starts
    <3>2. i # Len(s) + 2
      BY <1>2, <3>1
    <3>3. i \in 1 .. Len(s) \/ i = Len(s) + 1
      BY <1>2, <3>1, <3>2
    <3> QED BY <3>1, <3>3 DEF Starts
  <2>2. ASSUME NEW i \in Starts(s) PROVE i \in Starts(t)
    <3>1. i \in 1 .. Len(s) /\ i % 2 = 1
      BY DEF Starts
    <3>2. i \in 1 .. Len(t)
      BY <1>2, <1>3, <3>1
    <3> QED BY <3>1, <3>2 DEF Starts
  <2>3. Len(s) + 1 \in Starts(t)
    <3>1. (Len(s) + 1) % 2 = 1
      <4> DEFINE n == Len(s)
      <4>1. n \in Nat /\ n % 2 = 0
        BY <1>2
      <4> HIDE DEF n
      <4>2. (n + 1) % 2 = 1
        BY <4>1
      <4> QED BY <4>2 DEF n
    <3>2. Len(s) + 1 \in 1 .. Len(t)
      BY <1>2, <1>3
    <3> QED BY <3>1, <3>2 DEF Starts
  <2> QED BY <2>1, <2>2, <2>3
<1>5. ASSUME NEW i \in Starts(s) PROVE i \in 1 .. Len(s) /\ i + 1 \in 1 .. Len(s) /\ i \in Nat
  BY <1>2 DEF Starts
<1>6. Paired(t)
  <2>1. Len(t) % 2 = 0
    BY <1>2, <1>3
  <2>2. ASSUME NEW i \in Starts(s)
        PROVE  /\ t[i].half = 1 /\ t[i].conn = conn /\ t[i + 1] = Half(t[i].kind, 2, t[i].left)
               /\ t[i].left > 0 => t[i].kind \in {"sql", "cont"}
    BY <1>3, <1>5 DEF Paired
  <2>3. /\ t[Len(s) + 1].half = 1 /\ t[Len(s) + 1].conn = conn
        /\ t[(Len(s) + 1) + 1] = Half(t[Len(s) + 1].kind, 2, t[Len(s) + 1].left)
        /\ t[Len(s) + 1].left > 0 => t[Len(s) + 1].kind \in {"sql", "cont"}
    <3>1. (Len(s) + 1) + 1 = Len(s) + 2
      BY <1>2
    <3> QED BY <1>1, <1>3, <3>1
  <2> QED BY <1>4, <2>1, <2>2, <2>3 DEF Paired
<1>8. Follows(t)
  <2> SUFFICES ASSUME NEW i \in Starts(t), i + 2 \in Starts(t) PROVE Continues(t[i].left, t[i + 2])
    BY DEF Follows
  <2>1. i \in Starts(s) /\ i + 2 \in 1 .. Len(s) + 1
    <3>1. i + 2 \in 1 .. Len(s) + 1
      BY <1>2, <1>4, <1>5
    <3>2. i # Len(s) + 1
      BY <1>2, <3>1
    <3> QED BY <1>4, <3>1, <3>2
  <2>2. t[i] = s[i]
    BY <1>3, <1>5, <2>1
  <2>3. CASE i + 2 \in Starts(s)
    <3>1. t[i + 2] = s[i + 2]
      BY <1>3, <1>5, <2>3
    <3> QED BY <2>1, <2>2, <2>3, <3>1 DEF Follows
  <2>4. CASE i + 2 = Len(s) + 1
    <3>1. i = Len(s) - 1 /\ Len(s) \in 1 .. Len(s) /\ s # <<>>
      BY <1>2, <1>5, <2>1, <2>4, EmptySeq
    <3>2. s[Len(s)].left = s[i].left
      BY <1>2, <3>1, LastFrame
    <3>3. Continues(s[i].left, Half(kind, 1, left))
      BY <3>1, <3>2 DEF Left
    <3> QED BY <1>1, <1>3, <2>2, <2>4, <3>3
  <2> QED BY <1>4, <2>3, <2>4
<1>9. t # <<>> /\ Left(t, before) = left
  <2>1. t # <<>>
    <3>1. Len(t) # 0
      BY <1>2, <1>3
    <3> QED BY <3>1, EmptySeq
  <2> QED BY <1>1, <1>3, <2>1 DEF Left
<1>10. IF s = <<>> THEN Continues(before, t[1]) ELSE t[1] = s[1]
  <2>1. CASE s = <<>>
    <3>1. Len(s) + 1 = 1
      BY <2>1, EmptySeq
    <3>2. Continues(before, Half(kind, 1, left))
      BY <2>1 DEF Left
    <3> QED BY <1>1, <1>3, <2>1, <3>1, <3>2
  <2>2. CASE s # <<>>
    <3>1. 1 \in 1 .. Len(s)
      BY <1>2, <2>2, EmptySeq
    <3> QED BY <1>3, <2>2, <3>1
  <2> QED BY <2>1, <2>2
<1> QED BY <1>6, <1>8, <1>9, <1>10 DEF t, w

\* What a recv leaves on the wire goes on where it ended.
LEMMA CutFollows ==
  ASSUME NEW s \in Seq(Halves), Paired(s), Follows(s), NEW n \in 1 .. Len(s), s[n].half # 1
  PROVE  /\ Follows(SubSeq(s, n + 1, Len(s)))
         /\ SubSeq(s, n + 1, Len(s)) # <<>> => Continues(s[n].left, SubSeq(s, n + 1, Len(s))[1])
         /\ Left(SubSeq(s, n + 1, Len(s)), s[n].left) = s[Len(s)].left
<1>1. Len(s) \in Nat /\ n \in Nat /\ n <= Len(s) /\ n >= 1 /\ n % 2 = 0
  BY LenProperties, CutFrames
<1>2. n - 1 \in Starts(s) /\ s[n].left = s[n - 1].left
  BY <1>1, LastFrame
<1> DEFINE z == SubSeq(s, n + 1, Len(s))
<1>3. /\ z \in Seq(Halves) /\ Len(z) = Len(s) - n
      /\ \A i \in 1 .. Len(s) - n : z[i] = s[i + n]
      /\ \A i \in Starts(z) : i + n \in Starts(s) /\ i \in 1 .. Len(s) - n /\ z[i] = s[i + n]
  BY Parts, CutFrames
<1> HIDE DEF z
<1>4. Follows(z)
  <2> SUFFICES ASSUME NEW i \in Starts(z), i + 2 \in Starts(z) PROVE Continues(z[i].left, z[i + 2])
    BY DEF Follows
  <2>1. i \in Nat /\ (i + 2) + n = (i + n) + 2
    BY <1>1 DEF Starts
  <2>2. /\ i + n \in Starts(s) /\ z[i] = s[i + n]
        /\ (i + n) + 2 \in Starts(s) /\ z[i + 2] = s[(i + n) + 2]
    BY <1>3, <2>1
  <2> QED BY <2>2 DEF Follows
<1>5. ASSUME z # <<>> PROVE Continues(s[n].left, z[1]) /\ z[Len(z)] = s[Len(s)]
  <2>1. Len(z) # 0 /\ Len(z) \in Nat
    BY <1>3, <1>5, EmptySeq, LenProperties
  <2>2. 1 \in 1 .. Len(s) - n /\ Len(z) \in 1 .. Len(s) - n /\ Len(z) + n = Len(s)
    BY <1>1, <1>3, <2>1
  <2>3. 1 + n \in Starts(s) /\ 1 + n = (n - 1) + 2
    BY <1>1, <2>2 DEF Starts
  <2>4. Continues(s[n - 1].left, s[1 + n])
    BY <1>2, <2>3 DEF Follows
  <2> QED BY <1>2, <1>3, <2>2, <2>4
<1>6. z = <<>> => n = Len(s)
  <2>1. z = <<>> => Len(z) = 0
    BY EmptySeq
  <2> QED BY <1>1, <1>3, <2>1
<1> QED BY <1>4, <1>5, <1>6 DEF z, Left

-----------------------------------------------------------------------------
\* A client sends a frame where it is free to, or the next of its statement.
LEMMA FramesSent ==
  ASSUME Parameters, TInv, WholeFrames, NEW kind \in AllKinds \cup {"cont"}, NEW left \in 0 .. MaxRest,
         peer = "open", UNCHANGED <<at, unionBuf, more, conn, peer, spoilt>>,
         left > 0 => kind \in {"sql", "cont"}, Continues(rest, Half(kind, 1, left)),
         wire' = wire \o Whole(kind, left), rest' = left
  PROVE  WholeFrames'
<1> SUFFICES ASSUME ~spoilt' PROVE WholeFrames'
  BY DEF WholeFrames
<1>1. at # "misread" /\ Paired(wire) /\ Paired(unionBuf) /\ Statements /\ Received
  BY DEF WholeFrames
<1>2. wire \in Seq(Halves) /\ Whole(kind, left) \in Seq(Halves) /\ Len(Whole(kind, left)) = 2
  BY WholeTypes DEF TInv, TypeOK
<1>3. Follows(wire) /\ Continues(Left(wire, Expected), Half(kind, 1, left))
  BY <1>1 DEF Statements
<1>4. /\ Paired(wire') /\ Follows(wire') /\ wire' # <<>> /\ Left(wire', Expected) = left
      /\ IF wire = <<>> THEN Continues(Expected, wire'[1]) ELSE wire'[1] = wire[1]
  <2> DEFINE e == Expected
  <2>1. Paired(wire) /\ Follows(wire) /\ Continues(Left(wire, e), Half(kind, 1, left))
    BY <1>1, <1>3
  <2> HIDE DEF e
  <2>2. /\ Paired(wire \o Whole(kind, left)) /\ Follows(wire \o Whole(kind, left))
        /\ wire \o Whole(kind, left) # <<>> /\ Left(wire \o Whole(kind, left), e) = left
        /\ IF wire = <<>> THEN Continues(e, (wire \o Whole(kind, left))[1])
                          ELSE (wire \o Whole(kind, left))[1] = wire[1]
    BY <1>2, <2>1, MoreFrames
  <2> QED BY <2>2 DEF e
<1>5. Expected' = Expected
  BY DEF Expected
<1>6. Continues(Expected, wire'[1])
  BY <1>1, <1>4 DEF Statements
<1>7. Statements'
  <2>1. Follows(wire)' /\ (wire' # <<>> => Continues(Expected, wire[1])') /\ (rest = Left(wire, Expected))'
    BY <1>4, <1>5, <1>6 DEF Follows, Continues, Starts, Left
  <2> QED BY <2>1 DEF Statements
<1>8. Received'
  BY <1>1 DEF Received, Starts
<1>9. Paired(wire)' /\ Paired(unionBuf)'
  BY <1>1, <1>4 DEF Paired, Half, Starts
<1> QED BY <1>1, <1>7, <1>8, <1>9 DEF WholeFrames

\* A wire that is lost with its connection.
LEMMA LostFrames ==
  ASSUME WholeFrames, UNCHANGED <<unionBuf, more, conn, spoilt>>,
         wire' = <<>> \/ UNCHANGED wire, peer' # "open",
         \/ UNCHANGED at
         \/ at = "recv" /\ at' = "accept"
  PROVE  WholeFrames'
<1> SUFFICES ASSUME ~spoilt' PROVE WholeFrames'
  BY DEF WholeFrames
<1>1. at # "misread" /\ Paired(wire) /\ Paired(unionBuf) /\ Statements /\ Received
  BY DEF WholeFrames
<1>2. Expected' = Expected
  BY DEF Expected
<1>3. Statements'
  <2>1. CASE wire' = <<>>
    BY <2>1, Nothing DEF Statements, Follows, Starts
  <2>2. CASE UNCHANGED wire
    BY <1>1, <1>2, <2>2 DEF Statements, Follows, Continues, Starts
  <2> QED BY <2>1, <2>2
<1>4. Paired(wire)' /\ Paired(unionBuf)'
  BY <1>1, Nothing DEF Paired, Half, Starts
<1>5. Received'
  BY <1>1 DEF Received, Starts
<1> QED BY <1>1, <1>3, <1>4, <1>5 DEF WholeFrames

\* A recv that ends with a frame moves the server as far as it took of the wire.
LEMMA CutStatements ==
  ASSUME TInv, Paired(wire), Statements, NEW n \in 1 .. Len(wire), wire[n].half # 1,
         wire' = SubSeq(wire, n + 1, Len(wire)), Expected' = wire[n].left, UNCHANGED <<peer, rest>>
  PROVE  Statements'
<1>1. wire \in Seq(Halves) /\ wire # <<>> /\ Follows(wire)
  <2>1. wire \in Seq(Halves) /\ Len(wire) \in Nat /\ n >= 1 /\ n <= Len(wire)
    BY LenProperties DEF TInv, TypeOK
  <2> QED BY <2>1, EmptySeq DEF Statements
<1>2. /\ Follows(wire') /\ (wire' # <<>> => Continues(wire[n].left, wire'[1]))
      /\ Left(wire', wire[n].left) = wire[Len(wire)].left
  BY <1>1, CutFollows
<1>3. peer = "open" => rest = wire[Len(wire)].left
  BY <1>1 DEF Statements, Left
<1>4. Follows(wire)' /\ (wire' # <<>> => Continues(Expected, wire[1])')
      /\ (peer' = "open" => (rest = Left(wire, Expected))')
  BY <1>2, <1>3 DEF Follows, Continues, Starts, Left
<1> QED BY <1>4 DEF Statements

\* Only recvs cut the stream: without one that cuts a frame, or brings the rest of
\* a statement with its first frame, the buffer gets whole frames, and one that is
\* not complete is the last of them.
LEMMA FramesReceived ==
  ASSUME Parameters, TInv, WholeFrames, Recv
  PROVE  WholeFrames'
<1> SUFFICES ASSUME ~spoilt' PROVE WholeFrames'
  BY DEF WholeFrames
<1>1. PICK n \in 1 .. Len(wire) :
        /\ unionBuf' = unionBuf \o SubSeq(wire, 1, n)
        /\ wire' = SubSeq(wire, n + 1, Len(wire))
        /\ spoilt' = (spoilt \/ Spoils(n))
  BY DEF Recv
<1>2. /\ at = "recv" /\ at' = "divide" /\ UNCHANGED <<conn, peer, rest>> /\ ~spoilt
      /\ wire \in Seq(Halves) /\ unionBuf \in Seq(Halves)
      /\ Len(wire) \in Nat /\ n \in Nat
      /\ wire[n].half # 1
      /\ \A i \in 1 .. n - 2 : ~(wire[i].left > 0)
  <2>1. ~spoilt /\ ~Spoils(n)
    BY <1>1
  <2>2. at = "recv" /\ at' = "divide" /\ UNCHANGED <<conn, peer, rest>>
    BY DEF Recv
  <2>3. wire \in Seq(Halves) /\ unionBuf \in Seq(Halves)
    BY DEF TInv, TypeOK
  <2>4. Len(wire) \in Nat /\ n \in Nat
    BY <2>3, LenProperties
  <2>5. wire[n].half # 1 /\ \A i \in 1 .. n - 2 : ~(wire[i].left > 0)
    BY <2>1 DEF Spoils
  <2> QED BY <2>1, <2>2, <2>3, <2>4, <2>5
<1>3. Paired(wire) /\ Statements /\ Follows(wire) /\ unionBuf = <<>> /\ Expected = 0
  BY <1>2 DEF WholeFrames, Received, Statements, Expected
<1>4. /\ SubSeq(wire, 1, n) \in Seq(Halves) /\ Len(SubSeq(wire, 1, n)) = n
      /\ SubSeq(wire, 1, n)[n] = wire[n]
      /\ unionBuf' = SubSeq(wire, 1, n)
  BY <1>1, <1>2, <1>3, Parts, ConcatEmptySeq
<1>5. /\ n % 2 = 0 /\ Paired(unionBuf') /\ Paired(wire')
      /\ \A i \in Starts(unionBuf') : i \in Starts(wire) /\ i \in 1 .. n /\ unionBuf'[i] = wire[i]
  BY <1>1, <1>2, <1>3, <1>4, CutFrames
<1>6. Expected' = wire[n].left
  <2>1. unionBuf' # <<>> /\ Len(unionBuf') = n
    BY <1>2, <1>4, EmptySeq
  <2> QED BY <1>2, <1>4, <2>1 DEF Expected
<1>7. Statements'
  BY <1>1, <1>2, <1>3, <1>6, CutStatements
\* None of the frames taken is the rest of a statement: the first follows nothing,
\* and each other one a frame that left none.
<1>8. ASSUME NEW i \in Starts(unionBuf')
      PROVE  /\ unionBuf'[i].kind # "cont"
             /\ i + 2 \in Starts(unionBuf') => unionBuf'[i].left = 0
  <2>1. i \in Starts(wire) /\ i \in 1 .. n /\ unionBuf'[i] = wire[i] /\ i % 2 = 1
    BY <1>5 DEF Starts
  <2>2. ASSUME NEW j \in Starts(wire), j <= n - 2 PROVE wire[j].left = 0
    <3>1. j \in 1 .. n - 2 /\ j \in 1 .. Len(wire)
      BY <1>2, <2>2 DEF Starts
    <3>2. wire[j] \in Halves
      BY <1>2, <3>1, ElementOfSeq
    <3>3. wire[j].left \in 0 .. MaxRest
      BY <3>2 DEF Halves
    <3> QED BY <1>2, <3>1, <3>3 DEF MaxRest
  <2>3. i + 2 \in Starts(unionBuf') => unionBuf'[i].left = 0
    <3>1. i + 2 \in Starts(unionBuf') => i <= n - 2
      BY <1>2, <1>5, <2>1
    <3> QED BY <2>1, <2>2, <3>1
  <2>4. CASE i = 1
    <3>1. wire # <<>>
      BY <1>2, EmptySeq
    <3> QED BY <1>3, <2>1, <2>3, <2>4, <3>1 DEF Statements, Continues
  <2>5. CASE i # 1
    <3>1. i - 2 \in Starts(wire) /\ i - 2 <= n - 2 /\ (i - 2) + 2 = i
      BY <1>2, <2>1, <2>5 DEF Starts
    <3>2. Continues(wire[i - 2].left, wire[i]) /\ wire[i - 2].left = 0
      BY <1>3, <2>1, <2>2, <3>1 DEF Follows
    <3> QED BY <2>1, <2>3, <3>2 DEF Continues
  <2> QED BY <2>4, <2>5
<1>9. Received'
  BY <1>2, <1>8 DEF Received, Starts
<1>10. Paired(wire)' /\ Paired(unionBuf)'
  BY <1>2, <1>5 DEF Paired, Half, Starts
<1> QED BY <1>2, <1>7, <1>9, <1>10 DEF WholeFrames

\* Every frame that is divided off is whole, of this connection, and not the rest
\* of an SQL statement.
LEMMA FramesDivided ==
  ASSUME Parameters, TInv, WholeFrames, Divide
  PROVE  WholeFrames'
<1> SUFFICES ASSUME ~spoilt' PROVE WholeFrames'
  BY DEF WholeFrames
<1>1. /\ at = "divide" /\ Len(unionBuf) >= 2 /\ unionBuf' = SubSeq(unionBuf, 3, Len(unionBuf))
      /\ UNCHANGED <<conn, peer, rest, wire, spoilt>>
      /\ unionBuf \in Seq(Halves) /\ Len(unionBuf) \in Nat
  BY LenProperties DEF Divide, clientVars, TInv, TypeOK
<1>2. at # "misread" /\ Paired(wire) /\ Paired(unionBuf) /\ Statements /\ Received
  BY <1>1 DEF WholeFrames
<1>3. /\ unionBuf # <<>> /\ 1 \in Starts(unionBuf) /\ unionBuf[1].half = 1
      /\ unionBuf[2] = Half(unionBuf[1].kind, 2, unionBuf[1].left) /\ unionBuf[1].kind # "cont"
      /\ unionBuf[1].left > 0 => unionBuf[1].kind = "sql"
  <2>1. unionBuf # <<>>
    BY <1>1, EmptySeq
  <2>2. /\ 1 \in Starts(unionBuf) /\ unionBuf[1].half = 1
        /\ unionBuf[2] = Half(unionBuf[1].kind, 2, unionBuf[1].left)
    BY <1>1, <1>2, <2>1, FirstFrame
  <2> QED BY <1>2, <2>1, <2>2 DEF Received, Paired
<1>4. /\ at' \notin {"misread", "accept", "recv"} /\ more' = unionBuf[1].left
      /\ at' = "sql" <=> unionBuf[1].left > 0
  <2>1. at' = Entry(unionBuf[1].kind, unionBuf[1].left, sends') /\ more' = unionBuf[1].left
    BY <1>3 DEF Divide
  <2> QED BY <1>3, <2>1 DEF Entry
<1>5. /\ Paired(unionBuf')
      /\ \A i \in Starts(unionBuf') : i + 2 \in Starts(unionBuf) /\ unionBuf'[i] = unionBuf[i + 2]
      /\ Len(unionBuf') = Len(unionBuf) - 2
      /\ unionBuf' # <<>> => unionBuf'[Len(unionBuf')] = unionBuf[Len(unionBuf)]
  <2>1. 2 \in 1 .. Len(unionBuf) /\ unionBuf[2].half # 1
    BY <1>1, <1>3 DEF Half
  <2>2. unionBuf' = SubSeq(unionBuf, 2 + 1, Len(unionBuf))
    BY <1>1
  <2>3. /\ Len(SubSeq(unionBuf, 2 + 1, Len(unionBuf))) = Len(unionBuf) - 2
        /\ \A i \in 1 .. Len(unionBuf) - 2 : SubSeq(unionBuf, 2 + 1, Len(unionBuf))[i] = unionBuf[i + 2]
        /\ SubSeq(unionBuf, 2 + 1, Len(unionBuf)) \in Seq(Halves)
    BY <1>1, <2>1, Parts
  <2>4. unionBuf' # <<>> => unionBuf'[Len(unionBuf')] = unionBuf[Len(unionBuf)]
    <3>1. unionBuf' # <<>> => Len(unionBuf) - 2 # 0
      BY <2>2, <2>3, EmptySeq
    <3>2. unionBuf' # <<>> => Len(unionBuf) - 2 \in 1 .. Len(unionBuf) - 2
      BY <1>1, <3>1
    <3>3. (Len(unionBuf) - 2) + 2 = Len(unionBuf)
      BY <1>1
    <3> QED BY <2>2, <2>3, <3>2, <3>3
  <2>5. Paired(SubSeq(unionBuf, 2 + 1, Len(unionBuf)))
        /\ \A i \in Starts(SubSeq(unionBuf, 2 + 1, Len(unionBuf))) :
             i + 2 \in Starts(unionBuf) /\ SubSeq(unionBuf, 2 + 1, Len(unionBuf))[i] = unionBuf[i + 2]
    BY <1>1, <1>2, <2>1, CutFrames
  <2> QED BY <2>2, <2>3, <2>4, <2>5
<1>6. CASE unionBuf' # <<>>
  <2>1. 1 \in Starts(unionBuf') /\ 1 + 2 \in Starts(unionBuf)
    <3>1. unionBuf' \in Seq(Halves)
      <4>1. 2 \in 1 .. Len(unionBuf) /\ unionBuf' = SubSeq(unionBuf, 2 + 1, Len(unionBuf))
        BY <1>1
      <4> QED BY <1>1, <4>1, Parts
    <3>2. Len(unionBuf') # 0 /\ Len(unionBuf') \in Nat
      BY <1>6, <3>1, EmptySeq, LenProperties
    <3>3. 1 \in Starts(unionBuf')
      BY <3>2 DEF Starts
    <3> QED BY <1>5, <3>3
  <2>2. unionBuf[1].left = 0
    BY <1>2, <1>3, <2>1 DEF Received
  <2>3. at' # "sql"
    BY <1>4, <2>2
  <2>4. Expected' = Expected
    BY <1>1, <1>3, <1>5, <1>6, <2>3 DEF Expected
  <2>5. Statements'
    BY <1>1, <1>2, <2>4 DEF Statements, Follows, Continues, Starts
  <2>6. ASSUME NEW i \in Starts(unionBuf')
        PROVE  /\ unionBuf'[i].kind # "cont"
               /\ i + 2 \in Starts(unionBuf') => unionBuf'[i].left = 0
    BY <1>2, <1>5 DEF Received
  <2>7. Received'
    BY <1>4, <2>3, <2>6 DEF Received, Starts
  <2> QED BY <1>1, <1>2, <1>4, <1>5, <2>5, <2>7 DEF WholeFrames, Paired, Half, Starts
<1>7. CASE unionBuf' = <<>>
  <2>1. Len(unionBuf) = 2
    <3>1. Len(unionBuf') = 0
      BY <1>7, EmptySeq
    <3> QED BY <1>1, <1>5, <3>1
  <2>2. Expected = unionBuf[1].left
    BY <1>1, <1>3, <2>1 DEF Expected, Half
  <2>3. unionBuf[1].left \in 0 .. MaxRest
    <3>1. 1 \in 1 .. Len(unionBuf)
      BY <2>1
    <3>2. unionBuf[1] \in Halves
      BY <1>1, <3>1, ElementOfSeq
    <3> QED BY <3>2 DEF Halves
  <2>4. Expected' = Expected
    BY <1>4, <1>7, <2>2, <2>3 DEF Expected, MaxRest
  <2>5. Statements'
    BY <1>1, <1>2, <2>4 DEF Statements, Follows, Continues, Starts
  <2>6. Received'
    BY <1>7, Nothing DEF Received
  <2> QED BY <1>1, <1>2, <1>4, <1>5, <2>5, <2>6 DEF WholeFrames, Paired, Half, Starts
<1> QED BY <1>6, <1>7

\* ackExecuteSQL, whose recv brings whole frames of its statement and no more: they
\* are the next it expects.
LEMMA FramesOfStatement ==
  ASSUME Parameters, TInv, WholeFrames, SqlRecv
  PROVE  WholeFrames'
<1> SUFFICES ASSUME ~spoilt' PROVE WholeFrames'
  BY DEF WholeFrames
<1>1. /\ at = "sql" /\ UNCHANGED <<unionBuf, conn, peer, rest>> /\ wire \in Seq(Halves) /\ Len(wire) \in Nat
      /\ more \in 0 .. MaxRest
  BY LenProperties DEF SqlRecv, TInv, TypeOK
<1>2. ~spoilt
  BY DEF SqlRecv
<1>3. Paired(wire) /\ Statements /\ unionBuf = <<>> /\ Expected = more /\ Follows(wire)
  BY <1>1, <1>2 DEF WholeFrames, Received, Expected, Statements
<1>4. Received' /\ Paired(unionBuf)'
  BY <1>1, <1>3, Nothing DEF Received, Paired
<1>5. CASE wire = <<>>
  <2>1. at' = "divide" /\ wire' = <<>> /\ peer' # "open"
    BY <1>1, <1>5 DEF SqlRecv
  <2>2. Statements' /\ Paired(wire)'
    BY <2>1, Nothing DEF Statements, Follows, Starts, Paired
  <2> QED BY <1>4, <2>1, <2>2 DEF WholeFrames
<1>6. CASE wire # <<>>
  <2>1. PICK n \in 1 .. Len(wire) :
          /\ wire' = SubSeq(wire, n + 1, Len(wire))
          /\ spoilt' = (spoilt \/ wire[n].half = 1 \/ n > 2 * more)
          /\ OfStatement(n) => more' = more - n \div 2 /\ at' = IF more' = 0 THEN "carry" ELSE "sql"
    BY <1>6 DEF SqlRecv
  <2>2. /\ wire[n].half # 1 /\ n % 2 = 0 /\ n <= 2 * more /\ n \in Nat
        /\ n <= Len(wire) /\ n >= 1
    <3>3. ~(wire[n].half = 1 \/ n > 2 * more)
      BY <2>1, Zenon
    <3>1. wire[n].half # 1 /\ ~(n > 2 * more) /\ n \in Nat /\ n <= Len(wire) /\ n >= 1
      BY <1>1, <2>1, <3>3
    <3>2. n % 2 = 0
      BY <1>1, <1>3, <3>1, CutFrames
    <3> QED BY <1>1, <3>1, <3>2 DEF MaxRest
  <2>3. (n = 2 /\ more >= 1) \/ (n = 4 /\ more = 2)
    BY <1>1, <2>2 DEF MaxRest
  <2>4. /\ 1 \in Starts(wire) /\ wire[1].kind = "cont" /\ wire[1].left = more - 1
        /\ wire[1].half = 1 /\ wire[1].conn = conn /\ wire[2] = Half("cont", 2, more - 1)
    <3>1. /\ 1 \in Starts(wire) /\ wire[1].half = 1 /\ wire[1].conn = conn
          /\ wire[2] = Half(wire[1].kind, 2, wire[1].left)
      BY <1>1, <1>3, <1>6, FirstFrame
    <3>2. more > 0
      BY <1>1, <2>3 DEF MaxRest
    <3> QED BY <1>3, <1>6, <3>1, <3>2 DEF Statements, Continues
  <2>5. n = 4 => /\ wire[3].kind = "cont" /\ wire[3].left = 0
                 /\ wire[3].half = 1 /\ wire[3].conn = conn /\ wire[4] = Half("cont", 2, 0)
    <3>1. n = 4 => 3 \in Starts(wire) /\ 1 + 2 = 3 /\ 3 + 1 = 4
      BY <1>1, <2>2 DEF Starts
    <3>2. n = 4 => more - 1 = 1 /\ Continues(wire[1].left, wire[3])
      BY <1>3, <2>3, <2>4, <3>1 DEF Follows
    <3>3. n = 4 => wire[3].kind = "cont" /\ wire[3].left = 0
      BY <2>4, <3>2 DEF Continues
    <3> QED BY <1>3, <3>1, <3>3 DEF Paired
  <2>6. OfStatement(n)
    <3>1. CASE n = 2
      <4>1. \A i \in 1 .. n : i = 1 \/ i = 2
        BY <3>1
      <4> QED BY <2>2, <2>4, <3>1, <4>1 DEF OfStatement, Half
    <3>2. CASE n = 4
      <4>1. \A i \in 1 .. n : i \in {1, 2, 3, 4}
        BY <3>2
      <4>2. \A i \in 1 .. n : /\ wire[i].kind = "cont" /\ wire[i].conn = conn
                              /\ wire[i].half = IF i % 2 = 1 THEN 1 ELSE 2
        BY <2>4, <2>5, <3>2, <4>1 DEF Half
      <4> QED BY <2>2, <4>2 DEF OfStatement
    <3> QED BY <2>3, <3>1, <3>2
  <2>7. more' = more - n \div 2 /\ at' = IF more' = 0 THEN "carry" ELSE "sql"
    BY <2>1, <2>6
  <2>8. Expected' = wire[n].left
    <3>1. wire[n].left = more - n \div 2
      BY <2>3, <2>4, <2>5 DEF Half
    <3>2. Expected' = more'
      BY <1>1, <1>3, <2>7 DEF Expected
    <3> QED BY <2>7, <3>1, <3>2
  <2>9. Statements'
    BY <1>1, <1>3, <2>1, <2>2, <2>8, CutStatements
  <2>10. Paired(wire)'
    <3>1. Paired(wire')
      BY <1>1, <1>3, <2>1, <2>2, CutFrames
    <3> QED BY <1>1, <3>1 DEF Paired, Half, Starts
  <2> QED BY <1>4, <2>7, <2>9, <2>10 DEF WholeFrames
<1> QED BY <1>5, <1>6

LEMMA FramesStep == Parameters /\ TInv /\ WholeFrames /\ [Next]_vars => WholeFrames'
<1> SUFFICES ASSUME Parameters, TInv, WholeFrames, [Next]_vars PROVE WholeFrames'
  OBVIOUS
<1>1. ASSUME UNCHANGED <<unionBuf, more, conn, peer, rest, wire, spoilt>>,
             \/ UNCHANGED at
             \/ at \in {"carry", "add", "send", "inspect"} /\ at' \in {"divide", "carry", "add", "send"}
             \/ at = "divide" /\ Len(unionBuf) < 2 /\ at' = "recv"
      PROVE  WholeFrames'
  <2> SUFFICES ASSUME ~spoilt' PROVE WholeFrames'
    BY DEF WholeFrames
  <2>1. at # "misread" /\ Paired(wire) /\ Paired(unionBuf) /\ Statements /\ Received
    BY <1>1 DEF WholeFrames
  <2>2. unionBuf \in Seq(Halves) /\ Len(unionBuf) \in Nat
    BY LenProperties DEF TInv, TypeOK
  <2>3. Len(unionBuf) < 2 => unionBuf = <<>>
    <3>1. Len(unionBuf) < 2 => Len(unionBuf) = 0
      BY <2>1, <2>2 DEF Paired
    <3> QED BY <2>2, <3>1, EmptySeq
  <2>4. Expected' = Expected
    BY <1>1 DEF Expected
  <2>5. Received'
    BY <1>1, <2>1, <2>3 DEF Received, Starts
  <2>6. Statements'
    BY <1>1, <2>1, <2>4 DEF Statements, Follows, Continues, Starts
  <2>7. Paired(wire)' /\ Paired(unionBuf)'
    BY <1>1, <2>1 DEF Paired, Half, Starts
  <2> QED BY <1>1, <2>1, <2>5, <2>6, <2>7 DEF WholeFrames
<1>2. CASE UNCHANGED vars \/ OnTimer \/ \E t \in Slots : Inspection(t)
  BY <1>1, <1>2 DEF vars, serverVars, clientVars, OnTimer, Inspection
<1>3. CASE Divided \/ Answer \/ StartInspection
  <2>1. UNCHANGED <<unionBuf, more, conn, peer, rest, wire, spoilt>>
    BY <1>3 DEF Divided, Answer, StartInspection, clientVars
  <2>2. \/ at = "divide" /\ Len(unionBuf) < 2 /\ at' = "recv"
        \/ at \in {"carry", "add", "send", "inspect"} /\ at' \in {"divide", "carry", "add", "send"}
    BY <1>3 DEF Divided, Answer, StartInspection
  <2> QED BY <1>1, <2>1, <2>2
<1>4. CASE Break \/ ClientLeaves
  <2>1. /\ UNCHANGED <<unionBuf, more, conn, spoilt>> /\ (wire' = <<>> \/ UNCHANGED wire) /\ peer' # "open"
        /\ UNCHANGED at \/ (at = "recv" /\ at' = "accept")
    BY <1>4 DEF Break, Close, ClientLeaves, serverVars
  <2> QED BY <2>1, LostFrames
<1>5. CASE Accept
  <2>1. at = "accept" /\ at' = "recv" /\ UNCHANGED <<unionBuf, spoilt>> /\ wire' = <<>> /\ rest' = 0
    BY <1>5 DEF Accept
  <2>2. ~spoilt' => unionBuf' = <<>>
    BY <2>1 DEF WholeFrames, Received
  <2>3. ~spoilt' => Expected' = 0
    BY <2>1, <2>2 DEF Expected
  <2>4. ~spoilt' => Statements' /\ Received' /\ Paired(wire)' /\ Paired(unionBuf)'
    BY <2>1, <2>2, <2>3, Nothing DEF Paired, Statements, Received, Follows, Starts, Left
  <2> QED BY <2>1, <2>4 DEF WholeFrames
<1>6. CASE Recv
  BY <1>6, FramesReceived
<1>7. CASE Divide
  BY <1>7, FramesDivided
<1>8. CASE SqlRecv
  BY <1>8, FramesOfStatement
<1>9. ASSUME NEW kind \in Kinds, ClientSends(kind) PROVE WholeFrames'
  <2>1. /\ peer = "open" /\ UNCHANGED <<at, unionBuf, more, conn, peer, spoilt>> /\ rest = 0
        /\ wire' = wire \o Whole(kind, rest') /\ rest' \in 0 .. MaxRest
        /\ rest' > 0 => kind = "sql"
        /\ kind \in AllKinds
    BY <1>9 DEF ClientSends, serverVars, MaxRest, Parameters
  <2>2. Continues(rest, Half(kind, 1, rest'))
    BY <2>1 DEF Continues, Half, AllKinds
  <2> QED BY <2>1, <2>2, FramesSent
<1>10. CASE ClientContinues
  <2>1. /\ peer = "open" /\ UNCHANGED <<at, unionBuf, more, conn, peer, spoilt>> /\ rest > 0
        /\ wire' = wire \o Whole("cont", rest') /\ rest' = rest - 1 /\ rest \in 0 .. MaxRest
    BY <1>10 DEF ClientContinues, serverVars, TInv, TypeOK
  <2>2. rest' \in 0 .. MaxRest
    BY <2>1 DEF MaxRest
  <2>3. Continues(rest, Half("cont", 1, rest'))
    BY <2>1 DEF Continues, Half
  <2> QED BY <2>1, <2>2, <2>3, FramesSent
<1> QED BY <1>2, <1>3, <1>4, <1>5, <1>6, <1>7, <1>8, <1>9, <1>10 DEF Next, ServerThread

\* Unless a recv ended inside a frame, brought the rest of an SQL statement before
\* ackExecuteSQL asked for it, or more than that asked for, no handler runs on
\* anything but a frame the client sent.
THEOREM FramesIntactHolds ==
  ASSUME Parameters
  PROVE  Spec => []FramesIntact
<1>1. WholeFrames => FramesIntact
  BY DEF WholeFrames, FramesIntact
<1>2. Init => TInv /\ WholeFrames
  BY ServerInit, FramesInit
<1>3. (TInv /\ WholeFrames) /\ [Next]_vars => (TInv /\ WholeFrames)'
  BY ServerStep, FramesStep
<1> QED BY <1>1, <1>2, <1>3, PTL DEF Spec
=============================================================================
