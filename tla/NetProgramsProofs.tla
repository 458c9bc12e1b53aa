------------------------- MODULE NetProgramsProofs -------------------------
(***************************************************************************)
(* What is proved of the chat room and of the Pelco control server holds   *)
(* where they are one program among four: a step of NetPrograms is a step  *)
(* of each of them, or leaves its variables alone.  The Asio server and    *)
(* its client are proved about here.                                       *)
(***************************************************************************)
EXTENDS NetPrograms, SequenceTheorems, TLAPS

PelcoProofs  == INSTANCE PelcoServerProofs

-----------------------------------------------------------------------------
(* The Asio server.  Every id is pooled, in the map, or with the accept    *)
(* under way.  Three steps move ids: Accept takes the first of the pool,   *)
(* Inserted puts the accepted one into the map, RecyclConnid appends one   *)
(* of the map to the pool.  Two lemmas say what Tail and Append do to the  *)
(* set of pooled ids; with them the invariant is inductive as it stands,   *)
(* together with the types.                                                *)

\* An id is pooled once.
Distinct(s) == \A i, j \in 1 .. Len(s) : s[i] = s[j] => i = j
Elements(s) == {s[i] : i \in 1 .. Len(s)}

\* The first of a sequence without repetitions is gone after Tail, and nothing
\* else is.
LEMMA TailElements ==
  ASSUME NEW S, NEW s \in Seq(S), s # <<>>, Distinct(s)
  PROVE  /\ Tail(s) \in Seq(S) /\ Head(s) \in S
         /\ Distinct(Tail(s))
         /\ Elements(Tail(s)) = Elements(s) \ {Head(s)}
         /\ Head(s) \in Elements(s)
<1>1. Tail(s) \in Seq(S) /\ Head(s) \in S /\ Len(s) \in Nat \ {0}
  BY HeadTailProperties, EmptySeq, LenProperties
<1>2. /\ Len(Tail(s)) = Len(s) - 1 /\ Head(s) = s[1]
      /\ \A i \in 1 .. Len(s) - 1 : Tail(s)[i] = s[i + 1]
  BY HeadTailProperties
<1>3. Distinct(Tail(s))
  <2> SUFFICES ASSUME NEW i \in 1 .. Len(s) - 1, NEW j \in 1 .. Len(s) - 1, s[i + 1] = s[j + 1]
               PROVE  i = j
    BY <1>2 DEF Distinct
  <2> QED BY <1>1 DEF Distinct
<1>4. ASSUME NEW x PROVE x \in Elements(Tail(s)) <=> x \in Elements(s) /\ x # Head(s)
  <2>1. ASSUME x \in Elements(Tail(s)) PROVE x \in Elements(s) /\ x # Head(s)
    <3>1. PICK i \in 1 .. Len(s) - 1 : x = s[i + 1]
      BY <2>1, <1>2 DEF Elements
    <3>2. i + 1 \in 1 .. Len(s) /\ 1 \in 1 .. Len(s) /\ i + 1 # 1
      BY <1>1
    <3> QED BY <3>1, <3>2, <1>2 DEF Distinct, Elements
  <2>2. ASSUME x \in Elements(s), x # Head(s) PROVE x \in Elements(Tail(s))
    <3>1. PICK k \in 1 .. Len(s) : x = s[k]
      BY <2>2 DEF Elements
    <3>2. k # 1 /\ k - 1 \in 1 .. Len(s) - 1 /\ k = (k - 1) + 1
      BY <3>1, <2>2, <1>1, <1>2
    <3>3. Tail(s)[k - 1] = x
      BY <3>1, <3>2, <1>2
    <3> QED BY <3>2, <3>3, <1>2 DEF Elements
  <2> QED BY <2>1, <2>2
<1>5. Head(s) \in Elements(s)
  BY <1>1, <1>2 DEF Elements
<1> QED BY <1>1, <1>3, <1>4, <1>5

\* Append adds one element, and a repetition only if the element is there already.
LEMMA AppendElements ==
  ASSUME NEW S, NEW s \in Seq(S), NEW e \in S, e \notin Elements(s), Distinct(s)
  PROVE  /\ Append(s, e) \in Seq(S)
         /\ Distinct(Append(s, e))
         /\ Elements(Append(s, e)) = Elements(s) \cup {e}
<1>1. /\ Append(s, e) \in Seq(S) /\ Len(s) \in Nat
      /\ Len(Append(s, e)) = Len(s) + 1
      /\ \A i \in 1 .. Len(s) : Append(s, e)[i] = s[i]
      /\ Append(s, e)[Len(s) + 1] = e
  BY AppendProperties, LenProperties
<1>2. Distinct(Append(s, e))
  <2> SUFFICES ASSUME NEW i \in 1 .. Len(s) + 1, NEW j \in 1 .. Len(s) + 1,
                      Append(s, e)[i] = Append(s, e)[j]
               PROVE  i = j
    BY <1>1 DEF Distinct
  <2>1. \A k \in 1 .. Len(s) : s[k] # e
    BY DEF Elements
  <2>2. CASE i \in 1 .. Len(s) /\ j \in 1 .. Len(s)
    BY <2>2, <1>1 DEF Distinct
  <2>3. CASE i = Len(s) + 1 \/ j = Len(s) + 1
    BY <2>1, <2>3, <1>1
  <2> QED BY <2>2, <2>3, <1>1
<1>3. ASSUME NEW x PROVE x \in Elements(Append(s, e)) <=> x \in Elements(s) \/ x = e
  <2>1. ASSUME x \in Elements(Append(s, e)) PROVE x \in Elements(s) \/ x = e
    <3>1. PICK i \in 1 .. Len(s) + 1 : x = Append(s, e)[i]
      BY <2>1, <1>1 DEF Elements
    <3>2. CASE i \in 1 .. Len(s)
      BY <3>1, <3>2, <1>1 DEF Elements
    <3>3. CASE i = Len(s) + 1
      BY <3>1, <3>3, <1>1
    <3> QED BY <3>2, <3>3, <1>1
  <2>2. ASSUME x \in Elements(s) PROVE x \in Elements(Append(s, e))
    <3>1. PICK i \in 1 .. Len(s) : x = s[i]
      BY <2>2 DEF Elements
    <3> QED BY <3>1, <1>1 DEF Elements
  <2>3. e \in Elements(Append(s, e))
    BY <1>1 DEF Elements
  <2> QED BY <2>1, <2>2, <2>3
<1> QED BY <1>1, <1>2, <1>3

-----------------------------------------------------------------------------
ServerInv == Server!TypeOK /\ Server!IdsConserved

\* The constructor's pool, and the first accept, which takes 1 of it.
LEMMA ServerInit ==
  ASSUME MaxConnectionNum \in Nat \ {0}, Server!Init
  PROVE  ServerInv
<1>1. m_cnnIdPool \in Seq(Server!Ids) /\ Len(m_cnnIdPool) = MaxConnectionNum - 1
  <2>1. m_cnnIdPool \in [1 .. MaxConnectionNum - 1 -> Server!Ids]
    BY DEF Server!Init, Server!Ids
  <2>2. m_cnnIdPool \in Seq(Server!Ids)
    BY <2>1, SeqDef
  <2> QED BY <2>1, <2>2, LenProperties
<1>2. \A i \in 1 .. MaxConnectionNum - 1 : m_cnnIdPool[i] = i + 1
  BY DEF Server!Init
<1>3. Server!TypeOK
  BY <1>1 DEF Server!Init, Server!TypeOK, Server!Ids
<1>4. \A i, j \in 1 .. Len(m_cnnIdPool) : m_cnnIdPool[i] = m_cnnIdPool[j] => i = j
  BY <1>1, <1>2
<1>5. ASSUME NEW x PROVE x \in Server!Pooled <=> x \in Server!Ids /\ x # 1
  <2>1. ASSUME x \in Server!Pooled PROVE x \in Server!Ids /\ x # 1
    BY <2>1, <1>1, <1>2 DEF Server!Pooled, Server!Ids
  <2>2. ASSUME x \in Server!Ids, x # 1 PROVE x \in Server!Pooled
    <3>1. x - 1 \in 1 .. Len(m_cnnIdPool) /\ x = (x - 1) + 1
      BY <2>2, <1>1 DEF Server!Ids
    <3>2. m_cnnIdPool[x - 1] = x
      BY <3>1, <1>1, <1>2
    <3> QED BY <3>1, <3>2 DEF Server!Pooled
  <2> QED BY <2>1, <2>2
<1>6. 1 \in Server!Ids
  BY DEF Server!Ids
<1>7. Server!Pooled = Server!Ids \ {1} /\ accepting = 1 /\ m_handlers = {}
  BY <1>5 DEF Server!Init
<1>8. Server!MapIsLive
  BY DEF Server!Init, Server!MapIsLive
<1> QED BY <1>3, <1>4, <1>6, <1>7, <1>8 DEF ServerInv, Server!IdsConserved

\* The step of Accept: the ids the pool and the accept under way hold together.
LEMMA AcceptMoves ==
  ASSUME ServerInv, NEW next, Server!Accept(next)
  PROVE  /\ m_cnnIdPool' \in Seq(Server!Ids) /\ accepting' \in Server!Ids \cup {0}
         /\ Distinct(m_cnnIdPool')
         /\ accepting' \notin Server!Pooled'
         /\ Server!Pooled' \cup ({accepting'} \ {0}) = Server!Pooled
         /\ accepting' = 0 <=> run' = "undefined" /\ Server!Pooled = {}
         /\ run' \in {next, "undefined"}
         /\ accepting' = 0 => run' = "undefined"
<1>1. 0 \notin Server!Ids /\ Server!Pooled = Elements(m_cnnIdPool) /\ Server!Pooled' = Elements(m_cnnIdPool')
  BY DEF Server!Ids, Server!Pooled, Elements
<1>2. Distinct(m_cnnIdPool) /\ m_cnnIdPool \in Seq(Server!Ids)
  BY DEF ServerInv, Server!IdsConserved, Server!TypeOK, Distinct
<1>3. CASE m_cnnIdPool = <<>>
  <2>1. Elements(m_cnnIdPool) = {}
    BY <1>3 DEF Elements
  <2> QED BY <1>1, <1>2, <1>3, <2>1 DEF Server!Accept
<1>4. CASE m_cnnIdPool # <<>>
  <2>1. /\ Tail(m_cnnIdPool) \in Seq(Server!Ids) /\ Head(m_cnnIdPool) \in Server!Ids
        /\ Distinct(Tail(m_cnnIdPool))
        /\ Elements(Tail(m_cnnIdPool)) = Elements(m_cnnIdPool) \ {Head(m_cnnIdPool)}
        /\ Head(m_cnnIdPool) \in Elements(m_cnnIdPool)
    BY <1>2, <1>4, TailElements
  <2> QED BY <1>1, <1>4, <2>1 DEF Server!Accept
<1> QED BY <1>3, <1>4

\* A connection, or an error in its place: one id goes to the map, one to accept.
LEMMA InsertedInv ==
  ASSUME ServerInv, Server!Accepted \/ Server!AcceptError
  PROVE  ServerInv'
<1>1. PICK next \in {"running", "stopped"} :
        /\ Server!Inserted(next)
        /\ next = "running" => sockets' = [sockets EXCEPT ![accepting] = "open"]
        /\ sockets' \in {[sockets EXCEPT ![accepting] = "open"], [sockets EXCEPT ![accepting] = "closed"]}
        /\ acceptor' \in {acceptor, "closed"}
  BY DEF Server!Accepted, Server!AcceptError
<1>2. /\ run = "running" /\ accepting # 0 /\ Server!Accept(next)
      /\ m_handlers' = m_handlers \cup {accepting}
      /\ reading' = reading \cup {accepting}
  BY <1>1 DEF Server!Inserted
<1>3. Server!TypeOK /\ Server!IdsConserved /\ Server!MapIsLive /\ accepting \in Server!Ids
  BY <1>2 DEF ServerInv, Server!IdsConserved, Server!TypeOK
<1>4. /\ m_cnnIdPool' \in Seq(Server!Ids) /\ accepting' \in Server!Ids \cup {0}
      /\ Distinct(m_cnnIdPool')
      /\ accepting' \notin Server!Pooled'
      /\ Server!Pooled' \cup ({accepting'} \ {0}) = Server!Pooled
      /\ run' \in {next, "undefined"}
      /\ accepting' = 0 => run' = "undefined"
  BY <1>2, AcceptMoves
<1>5. 0 \notin Server!Ids
  BY DEF Server!Ids
<1>6. Server!TypeOK'
  BY <1>1, <1>2, <1>3, <1>4 DEF Server!TypeOK
<1>7. Server!MapIsLive'
  <2> SUFFICES ASSUME run' = "running"
               PROVE  accepting' # 0 /\ m_handlers' = reading' /\ \A i \in m_handlers' : sockets'[i] = "open"
    BY DEF Server!MapIsLive
  <2>1. next = "running" /\ sockets' = [sockets EXCEPT ![accepting] = "open"] /\ sockets \in [Server!Ids -> {"none", "open", "closed"}]
    BY <1>1, <1>3, <1>4 DEF Server!TypeOK
  <2>2. m_handlers = reading /\ m_handlers \subseteq Server!Ids /\ \A i \in m_handlers : sockets[i] = "open"
    BY <1>2, <1>3 DEF Server!MapIsLive, Server!TypeOK
  <2> QED BY <2>1, <2>2, <1>2, <1>3, <1>4
<1>8. Server!IdsConserved'
  <2>1. /\ Server!Pooled \cap m_handlers = {} /\ accepting \notin Server!Pooled \cup m_handlers
        /\ Server!Pooled \cup m_handlers \cup {accepting} = Server!Ids
    BY <1>3, <1>5 DEF Server!IdsConserved
  <2>2. 0 \notin Server!Pooled /\ 0 \notin Server!Pooled' /\ 0 \notin m_handlers'
    BY <2>1, <1>2, <1>4, <1>5
  <2>3. Server!Pooled' \cap m_handlers' = {}
    BY <2>1, <1>2, <1>4
  <2>4. accepting' \notin Server!Pooled' \cup m_handlers'
    BY <2>1, <2>2, <1>2, <1>4
  <2>5. Server!Pooled' \cup m_handlers' \cup ({accepting'} \ {0}) = Server!Ids
    BY <2>1, <1>2, <1>4
  <2> QED BY <2>3, <2>4, <2>5, <1>4, <1>7 DEF Server!IdsConserved, Distinct
<1> QED BY <1>6, <1>8 DEF ServerInv

\* A connection ends: its id goes from the map to the pool.
LEMMA ReadErrorInv ==
  ASSUME ServerInv, NEW connId \in Server!Ids, Server!ReadError(connId)
  PROVE  ServerInv'
<1>1. /\ run = "running" /\ connId \in reading
      /\ sockets' = [sockets EXCEPT ![connId] = "closed"] /\ reading' = reading \ {connId}
      /\ m_handlers' = m_handlers \ {connId} /\ m_cnnIdPool' = Append(m_cnnIdPool, connId)
      /\ accepting' = accepting /\ acceptor' = acceptor /\ run' = run
  BY DEF Server!ReadError, Server!RecyclConnid
<1>2. Server!TypeOK /\ Server!IdsConserved /\ Server!MapIsLive
  BY DEF ServerInv, Server!IdsConserved
<1>3. connId \in m_handlers
  BY <1>1, <1>2 DEF Server!MapIsLive
<1>4. /\ m_cnnIdPool' \in Seq(Server!Ids) /\ Distinct(m_cnnIdPool')
      /\ Server!Pooled' = Server!Pooled \cup {connId}
  <2>1. Distinct(m_cnnIdPool) /\ m_cnnIdPool \in Seq(Server!Ids) /\ connId \notin Elements(m_cnnIdPool)
    BY <1>2, <1>3 DEF Server!IdsConserved, Server!TypeOK, Distinct, Elements, Server!Pooled
  <2>2. /\ Append(m_cnnIdPool, connId) \in Seq(Server!Ids) /\ Distinct(Append(m_cnnIdPool, connId))
        /\ Elements(Append(m_cnnIdPool, connId)) = Elements(m_cnnIdPool) \cup {connId}
    BY <2>1, AppendElements
  <2> QED BY <2>2, <1>1 DEF Server!Pooled, Elements
<1>5. Server!TypeOK'
  BY <1>1, <1>2, <1>4 DEF Server!TypeOK
<1>6. Server!MapIsLive'
  <2>1. sockets \in [Server!Ids -> {"none", "open", "closed"}] /\ m_handlers \subseteq Server!Ids
    BY <1>2 DEF Server!TypeOK
  <2> QED BY <2>1, <1>1, <1>2 DEF Server!MapIsLive
<1>7. Server!IdsConserved'
  <2>1. /\ Server!Pooled \cap m_handlers = {} /\ accepting \notin Server!Pooled \cup m_handlers
        /\ Server!Pooled \cup m_handlers \cup ({accepting} \ {0}) = Server!Ids
    BY <1>2 DEF Server!IdsConserved
  <2>2. Server!Pooled' \cap m_handlers' = {} /\ accepting' \notin Server!Pooled' \cup m_handlers'
    BY <2>1, <1>1, <1>3, <1>4
  <2>3. Server!Pooled' \cup m_handlers' \cup ({accepting'} \ {0}) = Server!Ids
    BY <2>1, <1>1, <1>3, <1>4
  <2> QED BY <2>2, <2>3, <1>4, <1>6 DEF Server!IdsConserved, Distinct
<1> QED BY <1>5, <1>7 DEF ServerInv

\* No program's step disturbs the ids.
LEMMA ServerStep == ServerInv /\ [Next]_vars => ServerInv'
<1> SUFFICES ASSUME ServerInv, [Next]_vars PROVE ServerInv'
  OBVIOUS
<1>1. CASE Server!Accepted \/ Server!AcceptError
  BY <1>1, InsertedInv
<1>2. ASSUME NEW connId \in Server!Ids, Server!ReadError(connId) PROVE ServerInv'
  BY <1>2, ReadErrorInv
<1>3. CASE UNCHANGED serverVars
  BY <1>3 DEF serverVars, ServerInv, Server!TypeOK, Server!IdsConserved, Server!MapIsLive, Server!Pooled
<1>4. Server!Next \/ UNCHANGED serverVars
  BY DEF Next, ChatRoom, AsioServer, AsioClient, PelcoServer, vars
<1> QED BY <1>1, <1>2, <1>3, <1>4 DEF Server!Next

\* In every behaviour of the four programs.
LEMMA ServerRuns == Spec => []ServerInv
<1>1. Init => ServerInv
  BY ServerAssumption, ServerInit DEF Init
<1> QED BY <1>1, ServerStep, PTL DEF Spec

\* However connections come, end and fail, no id of the pool is shared, lost or
\* kept by a connection that has ended, for every size of the pool.
THEOREM IdsConservedHolds == Spec => []IdsConserved
<1>1. ServerInv => IdsConserved
  BY DEF ServerInv, IdsConserved
<1> QED BY <1>1, ServerRuns, PTL

-----------------------------------------------------------------------------
\* A behaviour of the four programs is one of the control server.
LEMMA PelcoRuns == Spec => PelcoProofs!Spec
<1>1. Init => PelcoProofs!Init
  BY DEF Init, Pelco!Init, PelcoProofs!Init, Pelco!None, PelcoProofs!None,
         Pelco!Slots, PelcoProofs!Slots
<1>2. [Next]_vars => [PelcoProofs!Next]_(PelcoProofs!vars)
  \* The same definitions under different names: all of them, expanded.
  <2>1. Pelco!Next <=> PelcoProofs!Next
    BY DEF Pelco!Next, PelcoProofs!Next, Pelco!ServerThread, PelcoProofs!ServerThread,
           Pelco!Accept, PelcoProofs!Accept, Pelco!Break, PelcoProofs!Break, Pelco!Close,
           PelcoProofs!Close, Pelco!Recv, PelcoProofs!Recv, Pelco!Spoils, PelcoProofs!Spoils,
           Pelco!Divide, PelcoProofs!Divide, Pelco!Divided, PelcoProofs!Divided, Pelco!SqlRecv,
           PelcoProofs!SqlRecv, Pelco!Answer, PelcoProofs!Answer, Pelco!StartInspection,
           PelcoProofs!StartInspection, Pelco!Started, PelcoProofs!Started, Pelco!Handler,
           PelcoProofs!Handler, Pelco!AckConnect, PelcoProofs!AckConnect, Pelco!AckAllCall,
           PelcoProofs!AckAllCall, Pelco!AckWriteDatabases, PelcoProofs!AckWriteDatabases,
           Pelco!AckExecuteYuzhiOperation, PelcoProofs!AckExecuteYuzhiOperation,
           Pelco!AckYuzhiOperation, PelcoProofs!AckYuzhiOperation,
           Pelco!AckWriteYuzhiOperation, PelcoProofs!AckWriteYuzhiOperation,
           Pelco!AckHandOperation, PelcoProofs!AckHandOperation, Pelco!AckExecuteSQL,
           PelcoProofs!AckExecuteSQL, Pelco!AckQueryHistoryVideo,
           PelcoProofs!AckQueryHistoryVideo, Pelco!ClientLeaves, PelcoProofs!ClientLeaves,
           Pelco!OnTimer, PelcoProofs!OnTimer, Pelco!ClientSends, PelcoProofs!ClientSends,
           Pelco!Whole, PelcoProofs!Whole, Pelco!Half, PelcoProofs!Half, Pelco!Inspection,
           PelcoProofs!Inspection, Pelco!Begin, PelcoProofs!Begin, Pelco!Stamp,
           PelcoProofs!Stamp, Pelco!Report, PelcoProofs!Report, Pelco!Move, PelcoProofs!Move,
           Pelco!None, PelcoProofs!None, Pelco!Slots, PelcoProofs!Slots, Pelco!Running,
           PelcoProofs!Running, Pelco!Carry, PelcoProofs!Carry, Pelco!Plus2, PelcoProofs!Plus2,
           Pelco!RecvSeqAdd1, PelcoProofs!RecvSeqAdd1,
           Pelco!Added, PelcoProofs!Added, Pelco!RecvSeqAdd2, PelcoProofs!RecvSeqAdd2,
           Pelco!OfStatement, PelcoProofs!OfStatement, Pelco!Entry, PelcoProofs!Entry,
           Pelco!Uncounted, PelcoProofs!Uncounted, Pelco!Numbered, PelcoProofs!Numbered,
           Pelco!MaxRest, PelcoProofs!MaxRest, Pelco!ClientContinues,
           PelcoProofs!ClientContinues,
           Pelco!serverVars,
           PelcoProofs!serverVars, Pelco!clientVars, PelcoProofs!clientVars, Pelco!seqVars,
           PelcoProofs!seqVars, Pelco!inspVars, PelcoProofs!inspVars
  <2> QED
    BY <2>1 DEF Next, ChatRoom, AsioServer, AsioClient, PelcoServer, vars, pelcoVars,
                PelcoProofs!vars, PelcoProofs!serverVars, PelcoProofs!clientVars,
                PelcoProofs!seqVars, PelcoProofs!inspVars
<1> QED BY <1>1, <1>2, PTL DEF Spec, PelcoProofs!Spec

\* Whatever program runs, one inspection runs at a time.
THEOREM OneInspectionHolds == Spec => []OneInspection
<1>1. PelcoProofs!Spec => []PelcoProofs!OneInspection
  BY PelcoAssumption, PelcoProofs!OneInspectionHolds
<1>2. PelcoProofs!OneInspection => OneInspection
  BY DEF OneInspection, Pelco!OneInspection, Pelco!Running, Pelco!Slots,
         PelcoProofs!OneInspection, PelcoProofs!Running, PelcoProofs!Slots
<1> QED BY <1>1, <1>2, PelcoRuns, PTL

\* The control server's theorems apply.
LEMMA PelcoParameters == PelcoProofs!Parameters
BY PelcoAssumption DEF PelcoProofs!Parameters, PelcoProofs!AllKinds, Pelco!AllKinds

\* Nor does another program disturb what the Pelco server's sequence bytes count:
\* answers, and frames received but for queries of history videos, inspections and
\* frames of no known type, which its thread never counts.
THEOREM SeqExactHolds == Spec => []SeqExact
<1>1. PelcoProofs!Spec => []PelcoProofs!SeqExact
  BY PelcoParameters, PelcoProofs!SeqExactHolds
<1>2. PelcoProofs!SeqExact => SeqExact
  BY DEF SeqExact, Pelco!SeqExact, Pelco!Number, Pelco!Numbers,
         PelcoProofs!SeqExact, PelcoProofs!Number, PelcoProofs!Numbers
<1> QED BY <1>1, <1>2, PelcoRuns, PTL

\* Every frame the Pelco server executes is one its client sent, unless a recv
\* ended inside a frame, or brought more than the handler it was for takes.
THEOREM FramesIntactHolds == Spec => []FramesIntact
<1>1. PelcoProofs!Spec => []PelcoProofs!FramesIntact
  BY PelcoParameters, PelcoProofs!FramesIntactHolds
<1>2. PelcoProofs!FramesIntact => FramesIntact
  BY DEF FramesIntact, Pelco!FramesIntact, PelcoProofs!FramesIntact
<1> QED BY <1>1, <1>2, PelcoRuns, PTL
-----------------------------------------------------------------------------
(* The Asio client.                                                        *)

Completions == {"connected", "connectError", "readError"}

Places == {"start", "parked", "idle", "write", "run", "read", "connClose", "close",
           "flag", "check", "create", "none", "test", "connect", "terminated"}
ClientFlags == {m_isConnected, m_chkThread, up, timely} \subseteq BOOLEAN

\* Of the handlers that wait to run, one has an error to report.
ErrorReady == \E i \in 1 .. Len(completions) : completions[i] # "connected"

ClearedSoon ==
  (m_isConnected /\ pc.io # "terminated") =>
    \/ sock = "connected" /\ reads > 0
    \/ ErrorReady
    \/ pc.io \in {"read", "close", "flag"}
    \/ pc.main = "flag"

ClientInv == Client!TypeOK /\ ClearedSoon

\* Handlers added keep those there; the errors of n reads are n.
LEMMA MoreReady ==
  ASSUME completions \in Seq(Completions), NEW s \in Seq(Completions), completions' = completions \o s
  PROVE  /\ completions' \in Seq(Completions)
         /\ ErrorReady => ErrorReady'
         /\ (\E i \in 1 .. Len(s) : s[i] # "connected") => ErrorReady'
<1>1. /\ completions' \in Seq(Completions) /\ Len(completions') = Len(completions) + Len(s)
      /\ Len(completions) \in Nat /\ Len(s) \in Nat
      /\ \A i \in 1 .. Len(completions) : completions'[i] = completions[i]
      /\ \A i \in 1 .. Len(s) : completions'[Len(completions) + i] = s[i]
  BY ConcatProperties, LenProperties
<1>2. ErrorReady => ErrorReady'
  BY <1>1 DEF ErrorReady
<1>3. ASSUME NEW i \in 1 .. Len(s), s[i] # "connected" PROVE ErrorReady'
  <2>1. Len(completions) + i \in 1 .. Len(completions')
    BY <1>1
  <2> QED BY <1>1, <1>3, <2>1 DEF ErrorReady
<1> QED BY <1>1, <1>2, <1>3

\* One more handler that waits to run.
LEMMA OneMoreReady ==
  ASSUME completions \in Seq(Completions), NEW c \in Completions, completions' = Append(completions, c)
  PROVE  /\ completions' \in Seq(Completions)
         /\ ErrorReady => ErrorReady'
         /\ c # "connected" => ErrorReady'
<1>1. /\ completions' \in Seq(Completions) /\ Len(completions') = Len(completions) + 1
      /\ Len(completions) \in Nat
      /\ \A i \in 1 .. Len(completions) : completions'[i] = completions[i]
      /\ completions'[Len(completions) + 1] = c
  BY AppendProperties, LenProperties
<1>2. Len(completions) + 1 \in 1 .. Len(completions')
  BY <1>1
<1> QED BY <1>1, <1>2 DEF ErrorReady

\* Every read that fails has its handler, with an error.
LEMMA ErrorsOfReads ==
  ASSUME NEW n \in Nat
  PROVE  /\ Client!ReadErrors(n) \in Seq(Completions) /\ Len(Client!ReadErrors(n)) = n
         /\ n > 0 => \E i \in 1 .. Len(Client!ReadErrors(n)) : Client!ReadErrors(n)[i] # "connected"
<1>1. Client!ReadErrors(n) \in Seq(Completions) /\ Len(Client!ReadErrors(n)) = n
  BY DEF Client!ReadErrors, Completions
<1>2. n > 0 => 1 \in 1 .. Len(Client!ReadErrors(n)) /\ Client!ReadErrors(n)[1] = "readError"
  BY <1>1 DEF Client!ReadErrors
<1> QED BY <1>1, <1>2

\* A read under way, when its socket is closed, ends in an error.
LEMMA ClosedReady ==
  ASSUME Client!TypeOK, Client!CloseSocket
  PROVE  /\ completions' \in Seq(Completions)
         /\ ErrorReady \/ reads > 0 => ErrorReady'
<1>1. reads \in Nat /\ completions \in Seq(Completions)
  BY DEF Client!TypeOK, Completions
<1> DEFINE last == IF sock = "connecting" THEN <<"connectError">> ELSE <<>>
           all == Client!ReadErrors(reads) \o last
<1>2. last \in Seq(Completions)
  <2>1. <<>> \in Seq(Completions) /\ <<"connectError">> \in Seq(Completions)
    BY DEF Completions
  <2> QED BY <2>1
<1> HIDE DEF last
<1>3. Client!ReadErrors(reads) \in Seq(Completions)
  BY <1>1, ErrorsOfReads
<1>4. /\ all \in Seq(Completions) /\ Len(all) = reads + Len(last) /\ Len(last) \in Nat
      /\ \A i \in 1 .. reads : all[i] = Client!ReadErrors(reads)[i]
  <2>1. Client!ReadErrors(reads) \in Seq(Completions) /\ Len(Client!ReadErrors(reads)) = reads
    BY <1>1, ErrorsOfReads
  <2> QED BY <1>2, <2>1, ConcatProperties, LenProperties
<1>5. completions' = completions \o all
  <2>1. completions' = (completions \o Client!ReadErrors(reads)) \o last
    BY DEF Client!CloseSocket, last
  <2> QED BY <1>1, <1>2, <1>3, <2>1, ConcatAssociative
<1> HIDE DEF all
<1>6. reads > 0 => \E i \in 1 .. Len(all) : all[i] # "connected"
  <2>1. reads > 0 => 1 \in 1 .. Len(all) /\ all[1] = "readError"
    BY <1>1, <1>4 DEF Client!ReadErrors
  <2> QED BY <2>1
<1> QED BY <1>1, <1>4, <1>5, <1>6, MoreReady

\* At the start the flag is down.
LEMMA ClientInit == Client!Init => ClientInv
<1>1. ASSUME Client!Init PROVE Client!TypeOK
  <2>1. ClientFlags
    BY <1>1 DEF Client!Init, ClientFlags
  <2>2. completions \in Seq(Completions) /\ pc \in [Client!Threads -> Places]
    BY <1>1 DEF Client!Init, Completions, Client!Threads, Places
  <2>3. 0 \in 0 .. MaxOutages /\ 0 \in 0 .. MaxSends
    BY ClientAssumption
  <2> QED BY <1>1, <2>1, <2>2, <2>3 DEF Client!Init, Client!TypeOK, ClientFlags, Completions, Places
<1>2. Client!Init => ClearedSoon
  BY DEF Client!Init, ClearedSoon
<1> QED BY <1>1, <1>2 DEF ClientInv

\* What the network does: an error follows where a connection ends.
LEMMA NetworkInv ==
  ASSUME ClientInv, Client!ConnectEnds \/ Client!ServerDown \/ Client!ServerUp
  PROVE  ClientInv'
<1>1. Client!TypeOK /\ ClearedSoon /\ completions \in Seq(Completions) /\ reads \in Nat
  BY DEF ClientInv, Client!TypeOK, Completions
<1>2. CASE Client!ConnectEnds
  <2>1. PICK c \in Completions : completions' = Append(completions, c)
    BY <1>2 DEF Client!ConnectEnds, Completions
  <2>2. /\ sock = "connecting" /\ sock' \in {"closed", "connected"} /\ reads = 0
        /\ UNCHANGED <<m_isConnected, reads, m_chkThread, pc, up, outages, lines, timely>>
    BY <1>1, <1>2 DEF Client!ConnectEnds, Client!environment, Client!TypeOK
  <2>3. completions' \in Seq(Completions) /\ (ErrorReady => ErrorReady')
    BY <1>1, <2>1, OneMoreReady
  <2>4. Client!TypeOK'
    BY <1>1, <2>2, <2>3 DEF Client!TypeOK, Completions
  <2>5. ClearedSoon'
    BY <1>1, <2>2, <2>3 DEF ClearedSoon
  <2> QED BY <2>4, <2>5 DEF ClientInv
<1>3. CASE Client!ServerDown
  <2>1. /\ completions' = completions \o Client!ReadErrors(reads)
        /\ reads' = 0 /\ up' = FALSE /\ outages < MaxOutages /\ outages' = outages + 1
        /\ sock' = IF sock = "connected" THEN "broken" ELSE sock
        /\ UNCHANGED <<m_isConnected, m_chkThread, pc, lines, timely>>
    BY <1>3 DEF Client!ServerDown
  <2>2. /\ Client!ReadErrors(reads) \in Seq(Completions)
        /\ reads > 0 => \E i \in 1 .. Len(Client!ReadErrors(reads)) : Client!ReadErrors(reads)[i] # "connected"
    BY <1>1, ErrorsOfReads
  <2>3. completions' \in Seq(Completions) /\ (ErrorReady \/ reads > 0 => ErrorReady')
    BY <1>1, <2>1, <2>2, MoreReady
  <2>4. Client!TypeOK'
    <3>1. outages' \in 0 .. MaxOutages
      BY <1>1, <2>1, ClientAssumption DEF Client!TypeOK
    <3>2. ClientFlags'
      BY <1>1, <2>1 DEF Client!TypeOK, ClientFlags
    <3> QED BY <1>1, <2>1, <2>3, <3>1, <3>2 DEF Client!TypeOK, ClientFlags, Completions
  <2>5. ClearedSoon'
    BY <1>1, <2>1, <2>3 DEF ClearedSoon
  <2> QED BY <2>4, <2>5 DEF ClientInv
<1>4. CASE Client!ServerUp
  <2>1. up' = TRUE /\ UNCHANGED <<m_isConnected, sock, reads, completions, m_chkThread, pc, outages, lines, timely>>
    BY <1>4 DEF Client!ServerUp, Client!shared
  <2>2. Client!TypeOK'
    BY <1>1, <2>1 DEF Client!TypeOK
  <2>3. ClearedSoon'
    BY <1>1, <2>1 DEF ClearedSoon, ErrorReady
  <2> QED BY <2>2, <2>3 DEF ClientInv
<1> QED BY <1>2, <1>3, <1>4

-----------------------------------------------------------------------------
\* A step of one thread moves that thread.
LEMMA GotoPlace ==
  ASSUME pc \in [Client!Threads -> Places], NEW t \in Client!Threads, NEW l \in Places, Client!Goto(t, l)
  PROVE  /\ pc' \in [Client!Threads -> Places] /\ pc'[t] = l
         /\ \A u \in Client!Threads \ {t} : pc'[u] = pc[u]
BY DEF Client!Goto

\* A step of a thread that keeps the socket: the flag goes down, or an error that
\* was there stays.
LEMMA IoInv ==
  ASSUME ClientInv, Client!RunHandler \/ Client!HandleRead \/ Client!HandleConnectError
  PROVE  ClientInv'
<1>1. /\ Client!TypeOK /\ ClearedSoon /\ completions \in Seq(Completions) /\ reads \in Nat
      /\ pc \in [Client!Threads -> Places] /\ ClientFlags /\ {"main", "io"} \subseteq Client!Threads
  BY DEF ClientInv, Client!TypeOK, Completions, Places, ClientFlags, Client!Threads
<1>2. CASE Client!RunHandler
  <2>1. PICK c \in {"connected", "connectError", "readError"} :
           /\ completions # <<>> /\ pc.io = "run" /\ c = Head(completions)
           /\ c = "connected" => m_isConnected' = TRUE /\ Client!Goto("io", "read")
           /\ c = "connectError" => m_isConnected' = FALSE /\ Client!Goto("io", "connClose")
           /\ c = "readError" => Client!Goto("io", "close") /\ UNCHANGED m_isConnected
           /\ completions' = Tail(completions)
           /\ UNCHANGED <<sock, reads, m_chkThread, Client!environment>>
    BY <1>2 DEF Client!RunHandler
  <2>2. \E l \in {"read", "connClose", "close"} : Client!Goto("io", l)
    BY <2>1
  <2>3. /\ pc' \in [Client!Threads -> Places] /\ pc'["io"] \in {"read", "connClose", "close"}
        /\ pc'["io"] = "connClose" => m_isConnected' = FALSE
    BY <1>1, <2>1, <2>2, GotoPlace DEF Places
  <2>4. completions' \in Seq(Completions)
    BY <1>1, <2>1, HeadTailProperties
  <2>5. ClientFlags'
    BY <1>1, <2>1 DEF ClientFlags, Client!environment
  <2>6. Client!TypeOK'
    BY <1>1, <2>1, <2>3, <2>4, <2>5 DEF Client!TypeOK, ClientFlags, Client!environment, Completions, Places
  <2>7. ClearedSoon'
    BY <2>3 DEF ClearedSoon
  <2> QED BY <2>6, <2>7 DEF ClientInv
<1>3. CASE Client!HandleRead
  <2>1. /\ Client!Goto("io", "run") /\ UNCHANGED <<m_isConnected, sock, m_chkThread, Client!environment>>
        /\ \/ sock = "connected" /\ reads' = reads + 1 /\ UNCHANGED completions
           \/ sock # "connected" /\ completions' = Append(completions, "readError") /\ UNCHANGED reads
    BY <1>3 DEF Client!HandleRead
  <2>2. pc' \in [Client!Threads -> Places]
    BY <1>1, <2>1, GotoPlace DEF Places
  <2>3. /\ completions' \in Seq(Completions) /\ reads' \in Nat
        /\ reads' > 0 => sock = "connected"
        /\ (sock = "connected" /\ reads' > 0) \/ ErrorReady'
    <3>1. CASE sock = "connected"
      BY <1>1, <2>1, <3>1
    <3>2. CASE sock # "connected"
      <4>1. "readError" \in Completions /\ completions' = Append(completions, "readError")
        BY <2>1, <3>2 DEF Completions
      <4>2. completions' \in Seq(Completions) /\ ErrorReady'
        BY <1>1, <4>1, OneMoreReady
      <4> QED BY <1>1, <2>1, <3>2, <4>2 DEF Client!TypeOK
    <3> QED BY <3>1, <3>2
  <2>4. ClientFlags'
    BY <1>1, <2>1 DEF ClientFlags, Client!environment
  <2>5. Client!TypeOK'
    BY <1>1, <2>1, <2>2, <2>3, <2>4 DEF Client!TypeOK, ClientFlags, Client!environment, Completions, Places
  <2>6. ClearedSoon'
    BY <2>1, <2>3 DEF ClearedSoon
  <2> QED BY <2>5, <2>6 DEF ClientInv
<1>4. CASE Client!HandleConnectError
  <2>1. /\ Client!CloseSocket /\ Client!Goto("io", "check") /\ UNCHANGED <<m_isConnected, m_chkThread, Client!environment>>
        /\ sock' = "closed" /\ reads' = 0 /\ pc["io"] = "connClose"
    BY <1>4 DEF Client!HandleConnectError, Client!CloseSocket
  <2>2. pc' \in [Client!Threads -> Places] /\ pc'["io"] = "check" /\ pc'["main"] = pc["main"]
    BY <1>1, <2>1, GotoPlace DEF Places
  <2>3. completions' \in Seq(Completions) /\ (ErrorReady \/ reads > 0 => ErrorReady')
    BY <1>1, <2>1, ClosedReady
  <2>4. ClientFlags'
    BY <1>1, <2>1 DEF ClientFlags, Client!environment
  <2>5. Client!TypeOK'
    BY <1>1, <2>1, <2>2, <2>3, <2>4 DEF Client!TypeOK, ClientFlags, Client!environment, Completions, Places
  <2>6. ClearedSoon'
    BY <1>1, <2>1, <2>2, <2>3 DEF ClearedSoon
  <2> QED BY <2>5, <2>6 DEF ClientInv
<1> QED BY <1>2, <1>3, <1>4

\* Whichever of the two threads closes the socket clears the flag next.
LEMMA ErrorsInv ==
  ASSUME ClientInv, NEW t \in {"io", "main"}, Client!Errors(t)
  PROVE  ClientInv'
<1>1. /\ Client!TypeOK /\ ClearedSoon /\ completions \in Seq(Completions) /\ reads \in Nat
      /\ pc \in [Client!Threads -> Places] /\ ClientFlags /\ t \in Client!Threads /\ {"main", "io"} \subseteq Client!Threads
  BY DEF ClientInv, Client!TypeOK, Completions, Places, ClientFlags, Client!Threads
<1>2. CASE Client!HandleError(t)
  <2>1. /\ Client!CloseSocket /\ Client!Goto(t, "flag") /\ UNCHANGED <<m_isConnected, m_chkThread, Client!environment>>
        /\ sock' = "closed" /\ reads' = 0 /\ pc[t] = "close"
    BY <1>2 DEF Client!HandleError, Client!CloseSocket
  <2>2. pc' \in [Client!Threads -> Places] /\ pc'[t] = "flag"
    BY <1>1, <2>1, GotoPlace DEF Places
  <2>3. completions' \in Seq(Completions)
    BY <1>1, <2>1, ClosedReady
  <2>4. ClientFlags'
    BY <1>1, <2>1 DEF ClientFlags, Client!environment
  <2>5. Client!TypeOK'
    BY <1>1, <2>1, <2>2, <2>3, <2>4 DEF Client!TypeOK, ClientFlags, Client!environment, Completions, Places
  <2>6. ClearedSoon'
    BY <2>2 DEF ClearedSoon
  <2> QED BY <2>5, <2>6 DEF ClientInv
<1>3. CASE Client!HandleRWError(t)
  <2>1. /\ Client!Goto(t, "check") /\ m_isConnected' = FALSE
        /\ UNCHANGED <<sock, reads, completions, m_chkThread, Client!environment>>
    BY <1>3 DEF Client!HandleRWError
  <2>2. pc' \in [Client!Threads -> Places]
    BY <1>1, <2>1, GotoPlace DEF Places
  <2>3. ClientFlags'
    BY <1>1, <2>1 DEF ClientFlags, Client!environment
  <2>4. Client!TypeOK'
    BY <1>1, <2>1, <2>2, <2>3 DEF Client!TypeOK, ClientFlags, Client!environment, Completions, Places
  <2>5. ClearedSoon'
    BY <2>1 DEF ClearedSoon
  <2> QED BY <2>4, <2>5 DEF ClientInv
<1>4. CASE Client!CheckConnect(t)
  <2>1. /\ UNCHANGED <<m_isConnected, sock, reads, completions, Client!environment>>
        /\ m_chkThread' \in BOOLEAN /\ pc[t] \in {"check", "create"}
    BY <1>1, <1>4 DEF Client!CheckConnect, ClientFlags
  <2>2. /\ pc' \in [Client!Threads -> Places]
        /\ \/ pc'["io"] = "terminated"
           \/ \A u \in {"io", "main"} : pc'[u] = pc[u] \/ pc[u] \in {"check", "create"}
    BY <1>1, <1>4 DEF Client!CheckConnect, Client!Return, Client!Goto, Places
  <2>3. ClientFlags'
    BY <1>1, <2>1 DEF ClientFlags, Client!environment
  <2>4. Client!TypeOK'
    BY <1>1, <2>1, <2>2, <2>3 DEF Client!TypeOK, ClientFlags, Client!environment, Completions, Places
  <2>5. ClearedSoon'
    BY <1>1, <2>1, <2>2 DEF ClearedSoon, ErrorReady
  <2> QED BY <2>4, <2>5 DEF ClientInv
<1> QED BY <1>2, <1>3, <1>4 DEF Client!Errors

\* Sending looks at the flag and the socket and changes neither; a connect the
\* checking thread starts may only add an error.
LEMMA OtherThreadsInv ==
  ASSUME ClientInv, Client!Started \/ Client!HandleWrite \/ Client!Send \/ Client!CheckLoop
  PROVE  ClientInv'
<1>1. /\ Client!TypeOK /\ ClearedSoon /\ completions \in Seq(Completions) /\ reads \in Nat
      /\ pc \in [Client!Threads -> Places] /\ ClientFlags /\ Client!Threads = {"main", "io", "chk"}
  BY DEF ClientInv, Client!TypeOK, Completions, Places, ClientFlags, Client!Threads
<1>2. /\ \E t \in {"main", "chk"}, l \in Places \ {"terminated"} : pc[t] # "flag" /\ Client!Goto(t, l)
      /\ UNCHANGED <<m_isConnected, reads, m_chkThread, up, outages, timely>>
      /\ lines' = lines \/ (lines < MaxSends /\ lines' = lines + 1)
      /\ \/ UNCHANGED <<sock, completions>>
         \/ sock = "closed" /\ sock' = "connecting" /\ UNCHANGED completions
         \/ completions' = Append(completions, "connectError") /\ UNCHANGED sock
  <2>1. CASE Client!Started
    BY <2>1 DEF Client!Started, Places, Client!shared, Client!environment
  <2>2. CASE Client!HandleWrite
    BY <2>2 DEF Client!HandleWrite, Places, Client!shared, Client!environment
  <2>3. CASE Client!Send
    BY <2>3 DEF Client!Send, Places, Client!shared
  <2>4. CASE Client!CheckLoop
    BY <2>4 DEF Client!CheckLoop, Client!AsyncConnect, Places, Client!shared, Client!environment
  <2> QED BY <2>1, <2>2, <2>3, <2>4
<1>3. pc' \in [Client!Threads -> Places] /\ pc'["io"] = pc["io"] /\ (pc["main"] = "flag" => pc'["main"] = "flag")
  BY <1>1, <1>2, GotoPlace
<1>4. completions' \in Seq(Completions) /\ (ErrorReady => ErrorReady')
  <2>1. CASE UNCHANGED completions
    BY <1>1, <2>1 DEF ErrorReady
  <2>2. CASE completions' = Append(completions, "connectError")
    <3>1. "connectError" \in Completions
      BY DEF Completions
    <3> QED BY <1>1, <2>2, <3>1, OneMoreReady
  <2> QED BY <1>2, <2>1, <2>2
<1>5. ClientFlags'
  BY <1>1, <1>2 DEF ClientFlags
<1>6. lines' \in 0 .. MaxSends
  BY <1>1, <1>2, ClientAssumption DEF Client!TypeOK
<1>7. Client!TypeOK'
  BY <1>1, <1>2, <1>3, <1>4, <1>5, <1>6 DEF Client!TypeOK, ClientFlags, Completions, Places
<1>8. ClearedSoon'
  BY <1>1, <1>2, <1>3, <1>4 DEF ClearedSoon, Client!TypeOK
<1> QED BY <1>7, <1>8 DEF ClientInv

\* No step of any program disturbs the client's invariant.
LEMMA ClientStep == ClientInv /\ [Next]_vars => ClientInv'
<1> SUFFICES ASSUME ClientInv, [Next]_vars PROVE ClientInv'
  OBVIOUS
<1>1. CASE UNCHANGED clientVars
  <2>1. Client!TypeOK'
    BY <1>1 DEF ClientInv, clientVars, Client!TypeOK
  <2>2. ClearedSoon'
    BY <1>1 DEF ClientInv, clientVars, ClearedSoon, ErrorReady
  <2> QED BY <2>1, <2>2 DEF ClientInv
<1>2. CASE Client!ConnectEnds \/ Client!ServerDown \/ Client!ServerUp
  BY <1>2, NetworkInv
<1>3. CASE Client!RunHandler \/ Client!HandleRead \/ Client!HandleConnectError
  BY <1>3, IoInv
<1>4. CASE Client!Errors("io") \/ Client!Errors("main")
  BY <1>4, ErrorsInv
<1>5. CASE Client!Started \/ Client!HandleWrite \/ Client!Send \/ Client!CheckLoop
  BY <1>5, OtherThreadsInv
<1>6. Client!Next \/ UNCHANGED clientVars
  BY DEF Next, ChatRoom, AsioServer, AsioClient, PelcoServer, vars
<1> QED BY <1>1, <1>2, <1>3, <1>4, <1>5, <1>6 DEF Client!Next, Client!IoThread, Client!MainThread

\* In every behaviour of the four programs.
LEMMA ClientRuns == Spec => []ClientInv
<1>1. Init => ClientInv
  BY ClientInit DEF Init
<1> QED BY <1>1, ClientStep, PTL DEF Spec

\* Whichever thread closed the socket, the flag does not stay set over it.
THEOREM FlagFollowsSocketHolds == Spec => []FlagFollowsSocket
<1>1. ClientInv => FlagFollowsSocket
  BY DEF ClientInv, Client!TypeOK, ClearedSoon, ErrorReady, FlagFollowsSocket, Client!FlagFollowsSocket
<1> QED BY <1>1, ClientRuns, PTL
-----------------------------------------------------------------------------
(* The chat room.                                                          *)

RoomProofs == INSTANCE ChatProofs WITH spoilt <- spoiltClients

\* The chat room's theorems apply.
LEMMA RoomParameters == RoomProofs!Parameters
BY ChatAssumption DEF RoomProofs!Parameters, Room!Server, RoomProofs!Server, IsFiniteSet, RoomProofs!IsFiniteSet

\* The two instances hold the same definitions under different names.
LEMMA ConstantsSame ==
  /\ Room!Server = RoomProofs!Server /\ Room!Letters = RoomProofs!Letters /\ Room!Junk = RoomProofs!Junk
  /\ Room!Users = RoomProofs!Users /\ Room!Datagrams = RoomProofs!Datagrams
BY DEF Room!Server, RoomProofs!Server, Room!Letters, RoomProofs!Letters, Room!Junk, RoomProofs!Junk,
       Room!Users, RoomProofs!Users, Room!Datagrams, RoomProofs!Datagrams,
       Room!Cardinality, RoomProofs!Cardinality

\* What is chosen of a list.
LEMMA ChosenSame ==
  ASSUME NEW list, NEW set
  PROVE  Room!Chosen(list, set) = RoomProofs!Chosen(list, set)
BY DEF Room!Chosen, Room!FoldLeft, Room!MapThenFoldSet, Room!Max,
       RoomProofs!Chosen, RoomProofs!FoldLeft, RoomProofs!MapThenFoldSet, RoomProofs!Max

\* What is found and removed by name.
LEMMA ByNameSame ==
  ASSUME NEW list, NEW name
  PROVE  /\ Room!ByName(list, name) = RoomProofs!ByName(list, name)
         /\ Room!WithoutFirst(list, name) = RoomProofs!WithoutFirst(list, name)
BY DEF Room!ByName, Room!SelectInSeq, Room!Min, Room!WithoutFirst, Room!RemoveAt,
       RoomProofs!ByName, RoomProofs!SelectInSeq, RoomProofs!Min, RoomProofs!WithoutFirst,
       RoomProofs!RemoveAt

\* What a client does with a datagram.
LEMMA ReadsSame ==
  ASSUME NEW c, NEW m
  PROVE  Room!Reads(c, m) = RoomProofs!Reads(c, m)
BY ConstantsSame, ByNameSame
   DEF Room!Reads, Room!ReadUser, Room!NextUser, Room!S2C_LOGIN_OK, Room!S2C_SOMEONE_LOGIN,
       Room!S2C_SOMEONE_LOGOUT, Room!S2C_ONLINE_USER,
       RoomProofs!Reads, RoomProofs!ReadUser, RoomProofs!NextUser, RoomProofs!S2C_LOGIN_OK,
       RoomProofs!S2C_SOMEONE_LOGIN, RoomProofs!S2C_SOMEONE_LOGOUT, RoomProofs!S2C_ONLINE_USER

\* And with all of them.
LEMMA ReadAllSame ==
  ASSUME NEW c, NEW msgs
  PROVE  Room!ReadAll(c, msgs) = RoomProofs!ReadAll(c, msgs)
BY ReadsSame
   DEF Room!ReadAll, Room!FoldLeft, Room!MapThenFoldSet, Room!Max,
       RoomProofs!ReadAll, RoomProofs!FoldLeft, RoomProofs!MapThenFoldSet, RoomProofs!Max

\* What the server has still to send.
LEMMA PendingSame ==
  ASSUME NEW c
  PROVE  Room!PendingFor(c) = RoomProofs!PendingFor(c)
BY ChosenSame, ConstantsSame DEF Room!PendingFor, RoomProofs!PendingFor

\* What it puts together.
LEMMA MessagesSame ==
  /\ \A cmd, user : Room!Message(cmd, user) = RoomProofs!Message(cmd, user)
  /\ \A n : Room!Count(n) = RoomProofs!Count(n)
  /\ \A list : Room!Infos(list) = RoomProofs!Infos(list)
  /\ \A c, msgs : Room!To(c, msgs) = RoomProofs!To(c, msgs)
  /\ \A list, name, m : Room!ToOthers(list, name, m) = RoomProofs!ToOthers(list, name, m)
BY ConstantsSame, ChosenSame
   DEF Room!Message, Room!Count, Room!Infos, Room!Info, Room!To, Room!ToOthers,
       RoomProofs!Message, RoomProofs!Count, RoomProofs!Infos, RoomProofs!Info, RoomProofs!To,
       RoomProofs!ToOthers

\* Where datagrams go, and who is there.
LEMMA SentSame ==
  /\ \A a : Room!Alive(a) <=> RoomProofs!Alive(a)
  /\ \A m, to : Room!Sent(m, to) = RoomProofs!Sent(m, to)
  /\ \A to : Room!Lost(to) = RoomProofs!Lost(to)
  /\ \A c : Room!Me(c) = RoomProofs!Me(c) /\ Room!Gone(c) = RoomProofs!Gone(c)
BY ConstantsSame
   DEF Room!Alive, Room!Room, Room!Sent, Room!Lost, Room!Me, Room!Gone,
       RoomProofs!Alive, RoomProofs!Room, RoomProofs!Sent, RoomProofs!Lost, RoomProofs!Me, RoomProofs!Gone

\* The server's steps.
LEMMA ServerSame ==
  /\ Room!ChatSrv <=> RoomProofs!ChatSrv
  /\ Room!SendReply <=> RoomProofs!SendReply
<1>1. ASSUME NEW u
      PROVE  /\ Room!DoLogin(u) <=> RoomProofs!DoLogin(u)
             /\ Room!DoLogout(u) <=> RoomProofs!DoLogout(u)
             /\ Room!DoSendList(u) <=> RoomProofs!DoSendList(u)
  BY ConstantsSame, ByNameSame, MessagesSame
     DEF Room!DoLogin, Room!DoLogout, Room!DoSendList, Room!S2C_LOGIN_OK, Room!S2C_ALREADY_LOGINED,
         Room!S2C_SOMEONE_LOGIN, Room!S2C_SOMEONE_LOGOUT, Room!S2C_ONLINE_USER,
         RoomProofs!DoLogin, RoomProofs!DoLogout, RoomProofs!DoSendList, RoomProofs!S2C_LOGIN_OK,
         RoomProofs!S2C_ALREADY_LOGINED, RoomProofs!S2C_SOMEONE_LOGIN,
         RoomProofs!S2C_SOMEONE_LOGOUT, RoomProofs!S2C_ONLINE_USER
<1>2. Room!ChatSrv <=> RoomProofs!ChatSrv
  BY <1>1, ConstantsSame
     DEF Room!ChatSrv, Room!C2S_LOGIN, Room!C2S_LOGOUT, Room!C2S_ONLINE_USER,
         RoomProofs!ChatSrv, RoomProofs!C2S_LOGIN, RoomProofs!C2S_LOGOUT, RoomProofs!C2S_ONLINE_USER
<1>3. Room!SendReply <=> RoomProofs!SendReply
  BY SentSame DEF Room!SendReply, RoomProofs!SendReply
<1> QED BY <1>2, <1>3

\* The clients' steps.
LEMMA ClientsSame ==
  ASSUME NEW c
  PROVE  /\ Room!Receive(c) <=> RoomProofs!Receive(c)
         /\ Room!User(c) <=> RoomProofs!User(c)
<1>1. Room!Receive(c) <=> RoomProofs!Receive(c)
  BY ReadsSame DEF Room!Receive, Room!serverVars, RoomProofs!Receive, RoomProofs!serverVars
<1>2. ASSUME NEW name
      PROVE  /\ Room!Login(c, name) <=> RoomProofs!Login(c, name)
             /\ Room!SendMsgTo(c, name) <=> RoomProofs!SendMsgTo(c, name)
  BY ConstantsSame, SentSame, ByNameSame, PendingSame, MessagesSame
     DEF Room!Login, Room!SendMsgTo, Room!serverVars, Room!C2S_LOGIN, Room!C2C_CHAT,
         RoomProofs!Login, RoomProofs!SendMsgTo, RoomProofs!serverVars, RoomProofs!C2S_LOGIN,
         RoomProofs!C2C_CHAT
<1>3. /\ Room!List(c) <=> RoomProofs!List(c)
      /\ Room!Exit(c) <=> RoomProofs!Exit(c)
      /\ Room!Killed(c) <=> RoomProofs!Killed(c)
  BY ConstantsSame, SentSame, MessagesSame
     DEF Room!List, Room!Exit, Room!Killed, Room!serverVars, Room!C2S_ONLINE_USER, Room!C2S_LOGOUT,
         RoomProofs!List, RoomProofs!Exit, RoomProofs!Killed, RoomProofs!serverVars,
         RoomProofs!C2S_ONLINE_USER, RoomProofs!C2S_LOGOUT
<1>4. Room!User(c) <=> RoomProofs!User(c)
  BY <1>2, <1>3 DEF Room!User, RoomProofs!User
<1> QED BY <1>1, <1>4

\* A behaviour of the four programs is one of the chat room.
LEMMA RoomRuns == Spec => RoomProofs!Spec
<1>1. Init => RoomProofs!Init
  BY ConstantsSame DEF Init, Room!Init, RoomProofs!Init
<1>2. [Next]_vars => [RoomProofs!Next]_(RoomProofs!vars)
  <2>1. Room!Next <=> RoomProofs!Next
    BY ServerSame, ClientsSame DEF Room!Next, RoomProofs!Next
  <2> QED BY <2>1 DEF Next, ChatRoom, AsioServer, AsioClient, PelcoServer, vars, chatVars, RoomProofs!vars
<1> QED BY <1>1, <1>2, PTL DEF Spec, RoomProofs!Spec

\* Clients that lost no datagram, and that no chat message reached inside a list,
\* read the list the server keeps.
THEOREM ListsAgreeHolds == Spec => []ListsAgree
<1>1. RoomProofs!Spec => []RoomProofs!ListsAgree
  BY RoomParameters, RoomProofs!ListsAgreeHolds
<1>2. RoomProofs!ListsAgree => ListsAgree
  BY SentSame, ReadAllSame, PendingSame
     DEF ListsAgree, Room!ListsAgree, Room!LoggedIn, RoomProofs!ListsAgree, RoomProofs!LoggedIn
<1> QED BY <1>1, <1>2, RoomRuns, PTL

-----------------------------------------------------------------------------
(* The types of all four.                                                  *)

\* No program that runs, and no program that does not, gives a variable a value of
\* another type: no list holds what is no user, no counter leaves its bounds.
THEOREM TypeCorrect == Spec => []TypeOK
<1>1. Spec => [](program \in Programs)
  <2>1. Init => program \in Programs
    BY DEF Init
  <2>2. program \in Programs /\ [Next]_vars => (program \in Programs)'
    BY DEF Next, ChatRoom, AsioServer, AsioClient, PelcoServer, vars
  <2> QED BY <2>1, <2>2, PTL DEF Spec
<1>2. Spec => []Room!TypeOK
  <2>1. RoomProofs!Spec => []RoomProofs!TypeOK
    BY RoomParameters, RoomProofs!TypeCorrect
  <2>2. RoomProofs!TypeOK => Room!TypeOK
    BY ConstantsSame DEF Room!TypeOK, RoomProofs!TypeOK
  <2> QED BY <2>1, <2>2, RoomRuns, PTL
<1>3. Spec => []Server!TypeOK
  <2>1. ServerInv => Server!TypeOK
    BY DEF ServerInv
  <2> QED BY <2>1, ServerRuns, PTL
<1>4. Spec => []Client!TypeOK
  <2>1. ClientInv => Client!TypeOK
    BY DEF ClientInv
  <2> QED BY <2>1, ClientRuns, PTL
<1>5. Spec => []Pelco!TypeOK
  <2>1. PelcoProofs!Spec => []PelcoProofs!TypeOK
    BY PelcoParameters, PelcoProofs!TypeCorrect
  <2>2. PelcoProofs!TypeOK => Pelco!TypeOK
    BY DEF Pelco!TypeOK, Pelco!Halves, Pelco!AllKinds, Pelco!Pairs, Pelco!Slots,
           PelcoProofs!TypeOK, PelcoProofs!Halves, PelcoProofs!AllKinds, PelcoProofs!Pairs,
           PelcoProofs!Slots, Pelco!MaxRest, PelcoProofs!MaxRest
  <2> QED BY <2>1, <2>2, PelcoRuns, PTL
<1>6. program \in Programs /\ Room!TypeOK /\ Server!TypeOK /\ Client!TypeOK /\ Pelco!TypeOK => TypeOK
  BY DEF TypeOK
<1> QED BY <1>1, <1>2, <1>3, <1>4, <1>5, <1>6, PTL
=============================================================================
