--------------------------- MODULE PrivSockProofs ---------------------------
(***************************************************************************)
(* The two processes of a session never lose step, and a transfer gets the *)
(* connection of its own request, for every number of requests.            *)
(*                                                                         *)
(* InStep speaks of the head of each stream.  What is inductive is the     *)
(* whole of both: the places of the two processes determine what is in     *)
(* flight.  The conversation has seven stages, each a relation between the *)
(* places and the streams.  A process that is dead has no place in it, and *)
(* the stream to a dead process may hold anything; hence a death never     *)
(* changes the stage.                                                      *)
(***************************************************************************)
EXTENDS PrivSock, SequenceTheorems, TLAPS

\* Each process is at one of these places, or dead.
Ftp(places) == fpc \in places \cup {"dead"}
Nobody(places) == npc \in places \cup {"dead"}

\* What is on its way to a process that is not dead.
Holds(stream, kinds) ==
  /\ Len(stream) = Len(kinds)
  /\ \A i \in 1 .. Len(kinds) : stream[i].kind = kinds[i]
ToNobody(kinds) == npc # "dead" => Holds(toNobody, kinds)
ToFtp(kinds) == fpc # "dead" => Holds(toFtp, kinds)

Listens == {"start", "getCmd"}
Ints == {"int1", "int2", "int3"}

\* Neither side has asked anything.
Rest ==
  /\ Ftp({"start", "idle", "ask1", "ask2", "ask3", "getPortFd", "getPasvFd", "transfer"})
  /\ Nobody(Listens)
  /\ ToNobody(<<>>) /\ ToFtp(<<>>)

\* get_port_fd has written w of its four messages and nobody read r of them.
Fields == <<"cmd", "port", "len", "ip">>
Wrote == <<"sendPort", "sendLen", "sendIp", "getResult">>
HasRead(r) == CASE r = 0 -> Listens [] r = 1 -> {"getPort"} [] r = 2 -> {"getLen"}
                [] r = 3 -> {"getIp"} [] OTHER -> {"client", "connect"}
Sending(w, r) ==
  /\ Ftp({Wrote[w]}) /\ Nobody(HasRead(r)) /\ ToFtp(<<>>)
  /\ npc # "dead" => /\ Len(toNobody) = w - r
                     /\ \A i \in 1 .. w - r : toNobody[i].kind = Fields[r + i]

\* A request of one message, to be read or being handled.
Waiting(kind) == CASE kind = "active" -> Ints [] kind = "listen" -> {"intPort"} [] OTHER -> {"getResult"}
Asked(kind) ==
  /\ Ftp(Waiting(kind)) /\ Nobody(Listens)
  /\ ToNobody(<<kind>>) /\ ToFtp(<<>>)
Handled(kind) ==
  /\ Ftp(Waiting(kind)) /\ Nobody({Handler(kind)})
  /\ ToNobody(<<>>) /\ ToFtp(<<>>)

\* The answer: a number, a refusal, or a result and a descriptor.
Answer(places, kind) ==
  /\ Ftp(places) /\ Nobody({"getCmd"}) /\ ToNobody(<<>>) /\ ToFtp(<<kind>>)
BeforeFd ==
  /\ Nobody({"sendFd"}) /\ ToNobody(<<>>)
  /\ \/ Ftp({"getResult"}) /\ ToFtp(<<"ok">>)
     \/ Ftp({"recvFd"}) /\ ToFtp(<<>>)
AfterSendFd ==
  /\ Nobody({"getCmd"}) /\ ToNobody(<<>>)
  /\ \/ Ftp({"getResult"}) /\ ToFtp(<<"ok", "fd">>)
     \/ Ftp({"recvFd"}) /\ ToFtp(<<"fd">>)

Stage ==
  \/ Rest
  \/ \E w \in 1 .. 4 : \E r \in 0 .. w : Sending(w, r)
  \/ \E kind \in {"active", "listen", "accept"} : Asked(kind) \/ Handled(kind)
  \/ Answer(Ints, "int") \/ Answer({"intPort"}, "int") \/ Answer({"getResult"}, "bad")
  \/ BeforeFd \/ AfterSendFd

\* Which request what is: all that is in flight is of the last one.
Reqs ==
  /\ npc # "dead" => \A i \in 1 .. Len(toNobody) : toNobody[i].req = call
  /\ fpc # "dead" => \A i \in 1 .. Len(toFtp) : toFtp[i].kind = "fd" => toFtp[i].req = call
  /\ npc \in {"getPort", "getLen", "getIp", "client", "listen"} => port = call
  /\ fd = IF npc \in {"connect", "sendFd"} THEN call ELSE 0
  /\ fpc \in {"ask2", "int2", "getPortFd"} => call < MaxCalls

\* What data_fd names: the connection of the last request once that has been
\* received, and perhaps an older one before.
Received == fpc = "transfer" \/ (fpc \in {"ask3", "int3"} /\ p_sock /\ ret = 1)
Requested == Received \/ fpc \in {"sendPort", "sendLen", "sendIp", "getResult", "recvFd", "getPasvFd"}
Connected ==
  /\ Received => data_fd = call
  /\ Requested => call # 0
  /\ fpc \in {"ask3", "int3"} /\ ~p_sock => call # 0 /\ (npc # "dead" => pasv_listen_fd # 0)
  /\ fpc = "int3" /\ ~p_sock /\ toFtp # <<>> => toFtp[1].req # 0
  /\ fpc \in Ints /\ toFtp # <<>> => toFtp[1].req \in {0, call}
  /\ fpc \in {"ask1", "int1"} => ~p_sock
  /\ fpc # "dead" /\ ret = 0 => fpc \in {"ask3", "int3"} /\ p_sock

\* Nobody has a request of this kind before it.
Before(kind) ==
  npc = Handler(kind) \/ (npc \in Listens /\ toNobody # <<>> /\ toNobody[1].kind = kind)

\* Nobody's listener is that of the last PASV, once that has been handled; what
\* the ftp process was told of it is still so.
Listener ==
  /\ pasv_listen_fd # 0 => program = "UNP" /\ npc # "dead"
  /\ pasv_listen_fd \in {0, call} \/ Before("listen")
  /\ Before("listen") => program = "UNP"
  /\ fpc = "getPortFd" => pasv_listen_fd = 0
  /\ fpc = "getPasvFd" /\ npc # "dead" => pasv_listen_fd # 0
  /\ Before("accept") => pasv_listen_fd # 0
  /\ fpc \in Ints \cup {"intPort"} /\ npc # "dead" /\ toFtp # <<>> => toFtp[1].req = pasv_listen_fd

\* A write finds nobody's end open unless nobody is dead.
Ends == npc # "dead" => "parent_fd" \in nEnds

IInv == TypeOK /\ Stage /\ Reqs /\ Connected /\ Listener /\ Ends

-----------------------------------------------------------------------------
(* The streams.                                                            *)

\* Reading takes the first message and moves the others up.
LEMMA Reading ==
  ASSUME NEW S, NEW s \in Seq(S), s # <<>>
  PROVE  /\ Tail(s) \in Seq(S) /\ Head(s) = s[1] /\ Head(s) \in S
         /\ Len(s) \in Nat \ {0} /\ Len(Tail(s)) = Len(s) - 1
         /\ \A i \in 1 .. Len(s) - 1 : Tail(s)[i] = s[i + 1]
BY HeadTailProperties, LenProperties, EmptySeq

\* Writing leaves the others in place.
LEMMA Writing ==
  ASSUME NEW S, NEW s \in Seq(S), NEW m \in S
  PROVE  /\ Append(s, m) \in Seq(S)
         /\ Len(s) \in Nat /\ Len(Append(s, m)) = Len(s) + 1
         /\ Append(s, m)[Len(s) + 1] = m
         /\ \A i \in 1 .. Len(s) : Append(s, m)[i] = s[i]
BY AppendProperties, LenProperties

LEMMA NoMessages ==
  ASSUME NEW S, NEW s \in Seq(S)
  PROVE  s = <<>> <=> Len(s) = 0
BY EmptySeq

\* What Holds says of short streams.
LEMMA Holding ==
  ASSUME NEW s, NEW k, NEW l
  PROVE  /\ Holds(s, <<>>) <=> Len(s) = 0
         /\ Holds(s, <<k>>) <=> Len(s) = 1 /\ s[1].kind = k
         /\ Holds(s, <<k, l>>) <=> Len(s) = 2 /\ s[1].kind = k /\ s[2].kind = l
<1>1. \A i \in 1 .. 1 : i = 1
  OBVIOUS
<1>2. \A i \in 1 .. 2 : i = 1 \/ i = 2
  OBVIOUS
<1> QED BY <1>1, <1>2 DEF Holds

-----------------------------------------------------------------------------
(* Deaths.                                                                 *)

LEMMA StageFtpDies ==
  ASSUME Stage, fpc' = "dead", UNCHANGED <<npc, toNobody>>
  PROVE  Stage'
<1> USE DEF Ftp, Nobody, ToNobody, ToFtp
<1>1. CASE Rest
  BY <1>1 DEF Stage, Rest
<1>2. CASE \E w \in 1 .. 4 : \E r \in 0 .. w : Sending(w, r)
  BY <1>2 DEF Stage, Sending
<1>3. CASE \E kind \in {"active", "listen", "accept"} : Asked(kind) \/ Handled(kind)
  BY <1>3 DEF Stage, Asked, Handled
<1>4. CASE Answer(Ints, "int") \/ Answer({"intPort"}, "int") \/ Answer({"getResult"}, "bad")
  BY <1>4 DEF Stage, Answer
<1>5. CASE BeforeFd \/ AfterSendFd
  BY <1>5 DEF Stage, BeforeFd, AfterSendFd
<1> QED BY <1>1, <1>2, <1>3, <1>4, <1>5 DEF Stage

LEMMA StageNobodyDies ==
  ASSUME Stage, npc' = "dead", UNCHANGED <<fpc, toFtp>>
  PROVE  Stage'
<1> USE DEF Ftp, Nobody, ToNobody, ToFtp
<1>1. CASE Rest
  BY <1>1 DEF Stage, Rest
<1>2. CASE \E w \in 1 .. 4 : \E r \in 0 .. w : Sending(w, r)
  BY <1>2 DEF Stage, Sending
<1>3. CASE \E kind \in {"active", "listen", "accept"} : Asked(kind) \/ Handled(kind)
  BY <1>3 DEF Stage, Asked, Handled
<1>4. CASE Answer(Ints, "int") \/ Answer({"intPort"}, "int") \/ Answer({"getResult"}, "bad")
  BY <1>4 DEF Stage, Answer
<1>5. CASE BeforeFd \/ AfterSendFd
  BY <1>5 DEF Stage, BeforeFd, AfterSendFd
<1> QED BY <1>1, <1>2, <1>3, <1>4, <1>5 DEF Stage

LEMMA FtpGone ==
  ASSUME IInv, FtpExits, UNCHANGED <<program, npc, nEnds, port, fd, pasv_listen_fd, toNobody>>,
         toFtp' \in Seq(Messages(AnswerKinds)), data_fd' = data_fd,
         call' = call \/ (npc = "dead" /\ call' \in 0 .. MaxCalls), p_sock' \in BOOLEAN, ret' \in {0, 1}
  PROVE  IInv'
<1>1. Stage'
  BY StageFtpDies DEF IInv, FtpExits
<1>2. TypeOK'
  BY DEF IInv, TypeOK, FtpExits
<1>3. Reqs'
  BY DEF IInv, Reqs, FtpExits
<1>4. Listener'
  BY DEF IInv, Listener, FtpExits, Before, Listens, Ints
<1>5. Connected'
  BY DEF Connected, Received, Requested, Ints, FtpExits
<1> QED BY <1>1, <1>2, <1>3, <1>4, <1>5 DEF IInv, Ends

LEMMA NobodyGone ==
  ASSUME IInv, NobodyExits, UNCHANGED <<program, fpc, fEnds, call, data_fd, ret, p_sock, port, toFtp>>,
         UNCHANGED toNobody
  PROVE  IInv'
<1>1. Stage'
  BY StageNobodyDies DEF IInv, NobodyExits
<1>2. TypeOK'
  BY MaxCallsAssumption DEF IInv, TypeOK, NobodyExits
<1>3. Reqs'
  BY DEF IInv, Reqs, NobodyExits
<1>4. Listener'
  BY DEF IInv, Listener, NobodyExits, Before, Listens, Ints, Handler
<1>5. Connected'
  BY DEF IInv, Connected, Received, Requested, Ints, NobodyExits
<1> QED BY <1>1, <1>2, <1>3, <1>4, <1>5 DEF IInv, Ends, NobodyExits
-----------------------------------------------------------------------------
(* The place of a process tells the stage.                                 *)

LEMMA FtpPlace ==
  ASSUME Stage
  PROVE  /\ fpc \in {"start", "idle", "ask1", "ask2", "ask3", "getPortFd", "getPasvFd", "transfer"}
                => Rest
         /\ \A w \in 1 .. 3 : fpc = Wrote[w] => \E r \in 0 .. w : Sending(w, r)
         /\ fpc = "getResult" /\ toFtp # <<>> => 
              Answer({"getResult"}, "bad") \/ BeforeFd \/ AfterSendFd
         /\ fpc = "recvFd" => BeforeFd \/ AfterSendFd
         /\ fpc \in Ints /\ toFtp # <<>> => Answer(Ints, "int")
         /\ fpc = "intPort" /\ toFtp # <<>> => Answer({"intPort"}, "int")
<1> USE DEF Ftp, Ints
<1>1. \A w \in 1 .. 4 : Wrote[w] \in {"sendPort", "sendLen", "sendIp", "getResult"}
  BY DEF Wrote
<1>2. CASE Rest
  BY <1>2, <1>1 DEF Rest, Wrote
<1>3. CASE \E w \in 1 .. 4 : \E r \in 0 .. w : Sending(w, r)
  <2>0. PICK w \in 1 .. 4 : \E r \in 0 .. w : Sending(w, r)
    BY <1>3
  <2>1. PICK r \in 0 .. w : Sending(w, r)
    BY <2>0
  <2>2. fpc \in {Wrote[w], "dead"} /\ (fpc # "dead" => toFtp = <<>>)
    BY <2>1 DEF Sending, ToFtp, Holds
  <2> QED BY <2>1, <2>2, <1>1 DEF Wrote
<1>4. CASE \E kind \in {"active", "listen", "accept"} : Asked(kind) \/ Handled(kind)
  BY <1>4, <1>1 DEF Asked, Handled, Waiting, ToFtp, Holds, Wrote
<1>5. CASE Answer(Ints, "int") \/ Answer({"intPort"}, "int") \/ Answer({"getResult"}, "bad")
  BY <1>5, <1>1 DEF Answer, Wrote
<1>6. CASE BeforeFd \/ AfterSendFd
  BY <1>6, <1>1 DEF BeforeFd, AfterSendFd, Wrote
<1> QED BY <1>2, <1>3, <1>4, <1>5, <1>6 DEF Stage

LEMMA NobodyPlace ==
  ASSUME Stage
  PROVE  /\ npc = "getCmd" /\ toNobody # <<>> =>
              \/ \E w \in 1 .. 4 : Sending(w, 0)
              \/ \E kind \in {"active", "listen", "accept"} : Asked(kind)
         /\ \A r \in 1 .. 3 : npc \in HasRead(r) => \E w \in r .. 4 : Sending(w, r)
         /\ npc \in {"client", "connect"} => Sending(4, 4)
         /\ npc = "sendFd" => BeforeFd
         /\ npc = "sendActive" => Handled("active")
         /\ npc = "listen" => Handled("listen")
         /\ npc = "accept" => Handled("accept")
<1> USE DEF Nobody, HasRead, Listens
<1>2. CASE Rest
  BY <1>2 DEF Rest, ToNobody, Holds
<1>3. CASE \E w \in 1 .. 4 : \E r \in 0 .. w : Sending(w, r)
  <2>0. PICK w \in 1 .. 4 : \E r \in 0 .. w : Sending(w, r)
    BY <1>3
  <2>1. PICK r \in 0 .. w : Sending(w, r)
    BY <2>0
  <2>2. npc \in HasRead(r) \cup {"dead"} /\ w \in r .. 4
    BY <2>1 DEF Sending
  <2>3. CASE r = 0
    BY <2>1, <2>2, <2>3
  <2>4. CASE r \in 1 .. 3
    BY <2>1, <2>2, <2>4
  <2>5. CASE r = 4
    <3>1. w = 4
      BY <2>2, <2>5
    <3> QED BY <2>1, <2>2, <2>5, <3>1
  <2> QED BY <2>3, <2>4, <2>5
<1>4. CASE \E kind \in {"active", "listen", "accept"} : Asked(kind) \/ Handled(kind)
  BY <1>4 DEF Asked, Handled, Handler
<1>5. CASE Answer(Ints, "int") \/ Answer({"intPort"}, "int") \/ Answer({"getResult"}, "bad")
  BY <1>5 DEF Answer, ToNobody, Holds
<1>6. CASE BeforeFd \/ AfterSendFd
  BY <1>6 DEF BeforeFd, AfterSendFd, ToNobody, Holds
<1> QED BY <1>2, <1>3, <1>4, <1>5, <1>6 DEF Stage

-----------------------------------------------------------------------------
(* Steps of the ftp process.                                               *)

LEMMA ChildContextInv ==
  ASSUME IInv, ChildContext
  PROVE  IInv'
<1> USE DEF ChildContext, nobodyVars, channels
<1>1. Rest
  BY FtpPlace DEF IInv
<1>2. Stage'
  BY <1>1 DEF Stage, Rest, Ftp, Nobody, ToNobody, ToFtp
<1>3. TypeOK' /\ Reqs' /\ Ends'
  BY DEF IInv, TypeOK, Reqs, Ends
<1>4. Listener'
  BY DEF IInv, Listener, Before, Ints
<1>5. Connected'
  BY DEF IInv, Connected, Received, Requested, Ints
<1> QED BY <1>2, <1>3, <1>4, <1>5 DEF IInv

LEMMA SendCmdInv ==
  ASSUME IInv, SendCmd
  PROVE  IInv'
<1> USE DEF SendCmd, FtpKeeps, nobodyVars
<1>1. Rest
  BY FtpPlace DEF IInv
<1>2. /\ call < MaxCalls /\ pasv_listen_fd = 0
      /\ call' = call + 1 /\ call' \in 0 .. MaxCalls
  BY MaxCallsAssumption DEF IInv, TypeOK, Reqs, Listener
<1>3. CASE "parent_fd" \in fEnds \cup nEnds
  <2> DEFINE m == [kind |-> "cmd", req |-> call + 1]
  <2>1. toNobody' = Append(toNobody, m) /\ fpc' = "sendPort" /\ UNCHANGED fEnds
    BY <1>3
  <2>2. m \in Messages(ReqKinds) /\ toNobody \in Seq(Messages(ReqKinds))
    BY <1>2 DEF Messages, ReqKinds, IInv, TypeOK
  <2> HIDE DEF m
  <2>3. npc # "dead" => Len(toNobody) = 0
    BY <1>1 DEF Rest, ToNobody, Holds
  <2>4. /\ toNobody' \in Seq(Messages(ReqKinds))
        /\ npc # "dead" => Len(toNobody') = 1 /\ toNobody'[1] = m
    BY <2>1, <2>2, <2>3, Writing
  <2>5. Sending(1, 0)'
    BY <1>1, <2>1, <2>4 DEF Rest, Sending, Ftp, Nobody, ToFtp, Wrote, HasRead, Fields, m
  <2>6. Stage'
    BY <2>5 DEF Stage
  <2>7. TypeOK'
    BY <1>2, <2>1, <2>4 DEF IInv, TypeOK
  <2>8. Reqs'
    BY <1>1, <1>2, <2>1, <2>4 DEF IInv, Reqs, Rest, Nobody, Listens, ToFtp, Holds, m
  <2>9. Listener'
    BY <1>1, <1>2, <2>1, <2>4 DEF IInv, Listener, Before, Rest, Nobody, Listens, Handler, Ints, m
  <2>10. Connected'
    BY <1>2, <2>1 DEF IInv, TypeOK, Connected, Received, Requested, Ints
  <2> QED BY <2>6, <2>7, <2>8, <2>9, <2>10 DEF IInv, Ends
<1>4. CASE "parent_fd" \notin fEnds \cup nEnds
  BY <1>2, <1>4, FtpGone DEF IInv, TypeOK, Ends
<1> QED BY <1>3, <1>4

\* A field of the request.
LEMMA SendAddressInv ==
  ASSUME IInv, SendAddress
  PROVE  IInv'
<1> USE DEF SendAddress, FtpWrites, FtpKeeps, nobodyVars
<1>1. PICK w \in 1 .. 3 : fpc = Wrote[w] /\ FtpWrites(Fields[w + 1], Wrote[w + 1])
  <2>1. CASE fpc = "sendPort"
    BY <2>1 DEF Wrote, Fields
  <2>2. CASE fpc = "sendLen"
    BY <2>2 DEF Wrote, Fields
  <2>3. CASE fpc = "sendIp"
    BY <2>3 DEF Wrote, Fields
  <2> QED BY <2>1, <2>2, <2>3
<1>2. PICK r \in 0 .. w : Sending(w, r)
  BY <1>1, FtpPlace DEF IInv
<1>3. CASE "parent_fd" \in fEnds \cup nEnds
  <2> DEFINE m == [kind |-> Fields[w + 1], req |-> call]
  <2>1. toNobody' = Append(toNobody, m) /\ fpc' = Wrote[w + 1] /\ UNCHANGED fEnds
    BY <1>1, <1>3 DEF Message
  <2>2. m \in Messages(ReqKinds) /\ toNobody \in Seq(Messages(ReqKinds)) /\ Len(toNobody) \in Nat
    BY LenProperties DEF Messages, ReqKinds, IInv, TypeOK, Fields
  <2>3. m.kind = Fields[w + 1] /\ m.req = call
    OBVIOUS
  <2> HIDE DEF m
  <2>4. /\ toNobody' \in Seq(Messages(ReqKinds))
        /\ Len(toNobody') = Len(toNobody) + 1
        /\ toNobody'[Len(toNobody) + 1] = m
        /\ \A i \in 1 .. Len(toNobody) : toNobody'[i] = toNobody[i]
    BY <2>1, <2>2, Writing
  <2>5. Sending(w + 1, r)'
    <3>1. Ftp({Wrote[w + 1]})' /\ Nobody(HasRead(r))' /\ ToFtp(<<>>)'
      BY <1>1, <1>2, <2>1 DEF Sending, Ftp, Nobody, ToFtp, HasRead, Wrote
    <3>2. ASSUME npc # "dead"
          PROVE  /\ Len(toNobody') = (w + 1) - r
                 /\ \A i \in 1 .. (w + 1) - r : toNobody'[i].kind = Fields[r + i]
      BY <1>2, <2>3, <2>4, <3>2 DEF Sending
    <3> QED BY <3>1, <3>2 DEF Sending
  <2>6. Stage'
    BY <2>5 DEF Stage
  <2>7. TypeOK'
    BY <2>1, <2>4 DEF IInv, TypeOK, Wrote
  <2>8. Reqs'
    BY <2>1, <2>3, <2>4 DEF IInv, Reqs, Wrote
  <2>9. Listener'
    <3>1. npc # "dead" => (Len(toNobody) = 0 => m.kind = Fields[r + 1])
      BY <1>2, <2>3 DEF Sending
    <3>2. ASSUME NEW kind, kind \in {"listen", "accept"}, npc # "dead" PROVE Before(kind)' <=> Before(kind)
      <4>1. m.kind # kind
        BY <2>3, <3>2 DEF Fields
      <4>2. (Len(toNobody) = 0 <=> toNobody = <<>>) /\ toNobody' # <<>>
        BY <2>2, <2>4, NoMessages
      <4> QED BY <2>2, <2>4, <4>1, <4>2 DEF Before
    <3>3. fpc' \notin Ints \cup {"intPort", "getPortFd", "getPasvFd"}
      BY <2>1 DEF Wrote, Ints
    <3>4. npc = "dead" => ~Before("accept")' /\ ~Before("listen")' /\ pasv_listen_fd = 0
      BY DEF Before, Listens, Handler, IInv, Listener
    <3> QED BY <3>2, <3>3, <3>4 DEF IInv, Listener
  <2>10. Connected'
    BY <1>1, <2>1 DEF IInv, Connected, Received, Requested, Ints, Wrote
  <2> QED BY <2>6, <2>7, <2>8, <2>9, <2>10 DEF IInv, Ends
<1>4. CASE "parent_fd" \notin fEnds \cup nEnds
  BY <1>1, <1>4, FtpGone DEF IInv, TypeOK
<1> QED BY <1>3, <1>4

\* Nobody's end and the ftp process's other variables are as they were.
LEMMA GetResultInv ==
  ASSUME IInv, GetResult
  PROVE  IInv'
<1> USE DEF GetResult, FtpKeeps, nobodyVars
<1>1. CASE /\ toFtp # <<>>
           /\ toFtp' = Tail(toFtp)
           /\ Result
           /\ UNCHANGED fEnds
  <2>1. toFtp \in Seq(Messages(AnswerKinds))
    BY DEF IInv, TypeOK
  <2>2. /\ toFtp' \in Seq(Messages(AnswerKinds)) /\ Len(toFtp) \in Nat \ {0}
        /\ Head(toFtp) = toFtp[1] /\ Len(toFtp') = Len(toFtp) - 1
        /\ \A i \in 1 .. Len(toFtp) - 1 : toFtp'[i] = toFtp[i + 1]
    BY <1>1, <2>1, Reading
  <2>3. Answer({"getResult"}, "bad") \/ BeforeFd \/ AfterSendFd
    BY <1>1, FtpPlace DEF IInv
  <2>4. fpc' \in {"recvFd", "ask3", "idle"} /\ ret' \in {0, 1}
    BY <1>1 DEF Result, AfterFd, IInv, TypeOK
  <2>5. Stage'
    <3>1. CASE Answer({"getResult"}, "bad")
      <4>0. Len(toFtp) = 1 /\ toFtp[1].kind = "bad"
        BY <1>1, <2>2, <3>1, Holding DEF Answer, ToFtp
      <4>1. Len(toFtp') = 0 /\ fpc' \in {"ask3", "idle"}
        BY <1>1, <2>2, <4>0 DEF Result, AfterFd
      <4> QED BY <3>1, <4>1 DEF Answer, Rest, Stage, Ftp, Nobody, Listens, ToNobody, ToFtp, Holds
    <3>2. CASE BeforeFd
      <4>0. Len(toFtp) = 1 /\ toFtp[1].kind = "ok"
        BY <1>1, <2>2, <3>2, Holding DEF BeforeFd, Ftp, ToFtp
      <4>1. Len(toFtp') = 0 /\ fpc' = "recvFd"
        BY <1>1, <2>2, <4>0 DEF Result
      <4> QED BY <3>2, <4>1 DEF BeforeFd, Stage, Ftp, Nobody, ToNobody, ToFtp, Holds
    <3>3. CASE AfterSendFd
      <4>1. Len(toFtp) = 2 /\ toFtp[1].kind = "ok" /\ toFtp[2].kind = "fd"
        BY <1>1, <2>2, <3>3, Holding DEF AfterSendFd, Ftp, ToFtp
      <4>2. Len(toFtp') = 1 /\ toFtp'[1].kind = "fd" /\ fpc' = "recvFd"
        BY <1>1, <2>2, <4>1 DEF Result
      <4> QED BY <3>3, <4>2 DEF AfterSendFd, Stage, Ftp, Nobody, ToNobody, ToFtp, Holds
    <3> QED BY <2>3, <3>1, <3>2, <3>3
  <2>6. TypeOK'
    BY <1>1, <2>2, <2>4 DEF IInv, TypeOK
  <2>7. Reqs'
    <3>1. \A i \in 1 .. Len(toFtp') : toFtp'[i].kind = "fd" => toFtp'[i].req = call
      <4>1. \A i \in 1 .. Len(toFtp') : i + 1 \in 1 .. Len(toFtp) /\ toFtp'[i] = toFtp[i + 1]
        BY <2>2
      <4> QED BY <4>1 DEF IInv, Reqs
    <3> QED BY <3>1, <2>4 DEF IInv, Reqs
  <2>8. Listener'
    BY <1>1, <2>4 DEF IInv, Listener, Before, Ints
  <2>9. Connected'
    BY <1>1 DEF IInv, Connected, Received, Requested, Ints, Result, AfterFd
  <2> QED BY <2>5, <2>6, <2>7, <2>8, <2>9 DEF IInv, Ends
<1>2. CASE toFtp = <<>> /\ FtpExits /\ UNCHANGED <<toFtp, ret>>
  BY <1>2, FtpGone DEF IInv, TypeOK
<1> QED BY <1>1, <1>2

LEMMA RecvFdInv ==
  ASSUME IInv, RecvFd
  PROVE  IInv'
<1> USE DEF RecvFd, FtpKeeps, nobodyVars
<1>1. toFtp \in Seq(Messages(AnswerKinds))
  BY DEF IInv, TypeOK
<1>2. CASE toFtp # <<>> /\ Head(toFtp).kind = "fd"
  <2>1. /\ data_fd' = Head(toFtp).req /\ AfterFd(1)
        /\ toFtp' = Tail(toFtp) /\ UNCHANGED fEnds
    BY <1>2
  <2>2. /\ toFtp' \in Seq(Messages(AnswerKinds)) /\ Len(toFtp) \in Nat \ {0}
        /\ Head(toFtp) = toFtp[1] /\ Len(toFtp') = Len(toFtp) - 1
    BY <1>1, <1>2, <2>1, Reading
  <2>3. AfterSendFd /\ Len(toFtp') = 0
    <3>1. BeforeFd \/ AfterSendFd
      BY FtpPlace DEF IInv
    <3> QED BY <2>2, <3>1 DEF BeforeFd, AfterSendFd, Ftp, ToFtp, Holds
  <2>4. data_fd' = call /\ fpc' \in {"ask3", "transfer"} /\ ret' = 1
    <3>1. 1 \in 1 .. Len(toFtp)
      BY <2>2
    <3>2. toFtp[1].req = call
      BY <1>2, <2>2, <3>1 DEF IInv, Reqs
    <3> QED BY <2>1, <2>2, <3>2 DEF AfterFd
  <2>5. Stage'
    BY <2>3, <2>4 DEF AfterSendFd, Rest, Stage, Ftp, Nobody, Listens, ToNobody, ToFtp, Holds
  <2>6. TypeOK'
    BY <2>1, <2>2, <2>4 DEF IInv, TypeOK
  <2>7. Reqs'
    BY <2>3, <2>4 DEF IInv, Reqs
  <2>8. Listener'
    BY <2>1, <2>4 DEF IInv, Listener, Before, Ints
  <2>9. Connected'
    BY <2>1, <2>4 DEF IInv, Connected, Received, Requested, Ints, AfterFd
  <2> QED BY <2>1, <2>5, <2>6, <2>7, <2>8, <2>9 DEF IInv, Ends
<1>3. CASE toFtp # <<>> /\ Head(toFtp).kind # "fd"
  <2>1. FtpExits /\ toFtp' = Tail(toFtp) /\ UNCHANGED <<data_fd, ret>>
    BY <1>3
  <2>2. toFtp' \in Seq(Messages(AnswerKinds))
    BY <1>1, <1>3, <2>1, Reading
  <2> QED BY <2>1, <2>2, FtpGone DEF IInv, TypeOK
<1>4. CASE toFtp = <<>>
  BY <1>4, FtpGone DEF IInv, TypeOK
<1> QED BY <1>2, <1>3, <1>4

\* The commands of the client that write nothing, and the end of the process.
LEMMA QuietInv ==
  ASSUME IInv, CloseData \/ TransferFails \/ DoPort \/ Transfer
  PROVE  IInv'
<1> USE DEF CloseData, TransferFails, DoPort, Transfer, FtpKeeps, nobodyVars, channels
<1>1. Rest
  BY FtpPlace DEF IInv
<1>2. fpc' \in {"idle", "ask1", "ask2"} /\ data_fd' \in {0, data_fd} /\ UNCHANGED <<fEnds, call, ret>>
  OBVIOUS
<1>7. p_sock' \in BOOLEAN
  BY DEF IInv, TypeOK
<1>3. Stage'
  BY <1>1, <1>2 DEF Stage, Rest, Ftp, Nobody, ToNobody, ToFtp
<1>4. TypeOK' /\ Ends'
  <2>1. 0 \in 0 .. MaxCalls
    BY MaxCallsAssumption
  <2> QED BY <1>2, <1>7, <2>1 DEF IInv, TypeOK, Ends
<1>5. Reqs'
  BY <1>2 DEF IInv, Reqs
<1>6. Listener'
  BY <1>1, <1>2 DEF IInv, Listener, Before, Ints, Rest
<1>8. Connected'
  BY <1>1 DEF IInv, Connected, Received, Requested, Ints
<1> QED BY <1>3, <1>4, <1>5, <1>6, <1>8 DEF IInv

LEMMA FtpDiesInv ==
  ASSUME IInv, FtpDies
  PROVE  IInv'
BY FtpGone DEF FtpDies, FtpKeeps, nobodyVars, channels, IInv, TypeOK

\* A request of one message; only that to listen counts as a call.
LEMMA AskedInv ==
  ASSUME IInv, Rest, fpc # "dead", NEW kind \in {"active", "listen", "accept"},
         fpc' \in Waiting(kind), call' \in 0 .. MaxCalls,
         toNobody' = Append(toNobody, [kind |-> kind, req |-> call']),
         call' = call \/ (kind = "listen" /\ fpc = "idle"),
         kind = "listen" => program = "UNP",
         kind = "accept" => fpc = "getPasvFd",
         fpc' = "int1" => fpc = "ask1", fpc' = "int2" => fpc = "ask2", fpc' = "int3" => fpc = "ask3",
         fpc' \in Ints => call' = call, ret = 0 => fpc' = "int3",
         UNCHANGED <<nobodyVars, program, fEnds, toFtp, data_fd, ret, p_sock>>
  PROVE  IInv'
<1> USE DEF nobodyVars
<1> DEFINE m == [kind |-> kind, req |-> call']
<1>1. m \in Messages(ReqKinds) /\ toNobody \in Seq(Messages(ReqKinds)) /\ toFtp \in Seq(Messages(AnswerKinds))
  BY DEF Messages, ReqKinds, IInv, TypeOK
<1>2. m.kind = kind /\ m.req = call'
  OBVIOUS
<1>3. toNobody' = Append(toNobody, m)
  OBVIOUS
<1> HIDE DEF m
<1>4. /\ npc # "dead" => npc \in Listens /\ Len(toNobody) = 0
      /\ Len(toFtp) = 0
  BY DEF Rest, Nobody, ToNobody, ToFtp, Holds
<1>5. /\ toNobody' \in Seq(Messages(ReqKinds))
      /\ npc # "dead" => Len(toNobody') = 1 /\ toNobody'[1] = m /\ toNobody' # <<>>
  BY <1>1, <1>3, <1>4, Writing, NoMessages
<1>6. Stage'
  <2>1. Asked(kind)'
    BY <1>2, <1>4, <1>5, Holding DEF Rest, Asked, Ftp, Nobody, ToNobody, ToFtp, Holds
  <2> QED BY <2>1 DEF Stage
<1>7. TypeOK'
  BY <1>5 DEF IInv, TypeOK, Waiting, Ints
<1>8. Reqs'
  BY <1>2, <1>4, <1>5 DEF IInv, Reqs, Listens, Waiting, Ints
<1>9. Listener'
  <2>1. npc # "dead" => ~Before("listen")
    BY <1>1, <1>4, NoMessages DEF Before, Handler, Listens
  <2>2. npc = "dead" => pasv_listen_fd = 0
    BY DEF IInv, Listener
  <2>3. \A k \in {"listen", "accept"} : Before(k)' <=> k = kind /\ npc # "dead"
    BY <1>2, <1>4, <1>5 DEF Before, Handler, Listens
  <2>4. pasv_listen_fd \in {0, call}
    BY <2>1, <2>2 DEF IInv, Listener
  <2>5. toFtp = <<>>
    BY <1>1, <1>4, NoMessages
  <2> QED BY <2>2, <2>3, <2>4, <2>5 DEF IInv, Listener, Waiting, Ints
<1>10. Connected'
  <2>1. toFtp = <<>>
    BY <1>1, <1>4, NoMessages
  <2> QED BY <2>1 DEF IInv, TypeOK, Connected, Received, Requested, Waiting, Ints
<1> QED BY <1>6, <1>7, <1>8, <1>9, <1>10 DEF IInv, Ends

LEMMA DoPasvInv ==
  ASSUME IInv, DoPasv
  PROVE  IInv'
<1> USE DEF DoPasv, FtpKeeps, nobodyVars
<1>1. Rest
  BY FtpPlace DEF IInv
<1>2. call' \in 0 .. MaxCalls
  BY MaxCallsAssumption DEF IInv, TypeOK
<1>3. CASE "parent_fd" \in fEnds \cup nEnds
  <2>1. ret # 0
    BY DEF IInv, Connected
  <2>2. /\ toNobody' = Append(toNobody, [kind |-> "listen", req |-> call'])
        /\ fpc' = "intPort" /\ UNCHANGED <<nobodyVars, program, fEnds, toFtp, data_fd, ret, p_sock>>
    BY <1>3
  <2>3. fpc' \in Waiting("listen") /\ fpc' \notin Ints
    BY <2>2 DEF Waiting, Ints
  <2>4. program = "UNP" /\ fpc # "dead" /\ fpc = "idle"
    OBVIOUS
  <2> QED BY <1>1, <1>2, <2>1, <2>2, <2>3, <2>4, AskedInv DEF Ints
<1>4. CASE "parent_fd" \notin fEnds \cup nEnds
  BY <1>2, <1>4, FtpGone DEF IInv, TypeOK, Ends
<1> QED BY <1>3, <1>4

LEMMA AskInv ==
  ASSUME IInv, Ask
  PROVE  IInv'
<1> USE DEF Ask, FtpWrites, FtpKeeps, nobodyVars, Message
<1>1. Rest /\ fpc # "dead" /\ call' = call /\ call' \in 0 .. MaxCalls
  BY FtpPlace DEF IInv, TypeOK
<1>2. CASE "parent_fd" \in fEnds \cup nEnds
  <2>3. (ret = 0 => fpc = "ask3") /\ UNCHANGED <<program, fEnds, toFtp, data_fd, ret, p_sock>>
    BY <1>2 DEF IInv, Connected
  <2>1. CASE fpc = "getPasvFd"
    <3>1. fpc' = "getResult" /\ toNobody' = Append(toNobody, [kind |-> "accept", req |-> call'])
      BY <1>1, <1>2, <2>1
    <3>2. fpc' \in Waiting("accept") /\ fpc' \notin Ints
      BY <3>1 DEF Waiting, Ints
    <3> QED BY <1>1, <2>1, <2>3, <3>1, <3>2, AskedInv DEF Ints
  <2>2. CASE fpc # "getPasvFd"
    <3>1. /\ toNobody' = Append(toNobody, [kind |-> "active", req |-> call'])
          /\ \/ fpc = "ask1" /\ fpc' = "int1"
             \/ fpc = "ask2" /\ fpc' = "int2"
             \/ fpc = "ask3" /\ fpc' = "int3"
      BY <1>1, <1>2, <2>2
    <3>2. fpc' \in Waiting("active")
      BY <3>1 DEF Waiting, Ints
    <3> QED BY <1>1, <2>3, <3>1, <3>2, AskedInv DEF Ints
  <2> QED BY <2>1, <2>2
<1>3. CASE "parent_fd" \notin fEnds \cup nEnds
  BY <1>1, <1>3, FtpGone DEF IInv, TypeOK
<1> QED BY <1>2, <1>3

LEMMA GetIntInv ==
  ASSUME IInv, GetInt
  PROVE  IInv'
<1> USE DEF GetInt, FtpKeeps, nobodyVars
<1>1. CASE toFtp # <<>>
  <2>1. toFtp \in Seq(Messages(AnswerKinds))
    BY DEF IInv, TypeOK
  <2>2. /\ toFtp' = Tail(toFtp) /\ Answered(Head(toFtp).req # 0)
        /\ UNCHANGED <<call, data_fd, program, npc, nEnds, port, fd, pasv_listen_fd, toNobody>>
    BY <1>1
  <2>3. /\ toFtp' \in Seq(Messages(AnswerKinds)) /\ Len(toFtp) \in Nat \ {0}
        /\ Head(toFtp) = toFtp[1] /\ Len(toFtp') = Len(toFtp) - 1
    BY <1>1, <2>1, <2>2, Reading
  <2>4. Answer(Ints, "int") \/ Answer({"intPort"}, "int")
    BY <1>1, FtpPlace DEF IInv, Ints
  <2>5. CASE FtpExits
    BY <2>2, <2>3, <2>5, FtpGone DEF Answered, IInv, TypeOK
  <2>6. CASE ~FtpExits
    <3>1. /\ fpc' \in {"idle", "ask3", "getPortFd", "getPasvFd", "transfer"} /\ UNCHANGED fEnds
          /\ p_sock' \in BOOLEAN /\ ret' \in {0, 1}
          /\ fpc' = "getPortFd" => fpc = "int2" /\ Head(toFtp).req = 0
          /\ fpc' = "getPasvFd" => fpc = "int3" /\ Head(toFtp).req # 0
      BY <2>2, <2>6 DEF Answered, IInv, TypeOK
    <3>2. npc \in {"getCmd", "dead"} /\ Len(toFtp') = 0 /\ ToNobody(<<>>)
      <4>1. Len(toFtp) = 1
        BY <2>4 DEF Answer, ToFtp, Holds, Ints
      <4> QED BY <2>3, <2>4, <4>1 DEF Answer, Nobody
    <3>3. Stage'
      BY <2>2, <3>1, <3>2 DEF Stage, Rest, Ftp, Nobody, Listens, ToNobody, ToFtp, Holds
    <3>4. TypeOK'
      BY <2>2, <2>3, <3>1 DEF IInv, TypeOK
    <3>5. Reqs'
      BY <2>2, <3>1, <3>2 DEF IInv, Reqs
    <3>6. Listener'
      <4>1. \A k \in {"listen", "accept"} : Before(k)' <=> Before(k)
        BY <2>2 DEF Before
      <4>2. npc # "dead" => Head(toFtp).req = pasv_listen_fd
        BY <1>1, <2>3 DEF IInv, Listener, Ints
      <4> QED BY <2>2, <3>1, <4>1, <4>2 DEF IInv, Listener, Ints
    <3>7. Connected'
      <4>1. Head(toFtp).req \in {0, call} \/ fpc = "intPort"
        BY <1>1, <2>3 DEF IInv, Connected, Ints
      <4>2. npc # "dead" => Head(toFtp).req = pasv_listen_fd
        BY <1>1, <2>3 DEF IInv, Listener, Ints
      <4>3. toFtp[1] = Head(toFtp) /\ (ret = 0 => fpc = "int3") /\ fpc # "dead"
        BY <2>3, <2>2 DEF IInv, Connected, Answered
      <4>4. CASE fpc' = "ask3"
        <5>1. fpc = "int1" /\ Head(toFtp).req # 0 /\ UNCHANGED <<p_sock, ret>>
          BY <2>2, <2>6, <4>4 DEF Answered
        <5>2. ~p_sock /\ ret # 0
          BY <4>3, <5>1 DEF IInv, Connected
        <5> QED BY <2>2, <4>1, <4>2, <4>4, <5>1, <5>2 DEF Connected, Received, Requested, Ints
      <4>5. CASE fpc' = "getPasvFd"
        <5>1. fpc = "int3" /\ ~p_sock /\ UNCHANGED <<p_sock, ret>>
          BY <2>2, <2>6, <4>5 DEF Answered
        <5> QED BY <2>2, <4>5, <5>1 DEF IInv, Connected, Received, Requested, Ints
      <4>6. CASE fpc' = "transfer"
        <5>1. fpc = "int3" /\ Head(toFtp).req = 0 /\ ret = 1 /\ ret' = 1
          BY <2>2, <2>6, <4>6 DEF Answered
        <5>2. p_sock
          BY <1>1, <4>3, <5>1 DEF IInv, Connected
        <5>3. Received
          BY <5>1, <5>2 DEF Received
        <5> QED BY <2>2, <4>6, <5>1, <5>3 DEF IInv, Connected, Received, Requested, Ints
      <4>7. CASE fpc' \in {"idle", "getPortFd"}
        <5>1. ret' # 0
          BY <2>2, <2>6, <4>3, <4>7 DEF Answered
        <5> QED BY <4>7, <5>1 DEF Connected, Received, Requested, Ints
      <4> QED BY <3>1, <4>4, <4>5, <4>6, <4>7
    <3> QED BY <2>2, <3>3, <3>4, <3>5, <3>6, <3>7 DEF IInv, Ends
  <2> QED BY <2>5, <2>6
<1>2. CASE toFtp = <<>>
  BY <1>2, FtpGone DEF IInv, TypeOK
<1> QED BY <1>1, <1>2

-----------------------------------------------------------------------------
(* Steps of the nobody process.                                            *)

\* Closing its copy of child_fd does not change what it reads next.
LEMMA ParentContextInv ==
  ASSUME IInv, ParentContext
  PROVE  IInv'
<1> USE DEF ParentContext, NobodyKeeps, ftpVars, channels
<1>1. CASE npc' = "getCmd" /\ nEnds' = nEnds \ {"child_fd"} /\ UNCHANGED <<fd, pasv_listen_fd>>
  <2> USE <1>1
  <2>1. Stage'
    <3> USE DEF Nobody, Listens, Ftp, ToNobody, ToFtp
    <3>1. CASE Rest
      BY <3>1 DEF Rest, Stage
    <3>2. CASE \E w \in 1 .. 4 : \E r \in 0 .. w : Sending(w, r)
      <4>0. PICK w \in 1 .. 4 : \E r \in 0 .. w : Sending(w, r)
        BY <3>2
      <4>1. PICK r \in 0 .. w : Sending(w, r)
        BY <4>0
      <4>2. r = 0
        BY <4>1 DEF Sending, HasRead
      <4>3. Sending(w, r)'
        BY <4>1, <4>2 DEF Sending, HasRead
      <4> QED BY <4>3 DEF Stage
    <3>3. CASE \E kind \in {"active", "listen", "accept"} : Asked(kind) \/ Handled(kind)
      BY <3>3 DEF Asked, Handled, Handler, Stage
    <3> QED BY <3>1, <3>2, <3>3 DEF IInv, Stage, Answer, BeforeFd, AfterSendFd
  <2>2. TypeOK' /\ Reqs' /\ Ends'
    BY DEF IInv, TypeOK, Reqs, Ends
  <2>3. Listener'
    <3>1. \A k \in {"listen", "accept"} : Before(k)' <=> Before(k)
      BY DEF Before, Handler, Listens
    <3> QED BY <3>1 DEF IInv, Listener
  <2>4. Connected'
    BY DEF IInv, Connected, Received, Requested, Ints
  <2> QED BY <2>1, <2>2, <2>3, <2>4 DEF IInv
<1>2. CASE NobodyExits
  BY <1>2, NobodyGone
<1> QED BY <1>1, <1>2

\* One more field of the request.
LEMMA FieldReadInv ==
  ASSUME IInv, NEW w \in 1 .. 4, NEW r \in 0 .. 3, Sending(w, r), r <= w,
         npc \in HasRead(r), npc # "dead", toNobody # <<>>, toNobody' = Tail(toNobody),
         npc' \in HasRead(r + 1) \ {"connect"}, port' = call,
         UNCHANGED <<ftpVars, toFtp, nEnds, fd, pasv_listen_fd>>
  PROVE  IInv'
<1> USE DEF ftpVars
<1>1. /\ toNobody' \in Seq(Messages(ReqKinds))
      /\ Len(toNobody) \in Nat \ {0} /\ Len(toNobody') = Len(toNobody) - 1
      /\ \A i \in 1 .. Len(toNobody) - 1 : toNobody'[i] = toNobody[i + 1]
  BY Reading DEF IInv, TypeOK
<1>2. Len(toNobody) = w - r /\ \A i \in 1 .. w - r : toNobody[i].kind = Fields[r + i]
  BY DEF Sending
<1>3. r + 1 \in 0 .. w
  BY <1>1, <1>2
<1>4. Sending(w, r + 1)'
  <2>1. \A i \in 1 .. w - (r + 1) : toNobody'[i].kind = Fields[r + 1 + i]
    <3> TAKE i \in 1 .. w - (r + 1)
    <3>1. i + 1 \in 1 .. w - r /\ toNobody'[i] = toNobody[i + 1]
      BY <1>1, <1>2
    <3>2. r + (i + 1) = r + 1 + i
      OBVIOUS
    <3> QED BY <1>2, <3>1, <3>2
  <2> QED BY <1>1, <1>2, <2>1 DEF Sending, Nobody, Ftp, ToFtp, HasRead
<1>5. Stage'
  BY <1>3, <1>4 DEF Stage
<1>6. npc' \in {"getPort", "getLen", "getIp", "client"}
  BY DEF HasRead
<1>7. TypeOK'
  BY <1>1, <1>6 DEF IInv, TypeOK
<1>8. Reqs'
  <2>1. \A i \in 1 .. Len(toNobody') : toNobody'[i].req = call
    <3>1. \A i \in 1 .. Len(toNobody') : i + 1 \in 1 .. Len(toNobody) /\ toNobody'[i] = toNobody[i + 1]
      BY <1>1
    <3> QED BY <3>1 DEF IInv, Reqs
  <2>2. npc \notin {"connect", "sendFd"}
    BY DEF HasRead, Listens
  <2> QED BY <1>6, <2>1, <2>2 DEF IInv, Reqs
<1>9. Listener'
  <2>1. ~Before("listen")
    <3>1. npc \in Listens => toNobody[1].kind = "cmd"
      <4>1. npc \in Listens => r = 0
        BY DEF HasRead, Listens
      <4>2. 1 \in 1 .. w - r
        BY <1>1, <1>2
      <4> QED BY <1>2, <4>1, <4>2 DEF Fields
    <3> QED BY <3>1 DEF Before, HasRead, Handler, Listens
  <2>2. ~Before("listen")' /\ ~Before("accept")'
    BY <1>6 DEF Before, Handler, Listens
  <2> QED BY <1>6, <2>1, <2>2 DEF IInv, Listener
<1>10. Connected'
  BY <1>6 DEF IInv, Connected, Received, Requested, Ints
<1> QED BY <1>5, <1>7, <1>8, <1>9, <1>10 DEF IInv, Ends

\* A request that is one message.
LEMMA RequestReadInv ==
  ASSUME IInv, NEW kind \in {"active", "listen", "accept"}, Asked(kind),
         npc = "getCmd", toNobody # <<>>, toNobody' = Tail(toNobody),
         npc' = Handler(kind), port' = call,
         UNCHANGED <<ftpVars, toFtp, nEnds, fd, pasv_listen_fd>>
  PROVE  IInv'
<1> USE DEF ftpVars
<1>1. /\ toNobody' \in Seq(Messages(ReqKinds))
      /\ Len(toNobody) \in Nat \ {0} /\ Len(toNobody') = Len(toNobody) - 1
  BY Reading DEF IInv, TypeOK
<1>2. Len(toNobody) = 1 /\ toNobody[1].kind = kind
  BY Holding DEF Asked, ToNobody
<1>3. Stage'
  <2>1. Handled(kind)'
    BY <1>1, <1>2 DEF Asked, Handled, Nobody, Ftp, ToNobody, ToFtp, Holds
  <2> QED BY <2>1 DEF Stage
<1>4. npc' \in {"sendActive", "listen", "accept"}
  BY DEF Handler
<1>5. TypeOK'
  BY <1>1, <1>4 DEF IInv, TypeOK
<1>6. Reqs'
  BY <1>1, <1>2, <1>4 DEF IInv, Reqs
<1>7. Listener'
  <2>1. \A k \in {"listen", "accept"} : Before(k)' <=> Before(k)
    BY <1>2 DEF Before, Handler, Listens
  <2> QED BY <1>4, <2>1 DEF IInv, Listener
<1>8. Connected'
  BY <1>4 DEF IInv, Connected, Received, Requested, Ints
<1> QED BY <1>3, <1>5, <1>6, <1>7, <1>8 DEF IInv, Ends

LEMMA ReadRequestInv ==
  ASSUME IInv, ReadRequest
  PROVE  IInv'
<1> USE DEF ReadRequest, NobodyReads, NobodyKeeps
<1>1. CASE toNobody = <<>>
  BY <1>1, NobodyGone DEF ftpVars
<1>2. CASE toNobody # <<>>
  <2>1. toNobody # <<>> /\ toNobody' = Tail(toNobody) /\ UNCHANGED <<nEnds, fd, pasv_listen_fd, toFtp, ftpVars>>
    BY <1>2
  <2>2. toNobody[1] = Head(toNobody) /\ Head(toNobody).req = call
    <3>1. /\ toNobody[1] = Head(toNobody) /\ Len(toNobody) \in Nat \ {0}
      BY <2>1, Reading DEF IInv, TypeOK
    <3>2. 1 \in 1 .. Len(toNobody)
      BY <3>1
    <3> QED BY <3>1, <3>2 DEF IInv, Reqs
  <2>3. CASE npc = "getCmd"
    <3>1. npc' = Handler(Head(toNobody).kind) /\ port' = call
      BY <1>2, <2>2, <2>3
    <3>2. CASE \E w \in 1 .. 4 : Sending(w, 0)
      <4>1. PICK w \in 1 .. 4 : Sending(w, 0)
        BY <3>2
      <4>2. toNobody[1].kind = "cmd"
        <5>1. 1 \in 1 .. w - 0
          OBVIOUS
        <5> QED BY <2>3, <4>1, <5>1 DEF Sending, Fields
      <4>3. npc' = "getPort"
        BY <2>2, <3>1, <4>2 DEF Handler
      <4>4. npc \in HasRead(0) /\ npc' \in HasRead(0 + 1) \ {"connect"} /\ npc # "dead"
        BY <2>3, <4>3 DEF HasRead, Listens
      <4> QED BY <2>1, <3>1, <4>1, <4>4, FieldReadInv
    <3>3. CASE \E kind \in {"active", "listen", "accept"} : Asked(kind)
      <4>1. PICK kind \in {"active", "listen", "accept"} : Asked(kind)
        BY <3>3
      <4>2. toNobody[1].kind = kind
        BY <2>3, <4>1, Holding DEF Asked, ToNobody
      <4> QED BY <2>1, <2>2, <2>3, <3>1, <4>1, <4>2, RequestReadInv
    <3> QED BY <2>1, <2>3, <3>2, <3>3, NobodyPlace DEF IInv
  <2>4. ASSUME NEW r \in 1 .. 3, npc \in HasRead(r), npc' \in HasRead(r + 1) \ {"connect"},
               npc # "dead", port' = call
        PROVE  IInv'
    <3>1. PICK w \in r .. 4 : Sending(w, r)
      BY <2>4, NobodyPlace DEF IInv
    <3> QED BY <2>1, <2>4, <3>1, FieldReadInv
  <2>5. npc \in {"getPort", "getLen", "getIp"} => port = call
    BY DEF IInv, Reqs
  <2>6. CASE npc = "getPort"
    <3>1. npc' = "getLen" /\ port' = call
      BY <1>2, <2>2, <2>6
    <3> QED BY <2>4, <2>6, <3>1 DEF HasRead
  <2>7. CASE npc = "getLen"
    <3>1. npc' = "getIp" /\ port' = call
      BY <1>2, <2>5, <2>7
    <3> QED BY <2>4, <2>7, <3>1 DEF HasRead
  <2>8. CASE npc = "getIp"
    <3>1. npc' = "client" /\ port' = call
      BY <1>2, <2>5, <2>8
    <3> QED BY <2>4, <2>8, <3>1 DEF HasRead
  <2> QED BY <2>3, <2>6, <2>7, <2>8
<1> QED BY <1>1, <1>2

LEMMA TcpClientInv ==
  ASSUME IInv, TcpClient
  PROVE  IInv'
<1> USE DEF TcpClient, NobodyKeeps, ftpVars, channels
<1>1. CASE npc' = "connect" /\ fd' = port /\ UNCHANGED <<nEnds, pasv_listen_fd>>
  <2>1. Sending(4, 4)'
    BY <1>1, NobodyPlace DEF IInv, Sending, Nobody, Ftp, ToFtp, HasRead
  <2>2. 4 \in 1 .. 4 /\ 4 \in 0 .. 4
    OBVIOUS
  <2>3. Stage'
    BY <2>1, <2>2 DEF Stage
  <2>4. TypeOK' /\ Reqs' /\ Ends'
    BY <1>1 DEF IInv, TypeOK, Reqs, Ends
  <2>5. Listener'
    BY <1>1 DEF IInv, Listener, Before, Handler, Listens
  <2>6. Connected'
    BY <1>1 DEF IInv, Connected, Received, Requested, Ints
  <2> QED BY <2>3, <2>4, <2>5, <2>6 DEF IInv
<1>2. CASE NobodyExits
  BY <1>2, NobodyGone
<1> QED BY <1>1, <1>2

\* An answer of one message that leaves nobody at its loop, or before the
\* descriptor.
LEMMA AnswerInv ==
  ASSUME IInv, ToFtp(<<>>), ToNobody(<<>>), npc # "dead",
         NEW kind \in AnswerKinds \ {"fd"}, NEW req \in 0 .. MaxCalls,
         toFtp' = Append(toFtp, [kind |-> kind, req |-> req]),
         pasv_listen_fd' \in {0, call}, pasv_listen_fd' # 0 => program = "UNP",
         fpc \in Ints => pasv_listen_fd' = pasv_listen_fd,
         fpc \in Ints \cup {"intPort"} => req = pasv_listen_fd',
         \/ npc' = "getCmd" /\ fd' = 0 /\ kind = "int" /\ (Ftp(Ints) \/ Ftp({"intPort"}))
         \/ npc' = "getCmd" /\ fd' = 0 /\ kind = "bad" /\ Ftp({"getResult"})
         \/ npc' = "sendFd" /\ fd' = call /\ kind = "ok" /\ Ftp({"getResult"}),
         UNCHANGED <<ftpVars, toNobody, nEnds, port>>
  PROVE  IInv'
<1> USE DEF ftpVars
<1> DEFINE m == [kind |-> kind, req |-> req]
<1>1. m \in Messages(AnswerKinds) /\ toFtp \in Seq(Messages(AnswerKinds)) /\ m.req = req /\ m.kind = kind
  BY DEF IInv, TypeOK, Messages
<1>2. toFtp' = Append(toFtp, m)
  OBVIOUS
<1> HIDE DEF m
<1>3. /\ toFtp' \in Seq(Messages(AnswerKinds))
      /\ fpc # "dead" => Len(toFtp') = 1 /\ toFtp'[1] = m
  BY <1>1, <1>2, Writing DEF ToFtp, Holds
<1>4. npc # "dead" => Len(toNobody) = 0 /\ toNobody = <<>>
  BY NoMessages DEF ToNobody, Holds, IInv, TypeOK
<1>5. Stage'
  <2>1. ToNobody(<<>>)' /\ ToFtp(<<kind>>)'
    BY <1>1, <1>3, <1>4, Holding DEF ToNobody, ToFtp
  <2> QED BY <2>1 DEF Stage, Answer, BeforeFd, Ftp, Nobody, Ints
<1>6. TypeOK'
  <2>1. 0 \in 0 .. MaxCalls
    BY MaxCallsAssumption
  <2> QED BY <1>3, <2>1 DEF IInv, TypeOK
<1>7. Reqs'
  BY <1>1, <1>3, <1>4 DEF IInv, Reqs, Ints
<1>8. Listener'
  <2>1. \A k \in {"listen", "accept"} : ~Before(k)'
    BY <1>4 DEF Before, Handler, Listens
  <2> QED BY <1>1, <1>3, <2>1 DEF IInv, Listener, Ints, Ftp
<1>9. Connected'
  BY <1>1, <1>3 DEF IInv, Connected, Received, Requested, Ints, Ftp
<1> QED BY <1>5, <1>6, <1>7, <1>8, <1>9 DEF IInv, Ends

LEMMA ConnectAndAnswerInv ==
  ASSUME IInv, ConnectAndAnswer
  PROVE  IInv'
<1> USE DEF ConnectAndAnswer, NobodyWrites, NobodyKeeps
<1>1. CASE "child_fd" \in fEnds \cup nEnds
  <2>1. Sending(4, 4) /\ fd = call /\ fd \in 0 .. MaxCalls
    BY NobodyPlace DEF IInv, Reqs, TypeOK
  <2>2. ToFtp(<<>>) /\ ToNobody(<<>>) /\ Ftp({"getResult"})
    BY <2>1 DEF Sending, ToNobody, Holds, Wrote
  <2>3. pasv_listen_fd' \in {0, call} /\ (pasv_listen_fd' # 0 => program = "UNP")
    BY <1>1 DEF IInv, Listener, Before, Handler, Listens
  <2> QED BY <1>1, <2>1, <2>2, <2>3, AnswerInv DEF AnswerKinds, Ints, Ftp
<1>2. CASE "child_fd" \notin fEnds \cup nEnds
  BY <1>2, NobodyGone DEF ftpVars
<1> QED BY <1>1, <1>2

LEMMA PasvActiveInv ==
  ASSUME IInv, PasvActive
  PROVE  IInv'
<1> USE DEF PasvActive, NobodyWrites, NobodyKeeps
<1>1. CASE "child_fd" \in fEnds \cup nEnds
  <2>1. Handled("active") /\ fd = 0 /\ pasv_listen_fd \in 0 .. MaxCalls
    BY NobodyPlace DEF IInv, Reqs, TypeOK
  <2>2. ToFtp(<<>>) /\ ToNobody(<<>>) /\ Ftp(Ints)
    BY <2>1 DEF Handled, Waiting
  <2>3. pasv_listen_fd' \in {0, call} /\ (pasv_listen_fd' # 0 => program = "UNP")
    BY <1>1 DEF IInv, Listener, Before, Handler, Listens
  <2> QED BY <1>1, <2>1, <2>2, <2>3, AnswerInv DEF AnswerKinds
<1>2. CASE "child_fd" \notin fEnds \cup nEnds
  BY <1>2, NobodyGone DEF ftpVars
<1> QED BY <1>1, <1>2

LEMMA PasvListenInv ==
  ASSUME IInv, PasvListen
  PROVE  IInv'
<1> USE DEF PasvListen, NobodyWrites, NobodyKeeps
<1>1. CASE NobodyWrites("int", port, "getCmd", fd, port) /\ "child_fd" \in fEnds \cup nEnds
  <2>1. Handled("listen") /\ fd = 0 /\ port = call /\ port \in 0 .. MaxCalls
    BY NobodyPlace DEF IInv, Reqs, TypeOK
  <2>2. ToFtp(<<>>) /\ ToNobody(<<>>) /\ Ftp({"intPort"})
    BY <2>1 DEF Handled, Waiting
  <2>3. program = "UNP"
    BY DEF IInv, Listener, Before, Handler
  <2> QED BY <1>1, <2>1, <2>2, <2>3, AnswerInv DEF AnswerKinds, Ints, Ftp
<1>2. CASE NobodyExits /\ UNCHANGED toFtp
  BY <1>2, NobodyGone DEF ftpVars
<1> QED BY <1>1, <1>2

\* The accepted connection is the listener's, and the listener is gone.
LEMMA PasvAcceptInv ==
  ASSUME IInv, PasvAccept
  PROVE  IInv'
<1> USE DEF PasvAccept, NobodyWrites, NobodyKeeps
<1>1. CASE "child_fd" \in fEnds \cup nEnds
  <2>1. Handled("accept") /\ fd = 0 /\ pasv_listen_fd = call /\ pasv_listen_fd \in 0 .. MaxCalls
    BY NobodyPlace DEF IInv, Reqs, TypeOK, Listener, Before, Handler, Listens
  <2>2. ToFtp(<<>>) /\ ToNobody(<<>>) /\ Ftp({"getResult"})
    BY <2>1 DEF Handled, Waiting
  <2>3. 0 \in 0 .. MaxCalls
    BY MaxCallsAssumption
  <2> QED BY <1>1, <2>1, <2>2, <2>3, AnswerInv DEF AnswerKinds, Ints, Ftp
<1>2. CASE "child_fd" \notin fEnds \cup nEnds
  BY <1>2, NobodyGone DEF ftpVars
<1> QED BY <1>1, <1>2

\* The descriptor follows the result, whether or not that has been read.
LEMMA SendFdInv ==
  ASSUME IInv, SendFd
  PROVE  IInv'
<1> USE DEF SendFd, NobodyWrites, NobodyKeeps, ftpVars
<1>1. CASE "child_fd" \in fEnds \cup nEnds
  <2> DEFINE m == [kind |-> "fd", req |-> fd]
  <2>1. toFtp' = Append(toFtp, m) /\ npc' = "getCmd" /\ fd' = 0
        /\ UNCHANGED <<ftpVars, toNobody, nEnds, port, pasv_listen_fd>>
    BY <1>1
  <2>2. m \in Messages(AnswerKinds) /\ toFtp \in Seq(Messages(AnswerKinds)) /\ m.kind = "fd" /\ m.req = call
    BY DEF IInv, TypeOK, Messages, AnswerKinds, Reqs
  <2> HIDE DEF m
  <2>3. /\ toFtp' \in Seq(Messages(AnswerKinds))
        /\ Len(toFtp) \in Nat /\ Len(toFtp') = Len(toFtp) + 1 /\ toFtp'[Len(toFtp) + 1] = m
        /\ \A i \in 1 .. Len(toFtp) : toFtp'[i] = toFtp[i]
    BY <2>1, <2>2, Writing
  <2>4. BeforeFd
    BY NobodyPlace DEF IInv
  <2>5. Len(toNobody) = 0 /\ toNobody = <<>>
    BY <2>4, NoMessages DEF BeforeFd, ToNobody, Holds, IInv, TypeOK
  <2>6. AfterSendFd'
    <3>1. CASE Ftp({"getResult"}) /\ ToFtp(<<"ok">>)
      <4>1. fpc # "dead" => Len(toFtp) = 1 /\ toFtp[1].kind = "ok"
        BY <3>1, Holding DEF ToFtp
      <4>2. fpc # "dead" => Len(toFtp') = 2 /\ toFtp'[1].kind = "ok" /\ toFtp'[2].kind = "fd"
        <5>1. Len(toFtp) = 1 => 1 \in 1 .. Len(toFtp) /\ Len(toFtp) + 1 = 2
          OBVIOUS
        <5> QED BY <2>2, <2>3, <4>1, <5>1
      <4>3. ToFtp(<<"ok", "fd">>)'
        BY <2>1, <4>2, Holding DEF ToFtp
      <4> QED BY <2>1, <2>5, <3>1, <4>3 DEF AfterSendFd, Ftp, Nobody, ToNobody, Holds
    <3>2. CASE Ftp({"recvFd"}) /\ ToFtp(<<>>)
      <4>1. fpc # "dead" => Len(toFtp') = 1 /\ toFtp'[1].kind = "fd"
        BY <2>2, <2>3, <3>2 DEF ToFtp, Holds
      <4>2. ToFtp(<<"fd">>)'
        BY <2>1, <4>1, Holding DEF ToFtp
      <4> QED BY <2>1, <2>5, <3>2, <4>2 DEF AfterSendFd, Ftp, Nobody, ToNobody, Holds
    <3> QED BY <2>4, <3>1, <3>2 DEF BeforeFd
  <2>7. Stage'
    BY <2>6 DEF Stage
  <2>8. TypeOK'
    <3>1. 0 \in 0 .. MaxCalls
      BY MaxCallsAssumption
    <3> QED BY <2>1, <2>3, <3>1 DEF IInv, TypeOK
  <2>9. Reqs'
    <3>1. fpc # "dead" => \A i \in 1 .. Len(toFtp') : toFtp'[i].kind = "fd" => toFtp'[i].req = call
      BY <2>2, <2>3 DEF IInv, Reqs
    <3> QED BY <2>1, <2>5, <3>1 DEF IInv, Reqs
  <2>10. Listener'
    <3>1. \A k \in {"listen", "accept"} : ~Before(k) /\ ~Before(k)'
      BY <2>1, <2>5 DEF Before, Handler, Listens
    <3>2. fpc \notin Ints \cup {"intPort", "getPortFd", "getPasvFd"}
      BY <2>4 DEF BeforeFd, Ftp, Ints
    <3> QED BY <2>1, <3>1, <3>2 DEF IInv, Listener
  <2>11. Connected'
    <3>1. fpc \notin Ints
      BY <2>4 DEF BeforeFd, Ftp, Ints
    <3> QED BY <2>1, <3>1 DEF IInv, Connected, Received, Requested, Ints
  <2> QED BY <2>1, <2>7, <2>8, <2>9, <2>10, <2>11 DEF IInv, Ends
<1>2. CASE "child_fd" \notin fEnds \cup nEnds
  BY <1>2, NobodyGone
<1> QED BY <1>1, <1>2

-----------------------------------------------------------------------------
(* The theorems.                                                           *)

LEMMA InitIInv == Init => IInv
<1> SUFFICES ASSUME Init PROVE IInv
  OBVIOUS
<1> USE DEF Init
<1>1. TypeOK
  <2>1. 0 \in 0 .. MaxCalls
    BY MaxCallsAssumption
  <2>2. <<>> \in Seq(Messages(ReqKinds)) /\ <<>> \in Seq(Messages(AnswerKinds))
    BY EmptySeq
  <2> QED BY <2>1, <2>2 DEF TypeOK, BothEnds
<1>2. Stage
  BY DEF Stage, Rest, Ftp, Nobody, Listens, ToNobody, ToFtp, Holds
<1>3. Reqs /\ Connected /\ Listener /\ Ends
  BY DEF Reqs, Connected, Received, Requested, Listener, Ends, BothEnds, Before, Handler, Listens, Ints
<1> QED BY <1>1, <1>2, <1>3 DEF IInv

LEMMA NextIInv == IInv /\ [Next]_vars => IInv'
<1> SUFFICES ASSUME IInv, [Next]_vars PROVE IInv'
  OBVIOUS
<1>1. CASE ChildContext \/ Command
  BY <1>1, ChildContextInv, SendCmdInv, DoPasvInv, QuietInv DEF Command
<1>2. CASE FtpCall \/ FtpDies
  BY <1>2, SendAddressInv, GetResultInv, RecvFdInv, AskInv, GetIntInv, SendCmdInv, FtpDiesInv DEF FtpCall
<1>3. CASE NobodyStep
  BY <1>3, ParentContextInv, ReadRequestInv, TcpClientInv, ConnectAndAnswerInv, SendFdInv,
     PasvActiveInv, PasvListenInv, PasvAcceptInv DEF NobodyStep
<1>4. CASE UNCHANGED vars
  <2>1. Stage'
    BY <1>4 DEF vars, ftpVars, nobodyVars, channels, IInv, Stage, Rest, Sending, Asked, Handled, Answer,
       BeforeFd, AfterSendFd, Ftp, Nobody, ToNobody, ToFtp
  <2>2. TypeOK' /\ Reqs' /\ Connected' /\ Listener' /\ Ends'
    BY <1>4 DEF vars, ftpVars, nobodyVars, channels, IInv, TypeOK, Reqs, Connected, Received,
       Requested, Listener, Before, Ends
  <2> QED BY <2>1, <2>2 DEF IInv
<1> QED BY <1>1, <1>2, <1>3, <1>4 DEF Next

\* The stage is what InStep says of the heads of the streams, and more.
LEMMA StageInStep == IInv => InStep
<1> SUFFICES ASSUME IInv PROVE InStep
  OBVIOUS
<1>1. /\ toNobody # <<>> => Head(toNobody) = toNobody[1] /\ Len(toNobody) \in Nat \ {0}
      /\ toFtp # <<>> => Head(toFtp) = toFtp[1] /\ Len(toFtp) \in Nat \ {0}
  BY Reading DEF IInv, TypeOK
<1>2. (npc # "dead" /\ toNobody # <<>>) => Head(toNobody).kind \in NobodyExpects
  <2> SUFFICES ASSUME npc # "dead", toNobody # <<>> PROVE toNobody[1].kind \in NobodyExpects
    BY <1>1
  <2>1. CASE \E w \in 1 .. 4 : \E r \in 0 .. w : Sending(w, r)
    <3>0. PICK w \in 1 .. 4 : \E r \in 0 .. w : Sending(w, r)
      BY <2>1
    <3>1. PICK r \in 0 .. w : Sending(w, r)
      BY <3>0
    <3>2. w - r # 0 /\ npc \in HasRead(r) /\ 1 \in 1 .. w - r
      BY <1>1, <3>1 DEF Sending, Nobody
    <3>3. toNobody[1].kind = Fields[r + 1] /\ r \in 0 .. 3
      BY <3>1, <3>2 DEF Sending
    <3> QED BY <3>2, <3>3 DEF Fields, HasRead, NobodyExpects, Listens
  <2>2. CASE \E kind \in {"active", "listen", "accept"} : Asked(kind)
    <3>1. PICK kind \in {"active", "listen", "accept"} : Asked(kind)
      BY <2>2
    <3>2. toNobody[1].kind = kind /\ npc \in Listens
      BY <3>1, Holding DEF Asked, ToNobody, Nobody
    <3> QED BY <3>2 DEF NobodyExpects, Listens
  <2>3. ~ToNobody(<<>>)
    BY <1>1 DEF ToNobody, Holds
  <2> QED BY <2>1, <2>2, <2>3 DEF IInv, Stage, Rest, Handled, Answer, BeforeFd, AfterSendFd
<1>3. (npc # "dead" /\ toNobody # <<>> /\ npc \in {"getPort", "getLen", "getIp"}) => Head(toNobody).req = port
  <2>1. Len(toNobody) \in Nat \ {0} => 1 \in 1 .. Len(toNobody)
    OBVIOUS
  <2> QED BY <1>1, <2>1 DEF IInv, Reqs
<1>4. (fpc # "dead" /\ toFtp # <<>>) => Head(toFtp).kind \in FtpExpects
  <2> SUFFICES ASSUME fpc # "dead", toFtp # <<>> PROVE toFtp[1].kind \in FtpExpects
    BY <1>1
  <2>1. ~ToFtp(<<>>)
    BY <1>1 DEF ToFtp, Holds
  <2>2. CASE Answer(Ints, "int") \/ Answer({"intPort"}, "int") \/ Answer({"getResult"}, "bad")
    BY <2>2, Holding DEF Answer, Ftp, ToFtp, FtpExpects, Ints
  <2>3. CASE BeforeFd \/ AfterSendFd
    BY <2>1, <2>3, Holding DEF BeforeFd, AfterSendFd, Ftp, ToFtp, FtpExpects
  <2> QED BY <2>1, <2>2, <2>3 DEF IInv, Stage, Rest, Sending, Asked, Handled
<1>5. (fpc \in {"idle", "transfer"} /\ npc # "dead") => toNobody = <<>> /\ npc \in {"start", "getCmd"}
  BY FtpPlace, NoMessages DEF IInv, TypeOK, Rest, Nobody, Listens, ToNobody, Holds
<1> QED BY <1>2, <1>3, <1>4, <1>5 DEF InStep

\* Every variable of the two processes and of the streams has its type.
THEOREM TypeCorrect == Spec => []TypeOK
<1>1. Spec => []IInv
  BY InitIInv, NextIInv, PTL DEF Spec
<1>2. IInv => TypeOK
  BY DEF IInv
<1> QED BY <1>1, <1>2, PTL

\* The two processes never lose step on their unframed streams (privsock.c,
\* privparent.c, nobody.c), wherever one of them dies.
THEOREM NeverOutOfStep == Spec => []InStep
<1>1. Spec => []IInv
  BY InitIInv, NextIInv, PTL DEF Spec
<1> QED BY <1>1, StageInStep, PTL

\* A transfer runs on the connection of its own PORT or PASV, never on one that
\* an earlier transfer left open (get_transfer_fd, upload_common, do_retr); nobody
\* is asked to accept only while it listens, and holds no connection between two
\* requests.
THEOREM FdIsOfCall == Spec => []FdIsForCall
<1>1. Spec => []IInv
  BY InitIInv, NextIInv, PTL DEF Spec
<1>2. IInv => FdIsForCall
  BY DEF IInv, Reqs, Connected, Received, Requested, Listener, Before, Handler, FdIsForCall
<1> QED BY <1>1, <1>2, PTL
=============================================================================
