-------------------------------- MODULE Chat --------------------------------
(***************************************************************************)
(* The UDP chat room: UNP/socket/chatser.cpp keeps the list of users,      *)
(* chatcli.cpp logs in, keeps a copy of the list, and sends chat messages  *)
(* to the other clients directly.                                          *)
(*                                                                         *)
(* A datagram is what recvfrom puts into the buffer: a reader takes its    *)
(* first word as a command or as a count, or all of it as a user,          *)
(* whatever the sender meant.  A datagram for a socket whose buffer is     *)
(* full, or that no process has, is lost.                                  *)
(***************************************************************************)
EXTENDS Integers, FiniteSets, SequencesExt

CONSTANTS
  Clients,     \* the client processes, one address each
  Names,       \* the names their users may type
  NoOne,       \* what a reader finds in a datagram that holds no user
  Buffer,      \* datagrams a socket's receive buffer holds
  MaxRequests  \* bound: list commands and chat messages of a behaviour

VARIABLES
  client_list, \* the server's users: name and address, in the order of their logins
  replies,     \* datagrams the server still has to send for its current request
  inbox,       \* datagrams waiting at each socket
  cli,         \* each client: where it is, its name, users still to read, its list
  requests,    \* list commands and chat messages so far (for the bound)
  spoilt       \* history: clients that lost a datagram, or got a chat inside a list

serverVars == <<client_list, replies>>
vars == <<client_list, replies, inbox, cli, requests, spoilt>>

Server == "chatser"

\* chat_public.h: the commands share their numbers with the counts of users, and
\* those of the server with those of the clients.
C2S_LOGIN == 1
C2S_LOGOUT == 2
C2S_ONLINE_USER == 3
S2C_LOGIN_OK == 1
S2C_ALREADY_LOGINED == 2
S2C_SOMEONE_LOGIN == 3
S2C_SOMEONE_LOGOUT == 4
S2C_ONLINE_USER == 5
C2C_CHAT == 6
\* Four letters of a name read as a number: no command, and more users than there are.
Letters == 7 + Cardinality(Names)

Junk == [name |-> NoOne, addr |-> NoOne]
Users == [name : Names, addr : Clients]

\* MESSAGE, the count of users, and USER_INFO
Datagrams == [kind : {"message", "count", "user"}, word : 0 .. Letters, user : Users \cup {Junk}]
Message(cmd, user) == [kind |-> "message", word |-> cmd, user |-> user]
Count(n) == [kind |-> "count", word |-> n, user |-> Junk]
Info(user) == [kind |-> "user", word |-> Letters, user |-> user]

Init ==
  /\ client_list = <<>> /\ replies = <<>>
  /\ inbox = [a \in Clients \cup {Server} |-> <<>>]
  /\ cli = [c \in Clients |-> [at |-> "name", name |-> NoOne, n |-> 0, users |-> <<>>]]
  /\ requests = 0 /\ spoilt = {}

Alive(a) == a = Server \/ cli[a].at # "gone"
Room(a) == Len(inbox[a]) < Buffer

\* sendto(sock, &m, ..., to)
Sent(m, to) == IF Alive(to) /\ Room(to) THEN [inbox EXCEPT ![to] = Append(@, m)] ELSE inbox
Lost(to) == IF to # Server /\ Alive(to) /\ ~Room(to) THEN {to} ELSE {}

\* The elements of a list that are in a set, in their order.
Chosen(list, set) == FoldLeft(LAMBDA l, x : IF x \in set THEN Append(l, x) ELSE l, <<>>, list)

ByName(list, name) == SelectInSeq(list, LAMBDA u : u.name = name)
WithoutFirst(list, name) ==
  IF ByName(list, name) = 0 THEN list ELSE RemoveAt(list, ByName(list, name))

-----------------------------------------------------------------------------
(* The client.                                                             *)

\* One of the users that the count has announced.
NextUser(c, m) ==
  [c EXCEPT !.users = Append(@, IF m.kind = "user" THEN m.user ELSE Junk),
            !.n = IF @ = Letters THEN @ ELSE @ - 1]

ReadUser_OneMore(c, m) == [NextUser(c, m) EXCEPT !.at = IF c.n = 0 THEN "main" ELSE @]

ReadUser(c, m) == [NextUser(c, m) EXCEPT !.at = IF c.n = 1 THEN "main" ELSE @]

\* What the client does with the datagram that recvfrom returns: the answer to
\* the login, the count, the users, and then the commands of the main loop.
Reads(c, m) ==
  CASE c.at = "wait" ->
         [c EXCEPT !.at = IF m.word = S2C_LOGIN_OK THEN "count" ELSE "name"]
    [] c.at = "count" ->
         [c EXCEPT !.n = m.word, !.users = <<>>, !.at = IF m.word = 0 THEN "main" ELSE "users"]
    [] c.at = "users" -> ReadUser(c, m)
    [] c.at = "main" /\ m.word = S2C_SOMEONE_LOGIN ->
         [c EXCEPT !.users = Append(@, m.user)]
    [] c.at = "main" /\ m.word = S2C_SOMEONE_LOGOUT ->
         [c EXCEPT !.users = WithoutFirst(@, m.user.name)]
    [] c.at = "main" /\ m.word = S2C_ONLINE_USER ->
         [c EXCEPT !.at = "count"]
    [] OTHER -> c

\* What it will have done once it has read them all.
ReadAll(c, msgs) == FoldLeft(Reads, c, msgs)

Receive(c) ==
  /\ cli[c].at \in {"wait", "count", "users", "main"} /\ inbox[c] # <<>>
  /\ cli' = [cli EXCEPT ![c] = Reads(@, Head(inbox[c]))]
  /\ inbox' = [inbox EXCEPT ![c] = Tail(@)]
  /\ UNCHANGED <<serverVars, requests, spoilt>>

\* The user types a name.
Login(c, name) ==
  /\ cli[c].at = "name"
  /\ cli' = [cli EXCEPT ![c].at = "wait", ![c].name = name]
  /\ inbox' = Sent(Message(C2S_LOGIN, [name |-> name, addr |-> c]), Server)
  /\ UNCHANGED <<serverVars, requests, spoilt>>

Me(c) == [name |-> cli[c].name, addr |-> c]

\* The user types "list".
List(c) ==
  /\ cli[c].at = "main" /\ requests < MaxRequests
  /\ requests' = requests + 1
  /\ inbox' = Sent(Message(C2S_ONLINE_USER, Me(c)), Server)
  /\ UNCHANGED <<serverVars, cli, spoilt>>

\* What the server has not sent yet of its current answer, for c.
PendingFor(c) == LET mine == Chosen(replies, [to : {c}, msg : Datagrams])
                 IN  [i \in 1 .. Len(mine) |-> mine[i].msg]

\* sendmsgto: a message goes to the address the client's own list has for the
\* name.  One that arrives between a count and its last user is read as a user.
SendMsgTo(c, name) ==
  /\ cli[c].at = "main" /\ requests < MaxRequests
  /\ name # cli[c].name /\ ByName(cli[c].users, name) # 0
  /\ requests' = requests + 1
  /\ LET to == cli[c].users[ByName(cli[c].users, name)].addr
     IN  /\ inbox' = Sent(Message(C2C_CHAT, Junk), to)
         /\ spoilt' = spoilt \cup Lost(to) \cup
              {d \in {to} : PendingFor(d) # <<>> /\ Head(PendingFor(d)).kind # "message"}
  /\ UNCHANGED <<serverVars, cli>>

Gone(c) == [cli EXCEPT ![c] = [at |-> "gone", name |-> NoOne, n |-> 0, users |-> <<>>]]

\* "exit", or the end of the input
Exit(c) ==
  /\ cli[c].at = "main"
  /\ cli' = Gone(c)
  /\ inbox' = [Sent(Message(C2S_LOGOUT, Me(c)), Server) EXCEPT ![c] = <<>>]
  /\ UNCHANGED <<serverVars, requests, spoilt>>

\* The process is killed: the server is not told.
Killed(c) ==
  /\ cli[c].at # "gone"
  /\ cli' = Gone(c)
  /\ inbox' = [inbox EXCEPT ![c] = <<>>]
  /\ UNCHANGED <<serverVars, requests, spoilt>>

-----------------------------------------------------------------------------
(* The server: one request at a time, one sendto a step.                   *)

To(c, msgs) == [i \in 1 .. Len(msgs) |-> [to |-> c, msg |-> msgs[i]]]
Infos(list) == [i \in 1 .. Len(list) |-> Info(list[i])]
\* A message to every user of the list but those with the name.
ToOthers_All(list, name, m) == [i \in 1 .. Len(list) |-> [to |-> list[i].addr, msg |-> m]]

ToOthers(list, name, m) ==
  LET others == Chosen(list, [name : Names \ {name}, addr : Clients])
  IN  [i \in 1 .. Len(others) |-> [to |-> others[i].addr, msg |-> m]]

DoLogin(u) ==
  IF ByName(client_list, u.name) = 0
    THEN LET list == Append(client_list, u) IN
         /\ client_list' = list
         /\ replies' = To(u.addr, <<Message(S2C_LOGIN_OK, Junk), Count(Len(list))>> \o Infos(list))
                       \o ToOthers(list, u.name, Message(S2C_SOMEONE_LOGIN, u))
    ELSE /\ replies' = To(u.addr, <<Message(S2C_ALREADY_LOGINED, Junk)>>)
         /\ UNCHANGED client_list

DoLogout(u) ==
  /\ client_list' = WithoutFirst(client_list, u.name)
  /\ replies' = ToOthers(client_list', u.name, Message(S2C_SOMEONE_LOGOUT, u))

DoSendList(u) ==
  /\ replies' = To(u.addr, <<Message(S2C_ONLINE_USER, Junk), Count(Len(client_list))>>
                           \o Infos(client_list))
  /\ UNCHANGED client_list

ChatSrv ==
  /\ replies = <<>> /\ inbox[Server] # <<>>
  /\ LET m == Head(inbox[Server]) IN
       \/ m.word = C2S_LOGIN /\ DoLogin(m.user)
       \/ m.word = C2S_LOGOUT /\ DoLogout(m.user)
       \/ m.word = C2S_ONLINE_USER /\ DoSendList(m.user)
  /\ inbox' = [inbox EXCEPT ![Server] = Tail(@)]
  /\ UNCHANGED <<cli, requests, spoilt>>

SendReply ==
  /\ replies # <<>>
  /\ replies' = Tail(replies)
  /\ LET r == Head(replies) IN inbox' = Sent(r.msg, r.to) /\ spoilt' = spoilt \cup Lost(r.to)
  /\ UNCHANGED <<client_list, cli, requests>>

-----------------------------------------------------------------------------
User(c) == \/ \E name \in Names : Login(c, name) \/ SendMsgTo(c, name)
           \/ List(c) \/ Exit(c) \/ Killed(c)

Next == ChatSrv \/ SendReply \/ \E c \in Clients : Receive(c) \/ User(c)

Spec == Init /\ [][Next]_vars

-----------------------------------------------------------------------------
(* Properties.                                                             *)

\* Type correctness of every variable.
TypeOK ==
  /\ client_list \in Seq(Users)
  /\ replies \in Seq([to : Clients, msg : Datagrams])
  /\ inbox \in [Clients \cup {Server} -> Seq(Datagrams)]
  /\ \A a \in Clients \cup {Server} : Len(inbox[a]) <= Buffer
  /\ cli \in [Clients -> [at : {"name", "wait", "count", "users", "main", "gone"},
                          name : Names \cup {NoOne}, n : 0 .. Letters,
                          users : Seq(Users \cup {Junk})]]
  /\ requests \in 0 .. MaxRequests /\ spoilt \subseteq Clients

LoggedIn == {client_list[i].addr : i \in 1 .. Len(client_list)}

\* A client that lost no datagram, and got no chat message in the middle of a
\* list, has the server's list once it has read what was sent and is being sent
\* to it: logins and logouts of others, its own login and its list commands may
\* fall anywhere among each other.
ListsAgree ==
  \A c \in LoggedIn \ spoilt :
    Alive(c) => ReadAll(cli[c], inbox[c] \o PendingFor(c)).users = client_list
=============================================================================
