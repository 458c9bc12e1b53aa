---------------------------- MODULE ChatProofs ----------------------------
(***************************************************************************)
(* A client of the chat room that lost no datagram has the server's list   *)
(* once it has read what is on its way: for every number of clients and    *)
(* names, and every size of a socket's receive buffer.                     *)
(*                                                                         *)
(* ListsAgree is not inductive: it says nothing of a client the server has *)
(* not accepted yet, nor of the order in which its datagrams come.  The    *)
(* invariant below tells such a client, Fresh, from one the server has     *)
(* accepted, Settled.  Nobody has heard of a fresh one, so no chat message *)
(* and no news can reach it before its answer.  What a settled one has     *)
(* still to read takes it to the main loop with the server's list, and the *)
(* reply being sent to it falls where it reads it as what it is.           *)
(*                                                                         *)
(* What a client will have done is a fold of Reads over what waits, and    *)
(* what waits is a fold too, so the first half of the module says what a   *)
(* fold is: a run, one state for each prefix.  The runs of two sequences,  *)
(* one after the other, are the run of both; on that rest ReadConcat and   *)
(* MailConcat, and on those every step.                                    *)
(***************************************************************************)
EXTENDS Chat, SequenceTheorems, FiniteSetTheorems, WellFoundedInduction, TLAPS

-----------------------------------------------------------------------------
(* Induction, in the form the provers can use: on sets of numbers.         *)

\* A set of numbers that holds 0, and n + 1 with n, holds them all.
LEMMA SetInduction ==
  ASSUME NEW T, 0 \in T, \A n \in Nat : n \in T => n + 1 \in T
  PROVE  Nat \subseteq T
<1> SUFFICES ASSUME Nat \ T # {} PROVE FALSE
  OBVIOUS
<1>1. PICK n \in Nat \ T : \A m \in Nat \ T : ~ (<<m, n>> \in OpToRel(<, Nat))
  BY NatLessThanWellFounded, WFMin
<1>2. n # 0 /\ n - 1 \in Nat /\ n - 1 < n
  OBVIOUS
<1>3. <<n - 1, n>> \in OpToRel(<, Nat)
  BY <1>2 DEF OpToRel
<1>4. n - 1 \in T
  BY <1>1, <1>2, <1>3
<1>5. (n - 1) + 1 \in T
  BY <1>2, <1>4
<1> QED BY <1>2, <1>5

\* What Min chooses is there and least.
LEMMA MinIsLeast ==
  ASSUME NEW S \in SUBSET Nat, S # {}
  PROVE  Min(S) \in S /\ \A y \in S : Min(S) <= y
<1>1. PICK x \in S : \A y \in S : ~ (<<y, x>> \in OpToRel(<, Nat))
  BY NatLessThanWellFounded, WFMin
<1>2. \A y \in Nat : y < x => <<y, x>> \in OpToRel(<, Nat)
  BY DEF OpToRel
<1>3. ASSUME NEW y \in S PROVE x <= y
  <2>1. y \in Nat /\ x \in Nat /\ ~(y < x)
    BY <1>1, <1>2
  <2> QED BY <2>1
<1> QED BY <1>3 DEF Min

\* The last position of a set that holds it is its Max.
LEMMA MaxOfLast ==
  ASSUME NEW k \in Nat, NEW t \in SUBSET (1 .. k + 1), k + 1 \in t
  PROVE  Max(t) = k + 1
<1>1. \A y \in t : k + 1 >= y
  OBVIOUS
<1>2. \A x \in t : (\A y \in t : x >= y) => x = k + 1
  OBVIOUS
<1> QED BY <1>1, <1>2 DEF Max

-----------------------------------------------------------------------------
(* Folds.  F is what FoldLeft applies: F[s][x] for the state s reached and *)
(* the next element x.                                                     *)

\* The states a fold goes through.
RunOf(g, F, base, s) == g[0] = base /\ \A i \in 1 .. Len(s) : g[i] = F[g[i - 1]][s[i]]

\* Such a run exists, for every sequence.
LEMMA RunExists ==
  ASSUME NEW S, NEW T, NEW F \in [S -> [T -> S]], NEW base \in S, NEW s \in Seq(T)
  PROVE  \E g \in [0 .. Len(s) -> S] : RunOf(g, F, base, s)
<1> DEFINE Run(k, g) == g[0] = base /\ \A i \in 1 .. k : g[i] = F[g[i - 1]][s[i]]
           HasRun(k) == \E g \in [0 .. k -> S] : Run(k, g)
           K == {k \in Nat : k <= Len(s) => HasRun(k)}
<1>0. Len(s) \in Nat /\ \A i \in 1 .. Len(s) : s[i] \in T
  BY LenProperties, ElementOfSeq
<1>1. HasRun(0)
  <2>1. [i \in 0 .. 0 |-> base] \in [0 .. 0 -> S] /\ Run(0, [i \in 0 .. 0 |-> base])
    OBVIOUS
  <2> QED BY <2>1
<1>2. ASSUME NEW k \in Nat, k + 1 <= Len(s), HasRun(k) PROVE HasRun(k + 1)
  <2>1. PICK g \in [0 .. k -> S] : Run(k, g)
    BY <1>2
  <2> DEFINE h == [i \in 0 .. k + 1 |-> IF i = k + 1 THEN F[g[k]][s[k + 1]] ELSE g[i]]
  <2>2. s[k + 1] \in T /\ g[k] \in S
    BY <1>0, <1>2
  <2>3. F[g[k]][s[k + 1]] \in S
    BY <2>2
  <2>4. h \in [0 .. k + 1 -> S]
    BY <2>3
  <2>5. h[0] = base
    BY <2>1
  <2>6. ASSUME NEW i \in 1 .. k + 1 PROVE h[i] = F[h[i - 1]][s[i]]
    <3>1. CASE i = k + 1
      <4>1. i - 1 = k /\ h[i] = F[g[k]][s[k + 1]] /\ h[k] = g[k]
        BY <3>1
      <4> QED BY <3>1, <4>1
    <3>2. CASE i # k + 1
      <4>1. i \in 1 .. k /\ i - 1 \in 0 .. k /\ h[i] = g[i] /\ h[i - 1] = g[i - 1]
        BY <3>2
      <4> QED BY <2>1, <4>1
    <3> QED BY <3>1, <3>2
  <2> HIDE DEF h
  <2> QED BY <2>4, <2>5, <2>6
<1>3. Nat \subseteq K
  <2> HIDE DEF HasRun
  <2>1. 0 \in K /\ \A k \in Nat : k \in K => k + 1 \in K
    BY <1>0, <1>1, <1>2
  <2> HIDE DEF K
  <2> QED BY <2>1, SetInduction
<1>4. HasRun(Len(s))
  <2> HIDE DEF HasRun
  <2> QED BY <1>0, <1>3
<1> QED BY <1>4 DEF RunOf

\* The function FoldLeft is defined by, on every set of positions.
IterOf(it, F, base, s) ==
  \A t \in SUBSET (1 .. Len(s)) : it[t] = IF t = {} THEN base ELSE F[it[t \ {Max(t)}]][s[Max(t)]]

\* Such a function exists too: CHOOSE has one to choose.
LEMMA IterExists ==
  ASSUME NEW S, NEW T, NEW F \in [S -> [T -> S]], NEW base \in S, NEW s \in Seq(T)
  PROVE  \E it \in [SUBSET (1 .. Len(s)) -> S] : IterOf(it, F, base, s)
<1> DEFINE Iter(k, it) == \A t \in SUBSET (1 .. k) :
             it[t] = IF t = {} THEN base ELSE F[it[t \ {Max(t)}]][s[Max(t)]]
           HasIter(k) == \E it \in [SUBSET (1 .. k) -> S] : Iter(k, it)
           K == {k \in Nat : k <= Len(s) => HasIter(k)}
<1>0. Len(s) \in Nat /\ \A i \in 1 .. Len(s) : s[i] \in T
  BY LenProperties, ElementOfSeq
<1>1. HasIter(0)
  <2>1. SUBSET (1 .. 0) = {{}}
    OBVIOUS
  <2>2. [t \in SUBSET (1 .. 0) |-> base] \in [SUBSET (1 .. 0) -> S]
    OBVIOUS
  <2>3. Iter(0, [t \in SUBSET (1 .. 0) |-> base])
    BY <2>1
  <2> QED BY <2>2, <2>3
<1>2. ASSUME NEW k \in Nat, k + 1 <= Len(s), HasIter(k) PROVE HasIter(k + 1)
  <2>1. PICK it \in [SUBSET (1 .. k) -> S] : Iter(k, it)
    BY <1>2
  <2> DEFINE Next1(t) == IF k + 1 \in t THEN F[it[t \ {k + 1}]][s[k + 1]] ELSE it[t]
             jt == [t \in SUBSET (1 .. k + 1) |-> Next1(t)]
  <2>2. s[k + 1] \in T
    BY <1>0, <1>2
  <2>3. ASSUME NEW t \in SUBSET (1 .. k + 1), k + 1 \in t
        PROVE  /\ t \ {k + 1} \in SUBSET (1 .. k) /\ Max(t) = k + 1 /\ t # {}
               /\ jt[t] = F[it[t \ {k + 1}]][s[k + 1]] /\ jt[t] \in S
               /\ jt[t \ {k + 1}] = it[t \ {k + 1}]
    <3>0. ASSUME NEW y \in t \ {k + 1} PROVE y \in 1 .. k
      <4>1. y \in 1 .. k + 1 /\ y # k + 1
        OBVIOUS
      <4> QED BY <4>1
    <3>1. t \ {k + 1} \in SUBSET (1 .. k) /\ t \ {k + 1} \in SUBSET (1 .. k + 1)
      BY <3>0
    <3>2. jt[t] = F[it[t \ {k + 1}]][s[k + 1]] /\ jt[t \ {k + 1}] = it[t \ {k + 1}]
      BY <2>3, <3>1
    <3>3. it[t \ {k + 1}] \in S
      BY <3>1
    <3>4. Max(t) = k + 1
      BY <2>3, MaxOfLast
    <3> HIDE DEF jt
    <3>5. t # {} /\ jt[t] \in S
      <4> DEFINE x == it[t \ {k + 1}]
                 y == s[k + 1]
      <4>1. x \in S /\ y \in T /\ jt[t] = F[x][y]
        BY <2>2, <3>2, <3>3
      <4> HIDE DEF x, y
      <4>2. F[x] \in [T -> S]
        BY <4>1
      <4>3. F[x][y] \in S
        BY <4>1, <4>2
      <4> QED BY <2>3, <4>1, <4>3
    <3> QED BY <3>1, <3>2, <3>4, <3>5
  <2>4. ASSUME NEW t \in SUBSET (1 .. k + 1), k + 1 \notin t
        PROVE  /\ t \in SUBSET (1 .. k) /\ jt[t] = it[t] /\ jt[t] \in S
               /\ \A x : jt[t \ {x}] = it[t \ {x}]
    <3>1. ASSUME NEW y \in t PROVE y \in 1 .. k
      <4>1. y \in 1 .. k + 1 /\ y # k + 1
        BY <2>4
      <4> QED BY <4>1
    <3>2. t \in SUBSET (1 .. k) /\ \A x : t \ {x} \in SUBSET (1 .. k + 1) /\ k + 1 \notin t \ {x}
      BY <2>4, <3>1
    <3> QED BY <2>4, <3>2
  <2>5. jt \in [SUBSET (1 .. k + 1) -> S]
    <3>1. \A t \in SUBSET (1 .. k + 1) : Next1(t) \in S
      BY <2>3, <2>4
    <3> HIDE DEF Next1
    <3> QED BY <3>1
  <2> HIDE DEF jt
  <2>6. ASSUME NEW t \in SUBSET (1 .. k + 1)
        PROVE  jt[t] = IF t = {} THEN base ELSE F[jt[t \ {Max(t)}]][s[Max(t)]]
    <3>1. CASE k + 1 \in t
      BY <2>3, <3>1
    <3>2. CASE k + 1 \notin t
      <4>1. t \in SUBSET (1 .. k) /\ jt[t] = it[t] /\ jt[t \ {Max(t)}] = it[t \ {Max(t)}]
        BY <2>4, <3>2
      <4> QED BY <2>1, <4>1
    <3> QED BY <3>1, <3>2
  <2> QED BY <2>5, <2>6
<1>3. Nat \subseteq K
  <2> HIDE DEF HasIter
  <2>1. 0 \in K /\ \A k \in Nat : k \in K => k + 1 \in K
    BY <1>0, <1>1, <1>2
  <2> HIDE DEF K
  <2> QED BY <2>1, SetInduction
<1>4. HasIter(Len(s))
  <2> HIDE DEF HasIter
  <2> QED BY <1>0, <1>3
<1> QED BY <1>4 DEF IterOf

-----------------------------------------------------------------------------
(* Lists of users.                                                         *)

\* ByName is the first position with the name, or 0.
LEMMA ByNameIs ==
  ASSUME NEW R, NEW list \in Seq(R), NEW name
  PROVE  \/ ByName(list, name) = 0 /\ \A i \in 1 .. Len(list) : list[i].name # name
         \/ ByName(list, name) \in 1 .. Len(list) /\ list[ByName(list, name)].name = name
<1> DEFINE I == {i \in 1 .. Len(list) : list[i].name = name}
<1>1. ByName(list, name) = IF I # {} THEN Min(I) ELSE 0
  BY DEF ByName, SelectInSeq
<1>2. I \in SUBSET Nat
  BY LenProperties
<1>3. CASE I = {}
  BY <1>1, <1>3
<1>4. CASE I # {}
  <2>1. Min(I) \in I
    <3> HIDE DEF I
    <3> QED BY <1>2, <1>4, MinIsLeast
  <2>2. ByName(list, name) \in I
    BY <1>1, <1>4, <2>1
  <2> QED BY <2>2
<1> QED BY <1>3, <1>4

\* WithoutFirst drops one user, or nothing; the order stays.
LEMMA WithoutFirstIs ==
  ASSUME NEW R, NEW list \in Seq(R), NEW name
  PROVE  /\ WithoutFirst(list, name) \in Seq(R)
         /\ \/ /\ WithoutFirst(list, name) = list
               /\ \A i \in 1 .. Len(list) : list[i].name # name
            \/ \E k \in 1 .. Len(list) :
                 /\ list[k].name = name
                 /\ Len(WithoutFirst(list, name)) = Len(list) - 1
                 /\ \A i \in 1 .. Len(list) - 1 :
                      WithoutFirst(list, name)[i] = IF i < k THEN list[i] ELSE list[i + 1]
<1>1. CASE ByName(list, name) = 0
  BY <1>1, ByNameIs DEF WithoutFirst
<1>2. CASE ByName(list, name) # 0
  <2> DEFINE k == ByName(list, name)
             a == SubSeq(list, 1, k - 1)
             b == SubSeq(list, k + 1, Len(list))
  <2>1. k \in 1 .. Len(list) /\ list[k].name = name
    BY <1>2, ByNameIs
  <2>2. WithoutFirst(list, name) = a \o b
    BY <1>2 DEF WithoutFirst, RemoveAt
  <2> HIDE DEF k
  <2>3. Len(list) \in Nat /\ \A i \in 1 .. Len(list) : list[i] \in R
    BY LenProperties, ElementOfSeq
  <2>4. /\ a \in Seq(R) /\ Len(a) = k - 1
        /\ \A i \in 1 .. k - 1 : a[i] = list[i]
    <3>1. \A i \in 1 .. k - 1 : list[i] \in R
      BY <2>1, <2>3
    <3>2. /\ a \in Seq(R) /\ Len(a) = IF 1 <= k - 1 THEN (k - 1) - 1 + 1 ELSE 0
          /\ \A i \in 1 .. (k - 1) - 1 + 1 : a[i] = list[1 + i - 1]
      BY <2>1, <2>3, <3>1, SubSeqProperties
    <3>3. \A i \in 1 .. k - 1 : 1 + i - 1 = i
      BY <2>1
    <3> HIDE DEF a
    <3> QED BY <2>1, <2>3, <3>2, <3>3
  <2>5. /\ b \in Seq(R) /\ Len(b) = Len(list) - k
        /\ \A i \in 1 .. Len(list) - k : b[i] = list[k + i]
    <3>1. \A i \in k + 1 .. Len(list) : list[i] \in R
      BY <2>1, <2>3
    <3>2. /\ b \in Seq(R) /\ Len(b) = IF k + 1 <= Len(list) THEN Len(list) - (k + 1) + 1 ELSE 0
          /\ \A i \in 1 .. Len(list) - (k + 1) + 1 : b[i] = list[(k + 1) + i - 1]
      BY <2>1, <2>3, <3>1, SubSeqProperties
    <3>3. \A i \in 1 .. Len(list) - k : (k + 1) + i - 1 = k + i
      BY <2>1
    <3>4. Len(list) - (k + 1) + 1 = Len(list) - k
      BY <2>1, <2>3
    <3> HIDE DEF b
    <3>5. Len(b) = Len(list) - k
      <4>1. CASE k + 1 <= Len(list)
        BY <3>2, <3>4, <4>1
      <4>2. CASE ~(k + 1 <= Len(list))
        <5>1. Len(list) - k = 0
          BY <2>1, <2>3, <4>2
        <5> QED BY <3>2, <4>2, <5>1
      <4> QED BY <4>1, <4>2
    <3>6. \A i \in 1 .. Len(list) - k : b[i] = list[k + i]
      BY <3>2, <3>3, <3>4
    <3> QED BY <3>2, <3>5, <3>6
  <2> HIDE DEF a, b
  <2>6. /\ a \o b \in Seq(R) /\ Len(a \o b) = Len(list) - 1
        /\ \A i \in 1 .. Len(list) - 1 : (a \o b)[i] = IF i <= k - 1 THEN a[i] ELSE b[i - (k - 1)]
    <3>1. /\ a \o b \in Seq(R) /\ Len(a \o b) = Len(a) + Len(b)
          /\ \A i \in 1 .. Len(a) + Len(b) : (a \o b)[i] = IF i <= Len(a) THEN a[i] ELSE b[i - Len(a)]
      BY <2>4, <2>5, ConcatProperties
    <3>2. Len(a) + Len(b) = Len(list) - 1
      BY <2>1, <2>3, <2>4, <2>5
    <3> QED BY <2>4, <3>1, <3>2
  <2>7. ASSUME NEW i \in 1 .. Len(list) - 1
        PROVE  (a \o b)[i] = IF i < k THEN list[i] ELSE list[i + 1]
    <3>1. CASE i < k
      <4>1. i \in 1 .. k - 1 /\ i <= k - 1
        BY <2>1, <3>1
      <4> QED BY <2>4, <2>6, <3>1, <4>1
    <3>2. CASE ~(i < k)
      <4>1. i - (k - 1) \in 1 .. Len(list) - k /\ ~(i <= k - 1) /\ k + (i - (k - 1)) = i + 1
        BY <2>1, <2>3, <3>2
      <4> QED BY <2>5, <2>6, <3>2, <4>1
    <3> QED BY <3>1, <3>2
  <2> QED BY <2>1, <2>2, <2>6, <2>7
<1> QED BY <1>1, <1>2

-----------------------------------------------------------------------------
(* What a client makes of what it reads.                                   *)

\* What NetPrograms assumes of the constants.
Parameters ==
  /\ IsFiniteSet(Names) /\ NoOne \notin Names \cup Clients /\ Server \notin Clients
  /\ Buffer \in Nat \ {0} /\ MaxRequests \in Nat

\* Any record with a client's fields: Reads leaves 0 .. Letters only where Course
\* does not hold.
States == [at : {"name", "wait", "count", "users", "main", "gone"}, name : Names \cup {NoOne},
           n : Int, users : Seq(Users \cup {Junk})]

\* More users than there are names are never counted.
LEMMA LettersIs == ASSUME Parameters PROVE Letters \in Nat /\ Letters >= 7 /\ Cardinality(Names) < Letters
                                          /\ Cardinality(Names) \in Nat
BY FS_CardinalityType DEF Parameters, Letters

\* The fields of a datagram.
LEMMA DatagramIs ==
  ASSUME Parameters, NEW m \in Datagrams
  PROVE  /\ m.word \in Int /\ m.word \in 0 .. Letters /\ m.user \in Users \cup {Junk}
         /\ m.kind \in {"message", "count", "user"} /\ Junk \in Users \cup {Junk}
BY LettersIs DEF Datagrams

\* A client by its four fields.
Client(a, name, n, users) == [at |-> a, name |-> name, n |-> n, users |-> users]

\* The fields of a client's state, and the state of its fields.
LEMMA ClientIs ==
  ASSUME NEW c \in States
  PROVE  /\ c = Client(c.at, c.name, c.n, c.users)
         /\ c.at \in {"name", "wait", "count", "users", "main", "gone"}
         /\ c.name \in Names \cup {NoOne} /\ c.n \in Int /\ c.users \in Seq(Users \cup {Junk})
BY DEF States, Client

\* A record known by the sets its fields are in, each of one value.
LEMMA OneClient ==
  ASSUME NEW a, NEW name, NEW n, NEW users,
         NEW c \in [at : {a}, name : {name}, n : {n}, users : {users}]
  PROVE  c = Client(a, name, n, users) /\ c.at = a /\ c.name = name /\ c.n = n /\ c.users = users
BY DEF Client

\* The fields of what Client makes.
LEMMA ClientFields ==
  ASSUME NEW a, NEW name, NEW n, NEW users
  PROVE  /\ Client(a, name, n, users).at = a /\ Client(a, name, n, users).name = name
         /\ Client(a, name, n, users).n = n /\ Client(a, name, n, users).users = users
BY DEF Client

\* What a datagram does to a client, place by place.
LEMMA ReadsWait ==
  ASSUME NEW c \in States, NEW m, c.at = "wait"
  PROVE  Reads(c, m) = Client(IF m.word = S2C_LOGIN_OK THEN "count" ELSE "name", c.name, c.n, c.users)
<1>1. Reads(c, m) = [c EXCEPT !.at = IF m.word = S2C_LOGIN_OK THEN "count" ELSE "name"]
  BY DEF Reads
<1>2. Reads(c, m) \in [at : {IF m.word = S2C_LOGIN_OK THEN "count" ELSE "name"}, name : {c.name},
                       n : {c.n}, users : {c.users}]
  BY <1>1 DEF States
<1> QED BY <1>2, OneClient

\* The count: that many users are still to be read.
LEMMA ReadsCount ==
  ASSUME NEW c \in States, NEW m, c.at = "count"
  PROVE  Reads(c, m) = Client(IF m.word = 0 THEN "main" ELSE "users", c.name, m.word, <<>>)
<1>1. Reads(c, m) = [c EXCEPT !.n = m.word, !.users = <<>>, !.at = IF m.word = 0 THEN "main" ELSE "users"]
  BY DEF Reads
<1>2. Reads(c, m) \in [at : {IF m.word = 0 THEN "main" ELSE "users"}, name : {c.name},
                       n : {m.word}, users : {<<>>}]
  BY <1>1 DEF States
<1> QED BY <1>2, OneClient

\* One of the users that were counted; the last one ends the list.
LEMMA ReadsUsers ==
  ASSUME NEW c \in States, NEW m, c.at = "users"
  PROVE  Reads(c, m) = Client(IF c.n = 1 THEN "main" ELSE "users", c.name,
                              IF c.n = Letters THEN c.n ELSE c.n - 1,
                              Append(c.users, IF m.kind = "user" THEN m.user ELSE Junk))
<1> DEFINE d == NextUser(c, m)
           v == Append(c.users, IF m.kind = "user" THEN m.user ELSE Junk)
           k == IF c.n = Letters THEN c.n ELSE c.n - 1
<1>1. d = [c EXCEPT !.users = v, !.n = k]
  BY DEF NextUser
<1>2. Reads(c, m) = [d EXCEPT !.at = IF c.n = 1 THEN "main" ELSE @]
  BY DEF Reads, ReadUser
<1> HIDE DEF d, v, k
<1>3. d \in [at : {"users"}, name : {c.name}, n : {k}, users : {v}]
  BY <1>1 DEF States
<1>4. d.at = "users"
  BY <1>3
<1>5. Reads(c, m) \in [at : {IF c.n = 1 THEN "main" ELSE "users"}, name : {c.name}, n : {k}, users : {v}]
  BY <1>2, <1>3, <1>4
<1>6. Reads(c, m) = Client(IF c.n = 1 THEN "main" ELSE "users", c.name, k, v)
  BY <1>5, OneClient
<1> QED BY <1>6 DEF k, v

\* The main loop: one more user, one less, or a new list that begins.
LEMMA ReadsMain ==
  ASSUME NEW c \in States, NEW m, c.at = "main"
  PROVE  Reads(c, m) = Client(IF m.word = S2C_ONLINE_USER THEN "count" ELSE "main", c.name, c.n,
                              IF m.word = S2C_SOMEONE_LOGIN THEN Append(c.users, m.user)
                              ELSE IF m.word = S2C_SOMEONE_LOGOUT THEN WithoutFirst(c.users, m.user.name)
                              ELSE c.users)
<1>1. CASE m.word = S2C_SOMEONE_LOGIN
  <2> DEFINE l == Append(c.users, m.user)
  <2>1. Reads(c, m) = [c EXCEPT !.users = l]
    BY <1>1 DEF Reads, S2C_SOMEONE_LOGIN, S2C_SOMEONE_LOGOUT, S2C_ONLINE_USER
  <2>2. m.word # S2C_ONLINE_USER
    BY <1>1 DEF S2C_SOMEONE_LOGIN, S2C_ONLINE_USER
  <2> HIDE DEF l
  <2>3. Reads(c, m) \in [at : {"main"}, name : {c.name}, n : {c.n}, users : {l}]
    BY <2>1 DEF States
  <2>4. Reads(c, m) = Client("main", c.name, c.n, l)
    BY <2>3, OneClient
  <2> QED BY <1>1, <2>2, <2>4 DEF l
<1>2. CASE m.word = S2C_SOMEONE_LOGOUT
  <2>1. Reads(c, m) = [c EXCEPT !.users = WithoutFirst(@, m.user.name)]
    BY <1>2 DEF Reads, S2C_SOMEONE_LOGIN, S2C_SOMEONE_LOGOUT, S2C_ONLINE_USER
  <2>2. Reads(c, m) \in [at : {"main"}, name : {c.name}, n : {c.n}, users : {WithoutFirst(c.users, m.user.name)}]
    BY <2>1 DEF States
  <2> QED BY <1>2, <2>2, OneClient DEF S2C_SOMEONE_LOGIN, S2C_SOMEONE_LOGOUT, S2C_ONLINE_USER
<1>3. CASE m.word = S2C_ONLINE_USER
  <2>1. Reads(c, m) = [c EXCEPT !.at = "count"]
    BY <1>3 DEF Reads, S2C_SOMEONE_LOGIN, S2C_SOMEONE_LOGOUT, S2C_ONLINE_USER
  <2>2. Reads(c, m) \in [at : {"count"}, name : {c.name}, n : {c.n}, users : {c.users}]
    BY <2>1 DEF States
  <2> QED BY <1>3, <2>2, OneClient DEF S2C_SOMEONE_LOGIN, S2C_SOMEONE_LOGOUT, S2C_ONLINE_USER
<1>4. CASE m.word \notin {S2C_SOMEONE_LOGIN, S2C_SOMEONE_LOGOUT, S2C_ONLINE_USER}
  <2>1. Reads(c, m) = c
    <3>1. c.at # "wait" /\ c.at # "count" /\ c.at # "users"
      OBVIOUS
    <3> QED BY <1>4, <3>1 DEF Reads
  <2> QED BY <1>4, <2>1, ClientIs
<1> QED BY <1>1, <1>2, <1>3, <1>4

\* Who has no list yet, and asked for none, reads nothing.
LEMMA ReadsStay ==
  ASSUME NEW c, NEW m, c.at \in {"name", "gone"}
  PROVE  Reads(c, m) = c
BY DEF Reads

\* Whatever is read, it is a state of a client.
LEMMA ReadsType ==
  ASSUME Parameters, NEW c \in States, NEW m \in Datagrams
  PROVE  Reads(c, m) \in States
<1> DEFINE U == Users \cup {Junk}
           v == IF m.kind = "user" THEN m.user ELSE Junk
<1>1. m.word \in Int /\ m.user \in U /\ Junk \in U /\ Letters \in Int
  BY LettersIs, DatagramIs
<1>2. /\ c.n \in Int /\ c.users \in Seq(U) /\ c.name \in Names \cup {NoOne}
      /\ c.at \in {"name", "wait", "count", "users", "main", "gone"}
  BY ClientIs
<1>3. /\ Append(c.users, v) \in Seq(U) /\ Append(c.users, m.user) \in Seq(U)
      /\ WithoutFirst(c.users, m.user.name) \in Seq(U) /\ <<>> \in Seq(U)
  <2>1. v \in U
    BY <1>1
  <2> HIDE DEF v, U
  <2> QED BY <1>1, <1>2, <2>1, AppendProperties, WithoutFirstIs, EmptySeq
<1>4. ASSUME NEW a \in {"name", "wait", "count", "users", "main", "gone"}, NEW n \in Int, NEW users \in Seq(U)
      PROVE  Client(a, c.name, n, users) \in States
  BY <1>2 DEF Client, States
<1> HIDE DEF U
<1>5. CASE c.at = "users"
  <2>1. (IF c.n = Letters THEN c.n ELSE c.n - 1) \in Int
    BY <1>1, <1>2
  <2> DEFINE n == IF c.n = Letters THEN c.n ELSE c.n - 1
             a == IF c.n = 1 THEN "main" ELSE "users"
             l == Append(c.users, v)
  <2>2. n \in Int /\ a \in {"name", "wait", "count", "users", "main", "gone"} /\ l \in Seq(U)
    BY <1>3, <2>1
  <2>3. Reads(c, m) = Client(a, c.name, n, l)
    BY <1>5, ReadsUsers
  <2> HIDE DEF n, a, l
  <2> QED BY <1>4, <2>2, <2>3
<1>6. CASE c.at = "wait"
  BY <1>2, <1>4, <1>6, ReadsWait
<1>7. CASE c.at = "count"
  <2> DEFINE a == IF m.word = 0 THEN "main" ELSE "users"
  <2>1. a \in {"name", "wait", "count", "users", "main", "gone"} /\ m.word \in Int /\ <<>> \in Seq(U)
    BY <1>1, <1>3
  <2>2. Reads(c, m) = Client(a, c.name, m.word, <<>>)
    BY <1>7, ReadsCount
  <2> HIDE DEF a
  <2> QED BY <1>4, <2>1, <2>2
<1>8. CASE c.at = "main"
  <2> DEFINE a == IF m.word = S2C_ONLINE_USER THEN "count" ELSE "main"
             l == IF m.word = S2C_SOMEONE_LOGIN THEN Append(c.users, m.user)
                  ELSE IF m.word = S2C_SOMEONE_LOGOUT THEN WithoutFirst(c.users, m.user.name)
                  ELSE c.users
  <2>1. a \in {"name", "wait", "count", "users", "main", "gone"} /\ l \in Seq(U)
    BY <1>2, <1>3
  <2>2. Reads(c, m) = Client(a, c.name, c.n, l)
    BY <1>8, ReadsMain
  <2> HIDE DEF a, l
  <2> QED BY <1>2, <1>4, <2>1, <2>2
<1>9. CASE c.at \in {"name", "gone"}
  BY <1>9, ReadsStay
<1> QED BY <1>2, <1>5, <1>6, <1>7, <1>8, <1>9

-----------------------------------------------------------------------------
(* Folds over what is waiting.                                             *)

\* Max of positions is one of them.
LEMMA MaxIsIn ==
  ASSUME NEW k \in Nat, NEW t \in SUBSET (1 .. k), t # {}
  PROVE  Max(t) \in t
<1> DEFINE D == {k - y : y \in t}
<1>1. D \in SUBSET Nat /\ D # {}
  <2>1. ASSUME NEW y \in t PROVE y \in 1 .. k /\ k - y \in Nat
    OBVIOUS
  <2> QED BY <2>1
<1>2. PICK d \in D : \A e \in D : d <= e
  <2> HIDE DEF D
  <2> QED BY <1>1, MinIsLeast
<1>3. PICK x \in t : d = k - x
  BY <1>2
<1>4. ASSUME NEW y \in t PROVE x >= y
  <2>1. k - x <= k - y /\ x \in 1 .. k /\ y \in 1 .. k
    BY <1>2, <1>3
  <2> QED BY <2>1
<1> QED BY <1>4 DEF Max

\* ReadAll is the last state of the run of Reads over what is read.
LEMMA ReadRun ==
  ASSUME Parameters, NEW c \in States, NEW s \in Seq(Datagrams), NEW g,
         g[0] = c, \A i \in 1 .. Len(s) : g[i] = Reads(g[i - 1], s[i])
  PROVE  ReadAll(c, s) = g[Len(s)]
<1> DEFINE F == [x \in States |-> [m \in Datagrams |-> Reads(x, m)]]
           D == SUBSET (1 .. Len(s))
           Iter(f) == f = [t \in D |-> IF t = {} THEN c ELSE Reads(f[t \ {Max(t)}], s[Max(t)])]
           H == CHOOSE f : Iter(f)
<1>1. Len(s) \in Nat /\ DOMAIN s = 1 .. Len(s) /\ \A i \in 1 .. Len(s) : s[i] \in Datagrams
  BY LenProperties, ElementOfSeq
<1>2. \E f : Iter(f)
  <2>1. F \in [States -> [Datagrams -> States]]
    BY ReadsType
  <2>2. PICK it \in [D -> States] : IterOf(it, F, c, s)
    <3> HIDE DEF F
    <3> QED BY <2>1, IterExists
  <2>3. ASSUME NEW t \in D, t # {} PROVE it[t] = Reads(it[t \ {Max(t)}], s[Max(t)])
    <3>1. s[Max(t)] \in Datagrams /\ it[t \ {Max(t)}] \in States
      BY <1>1, <2>3, MaxIsIn
    <3>2. it[t] = F[it[t \ {Max(t)}]][s[Max(t)]]
      BY <2>2, <2>3 DEF IterOf
    <3> QED BY <3>1, <3>2
  <2>4. Iter(it)
    <3>1. it[{}] = c
      BY <2>2 DEF IterOf
    <3> HIDE DEF F
    <3> QED BY <2>3, <3>1
  <2> QED BY <2>4
<1>3. ReadAll(c, s) = H[1 .. Len(s)]
  BY <1>1 DEF ReadAll, FoldLeft, MapThenFoldSet
<1>4. Iter(H)
  BY <1>2
<1> HIDE DEF H
<1>5. \A t \in D : H[t] = IF t = {} THEN c ELSE Reads(H[t \ {Max(t)}], s[Max(t)])
  BY <1>4
<1> DEFINE K == {k \in Nat : k <= Len(s) => H[1 .. k] = g[k]}
<1>6. 0 \in K
  <2>1. 1 .. 0 = {} /\ {} \in D
    OBVIOUS
  <2> QED BY <1>5, <2>1
<1>7. ASSUME NEW k \in K PROVE k + 1 \in K
  <2> SUFFICES ASSUME k + 1 <= Len(s) PROVE H[1 .. k + 1] = g[k + 1]
    OBVIOUS
  <2>0. k \in Nat /\ k + 1 \in 1 .. k + 1 /\ 1 .. k + 1 \in SUBSET (1 .. k + 1)
    OBVIOUS
  <2>1. 1 .. k + 1 \in D /\ (1 .. k + 1) \ {k + 1} = 1 .. k /\ 1 .. k + 1 # {} /\ Max(1 .. k + 1) = k + 1
    <3>1. Max(1 .. k + 1) = k + 1
      BY <2>0, MaxOfLast
    <3>2. 1 .. k + 1 \in D /\ (1 .. k + 1) \ {k + 1} = 1 .. k
      BY <1>1, <2>0
    <3> QED BY <2>0, <3>1, <3>2
  <2>2. H[1 .. k + 1] = Reads(H[1 .. k], s[k + 1])
    BY <1>5, <2>1
  <2>3. H[1 .. k] = g[k] /\ k + 1 \in 1 .. Len(s) /\ (k + 1) - 1 = k
    BY <1>1
  <2> QED BY <2>2, <2>3
<1>8. Len(s) \in K
  <2> HIDE DEF K
  <2> QED BY <1>1, <1>6, <1>7, SetInduction DEF K
<1> QED BY <1>1, <1>3, <1>8

\* There is such a run, in the states of a client.
LEMMA ReadRunExists ==
  ASSUME Parameters, NEW c \in States, NEW s \in Seq(Datagrams)
  PROVE  \E g \in [0 .. Len(s) -> States] :
           /\ g[0] = c /\ ReadAll(c, s) = g[Len(s)]
           /\ \A i \in 1 .. Len(s) : g[i] = Reads(g[i - 1], s[i])
<1> DEFINE F == [x \in States |-> [m \in Datagrams |-> Reads(x, m)]]
<1>1. F \in [States -> [Datagrams -> States]]
  BY ReadsType
<1>2. PICK g \in [0 .. Len(s) -> States] : RunOf(g, F, c, s)
  <2> HIDE DEF F
  <2> QED BY <1>1, RunExists
<1>3. ASSUME NEW i \in 1 .. Len(s) PROVE g[i] = Reads(g[i - 1], s[i])
  <2>1. s[i] \in Datagrams /\ g[i - 1] \in States
    BY LenProperties, ElementOfSeq
  <2>2. g[i] = F[g[i - 1]][s[i]]
    BY <1>2 DEF RunOf
  <2> QED BY <2>1, <2>2
<1>4. g[0] = c
  BY <1>2 DEF RunOf
<1>5. ReadAll(c, s) = g[Len(s)]
  BY <1>3, <1>4, ReadRun
<1> QED
  <2> HIDE DEF F
  <2> QED BY <1>3, <1>4, <1>5

\* Nothing read, nothing changed.
LEMMA ReadNone ==
  ASSUME Parameters, NEW c \in States
  PROVE  ReadAll(c, <<>>) = c
BY ReadRunExists, EmptySeq

\* One datagram read is one step of Reads.
LEMMA ReadOne ==
  ASSUME Parameters, NEW c \in States, NEW m \in Datagrams
  PROVE  ReadAll(c, <<m>>) = Reads(c, m)
<1>1. <<m>> \in Seq(Datagrams) /\ Len(<<m>>) = 1 /\ <<m>>[1] = m
  OBVIOUS
<1>2. PICK g \in [0 .. Len(<<m>>) -> States] :
        /\ g[0] = c /\ ReadAll(c, <<m>>) = g[Len(<<m>>)]
        /\ \A i \in 1 .. Len(<<m>>) : g[i] = Reads(g[i - 1], <<m>>[i])
  BY <1>1, ReadRunExists
<1>3. 1 \in 1 .. Len(<<m>>) /\ 1 - 1 = 0
  BY <1>1
<1> QED BY <1>1, <1>2, <1>3

\* Reading leaves a state of a client.
LEMMA ReadType ==
  ASSUME Parameters, NEW c \in States, NEW s \in Seq(Datagrams)
  PROVE  ReadAll(c, s) \in States
BY ReadRunExists, LenProperties

\* Reading s and then t.
LEMMA ReadConcat ==
  ASSUME Parameters, NEW c \in States, NEW s \in Seq(Datagrams), NEW t \in Seq(Datagrams)
  PROVE  ReadAll(c, s \o t) = ReadAll(ReadAll(c, s), t)
<1>1. PICK g \in [0 .. Len(s) -> States] :
        /\ g[0] = c /\ ReadAll(c, s) = g[Len(s)]
        /\ \A i \in 1 .. Len(s) : g[i] = Reads(g[i - 1], s[i])
  BY ReadRunExists
<1>2. ReadAll(c, s) \in States
  BY ReadType
<1>3. PICK h \in [0 .. Len(t) -> States] :
        /\ h[0] = ReadAll(c, s) /\ ReadAll(ReadAll(c, s), t) = h[Len(t)]
        /\ \A i \in 1 .. Len(t) : h[i] = Reads(h[i - 1], t[i])
  BY <1>2, ReadRunExists
<1>4. /\ s \o t \in Seq(Datagrams) /\ Len(s) \in Nat /\ Len(t) \in Nat
      /\ Len(s \o t) = Len(s) + Len(t)
      /\ \A i \in 1 .. Len(s) + Len(t) : (s \o t)[i] = IF i <= Len(s) THEN s[i] ELSE t[i - Len(s)]
  BY ConcatProperties, LenProperties
<1> DEFINE r == [i \in 0 .. Len(s) + Len(t) |-> IF i <= Len(s) THEN g[i] ELSE h[i - Len(s)]]
<1>5. r[0] = c /\ r[Len(s) + Len(t)] = h[Len(t)]
  <2>1. CASE Len(t) = 0
    BY <1>1, <1>3, <1>4, <2>1
  <2>2. CASE Len(t) # 0
    <3>1. ~(Len(s) + Len(t) <= Len(s)) /\ (Len(s) + Len(t)) - Len(s) = Len(t)
      BY <1>4, <2>2
    <3> QED BY <1>1, <1>4, <3>1
  <2> QED BY <2>1, <2>2
<1>6. ASSUME NEW i \in 1 .. Len(s) + Len(t) PROVE r[i] = Reads(r[i - 1], (s \o t)[i])
  <2>1. CASE i <= Len(s)
    <3>1. i \in 1 .. Len(s) /\ r[i] = g[i] /\ r[i - 1] = g[i - 1]
      BY <1>4, <2>1
    <3> QED BY <1>1, <1>4, <2>1, <3>1
  <2>2. CASE ~(i <= Len(s))
    <3>1. i - Len(s) \in 1 .. Len(t) /\ r[i] = h[i - Len(s)]
      BY <1>4, <2>2
    <3>2. r[i - 1] = h[(i - Len(s)) - 1]
      <4>1. CASE i - 1 = Len(s)
        <5>1. (i - Len(s)) - 1 = 0 /\ r[i - 1] = g[Len(s)]
          BY <1>4, <4>1
        <5> QED BY <1>1, <1>3, <5>1
      <4>2. CASE i - 1 # Len(s)
        <5>1. ~(i - 1 <= Len(s)) /\ (i - 1) - Len(s) = (i - Len(s)) - 1
          BY <1>4, <2>2, <4>2
        <5> QED BY <1>4, <5>1
      <4> QED BY <4>1, <4>2
    <3> QED BY <1>3, <1>4, <2>2, <3>1, <3>2
  <2> QED BY <2>1, <2>2
<1> HIDE DEF r
<1>7. ReadAll(c, s \o t) = r[Len(s \o t)]
  BY <1>4, <1>5, <1>6, ReadRun
<1> QED BY <1>3, <1>4, <1>5, <1>7

-----------------------------------------------------------------------------
(* The elements of a list that are in a set.                               *)

\* What Chosen makes of elements of R, and what it does with one more element.
Lists(R, X) == Seq(R \cap X)

Added(l, x, X) == IF x \in X THEN Append(l, x) ELSE l

\* An element is added only if it is of the set.
LEMMA AddedType ==
  ASSUME NEW R, NEW X, NEW l \in Seq(R \cap X), NEW x \in R
  PROVE  Added(l, x, X) \in Seq(R \cap X)
<1>1. CASE x \in X
  <2> DEFINE Y == R \cap X
  <2>1. x \in Y
    BY <1>1
  <2> HIDE DEF Y
  <2>2. l \in Seq(Y)
    BY DEF Y
  <2>3. Append(l, x) \in Seq(Y)
    BY <2>1, <2>2, AppendProperties
  <2> QED BY <1>1, <2>3 DEF Added, Y
<1>2. CASE x \notin X
  BY <1>2 DEF Added
<1> QED BY <1>1, <1>2

\* Chosen is the last state of the run of Added over the list.
LEMMA ChosenRun ==
  ASSUME NEW R, NEW X, NEW s \in Seq(R), NEW g,
         g[0] = <<>>, \A i \in 1 .. Len(s) : g[i] = Added(g[i - 1], s[i], X)
  PROVE  Chosen(s, X) = g[Len(s)]
<1> DEFINE L == Lists(R, X)
           F == [l \in L |-> [x \in R |-> Added(l, x, X)]]
           D == SUBSET (1 .. Len(s))
           Iter(f) == f = [t \in D |-> IF t = {} THEN <<>> ELSE Added(f[t \ {Max(t)}], s[Max(t)], X)]
           H == CHOOSE f : Iter(f)
<1>1. Len(s) \in Nat /\ DOMAIN s = 1 .. Len(s) /\ \A i \in 1 .. Len(s) : s[i] \in R
  BY LenProperties, ElementOfSeq
<1>2. \E f : Iter(f)
  <2>1. F \in [L -> [R -> L]] /\ <<>> \in L
    BY AddedType, EmptySeq DEF Lists
  <2>2. PICK it \in [D -> L] : IterOf(it, F, <<>>, s)
    <3> HIDE DEF F, L
    <3> QED BY <2>1, IterExists
  <2>3. ASSUME NEW t \in D, t # {} PROVE it[t] = Added(it[t \ {Max(t)}], s[Max(t)], X)
    <3>1. s[Max(t)] \in R /\ it[t \ {Max(t)}] \in L
      <4> HIDE DEF L
      <4> QED BY <1>1, <2>3, MaxIsIn
    <3>2. it[t] = F[it[t \ {Max(t)}]][s[Max(t)]]
      BY <2>2, <2>3 DEF IterOf
    <3> QED BY <3>1, <3>2
  <2>4. Iter(it)
    <3>1. it[{}] = <<>>
      BY <2>2 DEF IterOf
    <3> HIDE DEF F, L
    <3> QED BY <2>3, <3>1
  <2> QED BY <2>4
<1>3. Chosen(s, X) = H[1 .. Len(s)]
  BY <1>1 DEF Chosen, FoldLeft, MapThenFoldSet, Added
<1>4. Iter(H)
  BY <1>2
<1> HIDE DEF H
<1>5. \A t \in D : H[t] = IF t = {} THEN <<>> ELSE Added(H[t \ {Max(t)}], s[Max(t)], X)
  BY <1>4
<1> DEFINE K == {k \in Nat : k <= Len(s) => H[1 .. k] = g[k]}
<1>6. 0 \in K
  <2>1. 1 .. 0 = {} /\ {} \in D
    OBVIOUS
  <2> QED BY <1>5, <2>1
<1>7. ASSUME NEW k \in K PROVE k + 1 \in K
  <2> SUFFICES ASSUME k + 1 <= Len(s) PROVE H[1 .. k + 1] = g[k + 1]
    OBVIOUS
  <2>0. k \in Nat /\ k + 1 \in 1 .. k + 1 /\ 1 .. k + 1 \in SUBSET (1 .. k + 1)
    OBVIOUS
  <2>1. 1 .. k + 1 \in D /\ (1 .. k + 1) \ {k + 1} = 1 .. k /\ 1 .. k + 1 # {} /\ Max(1 .. k + 1) = k + 1
    <3>1. Max(1 .. k + 1) = k + 1
      BY <2>0, MaxOfLast
    <3>2. 1 .. k + 1 \in D /\ (1 .. k + 1) \ {k + 1} = 1 .. k
      BY <1>1, <2>0
    <3> QED BY <2>0, <3>1, <3>2
  <2>2. H[1 .. k + 1] = Added(H[1 .. k], s[k + 1], X)
    BY <1>5, <2>1
  <2>3. H[1 .. k] = g[k] /\ k + 1 \in 1 .. Len(s) /\ (k + 1) - 1 = k
    BY <1>1
  <2> QED BY <2>2, <2>3
<1>8. Len(s) \in K
  <2> HIDE DEF K
  <2> QED BY <1>1, <1>6, <1>7, SetInduction DEF K
<1> QED BY <1>1, <1>3, <1>8

ChosenBy(g, s, X) ==
  /\ g[0] = <<>> /\ Chosen(s, X) = g[Len(s)]
  /\ \A i \in 1 .. Len(s) : g[i] = Added(g[i - 1], s[i], X)

\* The run there is for Chosen.
LEMMA ChosenRunExists ==
  ASSUME NEW R, NEW X, NEW s \in Seq(R)
  PROVE  \E g \in [0 .. Len(s) -> Lists(R, X)] : ChosenBy(g, s, X)
<1> DEFINE L == Lists(R, X)
           F == [l \in L |-> [x \in R |-> Added(l, x, X)]]
<1>1. F \in [L -> [R -> L]] /\ <<>> \in L
  BY AddedType, EmptySeq DEF Lists
<1>2. PICK g \in [0 .. Len(s) -> L] : RunOf(g, F, <<>>, s)
  <2> HIDE DEF F, L
  <2> QED BY <1>1, RunExists
<1>3. ASSUME NEW i \in 1 .. Len(s) PROVE g[i] = Added(g[i - 1], s[i], X)
  <2>1. s[i] \in R /\ g[i - 1] \in L
    <3> HIDE DEF L
    <3> QED BY LenProperties, ElementOfSeq
  <2>2. g[i] = F[g[i - 1]][s[i]]
    BY <1>2 DEF RunOf
  <2> QED BY <2>1, <2>2
<1>4. g[0] = <<>>
  BY <1>2 DEF RunOf
<1>5. Chosen(s, X) = g[Len(s)]
  BY <1>3, <1>4, ChosenRun
<1> QED
  <2> HIDE DEF F
  <2> QED BY <1>3, <1>4, <1>5 DEF ChosenBy

\* What is chosen is in the set.
LEMMA ChosenType ==
  ASSUME NEW R, NEW X, NEW s \in Seq(R)
  PROVE  Chosen(s, X) \in Seq(R \cap X)
<1>1. PICK g \in [0 .. Len(s) -> Lists(R, X)] : ChosenBy(g, s, X)
  BY ChosenRunExists
<1>2. Chosen(s, X) \in Lists(R, X)
  BY <1>1, LenProperties DEF ChosenBy
<1> QED BY <1>2 DEF Lists

\* None of the list is in the set.
LEMMA ChosenNoneOf ==
  ASSUME NEW R, NEW X, NEW s \in Seq(R), \A i \in 1 .. Len(s) : s[i] \notin X
  PROVE  Chosen(s, X) = <<>>
<1> DEFINE g == [i \in 0 .. Len(s) |-> <<>>]
<1>1. g[0] = <<>> /\ g[Len(s)] = <<>> /\ \A i \in 1 .. Len(s) : g[i] = Added(g[i - 1], s[i], X)
  BY LenProperties DEF Added
<1> HIDE DEF g
<1> QED BY <1>1, ChosenRun

\* Of nothing, nothing is chosen.
LEMMA ChosenNone ==
  ASSUME NEW X
  PROVE  Chosen(<<>>, X) = <<>>
<1>1. PICK s : s = <<>> /\ s \in Seq({X}) /\ Len(s) = 0
  BY EmptySeq
<1>2. Chosen(s, X) = <<>>
  <2>1. \A i \in 1 .. Len(s) : s[i] \notin X
    BY <1>1
  <2> QED BY <1>1, <2>1, ChosenNoneOf
<1> QED BY <1>1, <1>2

\* All of the list is in the set.
LEMMA ChosenAll ==
  ASSUME NEW R, NEW X, NEW s \in Seq(R), \A i \in 1 .. Len(s) : s[i] \in X
  PROVE  Chosen(s, X) = s
<1> DEFINE g == [i \in 0 .. Len(s) |-> SubSeq(s, 1, i)]
<1>0. Len(s) \in Nat /\ \A i \in 1 .. Len(s) : s[i] \in R
  BY LenProperties, ElementOfSeq
<1>1. g[0] = <<>> /\ g[Len(s)] = s
  BY <1>0, SubSeqFull, SubSeqEmpty
<1>2. ASSUME NEW i \in 1 .. Len(s) PROVE g[i] = Added(g[i - 1], s[i], X)
  <2>1. SubSeq(s, 1, i) = SubSeq(s, 1, i - 1) \o <<s[i]>>
    <3>1. 1 \in 1 .. Len(s) /\ i \in 1 .. Len(s)
      BY <1>0
    <3> QED BY <3>1, SubSeqRecursiveSecond
  <2>2. SubSeq(s, 1, i - 1) \in Seq(R)
    <3>1. \A j \in 1 .. i - 1 : s[j] \in R
      BY <1>0
    <3>2. i - 1 \in Int /\ 1 \in Int
      BY <1>0
    <3> QED BY <3>1, <3>2, SubSeqProperties
  <2>3. Append(SubSeq(s, 1, i - 1), s[i]) = SubSeq(s, 1, i)
    BY <1>0, <2>1, <2>2, AppendIsConcat
  <2>4. g[i] = SubSeq(s, 1, i) /\ g[i - 1] = SubSeq(s, 1, i - 1)
    BY <1>0
  <2> HIDE DEF g
  <2> QED BY <2>3, <2>4 DEF Added
<1> HIDE DEF g
<1> QED BY <1>1, <1>2, ChosenRun

\* One place of the list is in the set.
LEMMA ChosenSingle ==
  ASSUME NEW R, NEW X, NEW s \in Seq(R), NEW k \in 1 .. Len(s),
         \A i \in 1 .. Len(s) : s[i] \in X <=> i = k
  PROVE  Chosen(s, X) = <<s[k]>>
<1> DEFINE g == [i \in 0 .. Len(s) |-> IF i < k THEN <<>> ELSE <<s[k]>>]
<1>0. Len(s) \in Nat /\ \A i \in 1 .. Len(s) : s[i] \in R
  BY LenProperties, ElementOfSeq
<1>1. g[0] = <<>> /\ g[Len(s)] = <<s[k]>>
  BY <1>0
<1>2. ASSUME NEW i \in 1 .. Len(s) PROVE g[i] = Added(g[i - 1], s[i], X)
  <2>1. Append(<<>>, s[k]) = <<s[k]>>
    OBVIOUS
  <2>2. CASE i < k
    BY <1>0, <2>2 DEF Added
  <2>3. CASE i = k
    <3>1. g[i] = <<s[k]>> /\ g[i - 1] = <<>>
      BY <1>0, <2>3
    <3> HIDE DEF g
    <3> QED BY <2>1, <2>3, <3>1 DEF Added
  <2>4. CASE i > k
    <3>1. g[i] = <<s[k]>> /\ g[i - 1] = <<s[k]>> /\ s[i] \notin X
      BY <1>0, <2>4
    <3> HIDE DEF g
    <3> QED BY <3>1 DEF Added
  <2> QED BY <1>0, <2>2, <2>3, <2>4
<1> HIDE DEF g
<1> QED BY <1>1, <1>2, ChosenRun

\* Append to the second of two sequences is Append to the two.
LEMMA ConcatAppend ==
  ASSUME NEW R, NEW s \in Seq(R), NEW t \in Seq(R), NEW x \in R
  PROVE  s \o Append(t, x) = Append(s \o t, x)
<1>1. <<x>> \in Seq(R) /\ s \o t \in Seq(R)
  BY ConcatProperties
<1>2. Append(t, x) = t \o <<x>> /\ Append(s \o t, x) = (s \o t) \o <<x>>
  BY <1>1, AppendIsConcat
<1> QED BY <1>1, <1>2, ConcatAssociative

\* Of two sequences, those of the first come before those of the second.
LEMMA ChosenConcat ==
  ASSUME NEW R, NEW X, NEW s \in Seq(R), NEW t \in Seq(R)
  PROVE  Chosen(s \o t, X) = Chosen(s, X) \o Chosen(t, X)
<1> DEFINE Y == R \cap X
<1>a. PICK g \in [0 .. Len(s) -> Lists(R, X)] : ChosenBy(g, s, X)
  BY ChosenRunExists
<1>1. /\ g \in [0 .. Len(s) -> Lists(R, X)]
      /\ g[0] = <<>> /\ Chosen(s, X) = g[Len(s)]
      /\ \A i \in 1 .. Len(s) : g[i] = Added(g[i - 1], s[i], X)
  BY <1>a DEF ChosenBy
<1>b. PICK h \in [0 .. Len(t) -> Lists(R, X)] : ChosenBy(h, t, X)
  BY ChosenRunExists
<1>2. /\ h \in [0 .. Len(t) -> Lists(R, X)]
      /\ h[0] = <<>> /\ Chosen(t, X) = h[Len(t)]
      /\ \A i \in 1 .. Len(t) : h[i] = Added(h[i - 1], t[i], X)
  BY <1>b DEF ChosenBy
<1>3. /\ s \o t \in Seq(R) /\ Len(s) \in Nat /\ Len(t) \in Nat
      /\ Len(s \o t) = Len(s) + Len(t)
      /\ \A i \in 1 .. Len(s) + Len(t) : (s \o t)[i] = IF i <= Len(s) THEN s[i] ELSE t[i - Len(s)]
  BY ConcatProperties, LenProperties
<1>4. \A i \in 1 .. Len(t) : t[i] \in R /\ (t[i] \in X => t[i] \in Y)
  BY ElementOfSeq
<1>x. Lists(R, X) = Seq(Y)
  BY DEF Lists
<1> HIDE DEF Y
<1> DEFINE e == g[Len(s)]
           r == [i \in 0 .. Len(s) + Len(t) |-> IF i <= Len(s) THEN g[i] ELSE e \o h[i - Len(s)]]
<1>5. e \in Seq(Y) /\ e \o <<>> = e
  <2>1. e \in Seq(Y)
    BY <1>1, <1>3, <1>x
  <2> QED BY <2>1, ConcatEmptySeq
<1>6. r[0] = <<>> /\ r[Len(s) + Len(t)] = e \o h[Len(t)]
  <2>1. CASE Len(t) = 0
    BY <1>1, <1>2, <1>3, <1>5, <2>1
  <2>2. CASE Len(t) # 0
    <3>1. ~(Len(s) + Len(t) <= Len(s)) /\ (Len(s) + Len(t)) - Len(s) = Len(t)
      BY <1>3, <2>2
    <3> QED BY <1>1, <1>3, <3>1
  <2> QED BY <2>1, <2>2
<1>7. ASSUME NEW i \in 1 .. Len(s) + Len(t) PROVE r[i] = Added(r[i - 1], (s \o t)[i], X)
  <2>1. CASE i <= Len(s)
    <3>1. i \in 1 .. Len(s) /\ r[i] = g[i] /\ r[i - 1] = g[i - 1]
      BY <1>3, <2>1
    <3> HIDE DEF r
    <3> QED BY <1>1, <1>3, <2>1, <3>1
  <2>2. CASE ~(i <= Len(s))
    <3> DEFINE j == i - Len(s)
    <3>1. j \in 1 .. Len(t) /\ r[i] = e \o h[j]
      BY <1>3, <2>2
    <3>2. r[i - 1] = e \o h[j - 1]
      <4>1. CASE i - 1 = Len(s)
        <5>1. j - 1 = 0 /\ r[i - 1] = e
          BY <1>3, <4>1
        <5>2. h[j - 1] = <<>>
          BY <1>2, <5>1
        <5> HIDE DEF r, e, j
        <5> QED BY <1>5, <5>1, <5>2
      <4>2. CASE i - 1 # Len(s)
        <5>1. ~(i - 1 <= Len(s)) /\ (i - 1) - Len(s) = j - 1
          BY <1>3, <2>2, <4>2
        <5> QED BY <1>3, <5>1
      <4> QED BY <4>1, <4>2
    <3>3. (s \o t)[i] = t[j]
      BY <1>3, <2>2
    <3> HIDE DEF r, e, j
    <3>4. h[j - 1] \in Seq(Y) /\ h[j] = Added(h[j - 1], t[j], X)
      <4>1. j - 1 \in 0 .. Len(t)
        BY <1>3, <3>1
      <4> QED BY <1>2, <1>x, <3>1, <4>1
    <3>5. CASE t[j] \in X
      <4>1. t[j] \in Y /\ h[j] = Append(h[j - 1], t[j])
        BY <1>4, <3>1, <3>4, <3>5 DEF Added
      <4>2. e \o h[j] = Append(e \o h[j - 1], t[j])
        <5> DEFINE l == h[j - 1]
                   x == t[j]
        <5>1. l \in Seq(Y) /\ x \in Y /\ e \in Seq(Y) /\ h[j] = Append(l, x)
          BY <1>5, <3>4, <4>1
        <5> HIDE DEF l, x
        <5>2. e \o Append(l, x) = Append(e \o l, x)
          <6> DEFINE D == Y
          <6>1. l \in Seq(D) /\ x \in D /\ e \in Seq(D)
            BY <5>1
          <6> HIDE DEF D
          <6> QED BY <6>1, ConcatAppend
        <5> QED BY <5>1, <5>2 DEF l, x
      <4> QED BY <3>1, <3>2, <3>3, <3>5, <4>2 DEF Added
    <3>6. CASE t[j] \notin X
      BY <3>1, <3>2, <3>3, <3>4, <3>6 DEF Added
    <3> QED BY <3>5, <3>6
  <2> QED BY <2>1, <2>2
<1> HIDE DEF r
<1>8. Chosen(s \o t, X) = r[Len(s \o t)]
  <2> DEFINE st == s \o t
  <2>1. \A i \in 1 .. Len(st) : r[i] = Added(r[i - 1], st[i], X)
    BY <1>3, <1>7
  <2>2. st \in Seq(R) /\ r[0] = <<>>
    BY <1>3, <1>6
  <2> HIDE DEF st
  <2>3. Chosen(st, X) = r[Len(st)]
    BY <2>1, <2>2, ChosenRun
  <2> QED BY <2>3 DEF st
<1> QED BY <1>1, <1>2, <1>3, <1>6, <1>8

-----------------------------------------------------------------------------
(* What the server has still to send, client by client.                    *)

\* The mail of a client: the messages of the replies that are to it.
Replies == [to : Clients, msg : Datagrams]
For(c) == [to : {c}, msg : Datagrams]
MessagesOf(mine) == [i \in 1 .. Len(mine) |-> mine[i].msg]
Mail(rs, c) == MessagesOf(Chosen(rs, For(c)))

\* What is pending for a client is its mail among the replies.
LEMMA PendingIsMail == ASSUME NEW c PROVE PendingFor(c) = Mail(replies, c)
BY DEF PendingFor, Mail, For, MessagesOf

\* The messages of replies, one for each.
LEMMA MessagesOfIs ==
  ASSUME NEW R, NEW mine \in Seq(R), \A r \in R : r.msg \in Datagrams
  PROVE  /\ MessagesOf(mine) \in Seq(Datagrams) /\ Len(MessagesOf(mine)) = Len(mine)
         /\ \A i \in 1 .. Len(mine) : MessagesOf(mine)[i] = mine[i].msg
<1>1. Len(mine) \in Nat /\ \A i \in 1 .. Len(mine) : mine[i].msg \in Datagrams
  BY LenProperties, ElementOfSeq
<1>2. MessagesOf(mine) \in [1 .. Len(mine) -> Datagrams]
  BY <1>1 DEF MessagesOf
<1> HIDE DEF MessagesOf
<1>3. MessagesOf(mine) \in Seq(Datagrams)
  BY <1>1, <1>2, SeqDef
<1>4. Len(MessagesOf(mine)) = Len(mine)
  BY <1>1, <1>2, <1>3, LenProperties
<1> QED BY <1>3, <1>4 DEF MessagesOf

\* Mail is made of replies, in a sequence of messages.
LEMMA MailType ==
  ASSUME NEW R, NEW rs \in Seq(R), NEW c
  PROVE  /\ Chosen(rs, For(c)) \in Seq(R) /\ Chosen(rs, For(c)) \in Seq(For(c))
         /\ Mail(rs, c) \in Seq(Datagrams) /\ Len(Mail(rs, c)) = Len(Chosen(rs, For(c)))
         /\ \A i \in 1 .. Len(Mail(rs, c)) : \E r \in R : r.to = c /\ Mail(rs, c)[i] = r.msg
<1> DEFINE Y == R \cap For(c)
           mine == Chosen(rs, For(c))
<1>1. mine \in Seq(Y)
  BY ChosenType
<1>2. Y \subseteq R /\ Y \subseteq For(c) /\ \A r \in Y : r.msg \in Datagrams /\ r.to = c /\ r \in R
  BY DEF For
<1> HIDE DEF Y, mine
<1>3. mine \in Seq(R) /\ mine \in Seq(For(c))
  BY <1>1, <1>2, SeqMonotonic
<1>4. /\ MessagesOf(mine) \in Seq(Datagrams) /\ Len(MessagesOf(mine)) = Len(mine)
      /\ \A i \in 1 .. Len(mine) : MessagesOf(mine)[i] = mine[i].msg
  BY <1>1, <1>2, MessagesOfIs
<1>5. \A i \in 1 .. Len(mine) : mine[i] \in Y
  BY <1>1, ElementOfSeq
<1> QED BY <1>2, <1>3, <1>4, <1>5 DEF Mail, mine

\* Without replies there is no mail.
LEMMA MailNone == ASSUME NEW c PROVE Mail(<<>>, c) = <<>>
BY ChosenNone DEF Mail, MessagesOf

\* The messages of two lists of replies.
LEMMA MessagesConcat ==
  ASSUME NEW R, NEW a \in Seq(R), NEW b \in Seq(R), \A r \in R : r.msg \in Datagrams
  PROVE  MessagesOf(a \o b) = MessagesOf(a) \o MessagesOf(b)
<1> DEFINE s == MessagesOf(a)
           t == MessagesOf(b)
           u == MessagesOf(a \o b)
<1>1. /\ a \o b \in Seq(R) /\ Len(a) \in Nat /\ Len(b) \in Nat /\ Len(a \o b) = Len(a) + Len(b)
      /\ \A i \in 1 .. Len(a) + Len(b) : (a \o b)[i] = IF i <= Len(a) THEN a[i] ELSE b[i - Len(a)]
  BY ConcatProperties, LenProperties
<1>2. /\ s \in Seq(Datagrams) /\ Len(s) = Len(a) /\ \A i \in 1 .. Len(a) : s[i] = a[i].msg
      /\ t \in Seq(Datagrams) /\ Len(t) = Len(b) /\ \A i \in 1 .. Len(b) : t[i] = b[i].msg
      /\ u \in Seq(Datagrams) /\ Len(u) = Len(a \o b) /\ \A i \in 1 .. Len(a \o b) : u[i] = (a \o b)[i].msg
  BY <1>1, MessagesOfIs
<1> HIDE DEF s, t, u
<1>3. /\ s \o t \in Seq(Datagrams) /\ Len(s \o t) = Len(a) + Len(b)
      /\ \A i \in 1 .. Len(a) + Len(b) : (s \o t)[i] = IF i <= Len(a) THEN s[i] ELSE t[i - Len(a)]
  <2>1. /\ s \o t \in Seq(Datagrams) /\ Len(s \o t) = Len(s) + Len(t)
        /\ \A i \in 1 .. Len(s) + Len(t) : (s \o t)[i] = IF i <= Len(s) THEN s[i] ELSE t[i - Len(s)]
    <3>1. s \in Seq(Datagrams) /\ t \in Seq(Datagrams)
      BY <1>2
    <3> QED BY <3>1, ConcatProperties
  <2> QED BY <1>2, <2>1
<1>4. ASSUME NEW i \in 1 .. Len(a) + Len(b) PROVE u[i] = (s \o t)[i]
  <2>1. CASE i <= Len(a)
    <3>1. i \in 1 .. Len(a)
      BY <1>1, <2>1
    <3> QED BY <1>1, <1>2, <1>3, <2>1, <3>1
  <2>2. CASE ~(i <= Len(a))
    <3>1. i - Len(a) \in 1 .. Len(b)
      BY <1>1, <2>2
    <3> QED BY <1>1, <1>2, <1>3, <2>2, <3>1
  <2> QED BY <2>1, <2>2
<1>5. u = s \o t
  <2>1. Len(u) = Len(s \o t) /\ \A i \in 1 .. Len(u) : u[i] = (s \o t)[i]
    BY <1>1, <1>2, <1>3, <1>4
  <2> QED BY <1>2, <1>3, <2>1, SeqEqual
<1> QED BY <1>5 DEF s, t, u

\* The mail of two lists of replies.
LEMMA MailConcat ==
  ASSUME NEW rs \in Seq(Replies), NEW qs \in Seq(Replies), NEW c
  PROVE  Mail(rs \o qs, c) = Mail(rs, c) \o Mail(qs, c)
<1> DEFINE a == Chosen(rs, For(c))
           b == Chosen(qs, For(c))
<1>1. a \in Seq(Replies) /\ b \in Seq(Replies)
  BY MailType
<1>2. Chosen(rs \o qs, For(c)) = a \o b
  BY ChosenConcat
<1>3. \A r \in Replies : r.msg \in Datagrams
  BY DEF Replies
<1> HIDE DEF a, b
<1>4. MessagesOf(a \o b) = MessagesOf(a) \o MessagesOf(b)
  BY <1>1, <1>3, MessagesConcat
<1> QED BY <1>2, <1>4 DEF Mail, a, b

\* One reply is mail for who it is to.
LEMMA MailOne ==
  ASSUME NEW r \in Replies, NEW c
  PROVE  Mail(<<r>>, c) = IF r.to = c THEN <<r.msg>> ELSE <<>>
<1> DEFINE s == <<r>>
<1>1. s \in Seq(Replies) /\ Len(s) = 1 /\ s[1] = r
  OBVIOUS
<1> HIDE DEF s
<1>2. CASE r.to = c
  <2>1. r \in For(c)
    BY <1>2 DEF For, Replies
  <2>2. Chosen(s, For(c)) = s
    BY <1>1, <2>1, ChosenAll
  <2>3. MessagesOf(<<r>>) = <<r.msg>>
    BY DEF MessagesOf
  <2> QED BY <1>2, <2>2, <2>3 DEF Mail, s
<1>3. CASE r.to # c
  <2>1. r \notin For(c)
    BY <1>3 DEF For
  <2>2. Chosen(s, For(c)) = <<>>
    BY <1>1, <2>1, ChosenNoneOf
  <2>3. MessagesOf(<<>>) = <<>>
    BY DEF MessagesOf
  <2> QED BY <1>3, <2>2, <2>3 DEF Mail, s
<1> QED BY <1>2, <1>3

\* A sequence is its head and its tail.
LEMMA HeadThenTail ==
  ASSUME NEW S, NEW s \in Seq(S), s # <<>>
  PROVE  /\ s = <<Head(s)>> \o Tail(s) /\ Head(s) \in S /\ Tail(s) \in Seq(S) /\ Head(s) = s[1]
         /\ Len(s) \in Nat \ {0} /\ Len(Tail(s)) = Len(s) - 1
         /\ \A i \in 1 .. Len(s) - 1 : Tail(s)[i] = s[i + 1]
<1>1. /\ Head(s) \in S /\ Tail(s) \in Seq(S) /\ Len(Tail(s)) = Len(s) - 1
      /\ \A i \in 1 .. Len(Tail(s)) : Tail(s)[i] = s[i + 1]
  BY HeadTailProperties
<1>2. Len(s) \in Nat \ {0} /\ Head(s) = s[1]
  BY EmptySeq, LenProperties
<1> DEFINE h == <<Head(s)>>
<1>3. h \in Seq(S) /\ Len(h) = 1 /\ h[1] = s[1]
  BY <1>1, <1>2
<1> HIDE DEF h
<1>4. /\ h \o Tail(s) \in Seq(S) /\ Len(h \o Tail(s)) = Len(h) + Len(Tail(s))
      /\ \A i \in 1 .. Len(h) + Len(Tail(s)) : (h \o Tail(s))[i] = IF i <= Len(h) THEN h[i] ELSE Tail(s)[i - Len(h)]
  <2> DEFINE q == Tail(s)
  <2>1. q \in Seq(S) /\ h \in Seq(S)
    BY <1>1, <1>3
  <2> HIDE DEF q
  <2>2. /\ h \o q \in Seq(S) /\ Len(h \o q) = Len(h) + Len(q)
        /\ \A i \in 1 .. Len(h) + Len(q) : (h \o q)[i] = IF i <= Len(h) THEN h[i] ELSE q[i - Len(h)]
    BY <2>1, ConcatProperties
  <2> QED BY <2>2 DEF q
<1>5. ASSUME NEW i \in 1 .. Len(s) PROVE s[i] = (h \o Tail(s))[i]
  <2>1. CASE i = 1
    BY <1>1, <1>2, <1>3, <1>4, <2>1
  <2>2. CASE i # 1
    <3>1. i - 1 \in 1 .. Len(Tail(s)) /\ (i - 1) + 1 = i /\ ~(i <= 1)
      BY <1>1, <1>2, <2>2
    <3> QED BY <1>1, <1>2, <1>3, <1>4, <3>1
  <2> QED BY <2>1, <2>2
<1>6. s = h \o Tail(s)
  <2>1. Len(s) = Len(h \o Tail(s))
    BY <1>1, <1>2, <1>3, <1>4
  <2> QED BY <1>4, <1>5, <2>1, SeqEqual
<1> QED BY <1>1, <1>2, <1>6 DEF h

\* The first reply is its reader's first mail.
LEMMA MailOfFirst ==
  ASSUME NEW rs \in Seq(Replies), rs # <<>>, NEW c
  PROVE  Mail(rs, c) = IF Head(rs).to = c THEN <<Head(rs).msg>> \o Mail(Tail(rs), c) ELSE Mail(Tail(rs), c)
<1> DEFINE s == <<Head(rs)>>
<1>1. rs = s \o Tail(rs) /\ Head(rs) \in Replies /\ Tail(rs) \in Seq(Replies)
  BY HeadThenTail
<1>2. s \in Seq(Replies)
  BY <1>1
<1>3. Mail(s, c) = IF Head(rs).to = c THEN <<Head(rs).msg>> ELSE <<>>
  BY <1>1, MailOne
<1> HIDE DEF s
<1>4. Mail(s \o Tail(rs), c) = Mail(s, c) \o Mail(Tail(rs), c)
  <2> DEFINE q == Tail(rs)
  <2>1. q \in Seq(Replies)
    BY <1>1
  <2> HIDE DEF q
  <2>2. Mail(s \o q, c) = Mail(s, c) \o Mail(q, c)
    BY <1>2, <2>1, MailConcat
  <2> QED BY <2>2 DEF q
<1>5. Mail(Tail(rs), c) \in Seq(Datagrams)
  BY <1>1, MailType
<1>6. <<>> \o Mail(Tail(rs), c) = Mail(Tail(rs), c)
  BY <1>5, ConcatEmptySeq
<1> QED BY <1>1, <1>3, <1>4, <1>6

\* A datagram for each of a list of messages, all to one client.
LEMMA MailTo ==
  ASSUME NEW c \in Clients, NEW msgs \in Seq(Datagrams), NEW d
  PROVE  To(c, msgs) \in Seq(Replies) /\ Mail(To(c, msgs), d) = IF d = c THEN msgs ELSE <<>>
<1> DEFINE s == To(c, msgs)
<1>1. Len(msgs) \in Nat /\ \A i \in 1 .. Len(msgs) : msgs[i] \in Datagrams
  BY LenProperties, ElementOfSeq
<1>2. s \in [1 .. Len(msgs) -> Replies] /\ \A i \in 1 .. Len(msgs) : s[i].to = c /\ s[i].msg = msgs[i]
  BY <1>1 DEF To, Replies
<1> HIDE DEF s
<1>3. s \in Seq(Replies)
  BY <1>1, <1>2, SeqDef
<1>4. Len(s) = Len(msgs)
  BY <1>1, <1>2, <1>3, LenProperties
<1>5. CASE d = c
  <2>1. \A i \in 1 .. Len(s) : s[i] \in For(d)
    BY <1>2, <1>4, <1>5 DEF For, Replies
  <2>2. Chosen(s, For(d)) = s
    BY <1>3, <2>1, ChosenAll
  <2>3. /\ MessagesOf(s) \in Seq(Datagrams) /\ Len(MessagesOf(s)) = Len(s)
        /\ \A i \in 1 .. Len(s) : MessagesOf(s)[i] = s[i].msg
    <3>1. \A r \in Replies : r.msg \in Datagrams
      BY DEF Replies
    <3> QED BY <1>3, <3>1, MessagesOfIs
  <2>4. MessagesOf(s) = msgs
    BY <1>2, <1>4, <2>3, SeqEqual
  <2> QED BY <1>3, <1>5, <2>2, <2>4 DEF Mail, s
<1>6. CASE d # c
  <2>1. \A i \in 1 .. Len(s) : s[i] \notin For(d)
    BY <1>2, <1>4, <1>6 DEF For
  <2>2. Chosen(s, For(d)) = <<>>
    BY <1>3, <2>1, ChosenNoneOf
  <2>3. MessagesOf(<<>>) = <<>>
    BY DEF MessagesOf
  <2> QED BY <1>3, <1>6, <2>2, <2>3 DEF Mail, s
<1> QED BY <1>5, <1>6

\* A message to everyone of a list reaches one that is there once.
LEMMA MailToAll ==
  ASSUME NEW list \in Seq(Users), NEW name, NEW m \in Datagrams, NEW d
  PROVE  /\ ToOthers_All(list, name, m) \in Seq(Replies)
         /\ (\A i \in 1 .. Len(list) : list[i].addr # d) => Mail(ToOthers_All(list, name, m), d) = <<>>
         /\ \A k \in 1 .. Len(list) : (\A i \in 1 .. Len(list) : list[i].addr = d <=> i = k)
              => Mail(ToOthers_All(list, name, m), d) = <<m>>
<1> DEFINE s == ToOthers_All(list, name, m)
<1>1. Len(list) \in Nat /\ \A i \in 1 .. Len(list) : list[i] \in Users /\ list[i].addr \in Clients
  <2>1. Len(list) \in Nat /\ \A i \in 1 .. Len(list) : list[i] \in Users
    BY LenProperties, ElementOfSeq
  <2> QED BY <2>1 DEF Users
<1>2. s \in [1 .. Len(list) -> Replies] /\ \A i \in 1 .. Len(list) : s[i].to = list[i].addr /\ s[i].msg = m
  BY <1>1 DEF ToOthers_All, Replies
<1> HIDE DEF s
<1>3. s \in Seq(Replies)
  BY <1>1, <1>2, SeqDef
<1>4. Len(s) = Len(list)
  BY <1>1, <1>2, <1>3, LenProperties
<1>5. \A i \in 1 .. Len(list) : s[i] \in For(d) <=> list[i].addr = d
  BY <1>2 DEF For, Replies
<1>6. ASSUME \A i \in 1 .. Len(list) : list[i].addr # d PROVE Mail(s, d) = <<>>
  <2>1. Chosen(s, For(d)) = <<>>
    BY <1>3, <1>4, <1>5, <1>6, ChosenNoneOf
  <2>2. MessagesOf(<<>>) = <<>>
    BY DEF MessagesOf
  <2> QED BY <2>1, <2>2 DEF Mail
<1>7. ASSUME NEW k \in 1 .. Len(list), \A i \in 1 .. Len(list) : list[i].addr = d <=> i = k
      PROVE  Mail(s, d) = <<m>>
  <2>1. \A i \in 1 .. Len(s) : s[i] \in For(d) <=> i = k
    BY <1>4, <1>5, <1>7
  <2>2. Chosen(s, For(d)) = <<s[k]>>
    BY <1>3, <1>4, <2>1, ChosenSingle
  <2>3. MessagesOf(<<s[k]>>) = <<s[k].msg>>
    BY DEF MessagesOf
  <2> QED BY <1>2, <2>2, <2>3 DEF Mail
<1> QED BY <1>3, <1>6, <1>7 DEF s

-----------------------------------------------------------------------------
(* The inductive invariant.                                                *)

\* What waits at the server, and where in it the datagrams from an address are.
Requests == inbox[Server]
From(a) == {i \in 1 .. Len(Requests) : Requests[i].user.addr = a}

\* Clients have their names before they send anything, counts still to be read
\* are of users, requests are commands of users, and names are taken once.
Course ==
  /\ \A c \in Clients : cli[c].at \in {"wait", "count", "users", "main"} => cli[c].name \in Names
  /\ \A c \in Clients : cli[c].at = "users" => cli[c].n >= 1
  /\ \A i \in 1 .. Len(Requests) : Requests[i].user \in Users
  /\ \A i, j \in 1 .. Len(client_list) : client_list[i].name = client_list[j].name => i = j

Types == TypeOK /\ Course

\* Some client knows, or is about to read, the address of a.
Knows(c, a) ==
  \/ \E i \in 1 .. Len(cli[c].users) : cli[c].users[i].addr = a
  \/ \E i \in 1 .. Len(inbox[c]) : inbox[c][i].user.addr = a
Told(a) == \E c \in Clients : Knows(c, a)

\* Or the server has it in its list, or in a reply.
Heard(a) == \/ Told(a) \/ a \in LoggedIn
            \/ \E i \in 1 .. Len(replies) : replies[i].msg.user.addr = a

\* The answer that accepts a login.
IsOk(m) == m.kind = "message" /\ m.word = S2C_LOGIN_OK

\* All that a client has still to read.
Queued(a) == inbox[a] \o PendingFor(a)

\* Not logged in, and nobody knows: at most a login is waiting at the server, or
\* its refusal at the client.
Fresh(a) ==
  /\ cli[a].at \in {"name", "wait"}
  /\ \A i \in From(a) : /\ Requests[i].word = C2S_LOGIN
                        /\ cli[a].at = "wait" /\ Queued(a) = <<>>
  /\ \A i, j \in From(a) : i = j
  /\ Queued(a) # <<>> => cli[a].at = "wait" /\ Queued(a) = <<Message(S2C_ALREADY_LOGINED, Junk)>>
  /\ ~Heard(a)

\* Accepted by the server once.
Settled(a) ==
  /\ ReadAll(cli[a], Queued(a)).at = "main"
  /\ a \in LoggedIn => ReadAll(cli[a], Queued(a)).users = client_list
  /\ \A i, j \in 1 .. Len(client_list) : client_list[i].addr = a /\ client_list[j].addr = a => i = j
  /\ \A i \in From(a) : Requests[i].word # C2S_LOGIN
  /\ (PendingFor(a) # <<>> /\ PendingFor(a)[1].kind = "message") =>
       \/ ReadAll(cli[a], inbox[a]).at = "main"
       \/ IsOk(PendingFor(a)[1]) /\ ~Told(a)
  /\ \A i \in 2 .. Len(PendingFor(a)) : PendingFor(a)[i].kind # "message"

\* A login is accepted by the first of the replies to it.
OkFirst == \A i \in 2 .. Len(replies) : ~IsOk(replies[i].msg)

\* Of every client but the spoilt and the gone.
Agreeing == \A a \in Clients \ spoilt : Alive(a) => Fresh(a) \/ Settled(a)

Inv == Types /\ OkFirst /\ Agreeing

-----------------------------------------------------------------------------
(* Datagrams.                                                              *)

\* A message is a datagram.
LEMMA MessageType ==
  ASSUME Parameters, NEW cmd \in 0 .. 6, NEW user \in Users \cup {Junk}
  PROVE  /\ Message(cmd, user) \in Datagrams
         /\ Message(cmd, user).kind = "message" /\ Message(cmd, user).word = cmd /\ Message(cmd, user).user = user
<1>1. cmd \in 0 .. Letters
  BY LettersIs
<1> QED BY <1>1 DEF Message, Datagrams

\* A count is a datagram.
LEMMA CountType ==
  ASSUME Parameters, NEW n \in 0 .. Letters
  PROVE  Count(n) \in Datagrams /\ Count(n).kind = "count" /\ Count(n).word = n /\ Count(n).user = Junk
BY DEF Count, Datagrams

\* So is a user.
LEMMA InfoType ==
  ASSUME Parameters, NEW user \in Users
  PROVE  Info(user) \in Datagrams /\ Info(user).kind = "user" /\ Info(user).user = user
BY LettersIs DEF Info, Datagrams

\* And a list of users is as many.
LEMMA InfosType ==
  ASSUME Parameters, NEW list \in Seq(Users)
  PROVE  /\ Infos(list) \in Seq(Datagrams) /\ Len(Infos(list)) = Len(list)
         /\ \A i \in 1 .. Len(list) : Infos(list)[i] = Info(list[i])
<1>1. Len(list) \in Nat /\ \A i \in 1 .. Len(list) : list[i] \in Users
  BY LenProperties, ElementOfSeq
<1>2. Infos(list) \in [1 .. Len(list) -> Datagrams] /\ \A i \in 1 .. Len(list) : Infos(list)[i] = Info(list[i])
  BY <1>1, InfoType DEF Infos
<1> HIDE DEF Infos
<1>3. Infos(list) \in Seq(Datagrams)
  BY <1>1, <1>2, SeqDef
<1> QED BY <1>1, <1>2, <1>3, LenProperties

\* What is read as a user from a datagram that holds none has no client's address.
LEMMA JunkIs == ASSUME Parameters PROVE Junk.addr \notin Clients /\ Junk.name \notin Names /\ Junk \notin Users
BY DEF Parameters, Junk, Users

\* The fields of a user.
LEMMA UserIs == ASSUME NEW u \in Users PROVE u.name \in Names /\ u.addr \in Clients /\ u \in Users \cup {Junk}
BY DEF Users

\* A list of users with different names is no longer than there are names.
LEMMA ShortList ==
  ASSUME Parameters, NEW list \in Seq(Users),
         \A i, j \in 1 .. Len(list) : list[i].name = list[j].name => i = j
  PROVE  Len(list) \in 0 .. Letters /\ Len(list) < Letters /\ Count(Len(list)) \in Datagrams
<1> DEFINE f == [i \in 1 .. Len(list) |-> list[i].name]
<1>1. Len(list) \in Nat /\ \A i \in 1 .. Len(list) : list[i].name \in Names
  <2>1. Len(list) \in Nat /\ \A i \in 1 .. Len(list) : list[i] \in Users
    BY LenProperties, ElementOfSeq
  <2> QED BY <2>1, UserIs
<1>2. f \in Injection(1 .. Len(list), Names)
  BY <1>1 DEF Injection, IsInjective
<1>3. IsFiniteSet(1 .. Len(list)) /\ Cardinality(1 .. Len(list)) = Len(list)
  <2>1. 0 \in Int /\ 1 \in Int /\ Len(list) \in Int
    BY <1>1
  <2>2. Cardinality(1 .. Len(list)) = IF 1 > Len(list) THEN 0 ELSE Len(list) - 1 + 1
    BY <2>1, FS_Interval
  <2> QED BY <1>1, <2>1, <2>2, FS_Interval
<1>4. Cardinality(1 .. Len(list)) <= Cardinality(Names)
  <2> HIDE DEF f
  <2> QED BY <1>2, <1>3, FS_Injection DEF Parameters
<1>5. Len(list) \in 0 .. Letters /\ Len(list) < Letters
  BY <1>1, <1>3, <1>4, LettersIs
<1> QED BY <1>5, CountType

\* A client that waits for a list has it once it has read the count and the users.
LEMMA ListRead ==
  ASSUME Parameters, NEW list \in Seq(Users), Len(list) < Letters, NEW c \in States, c.at = "count"
  PROVE  ReadAll(c, <<Count(Len(list))>> \o Infos(list)) = Client("main", c.name, 0, list)
<1> DEFINE n == Len(list)
           s == <<Count(n)>> \o Infos(list)
           g == [i \in 0 .. n + 1 |->
                   IF i = 0 THEN c
                   ELSE Client(IF i = n + 1 THEN "main" ELSE "users", c.name, n - (i - 1), SubSeq(list, 1, i - 1))]
<1>1. n \in Nat /\ n \in 0 .. Letters /\ Letters \in Nat /\ \A i \in 1 .. n : list[i] \in Users
  BY LenProperties, ElementOfSeq, LettersIs
<1>2. /\ s \in Seq(Datagrams) /\ Len(s) = n + 1 /\ s[1] = Count(n)
      /\ \A i \in 2 .. n + 1 : s[i] = Info(list[i - 1])
  <2> DEFINE a == <<Count(n)>>
             b == Infos(list)
  <2>1. a \in Seq(Datagrams) /\ Len(a) = 1 /\ a[1] = Count(n)
    BY <1>1, CountType
  <2>2. b \in Seq(Datagrams) /\ Len(b) = n /\ \A i \in 1 .. n : b[i] = Info(list[i])
    BY InfosType
  <2> HIDE DEF a, b, n
  <2>3. /\ a \o b \in Seq(Datagrams) /\ Len(a \o b) = Len(a) + Len(b)
        /\ \A i \in 1 .. Len(a) + Len(b) : (a \o b)[i] = IF i <= Len(a) THEN a[i] ELSE b[i - Len(a)]
    BY <2>1, <2>2, ConcatProperties
  <2>4. Len(a \o b) = n + 1 /\ (a \o b)[1] = Count(n)
    BY <1>1, <2>1, <2>2, <2>3
  <2>5. ASSUME NEW i \in 2 .. n + 1 PROVE (a \o b)[i] = Info(list[i - 1])
    <3>1. i - 1 \in 1 .. n /\ i \in 1 .. n + 1 /\ ~(i <= 1)
      BY <1>1
    <3> QED BY <1>1, <2>1, <2>2, <2>3, <3>1
  <2> QED BY <2>3, <2>4, <2>5 DEF a, b
<1> HIDE DEF s
<1>3. \A i \in 1 .. n + 1 : SubSeq(list, 1, i - 1) \in Seq(Users)
  <2> SUFFICES ASSUME NEW i \in 1 .. n + 1 PROVE SubSeq(list, 1, i - 1) \in Seq(Users)
    OBVIOUS
  <2>1. \A j \in 1 .. i - 1 : list[j] \in Users
    BY <1>1
  <2>2. i - 1 \in Int /\ 1 \in Int
    BY <1>1
  <2> QED BY <2>1, <2>2, SubSeqProperties
<1>4. g[0] = c /\ g[n + 1] = Client("main", c.name, 0, list)
  <2>1. n + 1 # 0 /\ n - ((n + 1) - 1) = 0 /\ (n + 1) - 1 = n
    BY <1>1
  <2>2. SubSeq(list, 1, n) = list
    BY SubSeqFull
  <2>3. g[n + 1] = Client("main", c.name, n - ((n + 1) - 1), SubSeq(list, 1, (n + 1) - 1)) /\ g[0] = c
    BY <1>1, <2>1
  <2> HIDE DEF g, n
  <2> QED BY <2>1, <2>2, <2>3
<1>5. g[1] = Reads(g[0], s[1])
  <2>1. SubSeq(list, 1, 0) = <<>>
    BY SubSeqEmpty
  <2>2. Count(n).word = n
    BY <1>1, CountType
  <2>3. Reads(c, Count(n)) = Client(IF n = 0 THEN "main" ELSE "users", c.name, n, <<>>)
    BY <2>2, ReadsCount
  <2>4. g[1] = Client(IF 1 = n + 1 THEN "main" ELSE "users", c.name, n - (1 - 1), SubSeq(list, 1, 1 - 1))
    BY <1>1
  <2>5. (1 = n + 1 <=> n = 0) /\ n - (1 - 1) = n /\ 1 - 1 = 0
    BY <1>1
  <2> HIDE DEF g, n
  <2> QED BY <1>2, <1>4, <2>1, <2>3, <2>4, <2>5
<1>6. ASSUME NEW i \in 2 .. n + 1 PROVE g[i] = Reads(g[i - 1], s[i])
  <2> DEFINE k == n - (i - 2)
             l == SubSeq(list, 1, i - 2)
             d == Client("users", c.name, k, l)
  <2>1. i - 1 \in 1 .. n /\ i - 2 \in 0 .. n /\ i - 1 # n + 1 /\ i - 1 # 0 /\ (i - 1) - 1 = i - 2 /\ i # 0
    BY <1>1
  <2>2. g[i - 1] = d
    BY <1>1, <2>1
  <2>3. k \in Int /\ k # Letters /\ (k = 1 <=> i = n + 1) /\ k - 1 = n - (i - 1)
    BY <1>1, <2>1
  <2>4. l \in Seq(Users)
    BY <1>3, <2>1
  <2>5. Append(l, list[i - 1]) = SubSeq(list, 1, i - 1)
    <3>1. list[i - 1] \in Users /\ 1 \in 1 .. Len(list) /\ i - 1 \in 1 .. Len(list)
      BY <1>1, <2>1
    <3>2. SubSeq(list, 1, i - 1) = SubSeq(list, 1, (i - 1) - 1) \o <<list[i - 1]>>
      BY <3>1, SubSeqRecursiveSecond
    <3>3. Append(l, list[i - 1]) = l \o <<list[i - 1]>>
      <4> HIDE DEF l
      <4> QED BY <2>4, <3>1, AppendIsConcat
    <3> QED BY <2>1, <3>2, <3>3
  <2>6. g[i] = Client(IF i = n + 1 THEN "main" ELSE "users", c.name, n - (i - 1), SubSeq(list, 1, i - 1))
    BY <1>1, <2>1
  <2>7. s[i].kind = "user" /\ s[i].user = list[i - 1]
    BY <1>1, <1>2, <2>1, InfoType
  <2> HIDE DEF g, k, l
  <2>8. d \in States /\ d.at = "users" /\ d.name = c.name /\ d.n = k /\ d.users = l
    <3>1. l \in Seq(Users \cup {Junk})
      BY <2>4, SeqMonotonic
    <3> QED BY <2>3, <3>1, ClientIs DEF Client, States
  <2> HIDE DEF d
  <2>9. Reads(d, s[i]) = Client(IF k = 1 THEN "main" ELSE "users", c.name, k - 1, Append(l, list[i - 1]))
    BY <2>3, <2>7, <2>8, ReadsUsers
  <2> HIDE DEF n
  <2> QED BY <2>2, <2>3, <2>5, <2>6, <2>9
<1> HIDE DEF g
<1>7. \A i \in 1 .. Len(s) : g[i] = Reads(g[i - 1], s[i])
  <2> SUFFICES ASSUME NEW i \in 1 .. Len(s) PROVE g[i] = Reads(g[i - 1], s[i])
    OBVIOUS
  <2>1. i \in 1 .. n + 1 /\ (i = 1 \/ i \in 2 .. n + 1)
    BY <1>1, <1>2
  <2>2. CASE i = 1
    <3>1. i - 1 = 0
      BY <2>2
    <3> QED BY <1>5, <2>2, <3>1
  <2> QED BY <1>6, <2>1, <2>2
<1>8. ReadAll(c, s) = g[Len(s)]
  BY <1>2, <1>4, <1>7, ReadRun
<1> QED BY <1>2, <1>4, <1>8 DEF s

-----------------------------------------------------------------------------
(* Types.                                                                  *)

ClientStates == [at : {"name", "wait", "count", "users", "main", "gone"},
                 name : Names \cup {NoOne}, n : 0 .. Letters, users : Seq(Users \cup {Junk})]
Boxes == Clients \cup {Server}

\* What TypeOK says, one variable at a time.
LEMMA TypesAre ==
  ASSUME Parameters, TypeOK
  PROVE  /\ client_list \in Seq(Users) /\ replies \in Seq(Replies)
         /\ inbox \in [Boxes -> Seq(Datagrams)] /\ \A a \in Boxes : Len(inbox[a]) <= Buffer
         /\ cli \in [Clients -> ClientStates] /\ \A c \in Clients : cli[c] \in States /\ cli[c] \in ClientStates
         /\ Server \in Boxes /\ Clients \subseteq Boxes /\ Server \notin Clients
<1>1. cli \in [Clients -> ClientStates] /\ ClientStates \subseteq States
  BY LettersIs DEF TypeOK, ClientStates, States
<1> QED BY <1>1 DEF TypeOK, Replies, Boxes, Parameters

\* What a sendto does to the sockets.
LEMMA SentIs ==
  ASSUME Parameters, TypeOK, NEW m \in Datagrams, NEW to \in Boxes
  PROVE  /\ Sent(m, to) \in [Boxes -> Seq(Datagrams)]
         /\ \A a \in Boxes : Len(Sent(m, to)[a]) <= Buffer
         /\ \A a \in Boxes \ {to} : Sent(m, to)[a] = inbox[a]
         /\ \/ Sent(m, to)[to] = Append(inbox[to], m)
            \/ Sent(m, to) = inbox /\ (to = Server \/ ~Alive(to) \/ Lost(to) = {to})
<1>1. inbox \in [Boxes -> Seq(Datagrams)] /\ \A a \in Boxes : Len(inbox[a]) <= Buffer
  BY TypesAre
<1>2. CASE Alive(to) /\ Room(to)
  <2> DEFINE l == Append(inbox[to], m)
  <2>1. l \in Seq(Datagrams) /\ Len(l) = Len(inbox[to]) + 1
    BY <1>1, AppendProperties
  <2>2. Len(inbox[to]) \in Nat /\ Len(inbox[to]) < Buffer /\ Buffer \in Nat
    BY <1>1, <1>2, LenProperties DEF Room, Parameters
  <2>3. Len(l) <= Buffer
    BY <2>1, <2>2
  <2>4. Sent(m, to) = [inbox EXCEPT ![to] = l]
    BY <1>2 DEF Sent
  <2> HIDE DEF l
  <2>5. Sent(m, to)[to] = l
    BY <1>1, <2>4
  <2> QED BY <1>1, <2>1, <2>3, <2>4, <2>5 DEF l
<1>3. CASE ~(Alive(to) /\ Room(to))
  <2>1. Sent(m, to) = inbox
    BY <1>3 DEF Sent
  <2>2. to = Server \/ ~Alive(to) \/ Lost(to) = {to}
    BY <1>3 DEF Lost
  <2> QED BY <1>1, <2>1, <2>2
<1> QED BY <1>2, <1>3

\* Requests after a sendto to the server: one more, of a user, or none.
LEMMA SentRequest ==
  ASSUME Parameters, TypeOK, NEW m \in Datagrams
  PROVE  \/ Sent(m, Server) = inbox
         \/ /\ Sent(m, Server)[Server] = Append(Requests, m)
            /\ Len(Sent(m, Server)[Server]) = Len(Requests) + 1 /\ Len(Requests) \in Nat
            /\ \A i \in 1 .. Len(Requests) : Sent(m, Server)[Server][i] = Requests[i]
            /\ Sent(m, Server)[Server][Len(Requests) + 1] = m
<1>1. Server \in Boxes /\ inbox[Server] \in Seq(Datagrams)
  BY TypesAre
<1>2. Sent(m, Server)[Server] = Append(inbox[Server], m) \/ Sent(m, Server) = inbox
  BY <1>1, SentIs
<1>3. CASE Sent(m, Server) = inbox
  BY <1>3
<1>4. CASE Sent(m, Server)[Server] = Append(inbox[Server], m)
  <2> DEFINE r == inbox[Server]
  <2>1. r \in Seq(Datagrams)
    BY <1>1
  <2> HIDE DEF r
  <2>2. Len(Append(r, m)) = Len(r) + 1 /\ Len(r) \in Nat /\ Append(r, m)[Len(r) + 1] = m
        /\ \A i \in 1 .. Len(r) : Append(r, m)[i] = r[i]
    BY <2>1, AppendProperties, LenProperties
  <2> QED BY <1>4, <2>2 DEF r, Requests
<1> QED BY <1>2, <1>3, <1>4

\* The types of the four variables that steps of the clients change.
LEMMA SenderTypes ==
  ASSUME Parameters, Types, NEW m \in Datagrams, m.user \in Users,
         inbox' = Sent(m, Server)
  PROVE  /\ inbox' \in [Boxes -> Seq(Datagrams)] /\ \A a \in Boxes : Len(inbox'[a]) <= Buffer
         /\ \A i \in 1 .. Len(Requests') : Requests'[i].user \in Users
<1>1. TypeOK /\ Course /\ Server \in Boxes
  BY TypesAre DEF Types
<1>2. inbox' \in [Boxes -> Seq(Datagrams)] /\ \A a \in Boxes : Len(inbox'[a]) <= Buffer
  BY <1>1, SentIs
<1>3. ASSUME NEW i \in 1 .. Len(Requests') PROVE Requests'[i].user \in Users
  <2>1. CASE Sent(m, Server) = inbox
    BY <1>1, <1>3, <2>1 DEF Requests, Course
  <2>2. CASE Sent(m, Server) # inbox
    <3>1. /\ Requests' = Sent(m, Server)[Server] /\ Len(Requests') = Len(Requests) + 1 /\ Len(Requests) \in Nat
          /\ \A j \in 1 .. Len(Requests) : Requests'[j] = Requests[j]
          /\ Requests'[Len(Requests) + 1] = m
      BY <1>1, <2>2, SentRequest DEF Requests
    <3>2. i = Len(Requests) + 1 \/ i \in 1 .. Len(Requests)
      BY <1>3, <3>1
    <3> QED BY <1>1, <3>1, <3>2 DEF Course
  <2> QED BY <2>1, <2>2
<1> QED BY <1>2, <1>3

\* No name typed, no list, nothing sent.
LEMMA TypesInit ==
  ASSUME Parameters, Init
  PROVE  Types
<1>1. \A a \in Boxes : inbox[a] = <<>>
  BY DEF Init, Boxes
<1>2. <<>> \in Seq(Users) /\ <<>> \in Seq(Replies) /\ <<>> \in Seq(Datagrams) /\ <<>> \in Seq(Users \cup {Junk})
      /\ Len(<<>>) = 0
  BY EmptySeq
<1>3. inbox \in [Boxes -> Seq(Datagrams)] /\ \A a \in Boxes : Len(inbox[a]) <= Buffer
  BY <1>1, <1>2 DEF Init, Boxes, Parameters
<1>4. cli \in [Clients -> ClientStates]
  BY <1>2, LettersIs DEF Init, ClientStates
<1>5. requests \in 0 .. MaxRequests
  BY DEF Init, Parameters
<1>6. TypeOK
  BY <1>2, <1>3, <1>4, <1>5 DEF TypeOK, Init, Boxes, ClientStates, Replies
<1>7. Requests = <<>>
  BY <1>1 DEF Requests, Boxes
<1>8. Course
  BY <1>2, <1>7 DEF Init, Course
<1> QED BY <1>6, <1>8 DEF Types

\* A client whose record keeps what Course asks of it.
Named(c) == /\ c.at \in {"wait", "count", "users", "main"} => c.name \in Names
            /\ c.at = "users" => c.n >= 1

\* A client keeps its name, and the count it reads down stays above 0 while it does.
LEMMA ReadsNamed ==
  ASSUME Parameters, NEW c \in ClientStates, Named(c), NEW m \in Datagrams
  PROVE  Reads(c, m) \in ClientStates /\ Named(Reads(c, m))
<1>1. c \in States /\ c.n \in 0 .. Letters /\ Letters \in Nat
  BY LettersIs DEF ClientStates, States
<1>2. Reads(c, m) \in States
  BY <1>1, ReadsType
<1>3. m.word \in 0 .. Letters
  BY DatagramIs
<1>4. Reads(c, m).n \in 0 .. Letters /\ Named(Reads(c, m))
  <2>1. CASE c.at = "wait"
    BY <1>1, <2>1, ReadsWait, ClientFields DEF Named
  <2>2. CASE c.at = "count"
    <3>1. Reads(c, m) = Client(IF m.word = 0 THEN "main" ELSE "users", c.name, m.word, <<>>)
      BY <1>1, <2>2, ReadsCount
    <3> QED BY <1>3, <2>2, <3>1, ClientFields DEF Named
  <2>3. CASE c.at = "users"
    <3> DEFINE l == Append(c.users, IF m.kind = "user" THEN m.user ELSE Junk)
               k == IF c.n = Letters THEN c.n ELSE c.n - 1
    <3>1. Reads(c, m) = Client(IF c.n = 1 THEN "main" ELSE "users", c.name, k, l)
      BY <1>1, <2>3, ReadsUsers
    <3>2. c.n >= 1 /\ c.name \in Names
      BY <2>3 DEF Named
    <3>3. k \in 0 .. Letters /\ (c.n # 1 => k >= 1)
      BY <1>1, <3>2, LettersIs
    <3> HIDE DEF l, k
    <3> QED BY <3>1, <3>2, <3>3, ClientFields DEF Named
  <2>4. CASE c.at = "main"
    BY <1>1, <2>4, ReadsMain, ClientFields DEF Named
  <2>5. CASE c.at \in {"name", "gone"}
    BY <1>1, <2>5, ReadsStay
  <2> QED BY <1>1, <2>1, <2>2, <2>3, <2>4, <2>5, ClientIs
<1>5. Reads(c, m) \in ClientStates
  BY <1>2, <1>4 DEF States, ClientStates
<1> QED BY <1>4, <1>5

\* Types, from what the steps show of the variables.
LEMMA TypesFrom ==
  ASSUME client_list' \in Seq(Users), replies' \in Seq(Replies),
         inbox' \in [Boxes -> Seq(Datagrams)], \A a \in Boxes : Len(inbox'[a]) <= Buffer,
         cli' \in [Clients -> ClientStates], \A c \in Clients : Named(cli'[c]),
         requests' \in 0 .. MaxRequests, spoilt' \subseteq Clients,
         \A i \in 1 .. Len(Requests') : Requests'[i].user \in Users,
         \A i, j \in 1 .. Len(client_list') : client_list'[i].name = client_list'[j].name => i = j
  PROVE  Types'
<1>1. TypeOK'
  BY DEF TypeOK, Replies, Boxes, ClientStates
<1>2. Course'
  BY DEF Course, Named
<1> QED BY <1>1, <1>2 DEF Types

\* The facts of TypesFrom, before the step.
LEMMA TypesGive ==
  ASSUME Parameters, Types
  PROVE  /\ client_list \in Seq(Users) /\ replies \in Seq(Replies)
         /\ inbox \in [Boxes -> Seq(Datagrams)] /\ \A a \in Boxes : Len(inbox[a]) <= Buffer
         /\ cli \in [Clients -> ClientStates] /\ \A c \in Clients : Named(cli[c])
         /\ requests \in 0 .. MaxRequests /\ spoilt \subseteq Clients
         /\ \A i \in 1 .. Len(Requests) : Requests[i].user \in Users
         /\ \A i, j \in 1 .. Len(client_list) : client_list[i].name = client_list[j].name => i = j
         /\ MaxRequests \in Nat /\ TypeOK
BY TypesAre DEF Types, TypeOK, Course, Named, Parameters

\* A request is counted while there may be more.
LEMMA OneMoreRequest ==
  ASSUME Parameters, Types, requests < MaxRequests, requests' = requests + 1
  PROVE  requests' \in 0 .. MaxRequests
<1>1. requests \in 0 .. MaxRequests /\ MaxRequests \in Nat
  BY TypesGive
<1> QED BY <1>1

\* A client that has its name signs with it.
LEMMA MeIsUser ==
  ASSUME Types, NEW c \in Clients, cli[c].at \in {"wait", "count", "users", "main"}
  PROVE  Me(c) \in Users /\ Me(c).addr = c
BY DEF Types, Course, Me, Users

\* Login makes the client wait under the name that was typed.
LEMMA LoginIs ==
  ASSUME Parameters, Types, NEW c \in Clients, NEW name \in Names, Login(c, name)
  PROVE  /\ cli' \in [Clients -> ClientStates] /\ \A d \in Clients \ {c} : cli'[d] = cli[d]
         /\ cli'[c].at = "wait" /\ cli'[c].name = name /\ cli'[c].users = cli[c].users
         /\ Message(C2S_LOGIN, [name |-> name, addr |-> c]) \in Datagrams
         /\ Message(C2S_LOGIN, [name |-> name, addr |-> c]).word = C2S_LOGIN
         /\ Message(C2S_LOGIN, [name |-> name, addr |-> c]).user = [name |-> name, addr |-> c]
         /\ [name |-> name, addr |-> c] \in Users
<1>1. cli \in [Clients -> ClientStates] /\ cli' = [cli EXCEPT ![c].at = "wait", ![c].name = name]
  BY TypesGive DEF Login
<1>2. cli'[c] \in [at : {"wait"}, name : {name}, n : {cli[c].n}, users : {cli[c].users}]
  BY <1>1 DEF ClientStates
<1>3. \A d \in Clients \ {c} : cli'[d] = cli[d]
  BY <1>1
<1>4. cli'[c] \in ClientStates /\ cli'[c].at = "wait" /\ cli'[c].name = name /\ cli'[c].users = cli[c].users
  BY <1>1, <1>2 DEF ClientStates
<1>5. cli' \in [Clients -> ClientStates]
  <2>1. cli' = [d \in Clients |-> cli'[d]]
    BY <1>1
  <2>2. \A d \in Clients : cli'[d] \in ClientStates
    BY <1>1, <1>3, <1>4
  <2> QED BY <2>1, <2>2
<1>6. [name |-> name, addr |-> c] \in Users /\ C2S_LOGIN \in 0 .. 6
  BY DEF Users, C2S_LOGIN
<1> DEFINE u == [name |-> name, addr |-> c]
<1>7. u \in Users /\ u \in Users \cup {Junk}
  BY <1>6
<1> HIDE DEF u
<1>8. Message(C2S_LOGIN, u) \in Datagrams /\ Message(C2S_LOGIN, u).word = C2S_LOGIN /\ Message(C2S_LOGIN, u).user = u
  BY <1>6, <1>7, MessageType
<1> QED BY <1>3, <1>4, <1>5, <1>7, <1>8 DEF u

\* A login is a request of a user.
LEMMA TypesLogin ==
  ASSUME Parameters, Types, NEW c \in Clients, NEW name \in Names, Login(c, name)
  PROVE  Types'
<1> DEFINE m == Message(C2S_LOGIN, [name |-> name, addr |-> c])
<1>1. m \in Datagrams /\ m.user \in Users
  BY LoginIs
<1>2. inbox' = Sent(m, Server)
  BY DEF Login
<1> HIDE DEF m
<1>3. /\ inbox' \in [Boxes -> Seq(Datagrams)] /\ \A a \in Boxes : Len(inbox'[a]) <= Buffer
      /\ \A i \in 1 .. Len(Requests') : Requests'[i].user \in Users
  BY <1>1, <1>2, SenderTypes
<1>4. cli' \in [Clients -> ClientStates] /\ \A d \in Clients : Named(cli'[d])
  <2>1. /\ cli' \in [Clients -> ClientStates] /\ \A d \in Clients \ {c} : cli'[d] = cli[d]
        /\ cli'[c].at = "wait" /\ cli'[c].name = name
    BY LoginIs
  <2>2. \A d \in Clients : Named(cli[d])
    BY TypesGive
  <2>3. Named(cli'[c])
    BY <2>1 DEF Named
  <2> QED BY <2>1, <2>2, <2>3
<1>5. UNCHANGED <<client_list, replies, requests, spoilt>>
  BY DEF Login, serverVars
<1> QED BY <1>3, <1>4, <1>5, TypesGive, TypesFrom

\* A datagram read.
LEMMA TypesReceive ==
  ASSUME Parameters, Types, NEW c \in Clients, Receive(c)
  PROVE  Types'
<1> DEFINE m == Head(inbox[c])
           rest == Tail(inbox[c])
<1>1. /\ inbox[c] # <<>> /\ inbox' = [inbox EXCEPT ![c] = rest] /\ cli' = [cli EXCEPT ![c] = Reads(cli[c], m)]
      /\ UNCHANGED <<client_list, replies, requests, spoilt>>
  BY DEF Receive, serverVars
<1>2. /\ inbox \in [Boxes -> Seq(Datagrams)] /\ \A a \in Boxes : Len(inbox[a]) <= Buffer
      /\ cli \in [Clients -> ClientStates] /\ \A d \in Clients : Named(cli[d])
      /\ Server \notin Clients /\ Clients \subseteq Boxes
  BY TypesGive, TypesAre DEF Types
<1>3. m \in Datagrams /\ rest \in Seq(Datagrams) /\ Len(rest) = Len(inbox[c]) - 1 /\ Len(inbox[c]) \in Nat
  BY <1>1, <1>2, HeadThenTail
<1> HIDE DEF m, rest
<1>4. Reads(cli[c], m) \in ClientStates /\ Named(Reads(cli[c], m))
  BY <1>2, <1>3, ReadsNamed
<1>5. cli' \in [Clients -> ClientStates] /\ \A d \in Clients : Named(cli'[d])
  BY <1>1, <1>2, <1>4
<1>6. inbox' \in [Boxes -> Seq(Datagrams)] /\ \A a \in Boxes : Len(inbox'[a]) <= Buffer
  <2>1. Len(rest) <= Buffer /\ c \in Boxes
    BY <1>2, <1>3 DEF Parameters
  <2> QED BY <1>1, <1>2, <1>3, <2>1
<1>7. Requests' = Requests
  BY <1>1, <1>2 DEF Requests
<1> QED BY <1>1, <1>5, <1>6, <1>7, TypesGive, TypesFrom

\* The client that leaves is the one gone.
LEMMA GoneIs ==
  ASSUME Parameters, Types, NEW c \in Clients, cli' = Gone(c)
  PROVE  /\ cli' \in [Clients -> ClientStates] /\ \A d \in Clients \ {c} : cli'[d] = cli[d]
         /\ cli'[c].at = "gone" /\ cli'[c].users = <<>>
<1>1. cli \in [Clients -> ClientStates]
  BY TypesGive
<1> DEFINE r == [at |-> "gone", name |-> NoOne, n |-> 0, users |-> <<>>]
<1>2. r \in ClientStates /\ r.at = "gone" /\ r.users = <<>>
  BY LettersIs, EmptySeq DEF ClientStates
<1>3. cli' = [cli EXCEPT ![c] = r]
  BY DEF Gone
<1> HIDE DEF r
<1> QED BY <1>1, <1>2, <1>3

\* A list command.
LEMMA TypesList ==
  ASSUME Parameters, Types, NEW c \in Clients, List(c)
  PROVE  Types'
<1> DEFINE m == Message(C2S_ONLINE_USER, Me(c))
<1>1. /\ inbox' = Sent(m, Server) /\ requests' \in 0 .. MaxRequests /\ cli[c].at = "main"
      /\ UNCHANGED <<client_list, replies, cli, spoilt>>
  BY OneMoreRequest DEF List, serverVars
<1>2. m \in Datagrams /\ m.user \in Users
  <2>1. C2S_ONLINE_USER \in 0 .. 6
    BY DEF C2S_ONLINE_USER
  <2> QED BY <1>1, <2>1, MeIsUser, MessageType
<1> HIDE DEF m
<1>3. /\ inbox' \in [Boxes -> Seq(Datagrams)] /\ \A a \in Boxes : Len(inbox'[a]) <= Buffer
      /\ \A i \in 1 .. Len(Requests') : Requests'[i].user \in Users
  BY <1>1, <1>2, SenderTypes
<1> QED BY <1>1, <1>3, TypesGive, TypesFrom

\* What leaves in a socket's buffer when its process ends is nothing.
LEMMA Emptied ==
  ASSUME Parameters, NEW c \in Clients, NEW box \in [Boxes -> Seq(Datagrams)],
         \A a \in Boxes : Len(box[a]) <= Buffer
  PROVE  /\ [box EXCEPT ![c] = <<>>] \in [Boxes -> Seq(Datagrams)]
         /\ \A a \in Boxes : Len([box EXCEPT ![c] = <<>>][a]) <= Buffer
         /\ \A a \in Boxes \ {c} : [box EXCEPT ![c] = <<>>][a] = box[a]
         /\ [box EXCEPT ![c] = <<>>][c] = <<>>
         /\ [box EXCEPT ![c] = <<>>][Server] = box[Server]
<1>1. c \in Boxes /\ <<>> \in Seq(Datagrams) /\ Len(<<>>) <= Buffer /\ c # Server /\ Server \in Boxes
  BY EmptySeq DEF Boxes, Parameters
<1> QED BY <1>1

\* A logout, and the client's socket is gone.
LEMMA TypesExit ==
  ASSUME Parameters, Types, NEW c \in Clients, Exit(c)
  PROVE  Types'
<1> DEFINE m == Message(C2S_LOGOUT, Me(c))
           sent == Sent(m, Server)
<1>1. /\ inbox' = [sent EXCEPT ![c] = <<>>] /\ cli[c].at = "main" /\ cli' = Gone(c)
      /\ UNCHANGED <<client_list, replies, requests, spoilt>>
  BY DEF Exit, serverVars
<1>2. m \in Datagrams /\ m.user \in Users
  <2>1. C2S_LOGOUT \in 0 .. 6
    BY DEF C2S_LOGOUT
  <2> QED BY <1>1, <2>1, MeIsUser, MessageType
<1>3. TypeOK /\ Course /\ Server \in Boxes
  BY TypesAre DEF Types
<1> HIDE DEF m
<1>4. sent \in [Boxes -> Seq(Datagrams)] /\ \A a \in Boxes : Len(sent[a]) <= Buffer
  BY <1>2, <1>3, SentIs
<1>5. ASSUME NEW i \in 1 .. Len(sent[Server]) PROVE sent[Server][i].user \in Users
  <2>1. CASE sent = inbox
    BY <1>3, <2>1 DEF Requests, Course
  <2>2. CASE sent # inbox
    <3>1. /\ Len(sent[Server]) = Len(Requests) + 1 /\ Len(Requests) \in Nat
          /\ \A j \in 1 .. Len(Requests) : sent[Server][j] = Requests[j]
          /\ sent[Server][Len(Requests) + 1] = m
      BY <1>2, <1>3, <2>2, SentRequest
    <3>2. i = Len(Requests) + 1 \/ i \in 1 .. Len(Requests)
      BY <3>1
    <3> QED BY <1>2, <1>3, <3>1, <3>2 DEF Course
  <2> QED BY <2>1, <2>2
<1> HIDE DEF sent
<1>6. /\ inbox' \in [Boxes -> Seq(Datagrams)] /\ \A a \in Boxes : Len(inbox'[a]) <= Buffer
      /\ Requests' = sent[Server]
  BY <1>1, <1>4, Emptied DEF Requests
<1>7. cli' \in [Clients -> ClientStates] /\ \A d \in Clients : Named(cli'[d])
  BY <1>1, GoneIs, TypesGive DEF Named
<1> QED BY <1>1, <1>5, <1>6, <1>7, TypesGive, TypesFrom

\* No logout.
LEMMA TypesKilled ==
  ASSUME Parameters, Types, NEW c \in Clients, Killed(c)
  PROVE  Types'
<1>1. /\ inbox' = [inbox EXCEPT ![c] = <<>>] /\ cli' = Gone(c)
      /\ UNCHANGED <<client_list, replies, requests, spoilt>>
  BY DEF Killed, serverVars
<1>2. /\ inbox' \in [Boxes -> Seq(Datagrams)] /\ \A a \in Boxes : Len(inbox'[a]) <= Buffer
      /\ Requests' = Requests
  BY <1>1, TypesGive, Emptied DEF Requests
<1>3. cli' \in [Clients -> ClientStates] /\ \A d \in Clients : Named(cli'[d])
  BY <1>1, GoneIs, TypesGive DEF Named
<1> QED BY <1>1, <1>2, <1>3, TypesGive, TypesFrom

\* The user a chat message goes to is one of the client's list, and a client.
LEMMA Addressee ==
  ASSUME Parameters, Types, NEW c \in Clients, NEW name \in Names, ByName(cli[c].users, name) # 0
  PROVE  /\ ByName(cli[c].users, name) \in 1 .. Len(cli[c].users)
         /\ cli[c].users[ByName(cli[c].users, name)].addr \in Clients
<1> DEFINE l == cli[c].users
           k == ByName(l, name)
           U == Users \cup {Junk}
<1>1. l \in Seq(U)
  BY TypesGive DEF ClientStates
<1> HIDE DEF l, U
<1>2. k \in 1 .. Len(l) /\ l[k].name = name
  BY <1>1, ByNameIs DEF l
<1> HIDE DEF k
<1>3. l[k] \in U
  BY <1>1, <1>2, ElementOfSeq
<1>4. l[k] \in Users
  BY <1>2, <1>3, JunkIs DEF U
<1>5. l[k].addr \in Clients
  BY <1>4, UserIs
<1> QED BY <1>2, <1>5 DEF k, l

\* A chat message is a datagram of no user.
LEMMA ChatIs ==
  ASSUME Parameters
  PROVE  /\ Message(C2C_CHAT, Junk) \in Datagrams /\ Message(C2C_CHAT, Junk).user = Junk
         /\ Message(C2C_CHAT, Junk).word = C2C_CHAT
BY MessageType DEF C2C_CHAT

\* A chat message goes to a client of the sender's list.
LEMMA SendMsgIs ==
  ASSUME Parameters, Types, NEW c \in Clients, NEW name \in Names, SendMsgTo(c, name)
  PROVE  \E i \in 1 .. Len(cli[c].users) : \E to \in Clients :
           /\ to = cli[c].users[i].addr
           /\ inbox' = Sent(Message(C2C_CHAT, Junk), to)
           /\ spoilt' = spoilt \cup Lost(to) \cup
                {d \in {to} : PendingFor(d) # <<>> /\ Head(PendingFor(d)).kind # "message"}
           /\ requests' \in 0 .. MaxRequests /\ UNCHANGED <<client_list, replies, cli>>
<1> DEFINE i == ByName(cli[c].users, name)
           to == cli[c].users[i].addr
<1>1. i \in 1 .. Len(cli[c].users) /\ to \in Clients
  BY Addressee DEF SendMsgTo
<1>2. requests' \in 0 .. MaxRequests
  BY OneMoreRequest DEF SendMsgTo
<1>3. /\ inbox' = Sent(Message(C2C_CHAT, Junk), to)
      /\ spoilt' = spoilt \cup Lost(to) \cup
           {d \in {to} : PendingFor(d) # <<>> /\ Head(PendingFor(d)).kind # "message"}
      /\ UNCHANGED <<client_list, replies, cli>>
  BY DEF SendMsgTo, serverVars
<1> HIDE DEF i
<1> QED BY <1>1, <1>2, <1>3

\* A datagram to a client.
LEMMA TypesSent ==
  ASSUME Parameters, Types, NEW m \in Datagrams, NEW to \in Clients, inbox' = Sent(m, to)
  PROVE  /\ inbox' \in [Boxes -> Seq(Datagrams)] /\ \A a \in Boxes : Len(inbox'[a]) <= Buffer
         /\ Requests' = Requests /\ Lost(to) \subseteq Clients
BY TypesGive, TypesAre, SentIs DEF Requests, Lost

\* A chat message sent.
LEMMA TypesSendMsg ==
  ASSUME Parameters, Types, NEW c \in Clients, NEW name \in Names, SendMsgTo(c, name)
  PROVE  Types'
<1>1. PICK to \in Clients :
           /\ inbox' = Sent(Message(C2C_CHAT, Junk), to)
           /\ spoilt' = spoilt \cup Lost(to) \cup
                {d \in {to} : PendingFor(d) # <<>> /\ Head(PendingFor(d)).kind # "message"}
           /\ requests' \in 0 .. MaxRequests /\ UNCHANGED <<client_list, replies, cli>>
  BY SendMsgIs
<1>2. /\ inbox' \in [Boxes -> Seq(Datagrams)] /\ \A a \in Boxes : Len(inbox'[a]) <= Buffer
      /\ Requests' = Requests /\ Lost(to) \subseteq Clients
  BY <1>1, ChatIs, TypesSent
<1>3. spoilt' \subseteq Clients
  BY <1>1, <1>2, TypesGive
<1> QED BY <1>1, <1>2, <1>3, TypesGive, TypesFrom

\* A reply sent: the list of users is not touched.
LEMMA TypesSendReply ==
  ASSUME Parameters, Types, SendReply
  PROVE  Types'
<1> DEFINE r == Head(replies)
<1>1. /\ replies # <<>> /\ replies' = Tail(replies) /\ inbox' = Sent(r.msg, r.to)
      /\ spoilt' = spoilt \cup Lost(r.to) /\ UNCHANGED <<client_list, cli, requests>>
  BY DEF SendReply
<1>2. r \in Replies /\ replies' \in Seq(Replies)
  BY <1>1, TypesGive, HeadThenTail
<1> HIDE DEF r
<1>3. r.to \in Clients /\ r.msg \in Datagrams
  BY <1>2 DEF Replies
<1>4. /\ inbox' \in [Boxes -> Seq(Datagrams)] /\ \A a \in Boxes : Len(inbox'[a]) <= Buffer
      /\ Requests' = Requests /\ Lost(r.to) \subseteq Clients
  BY <1>1, <1>3, TypesSent
<1>5. spoilt' \subseteq Clients
  BY <1>1, <1>4, TypesGive
<1> QED BY <1>1, <1>2, <1>4, <1>5, TypesGive, TypesFrom

-----------------------------------------------------------------------------
(* The server's three requests.                                            *)

\* Names are taken once; and an address, if it is.
Distinct(list) == \A i, j \in 1 .. Len(list) : list[i].name = list[j].name => i = j
Once(list, a) == \A i, j \in 1 .. Len(list) : list[i].addr = a /\ list[j].addr = a => i = j
Among(list, a) == \E i \in 1 .. Len(list) : list[i].addr = a

\* Without the user of a name the list has no other of that name.
LEMMA WithoutUnique ==
  ASSUME NEW R, NEW list \in Seq(R), Distinct(list), NEW name
  PROVE  /\ WithoutFirst(list, name) \in Seq(R) /\ Distinct(WithoutFirst(list, name))
         /\ \A i \in 1 .. Len(WithoutFirst(list, name)) : WithoutFirst(list, name)[i].name # name
         /\ \A a : Once(list, a) => Once(WithoutFirst(list, name), a)
         /\ \A a : Among(WithoutFirst(list, name), a) => Among(list, a)
<1> DEFINE l == WithoutFirst(list, name)
<1>1. l \in Seq(R) /\ Len(list) \in Nat
  BY WithoutFirstIs, LenProperties
<1>2. CASE l = list /\ \A i \in 1 .. Len(list) : list[i].name # name
  BY <1>1, <1>2
<1>3. CASE \E k \in 1 .. Len(list) :
             /\ list[k].name = name /\ Len(l) = Len(list) - 1
             /\ \A i \in 1 .. Len(list) - 1 : l[i] = IF i < k THEN list[i] ELSE list[i + 1]
  <2>1. PICK k \in 1 .. Len(list) :
             /\ list[k].name = name /\ Len(l) = Len(list) - 1
             /\ \A i \in 1 .. Len(list) - 1 : l[i] = IF i < k THEN list[i] ELSE list[i + 1]
    BY <1>3
  <2> DEFINE f(i) == IF i < k THEN i ELSE i + 1
  <2> HIDE DEF l
  <2>2. /\ \A i \in 1 .. Len(l) : f(i) \in 1 .. Len(list) /\ l[i] = list[f(i)] /\ f(i) # k
        /\ \A i, j \in 1 .. Len(l) : f(i) = f(j) => i = j
    BY <1>1, <2>1
  <2> HIDE DEF f
  <2>3. Distinct(l)
    BY <2>2 DEF Distinct
  <2>4. \A i \in 1 .. Len(l) : l[i].name # name
    BY <2>1, <2>2 DEF Distinct
  <2>5. \A a : Once(list, a) => Once(l, a)
    BY <2>2 DEF Once
  <2>6. \A a : Among(l, a) => Among(list, a)
    BY <2>2 DEF Among
  <2> QED BY <1>1, <2>3, <2>4, <2>5, <2>6 DEF l
<1> QED BY <1>2, <1>3, WithoutFirstIs

\* With one more user of a new name.
LEMMA AppendUnique ==
  ASSUME NEW list \in Seq(Users), NEW u \in Users, Distinct(list), ByName(list, u.name) = 0
  PROVE  /\ Append(list, u) \in Seq(Users) /\ Distinct(Append(list, u))
         /\ \A i \in 1 .. Len(list) : list[i].name # u.name
         /\ \A a : Once(list, a) /\ (a = u.addr => ~Among(list, a)) => Once(Append(list, u), a)
         /\ \A a : Among(Append(list, u), a) <=> Among(list, a) \/ a = u.addr
<1>1. \A i \in 1 .. Len(list) : list[i].name # u.name
  BY ByNameIs
<1> DEFINE l == Append(list, u)
<1>2. /\ l \in Seq(Users) /\ Len(l) = Len(list) + 1 /\ Len(list) \in Nat
      /\ \A i \in 1 .. Len(list) : l[i] = list[i]
      /\ l[Len(list) + 1] = u
  BY AppendProperties, LenProperties
<1> HIDE DEF l
<1>3. \A i \in 1 .. Len(l) : i \in 1 .. Len(list) \/ i = Len(list) + 1
  BY <1>2
<1>4. Distinct(l)
  <2> SUFFICES ASSUME NEW i \in 1 .. Len(l), NEW j \in 1 .. Len(l), l[i].name = l[j].name PROVE i = j
    BY DEF Distinct
  <2> QED BY <1>1, <1>2, <1>3 DEF Distinct
<1>5. ASSUME NEW a, Once(list, a), a = u.addr => ~Among(list, a) PROVE Once(l, a)
  <2> SUFFICES ASSUME NEW i \in 1 .. Len(l), NEW j \in 1 .. Len(l), l[i].addr = a, l[j].addr = a PROVE i = j
    BY DEF Once
  <2> QED BY <1>2, <1>3, <1>5 DEF Once, Among
<1>6. ASSUME NEW a PROVE Among(l, a) <=> Among(list, a) \/ a = u.addr
  <2>1. Len(list) + 1 \in 1 .. Len(l) /\ \A i \in 1 .. Len(list) : i \in 1 .. Len(l)
    BY <1>2
  <2> QED BY <1>2, <1>3, <2>1 DEF Among
<1> QED BY <1>1, <1>2, <1>4, <1>5, <1>6 DEF l

\* To the others of a list: to those whose name is another.
LEMMA ToOthersIs ==
  ASSUME NEW list, NEW name, NEW m
  PROVE  ToOthers(list, name, m) = ToOthers_All(Chosen(list, [name : Names \ {name}, addr : Clients]), name, m)
BY DEF ToOthers, ToOthers_All

\* When nobody has the name, the others are all.
LEMMA AllOthers ==
  ASSUME NEW list \in Seq(Users), NEW name, \A i \in 1 .. Len(list) : list[i].name # name
  PROVE  Chosen(list, [name : Names \ {name}, addr : Clients]) = list
<1> DEFINE X == [name : Names \ {name}, addr : Clients]
<1>1. \A i \in 1 .. Len(list) : list[i] \in Users
  BY ElementOfSeq
<1>2. \A i \in 1 .. Len(list) : list[i] \in X
  BY <1>1 DEF Users
<1> HIDE DEF X
<1>3. Chosen(list, X) = list
  BY <1>2, ChosenAll
<1> QED BY <1>3 DEF X

\* When only the last has the name, the others are those before it.
LEMMA AllButLast ==
  ASSUME NEW list \in Seq(Users), NEW u \in Users, \A i \in 1 .. Len(list) : list[i].name # u.name
  PROVE  Chosen(Append(list, u), [name : Names \ {u.name}, addr : Clients]) = list
<1> DEFINE X == [name : Names \ {u.name}, addr : Clients]
           last == <<u>>
<1>1. Chosen(list, X) = list
  BY AllOthers
<1>2. u \notin X
  OBVIOUS
<1>3. last \in Seq(Users) /\ Len(last) = 1 /\ last[1] = u
  OBVIOUS
<1>4. Append(list, u) = list \o last
  BY AppendIsConcat
<1> HIDE DEF X, last
<1>5. Chosen(last, X) = <<>>
  BY <1>2, <1>3, ChosenNoneOf
<1>6. Chosen(list \o last, X) = Chosen(list, X) \o Chosen(last, X)
  BY <1>3, ChosenConcat
<1>7. Chosen(list \o last, X) = list
  BY <1>1, <1>5, <1>6, ConcatEmptySeq
<1> QED BY <1>4, <1>7 DEF X

\* What is said of the messages of replies: the users they are about, and that
\* none, or only the first, tells of a login accepted.
NoOk(rs) == \A i \in 1 .. Len(rs) : ~IsOk(rs[i].msg)
OkLater(rs) == \A i \in 2 .. Len(rs) : ~IsOk(rs[i].msg)
About(rs, A) == \A i \in 1 .. Len(rs) : rs[i].msg.user \in A

\* The replies to the sender before those to the others.
LEMMA RepliesConcat ==
  ASSUME NEW A, NEW rs \in Seq(Replies), NEW qs \in Seq(Replies), Len(rs) >= 1,
         OkLater(rs), NoOk(qs), About(rs, A), About(qs, A)
  PROVE  rs \o qs \in Seq(Replies) /\ OkLater(rs \o qs) /\ About(rs \o qs, A)
<1>1. /\ rs \o qs \in Seq(Replies) /\ Len(rs) \in Nat /\ Len(qs) \in Nat /\ Len(rs \o qs) = Len(rs) + Len(qs)
      /\ \A i \in 1 .. Len(rs) + Len(qs) : (rs \o qs)[i] = IF i <= Len(rs) THEN rs[i] ELSE qs[i - Len(rs)]
  BY ConcatProperties, LenProperties
<1>2. ASSUME NEW i \in 1 .. Len(rs) + Len(qs)
      PROVE  (rs \o qs)[i].msg.user \in A /\ (i >= 2 => ~IsOk((rs \o qs)[i].msg))
  <2>1. CASE i <= Len(rs)
    <3>1. i \in 1 .. Len(rs) /\ (rs \o qs)[i] = rs[i] /\ (i >= 2 => i \in 2 .. Len(rs))
      BY <1>1, <2>1
    <3> QED BY <3>1 DEF OkLater, About
  <2>2. CASE ~(i <= Len(rs))
    <3>1. i - Len(rs) \in 1 .. Len(qs) /\ (rs \o qs)[i] = qs[i - Len(rs)]
      BY <1>1, <2>2
    <3> QED BY <3>1 DEF NoOk, About
  <2> QED BY <2>1, <2>2
<1>3. \A i \in 2 .. Len(rs \o qs) : i \in 1 .. Len(rs) + Len(qs) /\ i >= 2
  BY <1>1
<1> QED BY <1>1, <1>2, <1>3 DEF OkLater, About

\* The messages to one client.
LEMMA ToIs ==
  ASSUME NEW c \in Clients, NEW msgs \in Seq(Datagrams), NEW A,
         \A i \in 1 .. Len(msgs) : msgs[i].user \in A,
         \A i \in 2 .. Len(msgs) : ~IsOk(msgs[i])
  PROVE  To(c, msgs) \in Seq(Replies) /\ Len(To(c, msgs)) = Len(msgs) /\ OkLater(To(c, msgs)) /\ About(To(c, msgs), A)
<1>1. To(c, msgs) \in Seq(Replies) /\ Len(msgs) \in Nat
  BY MailTo, LenProperties
<1>2. Len(To(c, msgs)) = Len(msgs) /\ \A i \in 1 .. Len(msgs) : To(c, msgs)[i].msg = msgs[i]
  BY <1>1 DEF To
<1>3. \A i \in 2 .. Len(msgs) : i \in 1 .. Len(msgs)
  BY <1>1
<1> QED BY <1>1, <1>2, <1>3 DEF OkLater, About

\* The same message to everyone of a list.
LEMMA ToAllIs ==
  ASSUME NEW list \in Seq(Users), NEW name, NEW m \in Datagrams, NEW A, m.user \in A, ~IsOk(m)
  PROVE  /\ ToOthers_All(list, name, m) \in Seq(Replies)
         /\ NoOk(ToOthers_All(list, name, m)) /\ OkLater(ToOthers_All(list, name, m))
         /\ About(ToOthers_All(list, name, m), A)
<1>1. ToOthers_All(list, name, m) \in Seq(Replies) /\ Len(list) \in Nat
  BY MailToAll, LenProperties
<1>2. /\ Len(ToOthers_All(list, name, m)) = Len(list)
      /\ \A i \in 1 .. Len(list) : ToOthers_All(list, name, m)[i].msg = m
  BY <1>1 DEF ToOthers_All
<1>3. \A i \in 2 .. Len(list) : i \in 1 .. Len(list)
  BY <1>1
<1> QED BY <1>1, <1>2, <1>3 DEF OkLater, NoOk, About

\* An answer with the list: a word of the server's, the count, the users.
Answer(cmd, list) == <<Message(cmd, Junk), Count(Len(list))>> \o Infos(list)

\* A list that is sent: the command, the count, and the users in their order.
LEMMA AnswerIs ==
  ASSUME Parameters, NEW cmd \in 0 .. 6, NEW list \in Seq(Users), Distinct(list)
  PROVE  /\ Answer(cmd, list) \in Seq(Datagrams) /\ Len(Answer(cmd, list)) >= 2
         /\ Answer(cmd, list) = <<Message(cmd, Junk)>> \o (<<Count(Len(list))>> \o Infos(list))
         /\ <<Count(Len(list))>> \o Infos(list) \in Seq(Datagrams)
         /\ Answer(cmd, list)[1] = Message(cmd, Junk)
         /\ \A i \in 2 .. Len(Answer(cmd, list)) : Answer(cmd, list)[i].kind # "message"
         /\ \A i \in 1 .. Len(Answer(cmd, list)) :
              \/ Answer(cmd, list)[i].user = Junk
              \/ \E j \in 1 .. Len(list) : Answer(cmd, list)[i].user = list[j]
<1> DEFINE m == Message(cmd, Junk)
           n == Count(Len(list))
           a == <<m>>
           b == <<n>>
           ab == <<m, n>>
           t == Infos(list)
<1>1. m \in Datagrams /\ m.user = Junk /\ n \in Datagrams /\ n.kind = "count" /\ n.user = Junk
  <2>1. Junk \in Users \cup {Junk} /\ Len(list) \in 0 .. Letters
    BY ShortList DEF Distinct
  <2> QED BY <2>1, MessageType, CountType
<1>2. /\ t \in Seq(Datagrams) /\ Len(t) = Len(list) /\ Len(list) \in Nat
      /\ \A i \in 1 .. Len(list) : t[i].kind = "user" /\ t[i].user = list[i]
  <2>1. \A i \in 1 .. Len(list) : list[i] \in Users
    BY ElementOfSeq
  <2>2. /\ t \in Seq(Datagrams) /\ Len(t) = Len(list) /\ Len(list) \in Nat
        /\ \A i \in 1 .. Len(list) : t[i] = Info(list[i])
    BY InfosType, LenProperties
  <2> QED BY <2>1, <2>2, InfoType
<1> HIDE DEF m, n, t
<1>3. a \in Seq(Datagrams) /\ b \in Seq(Datagrams) /\ ab \in Seq(Datagrams) /\ Len(ab) = 2 /\ ab[1] = m /\ ab[2] = n
  <2>1. a \in Seq(Datagrams) /\ b \in Seq(Datagrams) /\ ab \in Seq(Datagrams)
    BY <1>1
  <2> QED BY <2>1
<1>31. ab = a \o b
  <2> DEFINE l == a \o b
  <2>1. l \in Seq(Datagrams) /\ Len(l) = 2 /\ l[1] = m /\ l[2] = n
    BY <1>1
  <2> HIDE DEF l
  <2>2. l = ab
    BY <1>3, <2>1
  <2> QED BY <2>2 DEF l
<1> HIDE DEF a, b, ab
<1>41. a \in Seq(Datagrams) /\ b \in Seq(Datagrams) /\ ab \in Seq(Datagrams) /\ t \in Seq(Datagrams)
  BY <1>2, <1>3
<1>42. (a \o b) \o t = a \o (b \o t)
  <2> DEFINE D == Datagrams
  <2>1. a \in Seq(D) /\ b \in Seq(D) /\ t \in Seq(D)
    BY <1>41
  <2> HIDE DEF D
  <2> QED BY <2>1, ConcatAssociative
<1>4. ab \o t = a \o (b \o t)
  BY <1>31, <1>42
<1>5. b \o t \in Seq(Datagrams)
  BY <1>2, <1>3, ConcatProperties
<1>6. /\ ab \o t \in Seq(Datagrams) /\ Len(ab \o t) = 2 + Len(list)
      /\ \A i \in 1 .. 2 + Len(list) : (ab \o t)[i] = IF i <= 2 THEN ab[i] ELSE t[i - 2]
  <2>1. /\ ab \o t \in Seq(Datagrams) /\ Len(ab \o t) = Len(ab) + Len(t)
        /\ \A i \in 1 .. Len(ab) + Len(t) : (ab \o t)[i] = IF i <= Len(ab) THEN ab[i] ELSE t[i - Len(ab)]
    <3>1. ab \in Seq(Datagrams) /\ t \in Seq(Datagrams)
      BY <1>41
    <3>2. ab \o t \in Seq(Datagrams) /\ Len(ab \o t) = Len(ab) + Len(t)
      BY <3>1, ConcatProperties
    <3>3. \A i \in 1 .. Len(ab) + Len(t) : (ab \o t)[i] = IF i <= Len(ab) THEN ab[i] ELSE t[i - Len(ab)]
      BY <3>1, ConcatProperties
    <3> QED BY <3>2, <3>3
  <2>2. Len(ab) = 2 /\ Len(t) = Len(list)
    BY <1>2, <1>3
  <2> QED BY <2>1, <2>2
<1> DEFINE s == ab \o t
<1>7. /\ s[1] = m /\ s[2] = n
      /\ \A i \in 3 .. 2 + Len(list) : i - 2 \in 1 .. Len(list) /\ s[i] = t[i - 2]
  BY <1>2, <1>3, <1>6
<1>8. \A i \in 1 .. 2 + Len(list) : i = 1 \/ i = 2 \/ i \in 3 .. 2 + Len(list)
  BY <1>2
<1>9. Answer(cmd, list) = s
  BY DEF Answer, ab, t, m, n
<1>10. /\ s \in Seq(Datagrams) /\ Len(s) = 2 + Len(list) /\ Len(s) >= 2 /\ s = a \o (b \o t)
  BY <1>2, <1>4, <1>6
<1> HIDE DEF s
<1>11. \A i \in 2 .. Len(s) : s[i].kind # "message"
  <2> SUFFICES ASSUME NEW i \in 2 .. Len(s) PROVE s[i].kind # "message"
    OBVIOUS
  <2>1. i = 2 \/ i \in 3 .. 2 + Len(list)
    BY <1>2, <1>10
  <2> QED BY <1>1, <1>2, <1>7, <2>1
<1>12. \A i \in 1 .. Len(s) : s[i].user = Junk \/ \E j \in 1 .. Len(list) : s[i].user = list[j]
  <2> SUFFICES ASSUME NEW i \in 1 .. Len(s) PROVE s[i].user = Junk \/ \E j \in 1 .. Len(list) : s[i].user = list[j]
    OBVIOUS
  <2>1. i = 1 \/ i = 2 \/ i \in 3 .. 2 + Len(list)
    BY <1>2, <1>10
  <2>2. CASE i \in 3 .. 2 + Len(list)
    <3>1. i - 2 \in 1 .. Len(list) /\ s[i] = t[i - 2]
      BY <1>7, <2>2
    <3>2. s[i].user = list[i - 2]
      BY <1>2, <3>1
    <3> QED BY <3>1, <3>2
  <2>3. CASE i = 1
    BY <1>1, <1>7, <2>3
  <2>4. CASE i = 2
    BY <1>1, <1>7, <2>4
  <2> QED BY <2>1, <2>2, <2>3, <2>4
<1> QED BY <1>5, <1>7, <1>9, <1>10, <1>11, <1>12 DEF a, b, t, m, n

\* Whom the messages of an answer to u can be about.
Subjects(u, list) == {Junk, u} \cup {list[i] : i \in 1 .. Len(list)}

\* An answer with the list, to one client.
LEMMA AnswerTo ==
  ASSUME Parameters, NEW cmd \in 0 .. 6, NEW list \in Seq(Users), Distinct(list), NEW u \in Users
  PROVE  /\ To(u.addr, Answer(cmd, list)) \in Seq(Replies) /\ Len(To(u.addr, Answer(cmd, list))) >= 1
         /\ OkLater(To(u.addr, Answer(cmd, list))) /\ About(To(u.addr, Answer(cmd, list)), Subjects(u, list))
<1> DEFINE ms == Answer(cmd, list)
           A == Subjects(u, list)
           c == u.addr
<1>1. /\ ms \in Seq(Datagrams) /\ Len(ms) >= 2
      /\ \A i \in 2 .. Len(ms) : ms[i].kind # "message"
      /\ \A i \in 1 .. Len(ms) : ms[i].user = Junk \/ \E j \in 1 .. Len(list) : ms[i].user = list[j]
  BY AnswerIs
<1> HIDE DEF ms
<1>2. \A i \in 1 .. Len(ms) : ms[i].user \in A
  BY <1>1 DEF Subjects
<1>3. \A i \in 2 .. Len(ms) : ~IsOk(ms[i])
  BY <1>1 DEF IsOk
<1>4. c \in Clients
  BY UserIs
<1> HIDE DEF A, c
<1>5. To(c, ms) \in Seq(Replies) /\ Len(To(c, ms)) = Len(ms) /\ OkLater(To(c, ms)) /\ About(To(c, ms), A)
  BY <1>1, <1>2, <1>3, <1>4, ToIs
<1>6. Len(To(c, ms)) >= 1
  BY <1>1, <1>5
<1> QED BY <1>5, <1>6 DEF c, ms, A

\* What the server does with a login under a name that is free.
LEMMA LoginOk ==
  ASSUME Parameters, Types, NEW u \in Users, ByName(client_list, u.name) = 0, DoLogin(u)
  PROVE  /\ client_list' = Append(client_list, u) /\ client_list' \in Seq(Users) /\ Distinct(client_list')
         /\ replies' = To(u.addr, Answer(S2C_LOGIN_OK, client_list'))
                       \o ToOthers_All(client_list, u.name, Message(S2C_SOMEONE_LOGIN, u))
         /\ replies' \in Seq(Replies) /\ OkLater(replies') /\ About(replies', Subjects(u, client_list'))
<1> DEFINE m == Message(S2C_SOMEONE_LOGIN, u)
           X == [name : Names \ {u.name}, addr : Clients]
           l == client_list
           k == Append(l, u)
           rs == To(u.addr, Answer(S2C_LOGIN_OK, k))
           qs == ToOthers_All(l, u.name, m)
           A == Subjects(u, k)
<1>1. l \in Seq(Users) /\ Distinct(l) /\ u \in Users \cup {Junk}
  BY TypesGive DEF Distinct
<1>2. k \in Seq(Users) /\ Distinct(k) /\ \A i \in 1 .. Len(l) : l[i].name # u.name
  BY <1>1, AppendUnique
<1>3. Chosen(k, X) = l
  BY <1>1, <1>2, AllButLast
<1>4. ToOthers(k, u.name, m) = ToOthers_All(Chosen(k, X), u.name, m)
  BY ToOthersIs
<1>5. client_list' = k /\ replies' = rs \o ToOthers(k, u.name, m)
  BY DEF DoLogin, Answer
<1>6. m \in Datagrams /\ m.user = u /\ ~IsOk(m)
  <2>1. S2C_SOMEONE_LOGIN \in 0 .. 6 /\ S2C_SOMEONE_LOGIN # S2C_LOGIN_OK
    BY DEF S2C_SOMEONE_LOGIN, S2C_LOGIN_OK
  <2> QED BY <1>1, <2>1, MessageType DEF IsOk
<1>7. S2C_LOGIN_OK \in 0 .. 6
  BY DEF S2C_LOGIN_OK
<1> HIDE DEF k, m, X
<1>8. rs \in Seq(Replies) /\ Len(rs) >= 1 /\ OkLater(rs) /\ About(rs, A)
  BY <1>2, <1>7, AnswerTo
<1>9. u \in A
  BY DEF Subjects
<1> HIDE DEF A
<1>10. qs \in Seq(Replies) /\ NoOk(qs) /\ About(qs, A)
  BY <1>1, <1>6, <1>9, ToAllIs
<1> HIDE DEF rs, qs
<1>11. rs \o qs \in Seq(Replies) /\ OkLater(rs \o qs) /\ About(rs \o qs, A)
  BY <1>8, <1>10, RepliesConcat
<1>12. replies' = rs \o qs
  BY <1>3, <1>4, <1>5 DEF qs
<1>13. client_list' = k /\ k \in Seq(Users) /\ Distinct(k)
  BY <1>2, <1>5
<1> QED BY <1>11, <1>12, <1>13 DEF rs, qs, m, k, A

\* With one under a name that is taken.
LEMMA LoginNot ==
  ASSUME Parameters, Types, NEW u \in Users, ByName(client_list, u.name) # 0, DoLogin(u)
  PROVE  /\ client_list' = client_list
         /\ replies' = To(u.addr, <<Message(S2C_ALREADY_LOGINED, Junk)>>)
         /\ Message(S2C_ALREADY_LOGINED, Junk) \in Datagrams
         /\ replies' \in Seq(Replies) /\ OkLater(replies') /\ About(replies', {Junk})
<1> DEFINE m == Message(S2C_ALREADY_LOGINED, Junk)
           ms == <<m>>
           A == {Junk}
           c == u.addr
<1>1. client_list' = client_list /\ replies' = To(c, ms)
  BY DEF DoLogin
<1>2. m \in Datagrams /\ m.user = Junk
  <2>1. Junk \in Users \cup {Junk} /\ S2C_ALREADY_LOGINED \in 0 .. 6
    BY DEF S2C_ALREADY_LOGINED
  <2> QED BY <2>1, MessageType
<1>3. Junk \in A
  OBVIOUS
<1>4. c \in Clients
  BY UserIs
<1> HIDE DEF m, A, c
<1>5. ms \in Seq(Datagrams) /\ Len(ms) = 1 /\ ms[1] = m
  BY <1>2
<1> HIDE DEF ms
<1>6. \A i \in 1 .. Len(ms) : ms[i].user \in A
  BY <1>2, <1>3, <1>5
<1>7. \A i \in 2 .. Len(ms) : ~IsOk(ms[i])
  BY <1>5
<1>8. To(c, ms) \in Seq(Replies) /\ OkLater(To(c, ms)) /\ About(To(c, ms), A)
  BY <1>4, <1>5, <1>6, <1>7, ToIs
<1> QED BY <1>1, <1>2, <1>8 DEF A, ms, m, c

\* With a logout.
LEMMA LogoutIs ==
  ASSUME Parameters, Types, NEW u \in Users, DoLogout(u)
  PROVE  /\ client_list' = WithoutFirst(client_list, u.name) /\ client_list' \in Seq(Users) /\ Distinct(client_list')
         /\ Message(S2C_SOMEONE_LOGOUT, u) \in Datagrams
         /\ replies' = ToOthers_All(client_list', u.name, Message(S2C_SOMEONE_LOGOUT, u))
         /\ replies' \in Seq(Replies) /\ OkLater(replies') /\ About(replies', Subjects(u, client_list'))
<1> DEFINE m == Message(S2C_SOMEONE_LOGOUT, u)
           X == [name : Names \ {u.name}, addr : Clients]
           k == WithoutFirst(client_list, u.name)
           A == Subjects(u, k)
<1>1. client_list \in Seq(Users) /\ Distinct(client_list) /\ u \in Users \cup {Junk}
  BY TypesGive DEF Distinct
<1>2. k \in Seq(Users) /\ Distinct(k) /\ \A i \in 1 .. Len(k) : k[i].name # u.name
  BY <1>1, WithoutUnique
<1>3. client_list' = k /\ replies' = ToOthers(k, u.name, m)
  BY DEF DoLogout
<1> HIDE DEF k
<1>4. Chosen(k, X) = k
  BY <1>2, AllOthers
<1>5. ToOthers(k, u.name, m) = ToOthers_All(Chosen(k, X), u.name, m)
  BY ToOthersIs
<1>6. m \in Datagrams /\ m.user = u /\ ~IsOk(m)
  <2>1. S2C_SOMEONE_LOGOUT \in 0 .. 6 /\ S2C_SOMEONE_LOGOUT # S2C_LOGIN_OK
    BY DEF S2C_SOMEONE_LOGOUT, S2C_LOGIN_OK
  <2> QED BY <1>1, <2>1, MessageType DEF IsOk
<1>7. u \in A
  BY DEF Subjects
<1> HIDE DEF A, m, X
<1>8. /\ ToOthers_All(k, u.name, m) \in Seq(Replies) /\ OkLater(ToOthers_All(k, u.name, m))
      /\ About(ToOthers_All(k, u.name, m), A)
  BY <1>2, <1>6, <1>7, ToAllIs
<1>9. replies' = ToOthers_All(k, u.name, m)
  BY <1>3, <1>4, <1>5
<1> QED BY <1>2, <1>3, <1>6, <1>8, <1>9 DEF m, k, A

\* With a request for the list.
LEMMA SendListIs ==
  ASSUME Parameters, Types, NEW u \in Users, DoSendList(u)
  PROVE  /\ client_list' = client_list
         /\ replies' = To(u.addr, Answer(S2C_ONLINE_USER, client_list))
         /\ replies' \in Seq(Replies) /\ OkLater(replies') /\ About(replies', Subjects(u, client_list'))
<1>1. client_list' = client_list /\ replies' = To(u.addr, Answer(S2C_ONLINE_USER, client_list))
  BY DEF DoSendList, Answer
<1>2. client_list \in Seq(Users) /\ Distinct(client_list) /\ S2C_ONLINE_USER \in 0 .. 6
  BY TypesGive DEF Distinct, S2C_ONLINE_USER
<1>3. /\ To(u.addr, Answer(S2C_ONLINE_USER, client_list)) \in Seq(Replies)
      /\ OkLater(To(u.addr, Answer(S2C_ONLINE_USER, client_list)))
      /\ About(To(u.addr, Answer(S2C_ONLINE_USER, client_list)), Subjects(u, client_list))
  BY <1>2, AnswerTo
<1> QED BY <1>1, <1>3

\* The server takes its first request.
LEMMA TakesRequest ==
  ASSUME Parameters, Types, ChatSrv
  PROVE  /\ replies = <<>> /\ Requests # <<>> /\ Head(Requests) \in Datagrams
         /\ Head(Requests).user \in Users /\ Requests' = Tail(Requests)
         /\ inbox' \in [Boxes -> Seq(Datagrams)] /\ \A a \in Boxes : Len(inbox'[a]) <= Buffer
         /\ \A a \in Clients : inbox'[a] = inbox[a]
         /\ UNCHANGED <<cli, requests, spoilt>>
         /\ \/ Head(Requests).word = C2S_LOGIN /\ DoLogin(Head(Requests).user)
            \/ Head(Requests).word = C2S_LOGOUT /\ DoLogout(Head(Requests).user)
            \/ Head(Requests).word = C2S_ONLINE_USER /\ DoSendList(Head(Requests).user)
<1>1. /\ replies = <<>> /\ inbox[Server] # <<>> /\ inbox' = [inbox EXCEPT ![Server] = Tail(@)]
      /\ UNCHANGED <<cli, requests, spoilt>>
      /\ \/ Head(inbox[Server]).word = C2S_LOGIN /\ DoLogin(Head(inbox[Server]).user)
         \/ Head(inbox[Server]).word = C2S_LOGOUT /\ DoLogout(Head(inbox[Server]).user)
         \/ Head(inbox[Server]).word = C2S_ONLINE_USER /\ DoSendList(Head(inbox[Server]).user)
  BY DEF ChatSrv
<1>2. /\ inbox \in [Boxes -> Seq(Datagrams)] /\ \A a \in Boxes : Len(inbox[a]) <= Buffer
      /\ \A i \in 1 .. Len(Requests) : Requests[i].user \in Users
      /\ Server \in Boxes /\ Clients \subseteq Boxes /\ Server \notin Clients
  BY TypesGive, TypesAre DEF Types
<1>3. inbox[Server] \in Seq(Datagrams)
  BY <1>2
<1>4. /\ Tail(inbox[Server]) \in Seq(Datagrams) /\ Head(inbox[Server]) \in Datagrams
      /\ Head(inbox[Server]) = inbox[Server][1] /\ Len(inbox[Server]) \in Nat \ {0}
      /\ Len(Tail(inbox[Server])) = Len(inbox[Server]) - 1
  BY <1>1, <1>3, HeadThenTail
<1> DEFINE t == Tail(inbox[Server])
           h == Head(inbox[Server])
<1>5. h.user \in Users
  BY <1>2, <1>4 DEF Requests
<1> HIDE DEF t, h
<1>6. inbox' = [inbox EXCEPT ![Server] = t] /\ t \in Seq(Datagrams)
  BY <1>1, <1>4 DEF t
<1>7. /\ inbox' \in [Boxes -> Seq(Datagrams)] /\ inbox'[Server] = t
      /\ \A a \in Boxes \ {Server} : inbox'[a] = inbox[a]
  BY <1>2, <1>6
<1>8. Len(t) <= Buffer
  <2>1. Len(inbox[Server]) <= Buffer /\ Len(t) = Len(inbox[Server]) - 1 /\ Len(inbox[Server]) \in Nat /\ Buffer \in Nat
    BY <1>2, <1>4 DEF t, Parameters
  <2> QED BY <2>1
<1>9. \A a \in Boxes : Len(inbox'[a]) <= Buffer
  BY <1>2, <1>7, <1>8
<1>10. \A a \in Clients : inbox'[a] = inbox[a]
  BY <1>2, <1>7
<1>11. Requests = inbox[Server] /\ Requests' = inbox'[Server]
  BY DEF Requests
<1> QED BY <1>1, <1>4, <1>5, <1>7, <1>9, <1>10, <1>11 DEF t, h

\* What every answer has in common.
LEMMA Answers ==
  ASSUME Parameters, Types, ChatSrv
  PROVE  /\ client_list' \in Seq(Users) /\ Distinct(client_list')
         /\ replies' \in Seq(Replies) /\ OkLater(replies')
         /\ About(replies', Subjects(Head(Requests).user, client_list'))
<1> DEFINE u == Head(Requests).user
<1>1. u \in Users /\ (DoLogin(u) \/ DoLogout(u) \/ DoSendList(u))
  BY TakesRequest
<1>2. client_list \in Seq(Users) /\ Distinct(client_list)
  BY TypesGive DEF Distinct
<1> HIDE DEF u
<1>3. CASE DoLogin(u) /\ ByName(client_list, u.name) = 0
  <2>1. client_list' \in Seq(Users) /\ Distinct(client_list') /\ replies' \in Seq(Replies) /\ OkLater(replies')
        /\ About(replies', Subjects(u, client_list'))
    BY <1>1, <1>3, LoginOk
  <2> QED BY <2>1 DEF u
<1>4. CASE DoLogin(u) /\ ByName(client_list, u.name) # 0
  <2>1. client_list' = client_list /\ replies' \in Seq(Replies) /\ OkLater(replies') /\ About(replies', {Junk})
    BY <1>1, <1>4, LoginNot
  <2>2. About(replies', Subjects(u, client_list'))
    BY <2>1 DEF About, Subjects
  <2> QED BY <1>2, <2>1, <2>2 DEF u
<1>5. CASE DoLogout(u)
  <2>1. client_list' \in Seq(Users) /\ Distinct(client_list') /\ replies' \in Seq(Replies) /\ OkLater(replies')
        /\ About(replies', Subjects(u, client_list'))
    BY <1>1, <1>5, LogoutIs
  <2> QED BY <2>1 DEF u
<1>6. CASE DoSendList(u)
  <2>1. client_list' = client_list /\ replies' \in Seq(Replies) /\ OkLater(replies')
        /\ About(replies', Subjects(u, client_list'))
    BY <1>1, <1>6, SendListIs
  <2> QED BY <1>2, <2>1 DEF u
<1> QED BY <1>1, <1>3, <1>4, <1>5, <1>6

\* A request answered.
LEMMA TypesChatSrv ==
  ASSUME Parameters, Types, ChatSrv
  PROVE  Types'
<1>1. /\ client_list' \in Seq(Users) /\ Distinct(client_list') /\ replies' \in Seq(Replies)
  BY Answers
<1>2. /\ Requests # <<>> /\ Requests' = Tail(Requests)
      /\ inbox' \in [Boxes -> Seq(Datagrams)] /\ \A a \in Boxes : Len(inbox'[a]) <= Buffer
      /\ UNCHANGED <<cli, requests, spoilt>>
  BY TakesRequest
<1>3. /\ cli \in [Clients -> ClientStates] /\ \A c \in Clients : Named(cli[c])
      /\ requests \in 0 .. MaxRequests /\ spoilt \subseteq Clients
      /\ \A i \in 1 .. Len(Requests) : Requests[i].user \in Users
      /\ inbox \in [Boxes -> Seq(Datagrams)] /\ Server \in Boxes
  BY TypesGive, TypesAre
<1>4. Requests \in Seq(Datagrams)
  BY <1>3 DEF Requests
<1>5. /\ Len(Requests) \in Nat \ {0} /\ Len(Tail(Requests)) = Len(Requests) - 1
      /\ \A i \in 1 .. Len(Requests) - 1 : Tail(Requests)[i] = Requests[i + 1]
  BY <1>2, <1>4, HeadThenTail
<1>6. \A i \in 1 .. Len(Requests') : Requests'[i].user \in Users
  <2> DEFINE t == Tail(Requests)
             s == Requests
  <2>1. /\ Requests' = t /\ Len(s) \in Nat \ {0} /\ Len(t) = Len(s) - 1
        /\ \A i \in 1 .. Len(s) - 1 : t[i] = s[i + 1]
        /\ \A i \in 1 .. Len(s) : s[i].user \in Users
    BY <1>2, <1>3, <1>5
  <2> HIDE DEF t, s
  <2>2. \A i \in 1 .. Len(t) : t[i].user \in Users
    BY <2>1
  <2> QED BY <2>1, <2>2
<1>7. \A i, j \in 1 .. Len(client_list') : client_list'[i].name = client_list'[j].name => i = j
  BY <1>1 DEF Distinct
<1>8. cli' = cli /\ requests' = requests /\ spoilt' = spoilt
  BY <1>2
<1> QED BY <1>1, <1>2, <1>3, <1>6, <1>7, <1>8, TypesFrom

\* A step of nobody.
LEMMA TypesStay ==
  ASSUME Types, UNCHANGED vars
  PROVE  Types'
BY DEF Types, TypeOK, Course, Requests, vars, serverVars

\* Each step keeps the types.
LEMMA TypesNext ==
  ASSUME Parameters, Types, [Next]_vars
  PROVE  Types'
<1>1. ASSUME NEW c \in Clients, Receive(c) PROVE Types'
  BY <1>1, TypesReceive
<1>2. ASSUME NEW c \in Clients, User(c) PROVE Types'
  <2>1. ASSUME NEW name \in Names, Login(c, name) PROVE Types'
    BY <2>1, TypesLogin
  <2>2. ASSUME NEW name \in Names, SendMsgTo(c, name) PROVE Types'
    BY <2>2, TypesSendMsg
  <2>3. CASE List(c)
    BY <2>3, TypesList
  <2>4. CASE Exit(c)
    BY <2>4, TypesExit
  <2>5. CASE Killed(c)
    BY <2>5, TypesKilled
  <2> QED BY <1>2, <2>1, <2>2, <2>3, <2>4, <2>5 DEF User
<1>3. CASE ChatSrv
  BY <1>3, TypesChatSrv
<1>4. CASE SendReply
  BY <1>4, TypesSendReply
<1>5. CASE UNCHANGED vars
  BY <1>5, TypesStay
<1> QED BY <1>1, <1>2, <1>3, <1>4, <1>5 DEF Next

\* Every variable keeps its type.
THEOREM TypeCorrect == ASSUME Parameters PROVE Spec => []TypeOK
<1>1. Init => Types
  BY TypesInit
<1>2. Types /\ [Next]_vars => Types'
  BY TypesNext
<1>3. Types => TypeOK
  BY DEF Types
<1> QED BY <1>1, <1>2, <1>3, PTL DEF Spec

-----------------------------------------------------------------------------
(* A reply accepts a login only when it is the first to its request.       *)

\* Sending takes the first reply; only the answer to a login, which is its first,
\* accepts.
LEMMA OkFirstNext ==
  ASSUME Parameters, Types, OkFirst, [Next]_vars
  PROVE  OkFirst'
<1>1. CASE replies' = replies
  BY <1>1 DEF OkFirst
<1>2. CASE SendReply
  <2>1. replies # <<>> /\ replies' = Tail(replies) /\ replies \in Seq(Replies)
    BY <1>2, TypesGive DEF SendReply
  <2> DEFINE t == Tail(replies)
  <2>2. Len(replies) \in Nat \ {0} /\ Len(t) = Len(replies) - 1 /\ \A i \in 1 .. Len(replies) - 1 : t[i] = replies[i + 1]
    BY <2>1, HeadThenTail
  <2> HIDE DEF t
  <2>3. \A i \in 2 .. Len(t) : i \in 1 .. Len(replies) - 1 /\ i + 1 \in 2 .. Len(replies)
    BY <2>2
  <2>4. \A i \in 2 .. Len(t) : ~IsOk(t[i].msg)
    BY <2>2, <2>3 DEF OkFirst
  <2> QED BY <2>1, <2>4 DEF OkFirst, t, IsOk
<1>3. CASE ChatSrv
  BY <1>3, Answers DEF OkFirst, OkLater, IsOk
<1> QED BY <1>1, <1>2, <1>3
  DEF Next, User, Receive, Login, List, SendMsgTo, Exit, Killed, serverVars, vars

-----------------------------------------------------------------------------
(* What a client's agreement depends on.                                   *)

\* What a client has still to read is its box, then what the server holds for it.
LEMMA QueuedIs ==
  ASSUME Parameters, TypeOK, NEW a \in Clients
  PROVE  /\ inbox[a] \in Seq(Datagrams) /\ PendingFor(a) \in Seq(Datagrams) /\ Queued(a) \in Seq(Datagrams)
         /\ cli[a] \in States /\ ReadAll(cli[a], inbox[a]) \in States /\ ReadAll(cli[a], Queued(a)) \in States
         /\ ReadAll(cli[a], Queued(a)) = ReadAll(ReadAll(cli[a], inbox[a]), PendingFor(a))
<1>1. inbox[a] \in Seq(Datagrams) /\ cli[a] \in States /\ replies \in Seq(Replies)
  BY TypesAre
<1>2. Mail(replies, a) \in Seq(Datagrams)
  BY <1>1, MailType
<1>3. PendingFor(a) \in Seq(Datagrams)
  BY <1>2, PendingIsMail
<1>4. Queued(a) \in Seq(Datagrams)
  BY <1>1, <1>3, ConcatProperties DEF Queued
<1>5. ReadAll(cli[a], inbox[a]) \in States /\ ReadAll(cli[a], Queued(a)) \in States
  BY <1>1, <1>4, ReadType
<1>6. ReadAll(cli[a], inbox[a] \o PendingFor(a)) = ReadAll(ReadAll(cli[a], inbox[a]), PendingFor(a))
  BY <1>1, <1>3, ReadConcat
<1> QED BY <1>1, <1>3, <1>4, <1>5, <1>6 DEF Queued

\* A client at its prompt, or gone, reads nothing.
LEMMA ReadStay ==
  ASSUME Parameters, NEW c \in States, c.at \in {"name", "gone"}, NEW s \in Seq(Datagrams)
  PROVE  ReadAll(c, s) = c
<1> DEFINE g == [i \in 0 .. Len(s) |-> c]
<1>1. Len(s) \in Nat /\ \A m : Reads(c, m) = c
  BY LenProperties, ReadsStay
<1>2. g[0] = c /\ g[Len(s)] = c /\ \A i \in 1 .. Len(s) : g[i] = c /\ g[i - 1] = c
  BY <1>1
<1> HIDE DEF g
<1>3. \A i \in 1 .. Len(s) : g[i] = Reads(g[i - 1], s[i])
  BY <1>1, <1>2
<1>4. ReadAll(c, s) = g[Len(s)]
  BY <1>2, <1>3, ReadRun
<1> QED BY <1>2, <1>4

\* Its requests wait where they were.
SameFrom(a) == From(a)' = From(a) /\ \A i \in From(a) : Requests'[i] = Requests[i]

\* A client that has done nothing stays fresh while nobody hears of it.
LEMMA KeepFresh ==
  ASSUME NEW a, Fresh(a), cli'[a].at = cli[a].at, Queued(a)' = Queued(a), SameFrom(a), ~Heard(a)'
  PROVE  Fresh(a)'
BY DEF Fresh, SameFrom, Message, Junk

\* A settled client stays so as long as it reads the same.
LEMMA StaysSettled ==
  ASSUME NEW a, Settled(a), ReadAll(cli[a], Queued(a))' = ReadAll(cli[a], Queued(a)),
         ReadAll(cli[a], inbox[a])' = ReadAll(cli[a], inbox[a]), PendingFor(a)' = PendingFor(a),
         client_list' = client_list, \A i \in From(a)' : Requests'[i].word # C2S_LOGIN,
         PendingFor(a) # <<>> /\ IsOk(PendingFor(a)[1]) => (Told(a)' => Told(a))
  PROVE  Settled(a)'
<1>1. LoggedIn' = LoggedIn
  BY DEF LoggedIn
<1> DEFINE r == ReadAll(cli[a], Queued(a))
           b == ReadAll(cli[a], inbox[a])
<1>2. ReadAll(cli[a], Queued(a))' = r /\ ReadAll(cli[a], inbox[a])' = b
  OBVIOUS
<1> HIDE DEF r, b
<1>3. r.at = "main"
  BY DEF Settled, r
<1>4. a \in LoggedIn => r.users = client_list
  BY DEF Settled, r
<1>5. \A i, j \in 1 .. Len(client_list) : client_list[i].addr = a /\ client_list[j].addr = a => i = j
  BY DEF Settled
<1>7. (PendingFor(a) # <<>> /\ PendingFor(a)[1].kind = "message") =>
        b.at = "main" \/ (IsOk(PendingFor(a)[1]) /\ ~Told(a))
  BY Zenon DEF Settled, b
<1>8. \A i \in 2 .. Len(PendingFor(a)) : PendingFor(a)[i].kind # "message"
  BY DEF Settled
<1>10. (PendingFor(a)' # <<>> /\ PendingFor(a)'[1].kind = "message") =>
        b.at = "main" \/ (IsOk(PendingFor(a)'[1]) /\ ~Told(a)')
  <2> SUFFICES ASSUME PendingFor(a) # <<>>, PendingFor(a)[1].kind = "message", b.at # "main"
               PROVE  IsOk(PendingFor(a)[1]) /\ ~Told(a)'
    OBVIOUS
  <2>1. IsOk(PendingFor(a)[1]) /\ ~Told(a)
    BY <1>7, Zenon
  <2> QED BY <2>1, Zenon
<1>11. \A i \in 2 .. Len(PendingFor(a)') : PendingFor(a)'[i].kind # "message"
  BY <1>8
<1> QED BY <1>1, <1>2, <1>3, <1>4, <1>5, <1>10, <1>11 DEF Settled, IsOk, C2S_LOGIN, S2C_LOGIN_OK

\* A settled client stays so when the requests stay too.
LEMMA ReadSettled ==
  ASSUME NEW a, Settled(a), ReadAll(cli[a], Queued(a))' = ReadAll(cli[a], Queued(a)),
         ReadAll(cli[a], inbox[a])' = ReadAll(cli[a], inbox[a]), PendingFor(a)' = PendingFor(a),
         client_list' = client_list, SameFrom(a),
         PendingFor(a) # <<>> /\ IsOk(PendingFor(a)[1]) => (Told(a)' => Told(a))
  PROVE  Settled(a)'
<1>1. \A i \in From(a) : Requests[i].word # C2S_LOGIN
  BY DEF Settled
<1>2. \A i \in From(a)' : Requests'[i].word # C2S_LOGIN
  BY <1>1 DEF SameFrom
<1> QED BY <1>2, StaysSettled

\* And when requests come, if none is its login.
LEMMA RequestSettled ==
  ASSUME NEW a, Settled(a), cli'[a] = cli[a], inbox'[a] = inbox[a], PendingFor(a)' = PendingFor(a),
         client_list' = client_list, \A i \in From(a)' : Requests'[i].word # C2S_LOGIN,
         Told(a)' => Told(a)
  PROVE  Settled(a)'
<1>1. Queued(a)' = Queued(a)
  BY DEF Queued
<1>2. ReadAll(cli[a], Queued(a))' = ReadAll(cli[a], Queued(a)) /\ ReadAll(cli[a], inbox[a])' = ReadAll(cli[a], inbox[a])
  BY <1>1
<1> QED BY <1>2, StaysSettled

\* And when what it reads, and reads from, is not touched.
LEMMA KeepSettled ==
  ASSUME NEW a, Settled(a), cli'[a] = cli[a], inbox'[a] = inbox[a], PendingFor(a)' = PendingFor(a),
         client_list' = client_list, SameFrom(a),
         PendingFor(a) # <<>> /\ IsOk(PendingFor(a)[1]) => (Told(a)' => Told(a))
  PROVE  Settled(a)'
<1>1. Queued(a)' = Queued(a)
  BY DEF Queued
<1>2. ReadAll(cli[a], Queued(a))' = ReadAll(cli[a], Queued(a)) /\ ReadAll(cli[a], inbox[a])' = ReadAll(cli[a], inbox[a])
  BY <1>1
<1> QED BY <1>2, ReadSettled

\* The same requests are the same of everyone.
LEMMA SameRequests ==
  ASSUME Requests' = Requests, NEW a
  PROVE  SameFrom(a)
BY DEF SameFrom, From

\* One more request, and not a's.
LEMMA OtherRequest ==
  ASSUME Parameters, TypeOK, NEW m \in Datagrams, Requests' = Sent(m, Server)[Server], NEW a, m.user.addr # a
  PROVE  SameFrom(a)
<1> DEFINE s == Requests
           t == Sent(m, Server)[Server]
<1>1. \/ t = s
      \/ /\ Len(t) = Len(s) + 1 /\ Len(s) \in Nat
         /\ \A i \in 1 .. Len(s) : t[i] = s[i]
         /\ t[Len(s) + 1] = m
  BY SentRequest DEF Requests
<1>2. Requests' = t
  OBVIOUS
<1> HIDE DEF s, t
<1>3. {i \in 1 .. Len(t) : t[i].user.addr = a} = {i \in 1 .. Len(s) : s[i].user.addr = a}
  BY <1>1
<1>4. \A i \in 1 .. Len(s) : t[i] = s[i]
  BY <1>1
<1>5. From(a)' = {i \in 1 .. Len(t) : t[i].user.addr = a} /\ From(a) = {i \in 1 .. Len(s) : s[i].user.addr = a}
  BY <1>2 DEF From, s
<1> QED BY <1>2, <1>3, <1>4, <1>5 DEF SameFrom, s

\* Who is known to fewer is told to no more.
LEMMA KnowsLess ==
  ASSUME NEW a, \A c \in Clients : Knows(c, a)' => Knows(c, a)
  PROVE  Told(a)' => Told(a)
BY DEF Told

\* A client whose list and box stay knows whom it knew.
LEMMA KnowsSame ==
  ASSUME NEW a, NEW c, cli'[c].users = cli[c].users, inbox'[c] = inbox[c]
  PROVE  Knows(c, a)' = Knows(c, a)
BY DEF Knows

\* With the server's list and replies as they were, only what clients know counts.
LEMMA HeardLess ==
  ASSUME NEW a, Told(a)' => Told(a), client_list' = client_list, replies' = replies, ~Heard(a)
  PROVE  ~Heard(a)'
BY DEF Heard, LoggedIn

\* Mail is a matter of the replies alone.
LEMMA PendingSame == ASSUME NEW a, replies' = replies PROVE PendingFor(a)' = PendingFor(a)
BY DEF PendingFor, Datagrams, Letters, Users, Junk

\* The invariant of one client.
Agrees(a) == Fresh(a) \/ Settled(a)

-----------------------------------------------------------------------------
(* A client reads its next datagram.                                       *)

\* Whom a client knows after a datagram: whom it knew, and whom that is about.
LEMMA ReadsKnows ==
  ASSUME Parameters, NEW c \in States, NEW m \in Datagrams, NEW a \in Clients,
         NEW i \in 1 .. Len(Reads(c, m).users), Reads(c, m).users[i].addr = a
  PROVE  (\E j \in 1 .. Len(c.users) : c.users[j].addr = a) \/ m.user.addr = a
<1> DEFINE l == c.users
           d == Reads(c, m)
           R == Users \cup {Junk}
<1>1. l \in Seq(R) /\ m.user \in R /\ c.at \in {"name", "wait", "count", "users", "main", "gone"} /\ Junk \in R
  BY ClientIs, DatagramIs
<1>2. Junk.addr # a
  BY JunkIs
<1> HIDE DEF l, R
<1>3. Len(l) \in Nat
  BY <1>1, LenProperties
<1>4. d.users = l \/ d.users = <<>> \/ d.users = Append(l, m.user) \/ d.users = Append(l, Junk)
      \/ d.users = WithoutFirst(l, m.user.name)
  <2>1. CASE c.at \in {"name", "gone"}
    <3>1. d = c
      BY <2>1, ReadsStay
    <3> QED BY <3>1 DEF l
  <2>2. CASE c.at = "wait"
    <3>1. d = Client(IF m.word = S2C_LOGIN_OK THEN "count" ELSE "name", c.name, c.n, c.users)
      BY <2>2, ReadsWait
    <3> QED BY <3>1, ClientFields DEF l
  <2>3. CASE c.at = "count"
    <3>1. d = Client(IF m.word = 0 THEN "main" ELSE "users", c.name, m.word, <<>>)
      BY <2>3, ReadsCount
    <3> QED BY <3>1, ClientFields
  <2>4. CASE c.at = "users"
    <3> DEFINE k == Append(c.users, IF m.kind = "user" THEN m.user ELSE Junk)
    <3>1. d = Client(IF c.n = 1 THEN "main" ELSE "users", c.name, IF c.n = Letters THEN c.n ELSE c.n - 1, k)
      BY <2>4, ReadsUsers
    <3>2. k = Append(l, m.user) \/ k = Append(l, Junk)
      BY DEF l
    <3> HIDE DEF k
    <3>3. d.users = k
      BY <3>1, ClientFields
    <3> QED BY <3>2, <3>3
  <2>5. CASE c.at = "main"
    <3>1. d = Client(IF m.word = S2C_ONLINE_USER THEN "count" ELSE "main", c.name, c.n,
                     IF m.word = S2C_SOMEONE_LOGIN THEN Append(c.users, m.user)
                     ELSE IF m.word = S2C_SOMEONE_LOGOUT THEN WithoutFirst(c.users, m.user.name)
                     ELSE c.users)
      BY <2>5, ReadsMain
    <3>2. d.users = IF m.word = S2C_SOMEONE_LOGIN THEN Append(l, m.user)
                    ELSE IF m.word = S2C_SOMEONE_LOGOUT THEN WithoutFirst(l, m.user.name)
                    ELSE l
      BY <3>1, ClientFields DEF l
    <3> QED BY <3>2
  <2> QED BY <1>1, <2>1, <2>2, <2>3, <2>4, <2>5
<1>5. i \in 1 .. Len(d.users) /\ d.users[i].addr = a
  OBVIOUS
<1> HIDE DEF d
<1>6. CASE d.users = l
  BY <1>5, <1>6 DEF l
<1>7. CASE d.users = <<>>
  BY <1>5, <1>7
<1>8. ASSUME NEW u \in R, d.users = Append(l, u)
      PROVE  (\E j \in 1 .. Len(l) : l[j].addr = a) \/ u.addr = a
  <2>1. Len(Append(l, u)) = Len(l) + 1 /\ Append(l, u)[Len(l) + 1] = u
        /\ \A j \in 1 .. Len(l) : Append(l, u)[j] = l[j]
    BY <1>1, <1>8, AppendProperties
  <2>2. i \in 1 .. Len(l) \/ i = Len(l) + 1
    BY <1>3, <1>5, <1>8, <2>1
  <2> QED BY <1>5, <1>8, <2>1, <2>2
<1>9. CASE d.users = WithoutFirst(l, m.user.name)
  <2> DEFINE w == WithoutFirst(l, m.user.name)
  <2>1. \/ w = l
        \/ \E k \in 1 .. Len(l) :
             /\ Len(w) = Len(l) - 1
             /\ \A j \in 1 .. Len(l) - 1 : w[j] = IF j < k THEN l[j] ELSE l[j + 1]
    BY <1>1, WithoutFirstIs
  <2>2. d.users = w
    BY <1>9
  <2> HIDE DEF w
  <2>3. CASE w = l
    BY <1>5, <2>2, <2>3 DEF l
  <2>4. ASSUME NEW k \in 1 .. Len(l), Len(w) = Len(l) - 1,
               \A j \in 1 .. Len(l) - 1 : w[j] = IF j < k THEN l[j] ELSE l[j + 1]
        PROVE  \E j \in 1 .. Len(l) : l[j].addr = a
    <3>1. i \in 1 .. Len(l) - 1 /\ i \in 1 .. Len(l) /\ i + 1 \in 1 .. Len(l) /\ w[i].addr = a
      BY <1>3, <1>5, <2>2, <2>4
    <3>2. w[i] = l[i] \/ w[i] = l[i + 1]
      BY <2>4, <3>1
    <3> QED BY <3>1, <3>2
  <2> QED BY <2>1, <2>3, <2>4 DEF l
<1>10. CASE d.users = Append(l, m.user)
  <2>1. (\E j \in 1 .. Len(l) : l[j].addr = a) \/ m.user.addr = a
    BY <1>1, <1>8, <1>10
  <2> QED BY <2>1 DEF l
<1>11. CASE d.users = Append(l, Junk)
  <2>1. \E j \in 1 .. Len(l) : l[j].addr = a
    BY <1>1, <1>2, <1>8, <1>11
  <2> QED BY <2>1 DEF l
<1> QED BY <1>4, <1>6, <1>7, <1>9, <1>10, <1>11

\* The client reads m, and leaves the rest.
Reading(c, m, rest) ==
  /\ inbox[c] = <<m>> \o rest /\ inbox[c] # <<>> /\ m = inbox[c][1] /\ Len(inbox[c]) \in Nat \ {0}
  /\ Len(rest) = Len(inbox[c]) - 1 /\ \A i \in 1 .. Len(inbox[c]) - 1 : rest[i] = inbox[c][i + 1]
  /\ inbox'[c] = rest /\ cli'[c] = Reads(cli[c], m) /\ Requests' = Requests
  /\ \A d \in Clients \ {c} : cli'[d] = cli[d] /\ inbox'[d] = inbox[d]
  /\ UNCHANGED <<client_list, replies, spoilt>>

\* Receive moves one datagram from the box into the client's state.
LEMMA ReceiveIs ==
  ASSUME Parameters, Types, NEW c \in Clients, Receive(c)
  PROVE  \E m \in Datagrams : \E rest \in Seq(Datagrams) : Reading(c, m, rest)
<1> DEFINE m == Head(inbox[c])
           rest == Tail(inbox[c])
<1>1. /\ inbox[c] # <<>> /\ inbox' = [inbox EXCEPT ![c] = rest] /\ cli' = [cli EXCEPT ![c] = Reads(cli[c], m)]
      /\ UNCHANGED <<client_list, replies, spoilt>>
  BY DEF Receive, serverVars
<1>2. /\ inbox \in [Boxes -> Seq(Datagrams)] /\ cli \in [Clients -> ClientStates]
      /\ Server \notin Clients /\ Clients \subseteq Boxes /\ Server \in Boxes
  BY TypesGive, TypesAre DEF Types
<1>3. inbox[c] \in Seq(Datagrams)
  BY <1>2
<1>4. /\ inbox[c] = <<m>> \o rest /\ m \in Datagrams /\ rest \in Seq(Datagrams) /\ m = inbox[c][1]
      /\ Len(inbox[c]) \in Nat \ {0} /\ Len(rest) = Len(inbox[c]) - 1
      /\ \A i \in 1 .. Len(inbox[c]) - 1 : rest[i] = inbox[c][i + 1]
  BY <1>1, <1>3, HeadThenTail
<1> HIDE DEF m, rest
<1>5. /\ inbox'[c] = rest /\ cli'[c] = Reads(cli[c], m) /\ inbox'[Server] = inbox[Server]
      /\ \A d \in Clients \ {c} : cli'[d] = cli[d] /\ inbox'[d] = inbox[d]
  BY <1>1, <1>2
<1>6. Reading(c, m, rest)
  BY <1>1, <1>4, <1>5 DEF Reading, Requests
<1> QED BY <1>4, <1>6

\* Reading tells nobody of a user of whom no datagram told.
LEMMA ToldReceive ==
  ASSUME Parameters, Types, NEW c \in Clients, Receive(c), NEW a \in Clients
  PROVE  Told(a)' => Told(a)
<1>0. PICK m \in Datagrams, rest \in Seq(Datagrams) : Reading(c, m, rest)
  BY ReceiveIs
<1>1. /\ m = inbox[c][1] /\ Len(inbox[c]) \in Nat \ {0}
      /\ Len(rest) = Len(inbox[c]) - 1 /\ \A i \in 1 .. Len(inbox[c]) - 1 : rest[i] = inbox[c][i + 1]
      /\ inbox'[c] = rest /\ cli'[c] = Reads(cli[c], m)
      /\ \A d \in Clients \ {c} : cli'[d] = cli[d] /\ inbox'[d] = inbox[d]
  BY <1>0 DEF Reading
<1>2. cli[c] \in States
  BY TypesAre DEF Types
<1>3. Knows(c, a)' => Knows(c, a)
  <2>1. ASSUME NEW i \in 1 .. Len(cli'[c].users), cli'[c].users[i].addr = a PROVE Knows(c, a)
    <3>1. (\E j \in 1 .. Len(cli[c].users) : cli[c].users[j].addr = a) \/ m.user.addr = a
      BY <1>1, <1>2, <2>1, ReadsKnows
    <3>2. 1 \in 1 .. Len(inbox[c]) /\ inbox[c][1] = m
      BY <1>1
    <3> QED BY <3>1, <3>2 DEF Knows
  <2>2. ASSUME NEW i \in 1 .. Len(inbox'[c]), inbox'[c][i].user.addr = a PROVE Knows(c, a)
    <3>1. i + 1 \in 1 .. Len(inbox[c]) /\ inbox'[c][i] = inbox[c][i + 1]
      BY <1>1
    <3> QED BY <2>2, <3>1 DEF Knows
  <2> QED BY <2>1, <2>2 DEF Knows
<1>4. \A d \in Clients : Knows(d, a)' => Knows(d, a)
  BY <1>1, <1>3, KnowsSame
<1> QED BY <1>4, KnowsLess

\* Receive: reading one more brings the client nearer to what it will have read.
LEMMA AgreesReceive ==
  ASSUME Parameters, Types, NEW c \in Clients, Receive(c), NEW a \in Clients, Agrees(a)
  PROVE  Agrees(a)'
<1>1. PICK m \in Datagrams, rest \in Seq(Datagrams) : Reading(c, m, rest)
  BY ReceiveIs
<1>2. /\ inbox[c] = <<m>> \o rest /\ inbox[c] # <<>> /\ inbox'[c] = rest
      /\ cli'[c] = Reads(cli[c], m) /\ Requests' = Requests
      /\ \A d \in Clients \ {c} : cli'[d] = cli[d] /\ inbox'[d] = inbox[d]
      /\ UNCHANGED <<client_list, replies, spoilt>>
  BY <1>1 DEF Reading
<1>3. /\ SameFrom(a) /\ PendingFor(a)' = PendingFor(a) /\ (Told(a)' => Told(a))
      /\ ~Heard(a) => ~Heard(a)'
  BY <1>2, SameRequests, PendingSame, ToldReceive, HeardLess
<1>4. CASE a # c
  <2>1. cli'[a] = cli[a] /\ inbox'[a] = inbox[a]
    BY <1>2, <1>4
  <2>2. CASE Settled(a)
    <3>1. Settled(a)'
      BY <1>2, <1>3, <2>1, <2>2, KeepSettled
    <3> QED BY <3>1 DEF Agrees
  <2>3. CASE Fresh(a)
    <3>1. Queued(a)' = Queued(a) /\ ~Heard(a)'
      BY <1>3, <2>1, <2>3 DEF Queued, Fresh
    <3>2. Fresh(a)'
      BY <1>3, <2>1, <2>3, <3>1, KeepFresh
    <3> QED BY <3>2 DEF Agrees
  <2> QED BY <2>2, <2>3 DEF Agrees
<1>5. CASE a = c
  <2> DEFINE one == <<m>>
             p == PendingFor(c)
             d == Reads(cli[c], m)
  <2>1. cli[c] \in States /\ p \in Seq(Datagrams) /\ inbox[c] \in Seq(Datagrams)
    BY QueuedIs DEF Types
  <2>2. one \in Seq(Datagrams) /\ one # <<>> /\ Len(one) = 1 /\ one[1] = m
    OBVIOUS
  <2>3. d \in States /\ ReadAll(cli[c], one) = d
    BY <2>1, ReadsType, ReadOne
  <2>4. rest \o p \in Seq(Datagrams)
    BY <2>1, ConcatProperties
  <2>5. Queued(c)' = rest \o p
    BY <1>2, <1>3, <1>5 DEF Queued
  <2> HIDE DEF one, p, d
  <2>6. Queued(c) = one \o (rest \o p)
    <3>1. (one \o rest) \o p = one \o (rest \o p)
      BY <2>1, <2>2, ConcatAssociative
    <3> QED BY <1>2, <3>1 DEF Queued, one, p
  <2>7. ReadAll(cli[c], Queued(c)) = ReadAll(d, rest \o p)
    <3> DEFINE k == rest \o p
    <3>1. k \in Seq(Datagrams) /\ Queued(c) = one \o k
      BY <2>4, <2>6
    <3> HIDE DEF k
    <3>2. ReadAll(cli[c], one \o k) = ReadAll(ReadAll(cli[c], one), k)
      BY <2>1, <2>2, <3>1, ReadConcat
    <3>3. ReadAll(cli[c], Queued(c)) = ReadAll(d, k)
      BY <2>3, <3>1, <3>2
    <3> QED BY <3>3 DEF k
  <2>8. ReadAll(cli[c], inbox[c]) = ReadAll(d, rest)
    <3>1. ReadAll(cli[c], one \o rest) = ReadAll(ReadAll(cli[c], one), rest)
      BY <2>1, <2>2, ReadConcat
    <3> QED BY <1>2, <2>3, <3>1 DEF one
  <2>9. cli'[c] = d /\ inbox'[c] = rest
    BY <1>2 DEF d
  <2>10. CASE Settled(c)
    <3>1. ReadAll(cli[c], Queued(c))' = ReadAll(cli[c], Queued(c)) /\ ReadAll(cli[c], inbox[c])' = ReadAll(cli[c], inbox[c])
      BY <2>5, <2>7, <2>8, <2>9
    <3>2. Settled(c)'
      BY <1>2, <1>3, <1>5, <2>10, <3>1, ReadSettled
    <3> QED BY <1>5, <3>2 DEF Agrees
  <2>11. CASE Fresh(c)
    <3>1. /\ Queued(c) = <<Message(S2C_ALREADY_LOGINED, Junk)>> /\ cli[c].at = "wait" /\ From(c) = {} /\ ~Heard(c)
      <4>1. Queued(c) # <<>>
        <5>1. Len(one \o (rest \o p)) = Len(one) + Len(rest \o p) /\ Len(rest \o p) \in Nat
          BY <2>2, <2>4, ConcatProperties, LenProperties
        <5> QED BY <2>2, <2>6, <5>1
      <4> QED BY <2>11, <4>1 DEF Fresh
    <3>2. rest \o p = <<>> /\ m.word = S2C_ALREADY_LOGINED
      <4> DEFINE q == Queued(c)
                 k == rest \o p
                 f == Message(S2C_ALREADY_LOGINED, Junk)
      <4>1. q = <<f>> /\ q = one \o k /\ k \in Seq(Datagrams)
        BY <2>4, <2>6, <3>1
      <4>2. f.word = S2C_ALREADY_LOGINED
        BY DEF Message
      <4> HIDE DEF q, k, f
      <4>3. Len(q) = 1 + Len(k) /\ Len(k) \in Nat /\ q[1] = m
        <5>1. /\ Len(one \o k) = Len(one) + Len(k) /\ Len(k) \in Nat
              /\ \A i \in 1 .. Len(one) + Len(k) : (one \o k)[i] = IF i <= Len(one) THEN one[i] ELSE k[i - Len(one)]
          BY <2>2, <4>1, ConcatProperties, LenProperties
        <5> QED BY <2>2, <4>1, <5>1
      <4>4. Len(k) = 0 /\ m = f
        BY <4>1, <4>3
      <4>5. k = <<>>
        BY <4>1, <4>4, EmptySeq
      <4> QED BY <4>2, <4>4, <4>5 DEF k
    <3>3. d = Client("name", cli[c].name, cli[c].n, cli[c].users)
      <4>1. d = Client(IF m.word = S2C_LOGIN_OK THEN "count" ELSE "name", cli[c].name, cli[c].n, cli[c].users)
        BY <2>1, <3>1, ReadsWait DEF d
      <4> QED BY <3>2, <4>1 DEF S2C_ALREADY_LOGINED, S2C_LOGIN_OK
    <3>4. cli'[c].at = "name"
      BY <2>9, <3>3, ClientFields
    <3>5. From(c)' = {} /\ ~Heard(c)' /\ Queued(c)' = <<>>
      BY <1>3, <1>5, <2>5, <3>1, <3>2 DEF SameFrom
    <3>6. Fresh(c)'
      BY <3>4, <3>5 DEF Fresh
    <3> QED BY <1>5, <3>6 DEF Agrees
  <2> QED BY <1>5, <2>10, <2>11 DEF Agrees
<1> QED BY <1>4, <1>5

\* Nothing that concerns a client changes.
LEMMA AgreesOther ==
  ASSUME NEW a, Agrees(a), cli'[a] = cli[a], inbox'[a] = inbox[a], client_list' = client_list, replies' = replies,
         SameFrom(a), Told(a)' => Told(a)
  PROVE  Agrees(a)'
<1>1. PendingFor(a)' = PendingFor(a)
  BY PendingSame
<1>2. CASE Settled(a)
  <2>1. Settled(a)'
    BY <1>1, <1>2, KeepSettled
  <2> QED BY <2>1 DEF Agrees
<1>3. CASE Fresh(a)
  <2>1. ~Heard(a)
    BY <1>3 DEF Fresh
  <2>2. ~Heard(a)'
    BY <2>1, HeardLess
  <2>3. Queued(a)' = Queued(a)
    BY <1>1 DEF Queued
  <2>4. Fresh(a)'
    BY <1>3, <2>2, <2>3, KeepFresh
  <2> QED BY <2>4 DEF Agrees
<1> QED BY <1>2, <1>3 DEF Agrees

\* Sent to the server, a datagram reaches no client.
LEMMA ServersOnly ==
  ASSUME Parameters, Types, NEW m \in Datagrams
  PROVE  \A a \in Clients : Sent(m, Server)[a] = inbox[a]
BY SentIs, TypesAre DEF Types

\* Login: the client that asks is fresh, and has asked once.
LEMMA AgreesLogin ==
  ASSUME Parameters, Types, NEW c \in Clients, NEW name \in Names, Login(c, name), NEW a \in Clients, Agrees(a)
  PROVE  Agrees(a)'
<1> DEFINE u == [name |-> name, addr |-> c]
           m == Message(C2S_LOGIN, u)
<1>1. /\ \A d \in Clients \ {c} : cli'[d] = cli[d]
      /\ cli'[c].at = "wait" /\ cli'[c].users = cli[c].users
      /\ m \in Datagrams /\ m.word = C2S_LOGIN /\ m.user = u
  BY LoginIs
<1>2. inbox' = Sent(m, Server) /\ cli[c].at = "name" /\ UNCHANGED <<client_list, replies>>
  BY DEF Login, serverVars
<1>3. u.addr = c
  OBVIOUS
<1> HIDE DEF m, u
<1>4. \A d \in Clients : inbox'[d] = inbox[d] /\ cli'[d].users = cli[d].users
  BY <1>1, <1>2, ServersOnly
<1>5. Told(a)' => Told(a)
  BY <1>4, KnowsSame, KnowsLess
<1>6. Requests' = Sent(m, Server)[Server]
  BY <1>2 DEF Requests
<1>7. CASE a # c
  <2>1. SameFrom(a)
    BY <1>1, <1>3, <1>6, <1>7, OtherRequest DEF Types
  <2>2. cli'[a] = cli[a] /\ inbox'[a] = inbox[a]
    BY <1>1, <1>4, <1>7
  <2> QED BY <1>2, <1>5, <2>1, <2>2, AgreesOther
<1>8. CASE a = c
  <2>1. Fresh(c)
    <3>1. cli[c] \in States /\ Queued(c) \in Seq(Datagrams)
      BY QueuedIs DEF Types
    <3>2. ReadAll(cli[c], Queued(c)) = cli[c]
      BY <1>2, <3>1, ReadStay
    <3> QED BY <1>2, <1>8, <3>2 DEF Agrees, Settled
  <2>2. Queued(c) = <<>> /\ From(c) = {} /\ ~Heard(c)
    BY <1>2, <2>1 DEF Fresh
  <2>3. Queued(c)' = <<>> /\ ~Heard(c)'
    <3>1. PendingFor(c)' = PendingFor(c)
      BY <1>2, PendingSame
    <3> QED BY <1>2, <1>4, <1>5, <1>8, <2>2, <3>1, HeardLess DEF Queued
  <2> DEFINE s == Requests
             t == Sent(m, Server)[Server]
  <2>4. \/ t = s
        \/ /\ Len(t) = Len(s) + 1 /\ Len(s) \in Nat
           /\ \A i \in 1 .. Len(s) : t[i] = s[i]
           /\ t[Len(s) + 1] = m
    BY <1>1, SentRequest DEF Types, Requests
  <2>5. Requests' = t /\ \A i \in 1 .. Len(s) : s[i].user.addr # c
    BY <1>6, <2>2 DEF From
  <2> HIDE DEF s, t
  <2>6. \A i \in 1 .. Len(t) : t[i].user.addr = c => i = Len(s) + 1 /\ t[i] = m
    BY <2>4, <2>5
  <2>7. \A i \in From(c)' : Requests'[i].word = C2S_LOGIN /\ i = Len(s) + 1
    BY <1>1, <2>5, <2>6 DEF From
  <2>8. \A i, j \in From(c)' : i = j
    BY <2>7
  <2>9. \A i \in From(c)' : Requests'[i].word = C2S_LOGIN
    BY <2>7
  <2>10. Fresh(c)'
    BY <1>1, <2>3, <2>8, <2>9 DEF Fresh, C2S_LOGIN
  <2> QED BY <1>8, <2>10 DEF Agrees
<1> QED BY <1>7, <1>8

\* The list command: a request, and not a login.
LEMMA AgreesList ==
  ASSUME Parameters, Types, NEW c \in Clients, List(c), NEW a \in Clients, Agrees(a)
  PROVE  Agrees(a)'
<1> DEFINE u == Me(c)
           m == Message(C2S_ONLINE_USER, u)
<1>1. /\ inbox' = Sent(m, Server) /\ cli[c].at = "main" /\ UNCHANGED <<client_list, replies, cli>>
  BY DEF List, serverVars
<1>2. m \in Datagrams /\ m.word = C2S_ONLINE_USER /\ m.user = u /\ u.addr = c
  <2>1. C2S_ONLINE_USER \in 0 .. 6
    BY DEF C2S_ONLINE_USER
  <2>2. u \in Users /\ u.addr = c
    BY <1>1, MeIsUser
  <2> QED BY <2>1, <2>2, MessageType
<1> HIDE DEF m, u
<1>3. \A d \in Clients : inbox'[d] = inbox[d] /\ cli'[d] = cli[d] /\ cli'[d].users = cli[d].users
  BY <1>1, <1>2, ServersOnly
<1>4. Told(a)' => Told(a)
  BY <1>3, KnowsSame, KnowsLess
<1>5. Requests' = Sent(m, Server)[Server]
  BY <1>1 DEF Requests
<1>6. CASE a # c
  <2>1. SameFrom(a)
    BY <1>2, <1>5, <1>6, OtherRequest DEF Types
  <2> QED BY <1>1, <1>3, <1>4, <2>1, AgreesOther
<1>7. CASE a = c
  <2>1. Settled(c)
    BY <1>1, <1>7 DEF Agrees, Fresh
  <2> DEFINE s == Requests
             t == Sent(m, Server)[Server]
  <2>2. \/ t = s
        \/ /\ Len(t) = Len(s) + 1 /\ Len(s) \in Nat
           /\ \A i \in 1 .. Len(s) : t[i] = s[i]
           /\ t[Len(s) + 1] = m
    BY <1>2, SentRequest DEF Types, Requests
  <2>3. Requests' = t /\ \A i \in 1 .. Len(s) : s[i].user.addr = c => s[i].word # C2S_LOGIN
    BY <1>5, <2>1 DEF From, Settled
  <2>4. m.word # C2S_LOGIN
    BY <1>2 DEF C2S_LOGIN, C2S_ONLINE_USER
  <2> HIDE DEF s, t
  <2>5. \A i \in 1 .. Len(t) : t[i].user.addr = c => t[i].word # C2S_LOGIN
    BY <2>2, <2>3, <2>4
  <2>6. \A i \in From(c)' : Requests'[i].word # C2S_LOGIN
    BY <2>3, <2>5 DEF From
  <2>7. PendingFor(c)' = PendingFor(c) /\ cli'[c] = cli[c] /\ inbox'[c] = inbox[c] /\ client_list' = client_list
    BY <1>1, <1>3, PendingSame
  <2>8. Settled(c)'
    BY <1>4, <1>7, <2>1, <2>6, <2>7, RequestSettled
  <2> QED BY <1>7, <2>8 DEF Agrees
<1> QED BY <1>6, <1>7

\* Killed: the others keep what they read.
LEMMA AgreesKilled ==
  ASSUME Parameters, Types, NEW c \in Clients, Killed(c), NEW a \in Clients \ {c}, Agrees(a)
  PROVE  Agrees(a)'
<1>1. /\ inbox' = [inbox EXCEPT ![c] = <<>>] /\ cli' = Gone(c) /\ UNCHANGED <<client_list, replies>>
  BY DEF Killed, serverVars
<1>2. \A b \in Boxes \ {c} : inbox'[b] = inbox[b]
  BY <1>1, TypesGive, Emptied
<1>3. inbox'[c] = <<>> /\ cli'[c].users = <<>> /\ \A d \in Clients \ {c} : cli'[d] = cli[d]
  BY <1>1, TypesGive, Emptied, GoneIs
<1>4. Server \notin Clients /\ Boxes = Clients \cup {Server}
  BY DEF Parameters, Boxes
<1>5. Requests' = Requests
  BY <1>2, <1>4 DEF Requests
<1>6. ~Knows(c, a)'
  BY <1>3 DEF Knows
<1>7. Told(a)' => Told(a)
  BY <1>2, <1>3, <1>4, <1>6, KnowsSame, KnowsLess
<1>8. SameFrom(a)
  BY <1>5, SameRequests
<1>9. cli'[a] = cli[a] /\ inbox'[a] = inbox[a]
  BY <1>2, <1>3, <1>4
<1> QED BY <1>1, <1>7, <1>8, <1>9, AgreesOther

\* Exit: the others keep what they read, and the server gets one more request.
LEMMA AgreesExit ==
  ASSUME Parameters, Types, NEW c \in Clients, Exit(c), NEW a \in Clients \ {c}, Agrees(a)
  PROVE  Agrees(a)'
<1> DEFINE u == Me(c)
           m == Message(C2S_LOGOUT, u)
           sent == Sent(m, Server)
<1>1. /\ inbox' = [sent EXCEPT ![c] = <<>>] /\ cli[c].at = "main" /\ cli' = Gone(c)
      /\ UNCHANGED <<client_list, replies>>
  BY DEF Exit, serverVars
<1>2. m \in Datagrams /\ m.user = u /\ u.addr = c
  <2>1. C2S_LOGOUT \in 0 .. 6
    BY DEF C2S_LOGOUT
  <2>2. u \in Users /\ u.addr = c
    BY <1>1, MeIsUser
  <2> QED BY <2>1, <2>2, MessageType
<1> HIDE DEF m, u
<1>3. /\ sent \in [Boxes -> Seq(Datagrams)] /\ \A b \in Boxes : Len(sent[b]) <= Buffer
      /\ \A d \in Clients : sent[d] = inbox[d]
  BY <1>2, SentIs, ServersOnly, TypesAre DEF Types
<1>4. Server \notin Clients /\ Boxes = Clients \cup {Server}
  BY DEF Parameters, Boxes
<1> HIDE DEF sent
<1>5. inbox'[c] = <<>> /\ \A b \in Boxes \ {c} : inbox'[b] = sent[b]
  BY <1>1, <1>3, Emptied
<1>6. cli'[c].users = <<>> /\ \A d \in Clients \ {c} : cli'[d] = cli[d]
  BY <1>1, GoneIs
<1>7. ~Knows(c, a)'
  BY <1>5, <1>6 DEF Knows
<1>8. \A d \in Clients \ {c} : inbox'[d] = inbox[d] /\ cli'[d] = cli[d] /\ cli'[d].users = cli[d].users
  BY <1>3, <1>4, <1>5, <1>6
<1>9. Told(a)' => Told(a)
  BY <1>7, <1>8, KnowsSame, KnowsLess
<1>10. Requests' = Sent(m, Server)[Server]
  BY <1>4, <1>5 DEF Requests, sent
<1>11. SameFrom(a)
  BY <1>2, <1>10, OtherRequest DEF Types
<1> QED BY <1>1, <1>8, <1>9, <1>11, AgreesOther

-----------------------------------------------------------------------------
(* A datagram is sent to a client, by another or by the server.            *)

\* sendto changes one box, and loses nothing unless that box is full.
LEMMA SentTo ==
  ASSUME Parameters, Types, NEW m \in Datagrams, NEW t \in Clients, inbox' = Sent(m, t)
  PROVE  /\ Requests' = Requests /\ \A d \in Clients \ {t} : inbox'[d] = inbox[d]
         /\ inbox'[t] = Append(inbox[t], m) \/ inbox'[t] = inbox[t]
         /\ Alive(t) /\ Lost(t) = {} => inbox'[t] = Append(inbox[t], m)
<1>1. t \in Boxes /\ Server \in Boxes /\ t # Server /\ Clients \subseteq Boxes
  BY TypesAre DEF Types
<1>2. /\ \A b \in Boxes \ {t} : Sent(m, t)[b] = inbox[b]
      /\ \/ Sent(m, t)[t] = Append(inbox[t], m)
         \/ Sent(m, t) = inbox /\ (t = Server \/ ~Alive(t) \/ Lost(t) = {t})
  BY <1>1, SentIs DEF Types
<1>3. Requests' = Requests /\ \A d \in Clients \ {t} : inbox'[d] = inbox[d]
  BY <1>1, <1>2 DEF Requests
<1>4. inbox'[t] = Append(inbox[t], m) \/ inbox'[t] = inbox[t]
  BY <1>2
<1>5. Alive(t) /\ Lost(t) = {} => inbox'[t] = Append(inbox[t], m)
  BY <1>1, <1>2
<1> QED BY <1>3, <1>4, <1>5

\* A datagram tells of the one user it names.
LEMMA ToldSent ==
  ASSUME Parameters, Types, NEW m \in Datagrams, NEW t \in Clients, inbox' = Sent(m, t), cli' = cli, NEW a
  PROVE  Told(a)' => Told(a) \/ m.user.addr = a
<1>1. /\ \A d \in Clients \ {t} : inbox'[d] = inbox[d]
      /\ inbox'[t] = Append(inbox[t], m) \/ inbox'[t] = inbox[t]
  BY SentTo
<1>2. inbox[t] \in Seq(Datagrams)
  BY TypesAre DEF Types, Boxes
<1> DEFINE s == inbox[t]
           x == inbox'[t]
<1>3. x = Append(s, m) \/ x = s
  BY <1>1
<1>4. s \in Seq(Datagrams)
  BY <1>2
<1> HIDE DEF s, x
<1>5. ASSUME NEW i \in 1 .. Len(x), x[i].user.addr = a
      PROVE  (\E j \in 1 .. Len(s) : s[j].user.addr = a) \/ m.user.addr = a
  <2>1. CASE x = s
    BY <1>5, <2>1
  <2>2. CASE x = Append(s, m)
    <3>1. Len(x) = Len(s) + 1 /\ x[Len(s) + 1] = m /\ Len(s) \in Nat /\ \A j \in 1 .. Len(s) : x[j] = s[j]
      BY <1>4, <2>2, AppendProperties, LenProperties
    <3>2. i \in 1 .. Len(s) \/ i = Len(s) + 1
      BY <1>5, <3>1
    <3> QED BY <1>5, <3>1, <3>2
  <2> QED BY <1>3, <2>1, <2>2
<1>6. Knows(t, a)' => Knows(t, a) \/ m.user.addr = a
  BY <1>5 DEF Knows, s, x
<1>7. \A d \in Clients \ {t} : Knows(d, a)' => Knows(d, a)
  BY <1>1, KnowsSame
<1> QED BY <1>6, <1>7 DEF Told

\* A chat message is read at main, and changes nothing there.
LEMMA ChatRead ==
  ASSUME Parameters, NEW c \in States, c.at = "main", NEW s \in Seq(Datagrams)
  PROVE  /\ Reads(c, Message(C2C_CHAT, Junk)) = c
         /\ ReadAll(c, <<Message(C2C_CHAT, Junk)>> \o s) = ReadAll(c, s)
<1> DEFINE m == Message(C2C_CHAT, Junk)
           one == <<m>>
<1>1. m \in Datagrams /\ m.word = C2C_CHAT
  BY ChatIs
<1> HIDE DEF m
<1>2. Reads(c, m) = Client(IF m.word = S2C_ONLINE_USER THEN "count" ELSE "main", c.name, c.n,
                              IF m.word = S2C_SOMEONE_LOGIN THEN Append(c.users, m.user)
                              ELSE IF m.word = S2C_SOMEONE_LOGOUT THEN WithoutFirst(c.users, m.user.name)
                              ELSE c.users)
  BY ReadsMain
<1>3. m.word # S2C_ONLINE_USER /\ m.word # S2C_SOMEONE_LOGIN /\ m.word # S2C_SOMEONE_LOGOUT
  BY <1>1 DEF C2C_CHAT, S2C_ONLINE_USER, S2C_SOMEONE_LOGIN, S2C_SOMEONE_LOGOUT
<1>4. Reads(c, m) = Client("main", c.name, c.n, c.users)
  BY <1>2, <1>3
<1>5. Reads(c, m) = c
  BY <1>4, ClientIs
<1>6. one \in Seq(Datagrams) /\ ReadAll(c, one) = c
  <2>1. one \in Seq(Datagrams)
    BY <1>1
  <2> QED BY <1>1, <1>5, <2>1, ReadOne
<1> HIDE DEF one
<1>7. ReadAll(c, one \o s) = ReadAll(c, s)
  BY <1>6, ReadConcat
<1> QED BY <1>5, <1>7 DEF one, m

\* SendMsgTo: outside a list a chat message changes nothing; inside one it spoils.
LEMMA AgreesSendMsg ==
  ASSUME Parameters, Types, NEW c \in Clients, NEW name \in Names, SendMsgTo(c, name),
         NEW a \in Clients, a \notin spoilt', Alive(a), Agrees(a)
  PROVE  Agrees(a)'
<1> DEFINE m == Message(C2C_CHAT, Junk)
           p == PendingFor(a)
<1>1. PICK i \in 1 .. Len(cli[c].users) : \E to \in Clients :
           /\ to = cli[c].users[i].addr
           /\ inbox' = Sent(m, to)
           /\ spoilt' = spoilt \cup Lost(to) \cup
                {d \in {to} : PendingFor(d) # <<>> /\ Head(PendingFor(d)).kind # "message"}
           /\ UNCHANGED <<client_list, replies, cli>>
  BY SendMsgIs
<1>2. PICK to \in Clients :
           /\ to = cli[c].users[i].addr
           /\ inbox' = Sent(m, to)
           /\ spoilt' = spoilt \cup Lost(to) \cup
                {d \in {to} : PendingFor(d) # <<>> /\ Head(PendingFor(d)).kind # "message"}
           /\ UNCHANGED <<client_list, replies, cli>>
  BY <1>1
<1>3. m \in Datagrams /\ m.user = Junk /\ Junk.addr # a
  BY ChatIs, JunkIs
<1>4. p \in Seq(Datagrams)
  BY QueuedIs DEF Types
<1> HIDE DEF m
<1>5. Told(a)' => Told(a)
  BY <1>2, <1>3, ToldSent
<1>6. /\ Requests' = Requests /\ \A d \in Clients \ {to} : inbox'[d] = inbox[d]
      /\ Alive(to) /\ Lost(to) = {} => inbox'[to] = Append(inbox[to], m)
  BY <1>2, <1>3, SentTo
<1>7. SameFrom(a) /\ p' = p
  BY <1>2, <1>6, SameRequests, PendingSame
<1>8. CASE a # to
  BY <1>2, <1>5, <1>6, <1>7, <1>8, AgreesOther
<1>9. CASE a = to
  <2>1. Knows(c, a)
    BY <1>1, <1>2, <1>9 DEF Knows
  <2>2. Told(a)
    BY <2>1 DEF Told
  <2>3. Settled(a)
    BY <2>2 DEF Agrees, Fresh, Heard
  <2>4. Lost(a) = {} /\ ~(p # <<>> /\ Head(p).kind # "message")
    <3>1. a \notin Lost(a) /\ a \notin {d \in {a} : PendingFor(d) # <<>> /\ Head(PendingFor(d)).kind # "message"}
      BY <1>2, <1>9
    <3> QED BY <3>1 DEF Lost
  <2>5. inbox'[a] = Append(inbox[a], m)
    BY <1>6, <1>9, <2>4
  <2> DEFINE b == ReadAll(cli[a], inbox[a])
             one == <<m>>
             s == inbox[a]
  <2>6. s \in Seq(Datagrams) /\ cli[a] \in States /\ b \in States /\ ReadAll(cli[a], Queued(a)) = ReadAll(b, p)
    BY QueuedIs DEF Types
  <2>7. ReadAll(cli[a], Queued(a)).at = "main"
    BY <2>3 DEF Settled
  <2> HIDE DEF b, p
  <2>8. b.at = "main"
    <3>1. CASE p = <<>>
      BY <2>6, <2>7, <3>1, ReadNone
    <3>2. CASE p # <<>>
      <4>1. p[1].kind = "message"
        BY <1>4, <2>4, <3>2, HeadThenTail
      <4>2. b.at = "main" \/ (IsOk(p[1]) /\ ~Told(a))
        BY <2>3, <3>2, <4>1, Zenon DEF Settled, b, p
      <4> QED BY <2>2, <4>2
    <3> QED BY <3>1, <3>2
  <2>9. ReadAll(b, one \o p) = ReadAll(b, p) /\ Reads(b, m) = b /\ one \in Seq(Datagrams)
    <3>1. one \in Seq(Datagrams)
      BY <1>3
    <3>2. Reads(b, m) = b /\ ReadAll(b, one \o p) = ReadAll(b, p)
      BY <1>4, <2>6, <2>8, <3>1, ChatRead DEF m
    <3> QED BY <3>1, <3>2
  <2>10. Append(s, m) = s \o one
    BY <1>3, <2>6, AppendIsConcat
  <2> HIDE DEF one, s
  <2>11. ReadAll(cli[a], Append(s, m)) = b
    <3>1. ReadAll(cli[a], s \o one) = ReadAll(b, one)
      BY <2>6, <2>9, ReadConcat DEF b, s
    <3>2. ReadAll(b, one) = Reads(b, m)
      BY <1>3, <2>6, ReadOne DEF one
    <3> QED BY <2>9, <2>10, <3>1, <3>2
  <2>12. ReadAll(cli[a], Append(s, m) \o p) = ReadAll(b, p)
    <3>1. Append(s, m) \in Seq(Datagrams)
      BY <1>3, <2>6, AppendProperties
    <3> DEFINE t == Append(s, m)
    <3> HIDE DEF t
    <3>2. ReadAll(cli[a], t \o p) = ReadAll(ReadAll(cli[a], t), p)
      BY <1>4, <2>6, <3>1, ReadConcat DEF t
    <3> QED BY <2>11, <3>2 DEF t
  <2>13. cli'[a] = cli[a] /\ inbox'[a] = Append(s, m) /\ Queued(a)' = Append(s, m) \o p
    BY <1>2, <1>7, <2>5 DEF Queued, s, p
  <2>14. ReadAll(cli[a], Queued(a))' = ReadAll(cli[a], Queued(a)) /\ ReadAll(cli[a], inbox[a])' = ReadAll(cli[a], inbox[a])
    BY <2>6, <2>11, <2>12, <2>13 DEF b
  <2>15. Settled(a)'
    BY <1>2, <1>5, <1>7, <2>3, <2>14, ReadSettled DEF p
  <2> QED BY <2>15 DEF Agrees
<1> QED BY <1>8, <1>9

\* SendReply moves the first reply into the box it is for.
LEMMA SendReplyIs ==
  ASSUME Parameters, Types, SendReply
  PROVE  \E r \in Replies : \E rest \in Seq(Replies) :
           /\ replies # <<>> /\ replies' = rest /\ Head(replies) = r /\ Tail(replies) = rest
           /\ Len(replies) \in Nat \ {0} /\ r = replies[1]
           /\ Len(rest) = Len(replies) - 1 /\ \A i \in 1 .. Len(replies) - 1 : rest[i] = replies[i + 1]
           /\ inbox' = Sent(r.msg, r.to) /\ spoilt' = spoilt \cup Lost(r.to)
           /\ r.msg \in Datagrams /\ r.to \in Clients /\ UNCHANGED <<client_list, cli>>
<1> DEFINE r == Head(replies)
           rest == Tail(replies)
<1>1. /\ replies # <<>> /\ replies' = rest /\ inbox' = Sent(r.msg, r.to) /\ spoilt' = spoilt \cup Lost(r.to)
      /\ UNCHANGED <<client_list, cli>>
  BY DEF SendReply
<1>2. replies \in Seq(Replies)
  BY TypesGive
<1>3. /\ r \in Replies /\ rest \in Seq(Replies) /\ r = replies[1] /\ Len(replies) \in Nat \ {0}
      /\ Len(rest) = Len(replies) - 1 /\ \A i \in 1 .. Len(replies) - 1 : rest[i] = replies[i + 1]
  BY <1>1, <1>2, HeadThenTail
<1>4. Head(replies) = r /\ Tail(replies) = rest
  OBVIOUS
<1> HIDE DEF r, rest
<1>5. r.msg \in Datagrams /\ r.to \in Clients
  BY <1>3 DEF Replies
<1> QED BY <1>1, <1>3, <1>4, <1>5

\* The rest of the replies tells of no login accepted.
LEMMA NoOkMailed ==
  ASSUME Parameters, Types, OkFirst, replies # <<>>, NEW c
  PROVE  /\ Mail(Tail(replies), c) \in Seq(Datagrams)
         /\ \A i \in 1 .. Len(Mail(Tail(replies), c)) : ~IsOk(Mail(Tail(replies), c)[i])
<1> DEFINE rest == Tail(replies)
           R == {r \in Replies : ~IsOk(r.msg)}
<1>1. replies \in Seq(Replies)
  BY TypesGive
<1>2. /\ rest \in Seq(Replies) /\ Len(replies) \in Nat \ {0}
      /\ Len(rest) = Len(replies) - 1 /\ \A i \in 1 .. Len(replies) - 1 : rest[i] = replies[i + 1]
  BY <1>1, HeadThenTail
<1> HIDE DEF rest
<1>3. ASSUME NEW i \in 1 .. Len(rest) PROVE rest[i] \in R
  <2>1. i + 1 \in 2 .. Len(replies) /\ rest[i] = replies[i + 1]
    BY <1>2
  <2>2. rest[i] \in Replies
    BY <1>2, ElementOfSeq
  <2> QED BY <2>1, <2>2 DEF OkFirst
<1>4. rest \in Seq(R)
  <2>1. rest = [i \in 1 .. Len(rest) |-> rest[i]] /\ Len(rest) \in Nat
    BY <1>2
  <2> HIDE DEF R
  <2> QED BY <1>3, <2>1
<1>5. /\ Mail(rest, c) \in Seq(Datagrams)
      /\ \A i \in 1 .. Len(Mail(rest, c)) : \E r \in R : r.to = c /\ Mail(rest, c)[i] = r.msg
  BY <1>4, MailType
<1> DEFINE q == Mail(rest, c)
<1>6. q \in Seq(Datagrams) /\ \A i \in 1 .. Len(q) : \E r \in R : q[i] = r.msg
  BY <1>5
<1> HIDE DEF q
<1>7. \A i \in 1 .. Len(q) : ~IsOk(q[i])
  BY <1>6
<1> QED BY <1>6, <1>7 DEF q, rest

\* SendReply: what was pending for a client is in its box, in the same order.
LEMMA AgreesSendReply ==
  ASSUME Parameters, Types, OkFirst, SendReply, NEW a \in Clients, a \notin spoilt', Alive(a), Agrees(a)
  PROVE  Agrees(a)'
<1> DEFINE p == PendingFor(a)
           k == Mail(Tail(replies), a)
<1>1. PICK r \in Replies : \E rest \in Seq(Replies) :
           /\ replies # <<>> /\ replies' = rest /\ Head(replies) = r /\ Tail(replies) = rest
           /\ Len(replies) \in Nat \ {0} /\ r = replies[1]
           /\ Len(rest) = Len(replies) - 1 /\ \A i \in 1 .. Len(replies) - 1 : rest[i] = replies[i + 1]
           /\ inbox' = Sent(r.msg, r.to) /\ spoilt' = spoilt \cup Lost(r.to)
           /\ r.msg \in Datagrams /\ r.to \in Clients /\ UNCHANGED <<client_list, cli>>
  BY SendReplyIs
<1>2. PICK rest \in Seq(Replies) :
           /\ replies # <<>> /\ replies' = rest /\ Head(replies) = r /\ Tail(replies) = rest
           /\ Len(replies) \in Nat \ {0} /\ r = replies[1]
           /\ Len(rest) = Len(replies) - 1 /\ \A i \in 1 .. Len(replies) - 1 : rest[i] = replies[i + 1]
           /\ inbox' = Sent(r.msg, r.to) /\ spoilt' = spoilt \cup Lost(r.to)
           /\ r.msg \in Datagrams /\ r.to \in Clients /\ UNCHANGED <<client_list, cli>>
  BY <1>1
<1>3. replies \in Seq(Replies) /\ p \in Seq(Datagrams) /\ inbox[a] \in Seq(Datagrams) /\ cli[a] \in States
  BY TypesGive, QueuedIs DEF Types
<1>4. k \in Seq(Datagrams) /\ \A i \in 1 .. Len(k) : ~IsOk(k[i])
  BY <1>2, NoOkMailed
<1>5. p = IF r.to = a THEN <<r.msg>> \o k ELSE k
  <2>1. p = Mail(replies, a)
    BY PendingIsMail
  <2>2. Mail(replies, a) = IF Head(replies).to = a THEN <<Head(replies).msg>> \o k ELSE k
    BY <1>2, <1>3, MailOfFirst
  <2> QED BY <1>2, <2>1, <2>2
<1>6. p' = k
  <2>1. p' = Mail(replies', a)
    BY DEF PendingFor, Mail, MessagesOf, For, Datagrams, Letters, Users, Junk
  <2> QED BY <1>2, <2>1
<1>7. /\ Requests' = Requests /\ \A d \in Clients \ {r.to} : inbox'[d] = inbox[d]
      /\ Alive(r.to) /\ Lost(r.to) = {} => inbox'[r.to] = Append(inbox[r.to], r.msg)
  BY <1>2, SentTo
<1>8. SameFrom(a)
  BY <1>7, SameRequests
<1>9. Told(a)' => Told(a) \/ r.msg.user.addr = a
  BY <1>2, ToldSent
<1>10. ~Heard(a) => ~Heard(a)'
  <2> SUFFICES ASSUME ~Heard(a) PROVE ~Heard(a)'
    OBVIOUS
  <2>1. ~Told(a) /\ a \notin LoggedIn /\ \A i \in 1 .. Len(replies) : replies[i].msg.user.addr # a
    BY DEF Heard
  <2>2. r.msg.user.addr # a
    BY <1>2, <2>1
  <2>3. \A i \in 1 .. Len(rest) : i + 1 \in 1 .. Len(replies) /\ rest[i] = replies[i + 1]
    BY <1>2
  <2>4. \A i \in 1 .. Len(replies') : replies'[i].msg.user.addr # a
    BY <1>2, <2>1, <2>3
  <2>5. LoggedIn' = LoggedIn
    BY <1>2 DEF LoggedIn
  <2> QED BY <1>9, <2>1, <2>2, <2>4, <2>5 DEF Heard
<1> HIDE DEF k, p
<1>11. Queued(a)' = Queued(a) /\ cli'[a] = cli[a]
  <2>1. CASE r.to # a
    <3>1. inbox'[a] = inbox[a] /\ p = k
      BY <1>5, <1>7, <2>1
    <3> QED BY <1>2, <1>6, <3>1 DEF Queued, p
  <2>2. CASE r.to = a
    <3> DEFINE one == <<r.msg>>
               s == inbox[a]
    <3>1. Lost(a) = {}
      BY <1>2, <2>2 DEF Lost
    <3>2. inbox'[a] = Append(s, r.msg)
      BY <1>7, <2>2, <3>1
    <3>3. Append(s, r.msg) = s \o one
      BY <1>2, <1>3, AppendIsConcat
    <3>4. one \in Seq(Datagrams) /\ p = one \o k
      BY <1>2, <1>5, <2>2
    <3>5. s \in Seq(Datagrams)
      BY <1>3
    <3> HIDE DEF one, s
    <3>6. (s \o one) \o k = s \o (one \o k)
      BY <1>4, <3>4, <3>5, ConcatAssociative
    <3>7. Queued(a)' = (s \o one) \o k
      BY <1>6, <3>2, <3>3 DEF Queued, p
    <3>8. Queued(a) = s \o (one \o k)
      BY <3>4 DEF Queued, p, s
    <3> QED BY <1>2, <3>6, <3>7, <3>8
  <2> QED BY <2>1, <2>2
<1>12. CASE Fresh(a)
  <2>1. ~Heard(a)
    BY <1>12 DEF Fresh
  <2>2. Fresh(a)'
    BY <1>8, <1>10, <1>11, <1>12, <2>1, KeepFresh
  <2> QED BY <2>2 DEF Agrees
<1>13. CASE Settled(a)
  <2>1. CASE r.to # a
    <3>1. inbox'[a] = inbox[a] /\ p = k
      BY <1>5, <1>7, <2>1
    <3>2. p # <<>> => ~IsOk(p[1])
      <4>1. p # <<>> => Len(p) \in Nat \ {0}
        BY <1>3, EmptySeq, LenProperties
      <4> QED BY <1>4, <3>1, <4>1
    <3>3. PendingFor(a)' = PendingFor(a) /\ client_list' = client_list
      BY <1>2, <1>6, <3>1 DEF p
    <3>4. Settled(a)'
      BY <1>8, <1>11, <1>13, <3>1, <3>2, <3>3, KeepSettled DEF p
    <3> QED BY <3>4 DEF Agrees
  <2>2. CASE r.to = a
    <3> DEFINE one == <<r.msg>>
    <3>1. p = one \o k /\ one \in Seq(Datagrams) /\ Len(one) = 1
      BY <1>2, <1>5, <2>2
    <3> HIDE DEF one
    <3>2. /\ Len(p) = 1 + Len(k) /\ Len(k) \in Nat /\ \A i \in 1 .. Len(k) : i + 1 \in 2 .. Len(p) /\ k[i] = p[i + 1]
      <4>1. /\ Len(one \o k) = Len(one) + Len(k) /\ Len(k) \in Nat
            /\ \A i \in 1 .. Len(one) + Len(k) : (one \o k)[i] = IF i <= Len(one) THEN one[i] ELSE k[i - Len(one)]
        BY <1>4, <3>1, ConcatProperties, LenProperties
      <4>2. ASSUME NEW i \in 1 .. Len(k) PROVE p[i + 1] = k[i]
        <5>1. i + 1 \in 1 .. Len(one) + Len(k) /\ ~(i + 1 <= Len(one)) /\ i + 1 - Len(one) = i
          BY <3>1, <4>1
        <5> QED BY <3>1, <4>1, <5>1
      <4> QED BY <3>1, <4>1, <4>2
    <3>3. \A i \in 2 .. Len(p) : p[i].kind # "message"
      BY <1>13 DEF Settled, p
    <3>4. \A i \in 1 .. Len(k) : k[i].kind # "message"
      BY <3>2, <3>3
    <3>5. k # <<>> => k[1].kind # "message"
      <4>1. k # <<>> => Len(k) \in Nat \ {0}
        BY <1>4, EmptySeq, LenProperties
      <4> QED BY <3>4, <4>1
    <3>6. \A i \in 2 .. Len(k) : k[i].kind # "message"
      BY <3>2, <3>4
    <3>7. PendingFor(a)' = k /\ client_list' = client_list /\ LoggedIn' = LoggedIn
      BY <1>2, <1>6 DEF p, LoggedIn
    <3>8. /\ ReadAll(cli[a], Queued(a)).at = "main"
          /\ a \in LoggedIn => ReadAll(cli[a], Queued(a)).users = client_list
          /\ \A i, j \in 1 .. Len(client_list) : client_list[i].addr = a /\ client_list[j].addr = a => i = j
          /\ \A i \in From(a) : Requests[i].word # C2S_LOGIN
      BY <1>13 DEF Settled
    <3>9. ReadAll(cli[a], Queued(a))' = ReadAll(cli[a], Queued(a))
      BY <1>11
    <3>10. \A i \in From(a)' : Requests'[i].word # C2S_LOGIN
      BY <1>8, <3>8 DEF SameFrom
    <3> DEFINE q == ReadAll(cli[a], Queued(a))
    <3>11. q' = q /\ q.at = "main" /\ (a \in LoggedIn => q.users = client_list)
      BY <3>8, <3>9
    <3> HIDE DEF q
    <3>12. Settled(a)'
      BY <3>5, <3>6, <3>7, <3>8, <3>10, <3>11 DEF Settled, q, C2S_LOGIN
    <3> QED BY <3>12 DEF Agrees
  <2> QED BY <2>1, <2>2
<1> QED BY <1>12, <1>13 DEF Agrees

-----------------------------------------------------------------------------
(* The server answers a request.                                           *)

\* A request is taken only when no reply is pending: clients have nothing left but
\* their boxes.
LEMMA ServerStep ==
  ASSUME Parameters, Types, ChatSrv, NEW a \in Clients
  PROVE  /\ PendingFor(a) = <<>> /\ Queued(a) = inbox[a] /\ inbox[a] \in Seq(Datagrams) /\ cli[a] \in States
         /\ PendingFor(a)' = Mail(replies', a) /\ inbox'[a] = inbox[a] /\ cli'[a] = cli[a]
         /\ Queued(a)' = inbox[a] \o Mail(replies', a) /\ (Told(a)' => Told(a))
         /\ \A i \in From(a)' : i + 1 \in From(a) /\ Requests'[i] = Requests[i + 1] /\ i \in Nat \ {0}
         /\ Head(Requests).user.addr = a => 1 \in From(a) /\ Requests[1] = Head(Requests)
<1>1. /\ replies = <<>> /\ Requests # <<>> /\ Requests' = Tail(Requests)
      /\ \A d \in Clients : inbox'[d] = inbox[d] /\ cli'[d] = cli[d]
  BY TakesRequest
<1>2. inbox[a] \in Seq(Datagrams) /\ cli[a] \in States /\ Requests \in Seq(Datagrams)
  BY TypesAre DEF Types, Boxes, Requests
<1>3. PendingFor(a) = <<>>
  BY <1>1, PendingIsMail, MailNone
<1>4. Queued(a) = inbox[a]
  BY <1>2, <1>3, ConcatEmptySeq DEF Queued
<1>5. PendingFor(a)' = Mail(replies', a)
  BY DEF PendingFor, Mail, MessagesOf, For, Datagrams, Letters, Users, Junk
<1>6. Queued(a)' = inbox[a] \o Mail(replies', a)
  BY <1>1, <1>5 DEF Queued
<1>7. Told(a)' => Told(a)
  BY <1>1, KnowsSame, KnowsLess
<1> DEFINE s == Requests
           t == Tail(Requests)
<1>8. /\ Head(s) = s[1] /\ Len(s) \in Nat \ {0} /\ Len(t) = Len(s) - 1
      /\ \A i \in 1 .. Len(s) - 1 : t[i] = s[i + 1]
  BY <1>1, <1>2, HeadThenTail
<1>9. Requests' = t
  BY <1>1
<1> HIDE DEF s, t
<1>10. ASSUME NEW i \in From(a)' PROVE i + 1 \in From(a) /\ Requests'[i] = Requests[i + 1] /\ i \in Nat \ {0}
  <2>1. i \in 1 .. Len(t) /\ t[i].user.addr = a
    BY <1>9 DEF From
  <2>2. i \in 1 .. Len(s) - 1 /\ i + 1 \in 1 .. Len(s) /\ i \in Nat \ {0}
    BY <1>8, <2>1
  <2>3. t[i] = s[i + 1]
    BY <1>8, <2>2
  <2> QED BY <1>9, <2>1, <2>2, <2>3 DEF From, s
<1>11. Head(Requests).user.addr = a => 1 \in From(a) /\ Requests[1] = Head(Requests)
  BY <1>8 DEF From, s
<1> QED BY <1>1, <1>2, <1>3, <1>4, <1>5, <1>6, <1>7, <1>10, <1>11

\* Nothing is sent to a fresh client, nor about it.
LEMMA ServerFresh ==
  ASSUME Parameters, Types, ChatSrv, NEW a \in Clients, Fresh(a), Mail(replies', a) = <<>>,
         a \notin LoggedIn', \A i \in 1 .. Len(replies') : replies'[i].msg.user.addr # a
  PROVE  Fresh(a)'
<1>1. /\ Queued(a) = inbox[a] /\ inbox[a] \in Seq(Datagrams) /\ cli'[a] = cli[a]
      /\ Queued(a)' = inbox[a] \o <<>> /\ (Told(a)' => Told(a))
      /\ \A i \in From(a)' : i + 1 \in From(a) /\ Requests'[i] = Requests[i + 1] /\ i \in Nat \ {0}
  BY ServerStep
<1>2. Queued(a)' = Queued(a)
  BY <1>1, ConcatEmptySeq
<1>3. ~Heard(a)'
  BY <1>1 DEF Fresh, Heard
<1>4. /\ cli[a].at \in {"name", "wait"}
      /\ \A i \in From(a) : Requests[i].word = C2S_LOGIN /\ cli[a].at = "wait" /\ Queued(a) = <<>>
      /\ \A i, j \in From(a) : i = j
      /\ Queued(a) # <<>> => cli[a].at = "wait" /\ Queued(a) = <<Message(S2C_ALREADY_LOGINED, Junk)>>
  BY DEF Fresh
<1>5. \A i \in From(a)' : Requests'[i].word = C2S_LOGIN /\ cli[a].at = "wait" /\ Queued(a) = <<>>
  BY <1>1, <1>4
<1>6. ASSUME NEW i \in From(a)', NEW j \in From(a)' PROVE i = j
  <2>1. i + 1 = j + 1 /\ i \in Nat /\ j \in Nat
    BY <1>1, <1>4
  <2> QED BY <2>1
<1> QED BY <1>1, <1>2, <1>3, <1>4, <1>5, <1>6 DEF Fresh, Message, Junk, C2S_LOGIN, S2C_ALREADY_LOGINED

\* What is sent to a settled client keeps it so.
LEMMA ServerSettled ==
  ASSUME Parameters, Types, ChatSrv, NEW a \in Clients, Settled(a), Once(client_list', a),
         Mail(replies', a) \in Seq(Datagrams),
         ReadAll(ReadAll(cli[a], inbox[a]), Mail(replies', a)).at = "main",
         a \in LoggedIn' => ReadAll(ReadAll(cli[a], inbox[a]), Mail(replies', a)).users = client_list',
         \A i \in 2 .. Len(Mail(replies', a)) : Mail(replies', a)[i].kind # "message"
  PROVE  Settled(a)'
<1> DEFINE b == ReadAll(cli[a], inbox[a])
           k == Mail(replies', a)
           q == ReadAll(cli[a], inbox[a] \o k)
<1>1. /\ Queued(a) = inbox[a] /\ inbox[a] \in Seq(Datagrams) /\ cli[a] \in States
      /\ PendingFor(a)' = k /\ inbox'[a] = inbox[a] /\ cli'[a] = cli[a] /\ Queued(a)' = inbox[a] \o k
      /\ \A i \in From(a)' : i + 1 \in From(a) /\ Requests'[i] = Requests[i + 1]
  BY ServerStep
<1>2. k \in Seq(Datagrams) /\ ReadAll(b, k).at = "main" /\ (a \in LoggedIn' => ReadAll(b, k).users = client_list')
      /\ \A i \in 2 .. Len(k) : k[i].kind # "message"
  OBVIOUS
<1>3. b.at = "main"
  BY <1>1 DEF Settled
<1>4. ReadAll(cli[a], Queued(a))' = q /\ ReadAll(cli[a], inbox[a])' = b
  BY <1>1
<1> HIDE DEF k
<1>5. q = ReadAll(b, k)
  BY <1>1, <1>2, ReadConcat
<1> HIDE DEF b, q
<1>6. \A i \in From(a)' : Requests'[i].word # C2S_LOGIN
  BY <1>1 DEF Settled
<1>7. \A i, j \in 1 .. Len(client_list') : client_list'[i].addr = a /\ client_list'[j].addr = a => i = j
  BY DEF Once
<1>8. q.at = "main" /\ (a \in LoggedIn' => q.users = client_list')
  BY <1>2, <1>5
<1> QED BY <1>1, <1>2, <1>3, <1>4, <1>6, <1>7, <1>8 DEF Settled, C2S_LOGIN

\* Nothing is sent to a settled client, and its list stays.
LEMMA ServerSkips ==
  ASSUME Parameters, Types, ChatSrv, NEW a \in Clients, Settled(a), Once(client_list', a),
         Mail(replies', a) = <<>>, a \in LoggedIn' => a \in LoggedIn /\ client_list' = client_list
  PROVE  Settled(a)'
<1> DEFINE b == ReadAll(cli[a], inbox[a])
           k == Mail(replies', a)
<1>1. Queued(a) = inbox[a] /\ b \in States
  BY ServerStep, QueuedIs DEF Types
<1>2. b.at = "main" /\ (a \in LoggedIn => b.users = client_list)
  BY <1>1 DEF Settled
<1> HIDE DEF b
<1>3. ReadAll(b, <<>>) = b
  BY <1>1, ReadNone
<1>4. k = <<>> /\ k \in Seq(Datagrams) /\ Len(k) = 0
  BY EmptySeq
<1> HIDE DEF k
<1>5. ReadAll(b, k).at = "main" /\ (a \in LoggedIn' => ReadAll(b, k).users = client_list')
  BY <1>2, <1>3, <1>4
<1>6. \A i \in 2 .. Len(k) : k[i].kind # "message"
  BY <1>4
<1> QED BY <1>4, <1>5, <1>6, ServerSettled DEF b, k

\* One message is sent to a settled client.
LEMMA ServerTells ==
  ASSUME Parameters, Types, ChatSrv, NEW a \in Clients, Settled(a), Once(client_list', a),
         NEW m \in Datagrams, Mail(replies', a) = <<m>>, m.word # S2C_ONLINE_USER, a \in LoggedIn' => a \in LoggedIn,
         client_list' = IF m.word = S2C_SOMEONE_LOGIN THEN Append(client_list, m.user)
                        ELSE IF m.word = S2C_SOMEONE_LOGOUT THEN WithoutFirst(client_list, m.user.name)
                        ELSE client_list
  PROVE  Settled(a)'
<1> DEFINE b == ReadAll(cli[a], inbox[a])
           k == Mail(replies', a)
           one == <<m>>
           l == IF m.word = S2C_SOMEONE_LOGIN THEN Append(b.users, m.user)
                ELSE IF m.word = S2C_SOMEONE_LOGOUT THEN WithoutFirst(b.users, m.user.name)
                ELSE b.users
<1>1. Queued(a) = inbox[a] /\ b \in States
  BY ServerStep, QueuedIs DEF Types
<1>2. b.at = "main" /\ (a \in LoggedIn => b.users = client_list)
  BY <1>1 DEF Settled
<1>3. a \in LoggedIn' => l = client_list'
  BY <1>2
<1> HIDE DEF b
<1>4. ReadAll(b, one) = Reads(b, m)
  BY <1>1, ReadOne
<1>5. Reads(b, m) = Client(IF m.word = S2C_ONLINE_USER THEN "count" ELSE "main", b.name, b.n, l)
  BY <1>1, <1>2, ReadsMain
<1> HIDE DEF l
<1>6. ReadAll(b, one).at = "main" /\ ReadAll(b, one).users = l
  BY <1>4, <1>5, ClientFields
<1>7. k = one /\ one \in Seq(Datagrams) /\ Len(one) = 1
  OBVIOUS
<1> HIDE DEF k, one
<1>8. ReadAll(b, k).at = "main" /\ (a \in LoggedIn' => ReadAll(b, k).users = client_list')
  BY <1>3, <1>6, <1>7
<1>9. \A i \in 2 .. Len(k) : k[i].kind # "message"
  BY <1>7
<1>10. k \in Seq(Datagrams)
  BY <1>7
<1> QED BY <1>8, <1>9, <1>10, ServerSettled DEF b, k

\* The addresses of the list are those logged in.
LEMMA AmongIs == ASSUME NEW a PROVE /\ a \in LoggedIn <=> Among(client_list, a)
                                    /\ a \in LoggedIn' <=> Among(client_list', a)
BY DEF LoggedIn, Among

\* A fresh client that did not send the request hears nothing.
LEMMA FreshOther ==
  ASSUME Parameters, Types, ChatSrv, NEW a \in Clients, Fresh(a), Head(Requests).user.addr # a,
         Mail(replies', a) = <<>>, ~Among(client_list', a)
  PROVE  Fresh(a)'
<1> DEFINE u == Head(Requests).user
<1>1. About(replies', Subjects(u, client_list'))
  BY Answers
<1>2. u.addr # a /\ Junk.addr # a
  BY JunkIs
<1>3. \A i \in 1 .. Len(client_list') : client_list'[i].addr # a
  BY DEF Among
<1> HIDE DEF u
<1>4. \A x \in Subjects(u, client_list') : x.addr # a
  BY <1>2, <1>3 DEF Subjects
<1>5. \A i \in 1 .. Len(replies') : replies'[i].msg.user.addr # a
  BY <1>1, <1>4 DEF About
<1>6. a \notin LoggedIn'
  BY AmongIs
<1> QED BY <1>5, <1>6, ServerFresh

\* Who asked for a login is fresh, waits, and asked once; who asked for anything else is not.
LEMMA AskedLogin ==
  ASSUME Parameters, Types, ChatSrv, NEW a \in Clients, Agrees(a), Head(Requests).user.addr = a,
         Head(Requests).word = C2S_LOGIN
  PROVE  /\ Fresh(a) /\ cli[a].at = "wait" /\ cli'[a] = cli[a] /\ inbox[a] = <<>> /\ inbox'[a] = <<>> /\ From(a)' = {}
         /\ ~Among(client_list, a) /\ ~Told(a) /\ ~Told(a)'
<1>1. 1 \in From(a) /\ Requests[1].word = C2S_LOGIN
  BY ServerStep
<1>2. Fresh(a)
  BY <1>1 DEF Agrees, Settled
<1>3. /\ cli[a].at = "wait" /\ Queued(a) = <<>> /\ ~Told(a) /\ a \notin LoggedIn
      /\ \A i \in From(a) : i = 1
  BY <1>1, <1>2 DEF Fresh, Heard
<1>4. /\ inbox[a] = <<>> /\ inbox'[a] = <<>> /\ ~Told(a)' /\ cli'[a] = cli[a]
      /\ \A i \in From(a)' : i + 1 \in From(a) /\ i \in Nat \ {0}
  BY <1>3, ServerStep
<1>5. ASSUME NEW i \in From(a)' PROVE FALSE
  <2>1. i + 1 = 1 /\ i \in Nat \ {0}
    BY <1>3, <1>4
  <2> QED BY <2>1
<1>6. From(a)' = {}
  BY <1>5
<1> QED BY <1>2, <1>3, <1>4, <1>6, AmongIs

\* A settled client's request is no login.
LEMMA AskedOther ==
  ASSUME Parameters, Types, ChatSrv, NEW a \in Clients, Fresh(a), Head(Requests).word # C2S_LOGIN
  PROVE  Head(Requests).user.addr # a
BY ServerStep DEF Fresh

\* The list, read by a client that waits or is at main.
LEMMA AnswerRead ==
  ASSUME Parameters, NEW cmd \in 0 .. 6, NEW list \in Seq(Users), Distinct(list), NEW c \in States,
         \/ c.at = "wait" /\ cmd = S2C_LOGIN_OK
         \/ c.at = "main" /\ cmd = S2C_ONLINE_USER
  PROVE  ReadAll(c, Answer(cmd, list)).at = "main" /\ ReadAll(c, Answer(cmd, list)).users = list
<1> DEFINE m == Message(cmd, Junk)
           one == <<m>>
           rest == <<Count(Len(list))>> \o Infos(list)
           d == Reads(c, m)
<1>1. Answer(cmd, list) = one \o rest /\ rest \in Seq(Datagrams)
  BY AnswerIs
<1>2. m \in Datagrams /\ m.word = cmd
  <2>1. Junk \in Users \cup {Junk}
    OBVIOUS
  <2> QED BY <2>1, MessageType
<1>3. Len(list) < Letters
  BY ShortList DEF Distinct
<1> HIDE DEF m
<1>4. one \in Seq(Datagrams) /\ ReadAll(c, one) = d /\ d \in States
  <2>1. one \in Seq(Datagrams)
    BY <1>2
  <2> QED BY <1>2, <2>1, ReadOne, ReadsType
<1>5. d.at = "count"
  <2>1. CASE c.at = "wait" /\ cmd = S2C_LOGIN_OK
    <3>1. d = Client(IF m.word = S2C_LOGIN_OK THEN "count" ELSE "name", c.name, c.n, c.users)
      BY <2>1, ReadsWait
    <3> QED BY <1>2, <2>1, <3>1, ClientFields
  <2>2. CASE c.at = "main" /\ cmd = S2C_ONLINE_USER
    <3> DEFINE l == IF m.word = S2C_SOMEONE_LOGIN THEN Append(c.users, m.user)
                    ELSE IF m.word = S2C_SOMEONE_LOGOUT THEN WithoutFirst(c.users, m.user.name)
                    ELSE c.users
    <3>1. d = Client(IF m.word = S2C_ONLINE_USER THEN "count" ELSE "main", c.name, c.n, l)
      BY <2>2, ReadsMain
    <3> HIDE DEF l
    <3>2. d = Client("count", c.name, c.n, l)
      BY <1>2, <2>2, <3>1
    <3> QED BY <3>2, ClientFields
  <2> QED BY <2>1, <2>2
<1>6. ReadAll(d, rest) = Client("main", d.name, 0, list)
  BY <1>3, <1>4, <1>5, ListRead
<1> HIDE DEF one, rest, d
<1>7. ReadAll(c, one \o rest) = ReadAll(d, rest)
  BY <1>1, <1>4, ReadConcat
<1>8. ReadAll(c, Answer(cmd, list)).at = "main" /\ ReadAll(c, Answer(cmd, list)).users = list
  BY <1>1, <1>6, <1>7, ClientFields
<1> QED BY <1>8

\* An answer is mail for who asked, and for nobody else.
LEMMA MailAnswer ==
  ASSUME Parameters, NEW cmd \in 0 .. 6, NEW list \in Seq(Users), Distinct(list), NEW c \in Clients, NEW a
  PROVE  /\ Mail(To(c, Answer(cmd, list)), a) = IF a = c THEN Answer(cmd, list) ELSE <<>>
         /\ Answer(cmd, list) \in Seq(Datagrams) /\ Answer(cmd, list) # <<>>
         /\ Answer(cmd, list)[1] = Message(cmd, Junk)
         /\ \A i \in 2 .. Len(Answer(cmd, list)) : Answer(cmd, list)[i].kind # "message"
<1> DEFINE ms == Answer(cmd, list)
<1>1. /\ ms \in Seq(Datagrams) /\ Len(ms) >= 2 /\ ms[1] = Message(cmd, Junk)
      /\ \A i \in 2 .. Len(ms) : ms[i].kind # "message"
  BY AnswerIs
<1> HIDE DEF ms
<1>2. Mail(To(c, ms), a) = IF a = c THEN ms ELSE <<>>
  BY <1>1, MailTo
<1>3. ms # <<>>
  BY <1>1
<1> QED BY <1>1, <1>2, <1>3 DEF ms

\* A message to all of a list reaches who is on it, once if it is on it once.
LEMMA MailAll ==
  ASSUME NEW list \in Seq(Users), NEW name, NEW m \in Datagrams, NEW a, Once(list, a)
  PROVE  Mail(ToOthers_All(list, name, m), a) = IF Among(list, a) THEN <<m>> ELSE <<>>
<1> DEFINE k == Mail(ToOthers_All(list, name, m), a)
<1>1. /\ (\A i \in 1 .. Len(list) : list[i].addr # a) => k = <<>>
      /\ \A j \in 1 .. Len(list) : (\A i \in 1 .. Len(list) : list[i].addr = a <=> i = j) => k = <<m>>
  BY MailToAll
<1> HIDE DEF k
<1>2. CASE ~Among(list, a)
  <2>1. \A i \in 1 .. Len(list) : list[i].addr # a
    BY <1>2 DEF Among
  <2> QED BY <1>1, <1>2, <2>1 DEF k
<1>3. CASE Among(list, a)
  <2>1. PICK j \in 1 .. Len(list) : list[j].addr = a
    BY <1>3 DEF Among
  <2>2. \A i \in 1 .. Len(list) : list[i].addr = a <=> i = j
    BY <2>1 DEF Once
  <2> QED BY <1>1, <1>3, <2>2 DEF k
<1> QED BY <1>2, <1>3

\* DoLogin, accepted: the new user gets the list with itself, the others get the new
\* user.
LEMMA AgreesLoginOk ==
  ASSUME Parameters, Types, ChatSrv, NEW a \in Clients, Agrees(a),
         Head(Requests).word = C2S_LOGIN, DoLogin(Head(Requests).user),
         ByName(client_list, Head(Requests).user.name) = 0
  PROVE  Agrees(a)'
<1> DEFINE u == Head(Requests).user
           c == u.addr
           l == client_list
           m == Message(S2C_SOMEONE_LOGIN, u)
           ans == To(c, Answer(S2C_LOGIN_OK, client_list'))
           all == ToOthers_All(l, u.name, m)
<1>1. u \in Users /\ c \in Clients
  BY TakesRequest, UserIs
<1>2. l \in Seq(Users) /\ Distinct(l)
  BY TypesGive DEF Distinct
<1>3. m \in Datagrams /\ m.word = S2C_SOMEONE_LOGIN /\ m.user = u
  <2>1. S2C_SOMEONE_LOGIN \in 0 .. 6 /\ u \in Users \cup {Junk}
    BY <1>1 DEF S2C_SOMEONE_LOGIN
  <2> QED BY <2>1, MessageType
<1>4. DoLogin(u) /\ ByName(l, u.name) = 0 /\ Head(Requests).user = u /\ c = u.addr
  OBVIOUS
<1> HIDE DEF u, c, l, m
<1>5. client_list' = Append(l, u) /\ client_list' \in Seq(Users) /\ Distinct(client_list') /\ replies' = ans \o all
  BY <1>1, <1>4, LoginOk DEF l, m, c
<1>6. /\ \A b : Once(l, b) /\ (b = c => ~Among(l, b)) => Once(client_list', b)
      /\ \A b : Among(client_list', b) <=> Among(l, b) \/ b = c
  BY <1>1, <1>2, <1>4, <1>5, AppendUnique
<1>7. S2C_LOGIN_OK \in 0 .. 6
  BY DEF S2C_LOGIN_OK
<1>8. ans \in Seq(Replies)
  BY <1>1, <1>4, <1>5, <1>7, AnswerTo
<1>9. all \in Seq(Replies)
  BY <1>2, <1>3, MailToAll
<1> DEFINE k == client_list'
           oks == Answer(S2C_LOGIN_OK, k)
<1>20. k \in Seq(Users) /\ Distinct(k) /\ ans = To(c, Answer(S2C_LOGIN_OK, k)) /\ k = client_list'
  BY <1>5
<1> HIDE DEF ans, k
<1> DEFINE cmd == S2C_LOGIN_OK
<1>21. cmd \in 0 .. 6 /\ oks = Answer(cmd, k)
  BY <1>7
<1> HIDE DEF cmd, oks
<1>25. cmd \in 0 .. 6 /\ k \in Seq(Users) /\ Distinct(k) /\ c \in Clients
  BY <1>1, <1>20, <1>21
<1> DEFINE asked == Answer(cmd, k)
<1>22. /\ Mail(To(c, asked), a) = IF a = c THEN asked ELSE <<>>
       /\ asked \in Seq(Datagrams) /\ asked # <<>>
       /\ asked[1] = Message(cmd, Junk)
       /\ \A i \in 2 .. Len(asked) : asked[i].kind # "message"
  <2>1. Mail(To(c, Answer(cmd, k)), a) = IF a = c THEN Answer(cmd, k) ELSE <<>>
    BY <1>25, MailAnswer
  <2>2. Answer(cmd, k) \in Seq(Datagrams) /\ Answer(cmd, k) # <<>>
    BY <1>25, MailAnswer
  <2>3. Answer(cmd, k)[1] = Message(cmd, Junk)
    BY <1>25, MailAnswer
  <2>4. \A i \in 2 .. Len(Answer(cmd, k)) : Answer(cmd, k)[i].kind # "message"
    BY <1>25, MailAnswer
  <2> QED BY <2>1, <2>2, <2>3, <2>4 DEF asked
<1> HIDE DEF asked
<1>24. ans = To(c, asked) /\ oks = asked
  BY <1>20, <1>21 DEF cmd, asked
<1>10. /\ Mail(ans, a) = IF a = c THEN oks ELSE <<>>
       /\ oks \in Seq(Datagrams) /\ oks # <<>> /\ oks[1] = Message(S2C_LOGIN_OK, Junk)
       /\ \A i \in 2 .. Len(oks) : oks[i].kind # "message"
  <2>1. Mail(ans, a) = IF a = c THEN oks ELSE <<>>
    BY <1>22, <1>24
  <2>2. oks \in Seq(Datagrams) /\ \A i \in 2 .. Len(oks) : oks[i].kind # "message"
    BY <1>22, <1>24
  <2>3. oks # <<>> /\ oks[1] = Message(cmd, Junk)
    BY <1>22, <1>24
  <2> QED BY <2>1, <2>2, <2>3 DEF cmd
<1>11. Once(l, a) => Mail(all, a) = IF Among(l, a) THEN <<m>> ELSE <<>>
  BY <1>2, <1>3, MailAll
<1> HIDE DEF all
<1>12. Mail(replies', a) = Mail(ans, a) \o Mail(all, a)
  BY <1>5, <1>8, <1>9, MailConcat
<1>13. CASE a # c /\ ~Among(l, a)
  <2>1. Once(l, a) /\ ~Among(client_list', a) /\ Once(client_list', a)
    <3>1. Once(l, a)
      BY <1>13 DEF Once, Among
    <3> QED BY <1>6, <1>13, <3>1
  <2>2. Mail(replies', a) = <<>>
    <3>1. Mail(ans, a) = <<>> /\ Mail(all, a) = <<>>
      BY <1>10, <1>11, <1>13, <2>1
    <3>2. <<>> \o <<>> = <<>>
      BY EmptySeq, ConcatEmptySeq
    <3> QED BY <1>12, <3>1, <3>2
  <2>3. CASE Fresh(a)
    <3>1. Fresh(a)'
      BY <1>4, <1>13, <2>1, <2>2, <2>3, FreshOther
    <3> QED BY <3>1 DEF Agrees
  <2>4. CASE Settled(a)
    <3>1. a \notin LoggedIn'
      BY <2>1, AmongIs
    <3>2. Settled(a)'
      BY <2>1, <2>2, <2>4, <3>1, ServerSkips
    <3> QED BY <3>2 DEF Agrees
  <2> QED BY <2>3, <2>4 DEF Agrees
<1>14. CASE a # c /\ Among(l, a)
  <2>1. Settled(a)
    BY <1>14, AmongIs DEF Agrees, Fresh, Heard, l
  <2>2. Once(l, a)
    BY <2>1 DEF Settled, Once, l
  <2>3. Once(client_list', a) /\ a \in LoggedIn
    BY <1>6, <1>14, <2>2, AmongIs DEF l
  <2>4. Mail(replies', a) = <<m>>
    <3> DEFINE one == <<m>>
    <3>1. Mail(ans, a) = <<>> /\ Mail(all, a) = one /\ one \in Seq(Datagrams)
      BY <1>3, <1>10, <1>11, <1>14, <2>2
    <3> HIDE DEF one
    <3>2. <<>> \o one = one
      BY <3>1, ConcatEmptySeq
    <3> QED BY <1>12, <3>1, <3>2 DEF one
  <2>5. m.word # S2C_ONLINE_USER /\ client_list' = Append(client_list, m.user)
    BY <1>3, <1>5 DEF S2C_ONLINE_USER, S2C_SOMEONE_LOGIN, l
  <2>6. client_list' = IF m.word = S2C_SOMEONE_LOGIN THEN Append(client_list, m.user)
                        ELSE IF m.word = S2C_SOMEONE_LOGOUT THEN WithoutFirst(client_list, m.user.name)
                        ELSE client_list
    BY <1>3, <2>5
  <2>7. Settled(a)'
    BY <1>3, <2>1, <2>3, <2>4, <2>5, <2>6, ServerTells
  <2> QED BY <2>7 DEF Agrees
<1>15. CASE a = c
  <2>1. /\ Fresh(a) /\ cli[a].at = "wait" /\ cli'[a] = cli[a] /\ inbox[a] = <<>> /\ inbox'[a] = <<>> /\ From(a)' = {}
        /\ ~Among(l, a) /\ ~Told(a) /\ ~Told(a)'
    BY <1>4, <1>15, AskedLogin DEF l
  <2>2. Once(l, a) /\ Once(client_list', a)
    <3>1. Once(l, a)
      BY <2>1 DEF Once, Among
    <3> QED BY <1>6, <2>1, <3>1
  <2>3. Mail(replies', a) = oks
    <3>1. Mail(ans, a) = oks /\ Mail(all, a) = <<>>
      BY <1>10, <1>11, <1>15, <2>1, <2>2
    <3>2. oks \o <<>> = oks
      BY <1>10, ConcatEmptySeq
    <3> QED BY <1>12, <3>1, <3>2
  <2>4. /\ PendingFor(a)' = oks /\ Queued(a)' = <<>> \o oks /\ cli[a] \in States
    BY <2>1, <2>3, ServerStep
  <2>5. Queued(a)' = oks
    BY <1>10, <2>4, ConcatEmptySeq
  <2>6. ReadAll(cli[a], oks).at = "main" /\ ReadAll(cli[a], oks).users = client_list'
    <3>1. ReadAll(cli[a], Answer(cmd, k)).at = "main" /\ ReadAll(cli[a], Answer(cmd, k)).users = k
      BY <1>20, <1>21, <2>1, <2>4, AnswerRead DEF cmd
    <3> QED BY <1>20, <1>21, <3>1
  <2>7. IsOk(oks[1])
    BY <1>10 DEF IsOk, Message
  <2>8. \A i, j \in 1 .. Len(client_list') : client_list'[i].addr = a /\ client_list'[j].addr = a => i = j
    BY <2>2 DEF Once
  <2> DEFINE q == ReadAll(cli[a], oks)
  <2>9. ReadAll(cli[a], Queued(a))' = q /\ q.at = "main" /\ q.users = client_list'
    BY <2>1, <2>5, <2>6
  <2> HIDE DEF q
  <2>10. \A i \in 2 .. Len(PendingFor(a)') : PendingFor(a)'[i].kind # "message"
    BY <1>10, <2>4
  <2>11. IsOk(PendingFor(a)[1])'
    BY <2>4, <2>7 DEF IsOk, S2C_LOGIN_OK
  <2>12. \A i \in From(a)' : Requests'[i].word # C2S_LOGIN
    BY <2>1
  <2>13. Settled(a)'
    BY <2>1, <2>8, <2>9, <2>10, <2>11, <2>12 DEF Settled, C2S_LOGIN
  <2> QED BY <2>13 DEF Agrees
<1> QED BY <1>13, <1>14, <1>15

\* DoLogin, refused: the client is told so, and is as fresh as before.
LEMMA AgreesLoginNot ==
  ASSUME Parameters, Types, ChatSrv, NEW a \in Clients, Agrees(a),
         Head(Requests).word = C2S_LOGIN, DoLogin(Head(Requests).user),
         ByName(client_list, Head(Requests).user.name) # 0
  PROVE  Agrees(a)'
<1> DEFINE u == Head(Requests).user
           c == u.addr
           f == Message(S2C_ALREADY_LOGINED, Junk)
           one == <<f>>
<1>1. u \in Users /\ c \in Clients
  BY TakesRequest, UserIs
<1>2. DoLogin(u) /\ ByName(client_list, u.name) # 0 /\ c = Head(Requests).user.addr
  OBVIOUS
<1> HIDE DEF u
<1>3. client_list' = client_list /\ replies' = To(c, one) /\ f \in Datagrams /\ About(replies', {Junk})
  BY <1>1, <1>2, LoginNot
<1> HIDE DEF c, f
<1>4. one \in Seq(Datagrams)
  BY <1>3
<1> HIDE DEF one
<1>5. Mail(replies', a) = IF a = c THEN one ELSE <<>>
  BY <1>1, <1>3, <1>4, MailTo DEF c
<1>6. \A i \in 1 .. Len(replies') : replies'[i].msg.user.addr # a
  BY <1>3, JunkIs DEF About
<1>7. LoggedIn' = LoggedIn
  BY <1>3 DEF LoggedIn
<1>8. CASE a # c
  <2>1. Mail(replies', a) = <<>>
    BY <1>5, <1>8
  <2>2. CASE Fresh(a)
    <3>1. a \notin LoggedIn'
      BY <1>7, <2>2 DEF Fresh, Heard
    <3>2. Fresh(a)'
      BY <1>6, <2>1, <2>2, <3>1, ServerFresh
    <3> QED BY <3>2 DEF Agrees
  <2>3. CASE Settled(a)
    <3>1. Once(client_list', a)
      BY <1>3, <2>3 DEF Settled, Once
    <3>2. Settled(a)'
      BY <1>3, <1>7, <2>1, <2>3, <3>1, ServerSkips
    <3> QED BY <3>2 DEF Agrees
  <2> QED BY <2>2, <2>3 DEF Agrees
<1>9. CASE a = c
  <2>1. /\ Fresh(a) /\ cli[a].at = "wait" /\ cli'[a] = cli[a] /\ inbox[a] = <<>> /\ inbox'[a] = <<>> /\ From(a)' = {}
        /\ ~Among(client_list, a) /\ ~Told(a) /\ ~Told(a)'
    BY <1>2, <1>9, AskedLogin
  <2>2. Queued(a)' = <<>> \o one
    BY <1>5, <1>9, <2>1, ServerStep
  <2>3. Queued(a)' = one
    BY <1>4, <2>2, ConcatEmptySeq
  <2>4. ~Heard(a)'
    BY <1>6, <1>7, <2>1, AmongIs DEF Heard
  <2>5. Queued(a)' = <<Message(S2C_ALREADY_LOGINED, Junk)>>
    BY <2>3 DEF one, f
  <2>6. cli'[a].at = "wait"
    BY <2>1
  <2>7. Fresh(a)'
    BY <2>1, <2>4, <2>5, <2>6 DEF Fresh, Message, Junk, S2C_ALREADY_LOGINED
  <2> QED BY <2>7 DEF Agrees
<1> QED BY <1>8, <1>9

\* DoLogout: the others get the name, which the server's list held once.
LEMMA AgreesLogout ==
  ASSUME Parameters, Types, ChatSrv, NEW a \in Clients, Agrees(a),
         Head(Requests).word = C2S_LOGOUT, DoLogout(Head(Requests).user)
  PROVE  Agrees(a)'
<1> DEFINE u == Head(Requests).user
           c == u.addr
           k == client_list'
           m == Message(S2C_SOMEONE_LOGOUT, u)
           all == ToOthers_All(k, u.name, m)
<1>1. u \in Users
  BY TakesRequest
<1>2. client_list \in Seq(Users) /\ Distinct(client_list)
  BY TypesGive DEF Distinct
<1>3. m \in Datagrams /\ m.word = S2C_SOMEONE_LOGOUT /\ m.user = u
  <2>1. S2C_SOMEONE_LOGOUT \in 0 .. 6 /\ u \in Users \cup {Junk}
    BY <1>1 DEF S2C_SOMEONE_LOGOUT
  <2> QED BY <2>1, MessageType
<1>4. DoLogout(u) /\ c = Head(Requests).user.addr
  OBVIOUS
<1>5. Head(Requests).word # C2S_LOGIN
  BY DEF C2S_LOGIN, C2S_LOGOUT
<1> HIDE DEF u, c
<1>6. k = WithoutFirst(client_list, u.name) /\ k \in Seq(Users) /\ replies' = all
  BY <1>1, <1>4, LogoutIs
<1>7. /\ \A b : Once(client_list, b) => Once(k, b)
      /\ \A b : Among(k, b) => Among(client_list, b)
  BY <1>2, <1>6, WithoutUnique
<1> HIDE DEF m, k
<1>8. Once(k, a) => Mail(all, a) = IF Among(k, a) THEN <<m>> ELSE <<>>
  BY <1>3, <1>6, MailAll
<1> HIDE DEF all
<1>9. Mail(replies', a) = Mail(all, a)
  BY <1>6
<1>10. CASE Fresh(a)
  <2>1. ~Among(client_list, a)
    BY <1>10, AmongIs DEF Fresh, Heard
  <2>2. ~Among(k, a)
    BY <1>7, <2>1
  <2>3. Once(k, a)
    BY <2>2 DEF Once, Among
  <2>4. Mail(replies', a) = <<>> /\ ~Among(client_list', a)
    BY <1>8, <1>9, <2>2, <2>3 DEF k
  <2>5. Fresh(a)'
    BY <1>5, <1>10, <2>4, AskedOther, FreshOther
  <2> QED BY <2>5 DEF Agrees
<1>11. CASE Settled(a)
  <2>1. Once(client_list, a)
    BY <1>11 DEF Settled, Once
  <2>2. Once(k, a)
    BY <1>7, <2>1
  <2>3. (a \in LoggedIn' <=> Among(k, a)) /\ (a \in LoggedIn' => a \in LoggedIn) /\ Once(client_list', a)
    BY <1>7, <2>2, AmongIs DEF k
  <2>4. CASE ~Among(k, a)
    <3>1. Mail(replies', a) = <<>>
      BY <1>8, <1>9, <2>2, <2>4
    <3>2. Settled(a)'
      BY <1>11, <2>3, <2>4, <3>1, ServerSkips
    <3> QED BY <3>2 DEF Agrees
  <2>5. CASE Among(k, a)
    <3>1. Mail(replies', a) = <<m>>
      BY <1>8, <1>9, <2>2, <2>5
    <3>2. m.word # S2C_ONLINE_USER /\ m.word # S2C_SOMEONE_LOGIN /\ client_list' = WithoutFirst(client_list, m.user.name)
      BY <1>3, <1>6 DEF S2C_ONLINE_USER, S2C_SOMEONE_LOGIN, S2C_SOMEONE_LOGOUT, k
    <3>3. client_list' = IF m.word = S2C_SOMEONE_LOGIN THEN Append(client_list, m.user)
                          ELSE IF m.word = S2C_SOMEONE_LOGOUT THEN WithoutFirst(client_list, m.user.name)
                          ELSE client_list
      BY <1>3, <3>2
    <3>4. Settled(a)'
      BY <1>3, <1>11, <2>3, <3>1, <3>2, <3>3, ServerTells
    <3> QED BY <3>4 DEF Agrees
  <2> QED BY <2>4, <2>5
<1> QED BY <1>10, <1>11 DEF Agrees

\* DoSendList: who asked gets the list as it is.
LEMMA AgreesSendList ==
  ASSUME Parameters, Types, ChatSrv, NEW a \in Clients, Agrees(a),
         Head(Requests).word = C2S_ONLINE_USER, DoSendList(Head(Requests).user)
  PROVE  Agrees(a)'
<1> DEFINE u == Head(Requests).user
           c == u.addr
           l == client_list
           ans == Answer(S2C_ONLINE_USER, l)
<1>1. u \in Users /\ c \in Clients
  BY TakesRequest, UserIs
<1>2. l \in Seq(Users) /\ Distinct(l)
  BY TypesGive DEF Distinct
<1>3. DoSendList(u) /\ c = Head(Requests).user.addr /\ S2C_ONLINE_USER \in 0 .. 6
  BY DEF S2C_ONLINE_USER
<1>4. Head(Requests).word # C2S_LOGIN
  BY DEF C2S_LOGIN, C2S_ONLINE_USER
<1> HIDE DEF u
<1>5. client_list' = l /\ replies' = To(c, ans)
  BY <1>1, <1>3, SendListIs
<1> HIDE DEF c, l
<1> DEFINE cmd == S2C_ONLINE_USER
<1>20. cmd \in 0 .. 6 /\ l \in Seq(Users) /\ Distinct(l) /\ c \in Clients /\ ans = Answer(cmd, l)
  BY <1>1, <1>2, <1>3 DEF c
<1> HIDE DEF cmd, ans
<1>21. Mail(To(c, Answer(cmd, l)), a) = IF a = c THEN Answer(cmd, l) ELSE <<>>
  BY <1>20, MailAnswer
<1>22. Answer(cmd, l) \in Seq(Datagrams) /\ \A i \in 2 .. Len(Answer(cmd, l)) : Answer(cmd, l)[i].kind # "message"
  BY <1>20, AnswerIs
<1>6. /\ Mail(To(c, ans), a) = IF a = c THEN ans ELSE <<>>
      /\ ans \in Seq(Datagrams)
      /\ \A i \in 2 .. Len(ans) : ans[i].kind # "message"
  BY <1>20, <1>21, <1>22
<1>7. LoggedIn' = LoggedIn /\ client_list' = client_list
  BY <1>5 DEF LoggedIn, l
<1>8. ASSUME NEW x \in States, x.at = "main" PROVE ReadAll(x, ans).at = "main" /\ ReadAll(x, ans).users = l
  <2>1. ReadAll(x, Answer(cmd, l)).at = "main" /\ ReadAll(x, Answer(cmd, l)).users = l
    BY <1>8, <1>20, AnswerRead DEF cmd
  <2> QED BY <1>20, <2>1
<1>9. Mail(replies', a) = IF a = c THEN ans ELSE <<>>
  BY <1>5, <1>6
<1>10. CASE Fresh(a)
  <2>1. ~Among(client_list', a)
    BY <1>7, <1>10, AmongIs DEF Fresh, Heard
  <2>2. c # a
    BY <1>3, <1>4, <1>10, AskedOther
  <2>3. Fresh(a)'
    BY <1>3, <1>9, <1>10, <2>1, <2>2, FreshOther
  <2> QED BY <2>3 DEF Agrees
<1>11. CASE Settled(a)
  <2>1. Once(client_list', a)
    BY <1>7, <1>11 DEF Settled, Once
  <2>2. CASE a # c
    <3>1. Settled(a)'
      BY <1>7, <1>9, <1>11, <2>1, <2>2, ServerSkips
    <3> QED BY <3>1 DEF Agrees
  <2>3. CASE a = c
    <3> DEFINE b == ReadAll(cli[a], inbox[a])
    <3>1. Queued(a) = inbox[a] /\ b \in States
      BY ServerStep, QueuedIs DEF Types
    <3>2. b.at = "main"
      BY <1>11, <3>1 DEF Settled
    <3> HIDE DEF b
    <3>3. ReadAll(b, ans).at = "main" /\ ReadAll(b, ans).users = client_list'
      BY <1>5, <1>8, <3>1, <3>2
    <3>4. Mail(replies', a) = ans
      BY <1>9, <2>3
    <3>5. Settled(a)'
      BY <1>6, <1>11, <2>1, <3>3, <3>4, ServerSettled DEF b
    <3> QED BY <3>5 DEF Agrees
  <2> QED BY <2>2, <2>3
<1> QED BY <1>10, <1>11 DEF Agrees

\* The server's steps are these four.
LEMMA AgreesChatSrv ==
  ASSUME Parameters, Types, ChatSrv, NEW a \in Clients, Agrees(a)
  PROVE  Agrees(a)'
<1> DEFINE m == Head(Requests)
<1>1. \/ m.word = C2S_LOGIN /\ DoLogin(m.user)
      \/ m.word = C2S_LOGOUT /\ DoLogout(m.user)
      \/ m.word = C2S_ONLINE_USER /\ DoSendList(m.user)
  BY TakesRequest
<1>2. CASE m.word = C2S_LOGIN /\ DoLogin(m.user) /\ ByName(client_list, m.user.name) = 0
  BY <1>2, AgreesLoginOk
<1>3. CASE m.word = C2S_LOGIN /\ DoLogin(m.user) /\ ByName(client_list, m.user.name) # 0
  BY <1>3, AgreesLoginNot
<1>4. CASE m.word = C2S_LOGOUT /\ DoLogout(m.user)
  BY <1>4, AgreesLogout
<1>5. CASE m.word = C2S_ONLINE_USER /\ DoSendList(m.user)
  BY <1>5, AgreesSendList
<1> QED BY <1>1, <1>2, <1>3, <1>4, <1>5

-----------------------------------------------------------------------------
(* The lists agree.                                                        *)

\* Nobody is there to hear of anyone yet.
LEMMA AgreesInit ==
  ASSUME Parameters, Init
  PROVE  OkFirst /\ Agreeing
<1>1. /\ client_list = <<>> /\ replies = <<>> /\ \A b \in Boxes : inbox[b] = <<>>
      /\ \A c \in Clients : cli[c].at = "name" /\ cli[c].users = <<>>
      /\ Server \in Boxes /\ Clients \subseteq Boxes
  BY DEF Init, Boxes
<1>2. OkFirst
  BY <1>1 DEF OkFirst
<1>3. ASSUME NEW a \in Clients PROVE Fresh(a)
  <2>1. From(a) = {}
    BY <1>1 DEF From, Requests
  <2>2. PendingFor(a) = <<>>
    BY <1>1, PendingIsMail, MailNone
  <2>3. Queued(a) = <<>>
    <3>1. <<>> \o <<>> = <<>>
      BY EmptySeq, ConcatEmptySeq
    <3> QED BY <1>1, <2>2, <3>1 DEF Queued
  <2>4. ~Heard(a)
    <3>1. \A c \in Clients : ~Knows(c, a)
      BY <1>1 DEF Knows
    <3>2. a \notin LoggedIn /\ Len(replies) = 0
      BY <1>1 DEF LoggedIn
    <3> QED BY <3>1, <3>2 DEF Heard, Told
  <2> QED BY <1>1, <2>1, <2>3, <2>4 DEF Fresh
<1> QED BY <1>2, <1>3 DEF Agreeing

\* Each step leaves each unspoilt client fresh or settled.
LEMMA AgreeingNext ==
  ASSUME Parameters, Types, OkFirst, Agreeing, [Next]_vars
  PROVE  Agreeing'
<1> SUFFICES ASSUME NEW a \in Clients, a \notin spoilt', Alive(a)' PROVE Agrees(a)'
  BY DEF Agreeing, Agrees
<1>1. Alive(a) /\ a \notin spoilt
  <2>1. cli'[a].at # "gone"
    BY DEF Alive, Parameters
  <2>2. spoilt \subseteq spoilt'
    BY DEF Next, User, Receive, Login, List, SendMsgTo, Exit, Killed, ChatSrv, SendReply, vars
  <2>3. cli \in [Clients -> ClientStates]
    BY TypesGive
  <2>4. cli[a].at # "gone"
    <3>1. ASSUME NEW c \in Clients, Receive(c) PROVE cli[a].at # "gone"
      <4>1. cli[c].at # "gone" /\ cli' = [cli EXCEPT ![c] = Reads(@, Head(inbox[c]))]
        BY <3>1 DEF Receive
      <4> QED BY <2>1, <2>3, <4>1
    <3>2. ASSUME NEW c \in Clients, User(c) PROVE cli[a].at # "gone"
      <4>1. cli[c].at # "gone"
        BY <3>2 DEF User, Login, SendMsgTo, List, Exit, Killed
      <4>2. a # c => cli'[a] = cli[a]
        BY <2>3, <3>2 DEF User, Login, SendMsgTo, List, Exit, Killed, Gone
      <4> QED BY <2>1, <4>1, <4>2
    <3>3. CASE cli' = cli
      BY <2>1, <3>3
    <3> QED BY <3>1, <3>2, <3>3 DEF Next, ChatSrv, SendReply, vars
  <2> QED BY <2>2, <2>4 DEF Alive
<1>2. Agrees(a)
  BY <1>1 DEF Agreeing, Agrees
<1>3. ASSUME NEW c \in Clients, Receive(c) PROVE Agrees(a)'
  BY <1>2, <1>3, AgreesReceive
<1>4. ASSUME NEW c \in Clients, User(c) PROVE Agrees(a)'
  <2>1. ASSUME NEW name \in Names, Login(c, name) PROVE Agrees(a)'
    BY <1>2, <2>1, AgreesLogin
  <2>2. ASSUME NEW name \in Names, SendMsgTo(c, name) PROVE Agrees(a)'
    BY <1>1, <1>2, <2>2, AgreesSendMsg
  <2>3. CASE List(c)
    BY <1>2, <2>3, AgreesList
  <2>4. CASE Exit(c) \/ Killed(c)
    <3>1. a # c
      <4>1. cli' = Gone(c)
        BY <2>4 DEF Exit, Killed
      <4>2. cli'[c].at = "gone"
        BY <4>1, GoneIs
      <4> QED BY <4>2 DEF Alive, Parameters
    <3>2. CASE Exit(c)
      BY <1>2, <3>1, <3>2, AgreesExit
    <3>3. CASE Killed(c)
      BY <1>2, <3>1, <3>3, AgreesKilled
    <3> QED BY <2>4, <3>2, <3>3
  <2> QED BY <1>4, <2>1, <2>2, <2>3, <2>4 DEF User
<1>5. CASE ChatSrv
  BY <1>2, <1>5, AgreesChatSrv
<1>6. CASE SendReply
  BY <1>1, <1>2, <1>6, AgreesSendReply
<1>7. CASE UNCHANGED vars
  <2>1. cli' = cli /\ inbox' = inbox /\ client_list' = client_list /\ replies' = replies
    BY <1>7 DEF vars, serverVars
  <2>2. Requests' = Requests
    BY <2>1 DEF Requests
  <2>3. SameFrom(a) /\ (Told(a)' => Told(a))
    BY <2>1, <2>2, SameRequests, KnowsSame, KnowsLess
  <2> QED BY <1>2, <2>1, <2>3, AgreesOther
<1> QED BY <1>3, <1>4, <1>5, <1>6, <1>7 DEF Next

\* A client that is settled has the list.
LEMMA AgreeingMeans ==
  ASSUME Parameters, Types, Agreeing
  PROVE  ListsAgree
<1> SUFFICES ASSUME NEW c \in LoggedIn \ spoilt, Alive(c)
             PROVE  ReadAll(cli[c], inbox[c] \o PendingFor(c)).users = client_list
  BY DEF ListsAgree
<1>1. PICK i \in 1 .. Len(client_list) : client_list[i].addr = c
  BY DEF LoggedIn
<1>2. client_list[i] \in Users
  BY TypesGive, ElementOfSeq
<1>3. c \in Clients
  BY <1>1, <1>2, UserIs
<1>4. Settled(c)
  BY <1>3 DEF Agreeing, Fresh, Heard
<1> QED BY <1>4 DEF Settled, Queued

\* A client that lost nothing, and whose list no chat message cut into, reads the
\* server's list: for every number of clients, names, and datagrams a socket holds.
THEOREM ListsAgreeHolds == ASSUME Parameters PROVE Spec => []ListsAgree
<1>1. Init => Inv
  BY TypesInit, AgreesInit DEF Inv
<1>2. Inv /\ [Next]_vars => Inv'
  BY TypesNext, OkFirstNext, AgreeingNext DEF Inv
<1>3. Inv => ListsAgree
  BY AgreeingMeans DEF Inv
<1> QED BY <1>1, <1>2, <1>3, PTL DEF Spec
=============================================================================
