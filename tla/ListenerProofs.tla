--------------------------- MODULE ListenerProofs ---------------------------
(***************************************************************************)
(* Theorems about Listener, for every set of process ids, every limit and  *)
(* every number of connections below the range of an unsigned int.         *)
(***************************************************************************)
EXTENDS Listener, FiniteSetTheorems, TLAPS

(* Unsigned arithmetic stays in range. *)
LEMMA UIntRange ==
  ASSUME NEW n \in 0 .. UIntMax
  PROVE  UInc(n) \in 0 .. UIntMax /\ UDec(n) \in 0 .. UIntMax
  BY WidthAssumption DEF UInc, UDec

(* drop_ip_count keeps the counts in range. *)
LEMMA DroppedType ==
  ASSUME NEW counts \in [IPs -> 0 .. UIntMax], NEW i \in IPs \cup {NoIP}
  PROVE  Dropped(counts, i) \in [IPs -> 0 .. UIntMax]
<1>1. CASE i \in IPs
  <2>1. (IF counts[i] = 0 THEN 0 ELSE counts[i] - 1) \in 0 .. UIntMax
    BY <1>1, WidthAssumption
  <2>2. QED BY <1>1, <2>1 DEF Dropped
<1>2. CASE i \notin IPs
  <2>1. Dropped(counts, i) = counts BY <1>2 DEF Dropped
  <2>2. QED BY <2>1
<1>3. QED BY <1>1, <1>2

(* The initial state is well typed. *)
LEMMA TypeInit == Init => TypeOK
<1>1. 0 \in 0 .. UIntMax /\ 0 \in 0 .. MaxConns
  BY WidthAssumption
<1>2. QED BY <1>1 DEF Init, TypeOK, Points, MainPoints, ChildStates

(* Every step of the listener keeps the types. *)
LEMMA TypeStep == TypeOK /\ [Next]_vars => TypeOK'
<1> SUFFICES ASSUME TypeOK, [Next]_vars PROVE TypeOK'
  OBVIOUS
<1> USE WidthAssumption, GarbageAssumption, PointsAssumption
        DEF TypeOK, Points, MainPoints, ChildStates, At, Goto,
            tableVars, signalVars, childVars, mainVars
<1>1. ASSUME NEW i \in IPs, Accept(i) PROVE TypeOK'
  BY <1>1 DEF Accept
<1>2. CASE AcceptFail BY <1>2 DEF AcceptFail
<1>3. CASE LoadChildren BY <1>3 DEF LoadChildren
<1>4. CASE StoreChildren BY <1>4, UIntRange DEF StoreChildren
<1>5. CASE CopyChildren BY <1>5 DEF CopyChildren
<1>6. CASE LookupIp BY <1>6 DEF LookupIp
<1>7. CASE LoadIp BY <1>7 DEF LoadIp
<1>8. CASE StoreIp BY <1>8, UIntRange DEF StoreIp
<1>9. ASSUME NEW p \in PIDs, Fork(p) PROVE TypeOK'
  BY <1>9 DEF Fork
<1>10. CASE ForkFail BY <1>10, UIntRange DEF ForkFail
<1>11. CASE Record BY <1>11 DEF Record
<1>12. CASE Deliver BY <1>12 DEF Deliver
<1>13. ASSUME NEW p \in PIDs, HandlerReap(p) PROVE TypeOK'
  <2>1. Dropped(s_ip_count, s_pid_ip[p]) \in [IPs -> 0 .. UIntMax]
    BY DroppedType
  <2>2. QED BY <1>13, <2>1, UIntRange DEF HandlerReap
<1>14. CASE HandlerReturn BY <1>14 DEF HandlerReturn
<1>15. ASSUME NEW p \in PIDs, CheckLimits(p) PROVE TypeOK'
  BY <1>15 DEF CheckLimits
<1>16. ASSUME NEW p \in PIDs, ChildExit(p) PROVE TypeOK'
  BY <1>16 DEF ChildExit
<1>17. CASE UNCHANGED vars BY <1>17 DEF vars
<1>18. QED
  BY <1>1, <1>2, <1>3, <1>4, <1>5, <1>6, <1>7, <1>8, <1>9, <1>10, <1>11,
     <1>12, <1>13, <1>14, <1>15, <1>16, <1>17
     DEF Next, MainStep, MainFail, HandlerStep, ChildStep

(* Type correctness: every variable of the listener keeps its type, the    *)
(* unsigned counters of main.c included.                                   *)
THEOREM TypeCorrect == Spec => []TypeOK
<1>1. QED BY TypeInit, TypeStep, PTL DEF Spec

-----------------------------------------------------------------------------
(* Counting processes. *)

(* The processes not yet collected are finitely many. *)
LEMMA UnreapedFinite == IsFiniteSet(Unreaped) /\ Cardinality(Unreaped) \in Nat
  BY PidsAssumption, FS_Subset, FS_CardinalityType DEF Unreaped

(* fork adds one process. *)
LEMMA ForkCounts ==
  ASSUME TypeOK, NEW p \in PIDs, Fork(p)
  PROVE  /\ Unreaped' = Unreaped \cup {p}
         /\ Cardinality(Unreaped') = Cardinality(Unreaped) + 1
         /\ Live' = Live \cup {p} /\ p \notin Live
         /\ Serving' = Serving
<1>1. Unreaped' = Unreaped \cup {p} /\ p \notin Unreaped
  BY DEF Fork, Unreaped, TypeOK, ChildStates
<1>2. Cardinality(Unreaped \cup {p}) = Cardinality(Unreaped) + 1
  BY <1>1, UnreapedFinite, FS_AddElement
<1>3. Live' = Live \cup {p} /\ p \notin Live /\ Serving' = Serving
  BY DEF Fork, Live, Serving, TypeOK, ChildStates
<1>4. QED BY <1>1, <1>2, <1>3

(* waitpid collects one process. *)
LEMMA ReapCounts ==
  ASSUME TypeOK, NEW p \in PIDs, HandlerReap(p)
  PROVE  /\ Unreaped' = Unreaped \ {p} /\ p \in Unreaped
         /\ Cardinality(Unreaped') = Cardinality(Unreaped) - 1
         /\ Live' = Live /\ Serving' = Serving
<1>1. Unreaped' = Unreaped \ {p} /\ p \in Unreaped
  BY DEF HandlerReap, Unreaped, TypeOK, ChildStates
<1>2. Cardinality(Unreaped \ {p}) = Cardinality(Unreaped) - 1
  BY <1>1, UnreapedFinite, FS_RemoveElement
<1>3. Live' = Live /\ Serving' = Serving
  BY DEF HandlerReap, Live, Serving, TypeOK, ChildStates
<1>4. QED BY <1>1, <1>2, <1>3

(* No other step creates or collects a process, and no process starts to   *)
(* serve without passing check_limits.                                     *)
LEMMA ChildCounts ==
  ASSUME TypeOK, NEW p \in PIDs, CheckLimits(p) \/ ChildExit(p)
  PROVE  /\ Unreaped' = Unreaped /\ Live' \subseteq Live
         /\ cNum' = cNum /\ cNumIp' = cNumIp /\ cIp' = cIp
         /\ \A q \in Serving' :
              \/ q \in Serving
              \/ ~OverLimit(MaxClients, cNum[q]) /\ ~OverLimit(MaxPerIp, cNumIp[q])
<1>1. CASE CheckLimits(p)
  BY <1>1 DEF CheckLimits, Unreaped, Live, Serving, TypeOK, ChildStates
<1>2. CASE ChildExit(p)
  BY <1>2 DEF ChildExit, Unreaped, Live, Serving, TypeOK, ChildStates
<1>3. QED BY <1>1, <1>2

(* A smaller set of running children with the numbers they had keeps the   *)
(* admission rank.                                                         *)
LEMMA RankShrinks ==
  ASSUME AdmissionRank, Live' \subseteq Live, cNum' = cNum
  PROVE  AdmissionRank'
<1> SUFFICES ASSUME NEW k \in 0 .. UIntMax
             PROVE  Cardinality({p \in Live' : cNum'[p] <= k}) <= k
  BY DEF AdmissionRank
<1> DEFINE S == {p \in Live : cNum[p] <= k}
           T == {p \in Live' : cNum'[p] <= k}
<1>1. T \subseteq S OBVIOUS
<1>2. IsFiniteSet(S)
  BY PidsAssumption, FS_Subset DEF Live
<1>3. Cardinality(T) <= Cardinality(S) /\ Cardinality(S) \in Nat /\ Cardinality(T) \in Nat
  BY <1>1, <1>2, FS_Subset, FS_CardinalityType
<1>4. Cardinality(S) <= k BY DEF AdmissionRank
<1>5. QED BY <1>3, <1>4, WidthAssumption

(* fork admits a process whose number is above every process there is.     *)
LEMMA RankFork ==
  ASSUME TypeOK, AdmissionRank, NEW p \in PIDs, Fork(p),
         numClients >= Cardinality(Unreaped) + 1
  PROVE  AdmissionRank'
<1> SUFFICES ASSUME NEW k \in 0 .. UIntMax
             PROVE  Cardinality({q \in Live' : cNum'[q] <= k}) <= k
  BY DEF AdmissionRank
<1> DEFINE S == {q \in Live : cNum[q] <= k}
           T == {q \in Live' : cNum'[q] <= k}
<1>1. \A q \in PIDs : cNum'[q] = IF q = p THEN numClients ELSE cNum[q]
  BY DEF Fork, TypeOK
<1>2. IsFiniteSet(S) /\ IsFiniteSet(T) /\ IsFiniteSet(Unreaped')
  BY PidsAssumption, FS_Subset DEF Live, Unreaped
<1>3. Cardinality(S) <= k BY DEF AdmissionRank
<1>4. CASE numClients <= k
  <2>1. T \subseteq Unreaped' BY DEF Live, Unreaped
  <2>2. Cardinality(T) <= Cardinality(Unreaped')
    BY <1>2, <2>1, FS_Subset
  <2>3. Cardinality(Unreaped') <= k
    BY <1>4, ForkCounts, UnreapedFinite, WidthAssumption DEF TypeOK
  <2>4. Cardinality(T) \in Nat /\ Cardinality(Unreaped') \in Nat
    BY <1>2, FS_CardinalityType
  <2>5. QED BY <2>2, <2>3, <2>4, WidthAssumption
<1>5. CASE ~(numClients <= k)
  <2>1. T \subseteq S BY <1>1, <1>5, ForkCounts DEF Live
  <2>2. Cardinality(T) <= Cardinality(S) BY <1>2, <2>1, FS_Subset
  <2>3. Cardinality(T) \in Nat /\ Cardinality(S) \in Nat
    BY <1>2, FS_CardinalityType
  <2>4. QED BY <1>3, <2>2, <2>3, WidthAssumption
<1>6. QED BY <1>4, <1>5

-----------------------------------------------------------------------------
(* The limit on clients.  s_children may lose a decrement, never gain one: *)
(* it covers the processes there are, so each child is told a number above *)
(* the number of children alive when it was forked.                        *)

LEMMA CountInit == Init => CountInv
<1> SUFFICES ASSUME Init PROVE CountInv
  OBVIOUS
<1>1. Unreaped = {} /\ Live = {} /\ Serving = {}
  BY DEF Init, Unreaped, Live, Serving
<1>2. Cardinality({}) = 0 BY FS_EmptySet
<1>3. \A k \in 0 .. UIntMax : {p \in Live : cNum[p] <= k} = {}
  BY <1>1
<1>4. TypeOK
  BY TypeInit
<1>5. QED
  BY <1>1, <1>2, <1>3, <1>4, WidthAssumption
     DEF Init, CountInv, ChildrenCovered, ReadCovers, Bounded, HandlerPlace,
         AdmissionRank, ServingPassed, Reserved

LEMMA CountStep == CountInv /\ [Next]_vars => CountInv'
<1> SUFFICES ASSUME CountInv, [Next]_vars PROVE CountInv'
  OBVIOUS
<1>1. TypeOK /\ TypeOK'
  BY TypeStep DEF CountInv
<1>2. Cardinality(Unreaped) \in Nat /\ UIntMax \in Nat /\ MaxConns \in Nat
      /\ MaxConns < UIntMax
  BY UnreapedFinite, WidthAssumption
<1>3. \A n \in 0 .. UIntMax : UInc(n) = IF n = UIntMax THEN 0 ELSE n + 1
  BY DEF UInc
<1>4. \A n \in 0 .. UIntMax : n > 0 => UDec(n) = n - 1
  BY DEF UDec
<1> DEFINE Counters == ChildrenCovered /\ ReadCovers /\ Bounded /\ HandlerPlace
<1> HIDE DEF Counters
<1>5. SUFFICES Counters' /\ AdmissionRank' /\ ServingPassed'
  BY <1>1 DEF CountInv, Counters
<1>6. ASSUME UNCHANGED childVars
      PROVE  /\ AdmissionRank' /\ ServingPassed'
             /\ Unreaped' = Unreaped
  <2>1. Unreaped' = Unreaped /\ Live' = Live /\ Serving' = Serving
    BY <1>6 DEF childVars, Unreaped, Live, Serving
  <2>2. AdmissionRank'
    BY <1>6, <2>1, RankShrinks DEF CountInv, childVars
  <2>3. ServingPassed'
    BY <1>6, <2>1 DEF CountInv, childVars, ServingPassed, OverLimit
  <2>4. QED BY <2>1, <2>2, <2>3
<1> DEFINE Loop == \/ \E i \in IPs : Accept(i)
                   \/ AcceptFail \/ LoadChildren \/ StoreChildren \/ CopyChildren
                   \/ LookupIp \/ LoadIp \/ StoreIp \/ ForkFail \/ Record
                   \/ Deliver \/ HandlerReturn \/ UNCHANGED vars
<1>7. ASSUME Loop PROVE UNCHANGED childVars
  BY <1>7 DEF Accept, AcceptFail, LoadChildren, StoreChildren, CopyChildren,
     LookupIp, LoadIp, StoreIp, ForkFail, Record, Deliver, HandlerReturn, vars
<1>8. ASSUME Loop, Unreaped' = Unreaped PROVE Counters'
  <2> USE <1>1, <1>2, <1>8, PointsAssumption
      DEF CountInv, Counters, TypeOK, Points, MainPoints, At, Goto,
          mainVars, tableVars, signalVars,
          ChildrenCovered, ReadCovers, Bounded, HandlerPlace, Reserved
  <2>1. CASE \E i \in IPs : Accept(i) BY <2>1 DEF Accept
  <2>2. CASE AcceptFail BY <2>2 DEF AcceptFail
  <2>3. CASE LoadChildren BY <2>3 DEF LoadChildren
  <2>4. CASE StoreChildren BY <2>4, <1>3 DEF StoreChildren
  <2>5. CASE CopyChildren BY <2>5 DEF CopyChildren
  <2>6. CASE LookupIp BY <2>6 DEF LookupIp
  <2>7. CASE LoadIp BY <2>7 DEF LoadIp
  <2>8. CASE StoreIp BY <2>8 DEF StoreIp
  <2>9. CASE ForkFail BY <2>9, <1>4 DEF ForkFail
  <2>10. CASE Record BY <2>10 DEF Record
  <2>11. CASE Deliver BY <2>11 DEF Deliver
  <2>12. CASE HandlerReturn BY <2>12 DEF HandlerReturn
  <2>13. CASE UNCHANGED vars BY <2>13 DEF vars
  <2>14. QED
    BY <2>1, <2>2, <2>3, <2>4, <2>5, <2>6, <2>7, <2>8, <2>9, <2>10, <2>11,
       <2>12, <2>13
<1>9. ASSUME NEW p \in PIDs, Fork(p)
      PROVE  Counters' /\ AdmissionRank' /\ ServingPassed'
  <2>1. Counters'
    <3>1. Cardinality(Unreaped') = Cardinality(Unreaped) + 1
      BY <1>1, <1>9, ForkCounts
    <3>2. QED
      BY <1>1, <1>2, <1>9, <3>1
         DEF CountInv, Counters, TypeOK, At, Goto, Fork, tableVars, signalVars,
             ChildrenCovered, ReadCovers, Bounded, HandlerPlace, Reserved
  <2>2. numClients >= Cardinality(Unreaped) + 1
    BY <1>9 DEF CountInv, ReadCovers, Fork, At
  <2>3. AdmissionRank'
    BY <1>9, <2>2, RankFork DEF CountInv
  <2>4. \A q \in Serving : cNum'[q] = cNum[q]
    BY <1>1, <1>9 DEF Fork, Serving, TypeOK
  <2>5. ServingPassed'
    BY <1>1, <1>9, <2>4, ForkCounts DEF CountInv, ServingPassed, OverLimit
  <2>6. QED BY <2>1, <2>3, <2>5
<1>10. ASSUME NEW p \in PIDs, HandlerReap(p)
       PROVE  Counters' /\ AdmissionRank' /\ ServingPassed'
  <2>1. Cardinality(Unreaped') = Cardinality(Unreaped) - 1 /\ Unreaped # {}
    BY <1>1, <1>10, ReapCounts
  <2>2. Cardinality(Unreaped) >= 1
    BY <2>1, UnreapedFinite, FS_EmptySet
  <2>3. s_children > 0 /\ mpc \in InterruptPoints
    BY <1>1, <1>2, <1>10, <2>2, PointsAssumption
       DEF CountInv, HandlerPlace, ChildrenCovered, Reserved, HandlerReap,
           MainPoints, TypeOK
  <2>4. s_children' = s_children - 1
    BY <1>1, <1>4, <1>10, <2>3 DEF HandlerReap, TypeOK
  <2>5. Counters'
    BY <1>1, <1>2, <1>10, <2>1, <2>2, <2>3, <2>4
       DEF CountInv, Counters, TypeOK, HandlerReap, mainVars, signalVars,
           ChildrenCovered, ReadCovers, Bounded, HandlerPlace, Reserved
  <2>6. AdmissionRank'
    BY <1>1, <1>10, ReapCounts, RankShrinks DEF CountInv, HandlerReap
  <2>7. ServingPassed'
    BY <1>1, <1>10, ReapCounts DEF CountInv, HandlerReap, ServingPassed, OverLimit
  <2>8. QED BY <2>5, <2>6, <2>7
<1>11. ASSUME NEW p \in PIDs, CheckLimits(p) \/ ChildExit(p)
       PROVE  Counters' /\ AdmissionRank' /\ ServingPassed'
  <2>1. UNCHANGED <<mainVars, tableVars, inHandler, conns>>
    BY <1>11 DEF CheckLimits, ChildExit
  <2>2. Unreaped' = Unreaped /\ Live' \subseteq Live /\ cNum' = cNum
    BY <1>1, <1>11, ChildCounts
  <2>3. Counters'
    BY <2>1, <2>2
       DEF CountInv, Counters, mainVars, tableVars,
           ChildrenCovered, ReadCovers, Bounded, HandlerPlace, Reserved
  <2>4. AdmissionRank'
    BY <2>2, RankShrinks DEF CountInv
  <2>5. \A q \in Serving' : q \in Serving \/ ~OverLimit(MaxClients, cNum[q])
    BY <1>1, <1>11, ChildCounts
  <2>6. ServingPassed'
    BY <2>2, <2>5 DEF CountInv, ServingPassed, OverLimit
  <2>7. QED BY <2>3, <2>4, <2>6
<1>12. QED
  BY <1>5, <1>6, <1>7, <1>8, <1>9, <1>10, <1>11
     DEF Next, MainStep, MainFail, HandlerStep, ChildStep

(* The numbers rank the children, so max_clients of them at most pass the  *)
(* test of check_limits and are alive.                                     *)
LEMMA RankLimits == CountInv => GlobalLimit
<1> SUFFICES ASSUME CountInv, MaxClients > 0
             PROVE  Cardinality(Serving) <= MaxClients
  BY DEF GlobalLimit
<1> DEFINE S == {p \in Live : cNum[p] <= MaxClients}
<1>1. Serving \subseteq S
  <2>1. \A p \in Serving : p \in Live /\ cNum[p] \in 0 .. UIntMax
    BY DEF Serving, Live, CountInv, TypeOK
  <2>2. QED
    BY <2>1, LimitsAssumption, WidthAssumption DEF CountInv, ServingPassed, OverLimit
<1>2. IsFiniteSet(S)
  BY PidsAssumption, FS_Subset DEF Live
<1>3. Cardinality(S) <= MaxClients
  BY LimitsAssumption DEF CountInv, AdmissionRank
<1>4. Cardinality(Serving) <= Cardinality(S)
      /\ Cardinality(Serving) \in Nat /\ Cardinality(S) \in Nat
  BY <1>1, <1>2, FS_Subset, FS_CardinalityType
<1>5. QED BY <1>3, <1>4, LimitsAssumption, WidthAssumption

(* main.c never serves more than max_clients sessions, wherever SIGCHLD    *)
(* interrupts the accept loop.                                             *)
THEOREM GlobalLimitHolds == Spec => []GlobalLimit
<1>1. QED BY CountInit, CountStep, RankLimits, PTL DEF Spec

(* s_children covers every process not yet collected, so the handler's     *)
(* decrement never wraps, wherever SIGCHLD interrupts the accept loop.     *)
THEOREM ChildrenCoveredHolds == Spec => []ChildrenCovered
<1>1. CountInv => ChildrenCovered BY DEF CountInv
<1>2. QED BY <1>1, CountInit, CountStep, PTL DEF Spec

-----------------------------------------------------------------------------
(* Exactness of s_children, when ++s_children is not interrupted.          *)

LEMMA ExactInit == Init => ExactInv
<1> SUFFICES ASSUME Init PROVE ExactInv
  OBVIOUS
<1>1. CountInv /\ Unreaped = {} /\ Cardinality({}) = 0
  BY CountInit, FS_EmptySet DEF Init, Unreaped
<1>2. QED BY <1>1 DEF Init, ExactInv, ChildrenExact, ReadExact, Reserved

LEMMA ExactStep ==
  ASSUME "storeChildren" \notin InterruptPoints
  PROVE  ExactInv /\ [Next]_vars => ExactInv'
<1> SUFFICES ASSUME ExactInv, [Next]_vars PROVE ExactInv'
  OBVIOUS
<1>1. CountInv /\ CountInv' /\ TypeOK
  BY CountStep DEF ExactInv, CountInv
<1>2. SUFFICES ChildrenExact' /\ ReadExact'
  BY <1>1 DEF ExactInv
<1>3. Cardinality(Unreaped) \in Nat /\ UIntMax \in Nat /\ MaxConns \in Nat
      /\ MaxConns < UIntMax
  BY UnreapedFinite, WidthAssumption
<1>4. \A n \in 0 .. UIntMax : UInc(n) = IF n = UIntMax THEN 0 ELSE n + 1
  BY DEF UInc
<1>5. \A n \in 0 .. UIntMax : n > 0 => UDec(n) = n - 1
  BY DEF UDec
<1> DEFINE Loop == \/ \E i \in IPs : Accept(i)
                   \/ AcceptFail \/ LoadChildren \/ StoreChildren \/ CopyChildren
                   \/ LookupIp \/ LoadIp \/ StoreIp \/ ForkFail \/ Record
                   \/ Deliver \/ HandlerReturn \/ UNCHANGED vars
<1>6. ASSUME Loop PROVE ChildrenExact' /\ ReadExact'
  <2>1. Unreaped' = Unreaped
    BY <1>6 DEF Accept, AcceptFail, LoadChildren, StoreChildren, CopyChildren,
       LookupIp, LoadIp, StoreIp, ForkFail, Record, Deliver, HandlerReturn,
       vars, childVars, Unreaped
  <2> USE <1>1, <1>3, <2>1
      DEF ExactInv, TypeOK, Points, MainPoints, At, Goto, mainVars, tableVars,
          CountInv, Bounded, ChildrenExact, ReadExact, Reserved
  <2>2. CASE \E i \in IPs : Accept(i) BY <2>2 DEF Accept
  <2>3. CASE AcceptFail BY <2>3 DEF AcceptFail
  <2>4. CASE LoadChildren BY <2>4 DEF LoadChildren
  <2>5. CASE StoreChildren BY <2>5, <1>4 DEF StoreChildren
  <2>6. CASE CopyChildren BY <2>6 DEF CopyChildren
  <2>7. CASE LookupIp BY <2>7 DEF LookupIp
  <2>8. CASE LoadIp BY <2>8 DEF LoadIp
  <2>9. CASE StoreIp BY <2>9 DEF StoreIp
  <2>10. CASE ForkFail BY <2>10, <1>5 DEF ForkFail
  <2>11. CASE Record BY <2>11 DEF Record
  <2>12. CASE Deliver BY <2>12 DEF Deliver
  <2>13. CASE HandlerReturn BY <2>13 DEF HandlerReturn
  <2>14. CASE UNCHANGED vars BY <2>14 DEF vars
  <2>15. QED
    BY <1>6, <2>2, <2>3, <2>4, <2>5, <2>6, <2>7, <2>8, <2>9, <2>10, <2>11,
       <2>12, <2>13, <2>14
<1>7. ASSUME NEW p \in PIDs, Fork(p) PROVE ChildrenExact' /\ ReadExact'
  <2>1. Cardinality(Unreaped') = Cardinality(Unreaped) + 1
    BY <1>1, <1>7, ForkCounts
  <2>2. QED
    BY <1>1, <1>3, <1>7, <2>1
       DEF ExactInv, TypeOK, At, Goto, Fork, tableVars, ChildrenExact,
           ReadExact, Reserved
<1>8. ASSUME NEW p \in PIDs, HandlerReap(p) PROVE ChildrenExact' /\ ReadExact'
  <2>1. Cardinality(Unreaped') = Cardinality(Unreaped) - 1 /\ p \in Unreaped
    BY <1>1, <1>8, ReapCounts
  <2>2. Cardinality(Unreaped) >= 1
    BY <2>1, UnreapedFinite, FS_EmptySet
  <2>3. mpc \in InterruptPoints /\ mpc # "exit" /\ mpc # "storeChildren"
    BY <1>1, <1>8, PointsAssumption
       DEF CountInv, HandlerPlace, HandlerReap, MainPoints
  <2>4. s_children = Cardinality(Unreaped) + Reserved
    BY <2>3 DEF ExactInv, ChildrenExact
  <2>5. s_children' = s_children - 1
    BY <1>1, <1>3, <1>5, <1>8, <2>2, <2>4 DEF HandlerReap, TypeOK, Reserved
  <2>6. mpc' = mpc
    BY <1>8 DEF HandlerReap, mainVars
  <2>7. QED
    BY <1>1, <1>3, <2>1, <2>2, <2>3, <2>4, <2>5, <2>6
       DEF TypeOK, ChildrenExact, ReadExact, Reserved
<1>9. ASSUME NEW p \in PIDs, CheckLimits(p) \/ ChildExit(p)
      PROVE  ChildrenExact' /\ ReadExact'
  <2>1. UNCHANGED <<mainVars, tableVars>> /\ Unreaped' = Unreaped
    BY <1>1, <1>9, ChildCounts DEF CheckLimits, ChildExit
  <2>2. QED
    BY <2>1 DEF ExactInv, mainVars, tableVars, ChildrenExact, ReadExact, Reserved
<1>10. QED
  BY <1>2, <1>6, <1>7, <1>8, <1>9
     DEF Next, MainStep, MainFail, HandlerStep, ChildStep

(* If SIGCHLD never arrives between the load and the store of ++s_children *)
(* (main.c:128), s_children is exactly the number of processes.            *)
THEOREM ChildrenExactHolds ==
  ASSUME "storeChildren" \notin InterruptPoints
  PROVE  Spec => []ChildrenExact
<1>1. ExactInv => ChildrenExact BY DEF ExactInv
<1>2. QED BY <1>1, ExactInit, ExactStep, PTL DEF Spec

(* Under the same assumption an idle server counts no phantom client.      *)
THEOREM NoPhantomHolds ==
  ASSUME "storeChildren" \notin InterruptPoints
  PROVE  Spec => []NoPhantomClients
<1>1. ExactInv => NoPhantomClients
  BY FS_EmptySet
     DEF ExactInv, ChildrenExact, NoPhantomClients, At, Reserved
<1>2. QED BY <1>1, ExactInit, ExactStep, PTL DEF Spec

-----------------------------------------------------------------------------
(* The table of addresses: exact, and the limit per address with it, if    *)
(* SIGCHLD does not arrive inside handle_ip_count or between fork and the  *)
(* hash_add_entry that records the child.                                  *)

WindowClosed == InterruptPoints \cap {"loadIp", "storeIp", "record"} = {}

(* The processes of an address are finitely many. *)
LEMMA OfIpFinite ==
  ASSUME NEW i
  PROVE  IsFiniteSet(OfIp(i)) /\ Cardinality(OfIp(i)) \in Nat
<1>1. OfIp(i) \subseteq Unreaped BY DEF OfIp
<1>2. QED BY <1>1, UnreapedFinite, FS_Subset, FS_CardinalityType

(* fork charges the new process to the address of the loop.                *)
LEMMA OfIpFork ==
  ASSUME TypeOK, NEW p \in PIDs, Fork(p), NEW i \in IPs
  PROVE  Cardinality(OfIp(i)') = Cardinality(OfIp(i)) + (IF i = ip THEN 1 ELSE 0)
<1>1. \A q \in PIDs : cIp'[q] = IF q = p THEN ip ELSE cIp[q]
  BY DEF Fork, TypeOK
<1>2. Unreaped' = Unreaped \cup {p} /\ p \notin Unreaped
  BY DEF Fork, Unreaped, TypeOK, ChildStates
<1>3. CASE i = ip
  <2>1. OfIp(i)' = OfIp(i) \cup {p} /\ p \notin OfIp(i)
    BY <1>1, <1>2, <1>3 DEF OfIp, Unreaped
  <2>2. Cardinality(OfIp(i) \cup {p}) = Cardinality(OfIp(i)) + 1
    BY <2>1, OfIpFinite, FS_AddElement
  <2>3. QED BY <1>3, <2>1, <2>2
<1>4. CASE i # ip
  <2>1. OfIp(i)' = OfIp(i)
    BY <1>1, <1>2, <1>4 DEF OfIp, Unreaped
  <2>2. QED BY <1>4, <2>1, OfIpFinite
<1>5. QED BY <1>3, <1>4

(* waitpid takes one process off its address.                              *)
LEMMA OfIpReap ==
  ASSUME TypeOK, NEW p \in PIDs, HandlerReap(p), NEW i \in IPs
  PROVE  /\ Cardinality(OfIp(i)') =
              Cardinality(OfIp(i)) - (IF i = cIp[p] THEN 1 ELSE 0)
         /\ i = cIp[p] => Cardinality(OfIp(i)) >= 1
<1>1. Unreaped' = Unreaped \ {p} /\ p \in Unreaped /\ cIp' = cIp
  BY ReapCounts DEF HandlerReap
<1>2. CASE i = cIp[p]
  <2>1. OfIp(i)' = OfIp(i) \ {p} /\ p \in OfIp(i)
    BY <1>1, <1>2 DEF OfIp
  <2>2. Cardinality(OfIp(i) \ {p}) = Cardinality(OfIp(i)) - 1
    BY <2>1, OfIpFinite, FS_RemoveElement
  <2>3. Cardinality(OfIp(i)) # 0
    BY <2>1, OfIpFinite, FS_EmptySet
  <2>4. QED BY <1>2, <2>1, <2>2, <2>3, OfIpFinite
<1>3. CASE i # cIp[p]
  <2>1. OfIp(i)' = OfIp(i) BY <1>1, <1>3 DEF OfIp
  <2>2. QED BY <1>3, <2>1, OfIpFinite
<1>4. QED BY <1>2, <1>3

(* drop_ip_count on a count that is not 0.                                 *)
LEMMA DroppedCount ==
  ASSUME NEW counts \in [IPs -> 0 .. UIntMax], NEW i \in IPs, counts[i] > 0, NEW j \in IPs
  PROVE  Dropped(counts, i)[j] = counts[j] - (IF j = i THEN 1 ELSE 0)
<1>1. CASE j = i BY <1>1, WidthAssumption DEF Dropped
<1>2. CASE j # i
  <2>1. Dropped(counts, i)[j] = counts[j] BY <1>2 DEF Dropped
  <2>2. QED BY <1>2, <2>1, WidthAssumption
<1>3. QED BY <1>1, <1>2

-----------------------------------------------------------------------------
(* The admission rank of an address. *)

LEMMA IpRankShrinks ==
  ASSUME IpAdmissionRank, Live' \subseteq Live, cNumIp' = cNumIp, cIp' = cIp
  PROVE  IpAdmissionRank'
<1> SUFFICES ASSUME NEW i \in IPs, NEW k \in 0 .. UIntMax
    PROVE  Cardinality({p \in Live' : cIp'[p] = i /\ cNumIp'[p] <= k}) <= k
  BY DEF IpAdmissionRank
<1> DEFINE S == {p \in Live : cIp[p] = i /\ cNumIp[p] <= k}
           T == {p \in Live' : cIp'[p] = i /\ cNumIp'[p] <= k}
<1>1. T \subseteq S OBVIOUS
<1>2. IsFiniteSet(S)
  BY PidsAssumption, FS_Subset DEF Live
<1>3. Cardinality(T) <= Cardinality(S) /\ Cardinality(S) \in Nat /\ Cardinality(T) \in Nat
  BY <1>1, <1>2, FS_Subset, FS_CardinalityType
<1>4. Cardinality(S) <= k BY DEF IpAdmissionRank
<1>5. QED BY <1>3, <1>4, WidthAssumption

LEMMA IpRankFork ==
  ASSUME TypeOK, IpAdmissionRank, NEW p \in PIDs, Fork(p),
         numThisIp >= Cardinality(OfIp(ip)) + 1
  PROVE  IpAdmissionRank'
<1> SUFFICES ASSUME NEW i \in IPs, NEW k \in 0 .. UIntMax
    PROVE  Cardinality({q \in Live' : cIp'[q] = i /\ cNumIp'[q] <= k}) <= k
  BY DEF IpAdmissionRank
<1> DEFINE S == {q \in Live : cIp[q] = i /\ cNumIp[q] <= k}
           T == {q \in Live' : cIp'[q] = i /\ cNumIp'[q] <= k}
<1>1. \A q \in PIDs : /\ cNumIp'[q] = IF q = p THEN numThisIp ELSE cNumIp[q]
                      /\ cIp'[q] = IF q = p THEN ip ELSE cIp[q]
  BY DEF Fork, TypeOK
<1>2. IsFiniteSet(S) /\ IsFiniteSet(T) /\ IsFiniteSet(OfIp(i)')
  BY PidsAssumption, FS_Subset DEF Live, OfIp, Unreaped
<1>3. Cardinality(S) <= k BY DEF IpAdmissionRank
<1>4. CASE i = ip /\ numThisIp <= k
  <2>1. T \subseteq OfIp(i)' BY DEF Live, Unreaped, OfIp
  <2>2. Cardinality(T) <= Cardinality(OfIp(i)')
    BY <1>2, <2>1, FS_Subset
  <2>3. Cardinality(OfIp(i)') = Cardinality(OfIp(i)) + 1
    BY <1>4, OfIpFork
  <2>4. Cardinality(T) \in Nat /\ Cardinality(OfIp(i)') \in Nat
    BY <1>2, FS_CardinalityType
  <2>5. QED BY <1>4, <2>2, <2>3, <2>4, OfIpFinite, WidthAssumption DEF TypeOK
<1>5. CASE ~(i = ip /\ numThisIp <= k)
  <2>1. T \subseteq S BY <1>1, <1>5, ForkCounts DEF Live
  <2>2. Cardinality(T) <= Cardinality(S) BY <1>2, <2>1, FS_Subset
  <2>3. Cardinality(T) \in Nat /\ Cardinality(S) \in Nat
    BY <1>2, FS_CardinalityType
  <2>4. QED BY <1>3, <2>2, <2>3, WidthAssumption
<1>6. QED BY <1>4, <1>5

-----------------------------------------------------------------------------
(* The invariant of the table of addresses. *)

LEMMA IpInit == Init => IpInv
<1> SUFFICES ASSUME Init PROVE IpInv
  OBVIOUS
<1>1. Unreaped = {} /\ Live = {} /\ Serving = {} /\ \A i : OfIp(i) = {}
  BY DEF Init, Unreaped, Live, Serving, OfIp
<1>2. Cardinality({}) = 0 BY FS_EmptySet
<1>3. \A i \in IPs : \A k \in 0 .. UIntMax :
        {p \in Live : cIp[p] = i /\ cNumIp[p] <= k} = {}
  BY <1>1
<1>4. TypeOK BY TypeInit
<1>5. QED
  BY <1>1, <1>2, <1>3, <1>4, WidthAssumption
     DEF Init, IpInv, HandlerPlace, IpCountsExact, WindowSafe, PidTableExact,
         IpBounded, IpAdmissionRank, IpServingPassed, ReservedIp, MainPoints

LEMMA IpStep ==
  ASSUME WindowClosed
  PROVE  IpInv /\ [Next]_vars => IpInv'
<1> SUFFICES ASSUME IpInv, [Next]_vars PROVE IpInv'
  OBVIOUS
<1>1. TypeOK /\ TypeOK'
  BY TypeStep DEF IpInv
<1>2. UIntMax \in Nat /\ MaxConns \in Nat /\ MaxConns < UIntMax
      /\ \A i \in IPs : Cardinality(OfIp(i)) \in Nat
  BY OfIpFinite, WidthAssumption
<1>3. \A n \in 0 .. UIntMax : UInc(n) = IF n = UIntMax THEN 0 ELSE n + 1
  BY DEF UInc
<1> DEFINE Tables == HandlerPlace /\ IpCountsExact /\ WindowSafe /\ IpBounded
           Ranks == IpAdmissionRank /\ IpServingPassed
           Loop == \/ \E i \in IPs : Accept(i)
                   \/ AcceptFail \/ LoadChildren \/ StoreChildren \/ CopyChildren
                   \/ LookupIp \/ LoadIp \/ StoreIp \/ ForkFail \/ Record
                   \/ Deliver \/ HandlerReturn \/ UNCHANGED vars
<1>4. SUFFICES Tables' /\ PidTableExact' /\ Ranks'
  BY <1>1 DEF IpInv
<1>5. ASSUME Loop PROVE Tables' /\ PidTableExact' /\ Ranks'
  <2>1. UNCHANGED childVars
    BY <1>5 DEF Accept, AcceptFail, LoadChildren, StoreChildren, CopyChildren,
       LookupIp, LoadIp, StoreIp, ForkFail, Record, Deliver, HandlerReturn, vars
  <2>2. Unreaped' = Unreaped /\ Live' = Live /\ Serving' = Serving
        /\ \A i : OfIp(i)' = OfIp(i)
    BY <2>1 DEF childVars, Unreaped, Live, Serving, OfIp
  <2>3. Ranks'
    BY <2>1, <2>2, IpRankShrinks DEF IpInv, childVars, IpServingPassed, OverLimit
  <2>4. PidTableExact'
    <3> USE <1>1, <2>1, <2>2
        DEF IpInv, TypeOK, childVars, PidTableExact, At, Goto, mainVars, tableVars
    <3>1. CASE Record
      <4>1. pid \in Unreaped /\ ip = cIp[pid] /\ s_pid_ip[pid] = NoIP
        BY <3>1 DEF Record, Unreaped
      <4>2. s_pid_ip' = [s_pid_ip EXCEPT ![pid] = ip]
        BY <3>1, <4>1 DEF Record
      <4>3. QED BY <3>1, <4>1, <4>2 DEF Record, Unreaped
    <3>2. CASE ~Record
      BY <1>5, <3>2
         DEF Accept, AcceptFail, LoadChildren, StoreChildren, CopyChildren,
             LookupIp, LoadIp, StoreIp, ForkFail, Deliver, HandlerReturn, vars
    <3>3. QED BY <3>1, <3>2
  <2>5. Tables'
    <3> USE <1>1, <1>2, <2>2, PointsAssumption
        DEF IpInv, TypeOK, Points, MainPoints, At, Goto, mainVars, tableVars,
            signalVars, HandlerPlace, IpCountsExact, WindowSafe, IpBounded,
            ReservedIp
    <3>1. CASE \E i \in IPs : Accept(i) BY <3>1 DEF Accept
    <3>2. CASE AcceptFail BY <3>2 DEF AcceptFail
    <3>3. CASE LoadChildren BY <3>3 DEF LoadChildren
    <3>4. CASE StoreChildren BY <3>4 DEF StoreChildren
    <3>5. CASE CopyChildren BY <3>5 DEF CopyChildren
    <3>6. CASE LookupIp BY <3>6 DEF LookupIp
    <3>7. CASE LoadIp BY <3>7 DEF LoadIp
    <3>8. CASE StoreIp BY <3>8, <1>3 DEF StoreIp
    <3>9. CASE ForkFail BY <3>9 DEF ForkFail
    <3>10. CASE Record BY <3>10 DEF Record
    <3>11. CASE Deliver BY <3>11 DEF Deliver
    <3>12. CASE HandlerReturn BY <3>12 DEF HandlerReturn
    <3>13. CASE UNCHANGED vars BY <3>13 DEF vars
    <3>14. QED
      BY <1>5, <3>1, <3>2, <3>3, <3>4, <3>5, <3>6, <3>7, <3>8, <3>9, <3>10,
         <3>11, <3>12, <3>13
  <2>6. QED BY <2>3, <2>4, <2>5
<1>6. ASSUME NEW p \in PIDs, Fork(p) PROVE Tables' /\ PidTableExact' /\ Ranks'
  <2>1. \A i \in IPs : Cardinality(OfIp(i)') =
                         Cardinality(OfIp(i)) + (IF i = ip THEN 1 ELSE 0)
    BY <1>1, <1>6, OfIpFork
  <2>2. Tables'
    BY <1>1, <1>2, <1>6, <2>1
       DEF IpInv, TypeOK, MainPoints, At, Goto, Fork, tableVars, signalVars,
           HandlerPlace, IpCountsExact, WindowSafe, IpBounded, ReservedIp
  <2>3. PidTableExact'
    BY <1>1, <1>6 DEF IpInv, TypeOK, At, Goto, Fork, tableVars, PidTableExact, Unreaped
  <2>4. numThisIp >= Cardinality(OfIp(ip)) + 1
    BY <1>1, <1>2, <1>6
       DEF IpInv, TypeOK, Fork, At, IpCountsExact, WindowSafe, ReservedIp
  <2>5. IpAdmissionRank'
    BY <1>1, <1>6, <2>4, IpRankFork DEF IpInv
  <2>6. Serving' = Serving /\ \A q \in Serving : cNumIp'[q] = cNumIp[q]
    BY <1>1, <1>6 DEF Fork, Serving, TypeOK
  <2>7. IpServingPassed'
    BY <2>6 DEF IpInv, IpServingPassed, OverLimit
  <2>8. QED BY <2>2, <2>3, <2>5, <2>7
<1>7. ASSUME NEW p \in PIDs, HandlerReap(p) PROVE Tables' /\ PidTableExact' /\ Ranks'
  <2>1. mpc \in InterruptPoints /\ mpc \notin {"loadIp", "storeIp", "record", "exit"}
        /\ UNCHANGED <<mainVars, signalVars, conns, cIp, cNum, cNumIp>>
    BY <1>7, PointsAssumption
       DEF IpInv, HandlerPlace, HandlerReap, MainPoints, WindowClosed
  <2>2. p \in Unreaped /\ Unreaped' = Unreaped \ {p} /\ Live' = Live
        /\ Serving' = Serving
    BY <1>1, <1>7, ReapCounts
  <2>3. s_pid_ip[p] = cIp[p] /\ cIp[p] \in IPs /\ cIp[p] # NoIP
    BY <2>1, <2>2, NoIPAssumption DEF IpInv, PidTableExact, Unreaped
  <2>4. \A i \in IPs :
          /\ Cardinality(OfIp(i)') =
               Cardinality(OfIp(i)) - (IF i = cIp[p] THEN 1 ELSE 0)
          /\ i = cIp[p] => Cardinality(OfIp(i)) >= 1
    BY <1>1, <1>7, OfIpReap
  <2>5. s_ip_count[cIp[p]] > 0
    BY <1>1, <1>2, <2>1, <2>3, <2>4 DEF IpInv, TypeOK, IpCountsExact, ReservedIp
  <2>6. \A i \in IPs : s_ip_count'[i] = s_ip_count[i] - (IF i = cIp[p] THEN 1 ELSE 0)
    BY <1>1, <1>7, <2>3, <2>5, DroppedCount DEF HandlerReap, TypeOK
  <2>7. Tables'
    BY <1>1, <1>2, <2>1, <2>4, <2>6
       DEF IpInv, TypeOK, HandlerPlace, IpCountsExact, WindowSafe, IpBounded,
           ReservedIp, mainVars, signalVars
  <2>8. PidTableExact'
    BY <1>1, <1>7, <2>1, <2>2
       DEF IpInv, TypeOK, PidTableExact, HandlerReap, mainVars, Unreaped
  <2>9. Ranks'
    BY <2>1, <2>2, IpRankShrinks DEF IpInv, IpServingPassed, OverLimit
  <2>10. QED BY <2>7, <2>8, <2>9
<1>8. ASSUME NEW p \in PIDs, CheckLimits(p) \/ ChildExit(p)
      PROVE  Tables' /\ PidTableExact' /\ Ranks'
  <2>1. UNCHANGED <<mainVars, tableVars, inHandler, conns, cIp, cNum, cNumIp>>
    BY <1>8 DEF CheckLimits, ChildExit
  <2>2. Unreaped' = Unreaped /\ Live' \subseteq Live
    BY <1>1, <1>8, ChildCounts
  <2>3. \A i : OfIp(i)' = OfIp(i) BY <2>1, <2>2 DEF OfIp
  <2>4. Tables'
    BY <2>1, <2>3
       DEF IpInv, mainVars, tableVars, HandlerPlace, IpCountsExact, WindowSafe,
           IpBounded, ReservedIp
  <2>5. \A q \in PIDs : child'[q] = "none" <=> child[q] = "none"
    BY <2>2 DEF Unreaped
  <2>6. PidTableExact'
    BY <1>1, <2>1, <2>2, <2>5 DEF IpInv, TypeOK, mainVars, tableVars, PidTableExact
  <2>7. \A q \in Serving' : q \in Serving \/ ~OverLimit(MaxPerIp, cNumIp[q])
    BY <1>1, <1>8, ChildCounts
  <2>8. Ranks'
    BY <2>1, <2>2, <2>7, IpRankShrinks DEF IpInv, IpServingPassed, OverLimit
  <2>9. QED BY <2>4, <2>6, <2>8
<1>9. QED
  BY <1>4, <1>5, <1>6, <1>7, <1>8
     DEF Next, MainStep, MainFail, HandlerStep, ChildStep

LEMMA IpRankLimits == IpInv => PerIpLimit
<1> SUFFICES ASSUME IpInv, MaxPerIp > 0, NEW i \in IPs
             PROVE  Cardinality({p \in Serving : cIp[p] = i}) <= MaxPerIp
  BY DEF PerIpLimit
<1> DEFINE S == {p \in Live : cIp[p] = i /\ cNumIp[p] <= MaxPerIp}
           T == {p \in Serving : cIp[p] = i}
<1>1. T \subseteq S
  <2>1. \A p \in Serving : p \in Live /\ cNumIp[p] \in 0 .. UIntMax
    BY DEF Serving, Live, IpInv, TypeOK
  <2>2. QED
    BY <2>1, LimitsAssumption, WidthAssumption DEF IpInv, IpServingPassed, OverLimit
<1>2. IsFiniteSet(S)
  BY PidsAssumption, FS_Subset DEF Live
<1>3. Cardinality(S) <= MaxPerIp
  BY LimitsAssumption DEF IpInv, IpAdmissionRank
<1>4. Cardinality(T) <= Cardinality(S)
      /\ Cardinality(T) \in Nat /\ Cardinality(S) \in Nat
  BY <1>1, <1>2, FS_Subset, FS_CardinalityType
<1>5. QED BY <1>3, <1>4, LimitsAssumption, WidthAssumption

(* Outside the two windows, s_ip_count_hash charges every address for      *)
(* exactly its processes (main.c handle_ip_count and drop_ip_count).       *)
THEOREM IpCountsExactHolds ==
  ASSUME WindowClosed
  PROVE  Spec => []IpCountsExact
<1>1. IpInv => IpCountsExact BY DEF IpInv
<1>2. QED BY <1>1, IpInit, IpStep, PTL DEF Spec

(* Outside the two windows no address is served more than max_per_ip       *)
(* sessions at once (main.c check_limits).                                 *)
THEOREM PerIpLimitHolds ==
  ASSUME WindowClosed
  PROVE  Spec => []PerIpLimit
<1>1. QED BY IpInit, IpStep, IpRankLimits, PTL DEF Spec
=============================================================================
