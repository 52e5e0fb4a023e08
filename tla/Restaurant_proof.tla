--------------------------- MODULE Restaurant_proof --------------------------
(***************************************************************************)
(* Proofs about the restaurant, for any finite set of groups, any number   *)
(* of tables and a waiting list that has a place for each group: types,    *)
(* mutual exclusion, and the two request slots.                            *)
(***************************************************************************)
EXTENDS Restaurant, FiniteSetTheorems, WellFoundedInduction,
        TLAPS

-----------------------------------------------------------------------------
(* Arithmetic of the rings                                                  *)

\* A remainder is determined by its bounds: of x = n * k + r with 0 <= r < n.
LEMMA ModUnique ==
  ASSUME NEW n \in Nat \ {0}, NEW x \in Nat, NEW k \in Nat,
         NEW r \in 0 .. n - 1, x = n * k + r
  PROVE  x % n = r
<1> DEFINE q == x \div n
           s == x % n
<1>1. q \in Int /\ s \in 0 .. n - 1 /\ x = n * q + s
  OBVIOUS
<1>2. CASE q = k
  BY <1>1, <1>2
<1>3. CASE q > k
  <2>1. q - k >= 1
    BY <1>1, <1>3
  <2>2. n * (q - k) >= n
    BY <1>1, <2>1
  <2>3. n * (q - k) = n * q - n * k
    BY <1>1
  <2> QED
    BY <1>1, <2>2, <2>3
<1>4. CASE q < k
  <2>1. k - q >= 1
    BY <1>1, <1>4
  <2>2. n * (k - q) >= n
    BY <1>1, <2>1
  <2>3. n * (k - q) = n * k - n * q
    BY <1>1
  <2> QED
    BY <1>1, <2>2, <2>3
<1> QED
  BY <1>1, <1>2, <1>3, <1>4

\* A step of an index that is kept modulo n, followed by a distance.
LEMMA ModPlus ==
  ASSUME NEW n \in Nat \ {0}, NEW a \in Nat, NEW i \in Nat
  PROVE  ((a % n) + i) % n = (a + i) % n
<1> DEFINE q == a \div n
           r == a % n
           p == (r + i) \div n
           s == (r + i) % n
<1>1. q \in Nat /\ r \in 0 .. n - 1 /\ a = n * q + r
  OBVIOUS
<1>2. p \in Nat /\ s \in 0 .. n - 1 /\ r + i = n * p + s
  BY <1>1
<1> HIDE DEF q, r, p, s
<1>3. a + i = n * (q + p) + s
  BY <1>1, <1>2
<1>4. a + i \in Nat /\ q + p \in Nat
  BY <1>1, <1>2
<1>5. (a + i) % n = s
  BY <1>2, <1>3, <1>4, ModUnique
<1> QED
  BY <1>5 DEF s, r

-----------------------------------------------------------------------------
(* The inductive invariant of types.  TypeOK alone is not inductive: that a *)
(* counter stays in its range depends on where the process is, and that the *)
(* chef or the waiter has a group in its hands on what it was given.        *)

\* A server still in its loop has requests left to handle.
ReceptionistOpen == receptionistAt # "exit" => receptionistReqs < 2 * nGroups
WaiterOpen == waiterAt # "exit" => waiterReqs < 2 * nGroups
ChefOpen == chefAt # "exit" => nOrders < nGroups

\* What the chef and the waiter carry between two steps is a group's.
ChefHolds ==
  /\ chefAt = "acknowledgeOrder" => lastGroup \in Groups \cup {NoGroup}
  /\ chefAt \in {"processOrder", "cooking", "cooked", "resting", "foodReady"}
       => lastGroup \in Groups
WaiterHolds ==
  waiterAt \in {"informChef", "informingChef", "postOrder", "waitForChef",
                "informGroup", "takeFoodToTable", "takingToTable", "serveFood"}
    => outgoing \in Request

\* The entries of the waiter's ring that are in use are requests.
RingHolds ==
  /\ qwriteNext = (qreadNext + qlength) % NUMTABLES
  /\ \A i \in 0 .. qlength - 1 :
       queue[(qreadNext + i) % NUMTABLES] \in Request

TypeInv ==
  /\ TypeOK
  /\ ReceptionistOpen
  /\ WaiterOpen /\ WaiterHolds /\ RingHolds
  /\ ChefOpen /\ ChefHolds

LEMMA ConstantTypes ==
  /\ nGroups \in Nat
  /\ NUMTABLES \in Nat \ {0}
  /\ WAITLIST_LENGTH \in Nat \ {0}
  /\ NoGroup \notin Groups
BY GroupsAssumption, TablesAssumption, WaitlistAssumption, FS_CardinalityType
   DEF nGroups

LEMMA MakeRequestType ==
  ASSUME NEW type \in RequestTypes, NEW g \in Groups
  PROVE  MakeRequest(type, g) \in Request
BY DEF MakeRequest, Request

\* A request with a known type is one that a process has made.
LEMMA RealRequest ==
  ASSUME NEW r \in Request \cup {NoRequest}, r.reqType \in RequestTypes
  PROVE  r \in Request
BY DEF Request, NoRequest, RequestTypes

LEMMA DownType ==
  ASSUME SemTypeOK, NEW s \in SemNames, semDown(s)
  PROVE  SemTypeOK'
BY DEF SemTypeOK, semDown

LEMMA UpType ==
  ASSUME SemTypeOK, NEW s \in SemNames, semUp(s)
  PROVE  SemTypeOK'
BY DEF SemTypeOK, semUp

\* Taking a token from, or adding one to, an array of semaphores; an index
\* out of its range would change nothing.
LEMMA TokenTaken ==
  ASSUME NEW S, NEW f \in [S -> Nat], NEW t, f[t] > 0
  PROVE  [f EXCEPT ![t] = @ - 1] \in [S -> Nat]
<1>1. CASE t \in S
  BY <1>1
<1>2. CASE t \notin S
  BY <1>2
<1> QED
  BY <1>1, <1>2

LEMMA TokenAdded ==
  ASSUME NEW S, NEW f \in [S -> Nat], NEW t
  PROVE  [f EXCEPT ![t] = @ + 1] \in [S -> Nat]
<1>1. CASE t \in S
  BY <1>1
<1>2. CASE t \notin S
  BY <1>2
<1> QED
  BY <1>1, <1>2

LEMMA InitType == Init => TypeInv
<1> SUFFICES ASSUME Init PROVE TypeInv
  OBVIOUS
<1> USE ConstantTypes
<1>1. SharedTypeOK
  BY DEF Init, SharedInit, RegionInit, TableSemsRed, enabledSems, SharedTypeOK, StatTypeOK, TableTypeOK, OrderTypeOK,
         RequestTypeOK, SemTypeOK, GroupStates, ReceptionistStates,
         WaiterStates, ChefStates, SemNames, Tables
<1>2. GroupTypeOK
  BY DEF Init, GroupInit, GroupTypeOK, GroupLocations
<1>3. ReceptionistTypeOK
  BY DEF Init, ReceptionistInit, ReceptionistTypeOK, ReceptionistLocations,
         receptionistLoop, Tables
<1>4. WaiterTypeOK
  <2>1. chefIsBusy \in BOOLEAN
    BY Zenon DEF Init, SharedInit, RegionInit, TableSemsRed, enabledSems, WaiterInit
  <2> QED
    BY <2>1 DEF Init, WaiterInit, WaiterTypeOK, WaiterLocations, Tables
<1>5. ChefTypeOK
  BY DEF Init, ChefInit, ChefTypeOK, ChefLocations, chefLoop
<1>6. ReceptionistOpen /\ WaiterOpen /\ ChefOpen
  BY DEF Init, ReceptionistInit, WaiterInit, ChefInit, ReceptionistOpen,
         WaiterOpen, ChefOpen, receptionistLoop, chefLoop
<1>7. WaiterHolds /\ ChefHolds
  BY DEF Init, WaiterInit, ChefInit, WaiterHolds, ChefHolds, chefLoop
<1>8. RingHolds
  <2>1. (0 + 0) % NUMTABLES = 0
    BY ModUnique
  <2> QED
    BY <2>1 DEF Init, WaiterInit, RingHolds
<1> QED
  BY <1>1, <1>2, <1>3, <1>4, <1>5, <1>6, <1>7, <1>8 DEF TypeInv, TypeOK

-----------------------------------------------------------------------------
(* A step of a group                                                        *)

LEMMA GroupStepType ==
  ASSUME TypeOK, NEW g \in Groups, GroupNext(g)
  PROVE  SharedTypeOK' /\ GroupTypeOK'
<1> USE DEF TypeOK, SharedTypeOK
<1>1. TableTypeOK' /\ OrderTypeOK'
  BY DEF GroupNext, TableTypeOK, OrderTypeOK, tableVars, orderVars
<1> DEFINE Kept == GroupTypeOK' /\ (groupStat \in [Groups -> GroupStates])'
                   /\ RequestTypeOK' /\ SemTypeOK'
<1>2. ASSUME NEW from \in GroupLocations, NEW to \in GroupLocations,
             lockState(g, from, to)
      PROVE  Kept
  <2>1. SemTypeOK'
    BY <1>2, DownType DEF lockState, SemNames
  <2> QED
    BY <1>2, <2>1 DEF lockState, goesTo, GroupTypeOK, StatTypeOK,
                      RequestTypeOK, requestVars
<1>3. ASSUME NEW from \in GroupLocations, NEW to \in GroupLocations,
             NEW state \in GroupStates, saveGroupState(g, from, state, to),
             readsTable(g) \/ UNCHANGED groupTable
      PROVE  Kept
  <2>1. SemTypeOK'
    BY <1>3, UpType DEF saveGroupState, SemNames
  <2>2. GroupTypeOK'
    BY <1>3 DEF saveGroupState, goesTo, readsTable, GroupTypeOK, TableTypeOK
  <2> QED
    BY <1>3, <2>1, <2>2 DEF saveGroupState, StatTypeOK, RequestTypeOK,
                            requestVars
<1>4. ASSUME NEW from \in GroupLocations, NEW to \in GroupLocations,
             NEW type \in RequestTypes,
             fillReceptionistRequest(g, from, type, to)
      PROVE  Kept
  <2>1. SemTypeOK'
    BY <1>4, DownType DEF fillReceptionistRequest, SemNames
  <2>2. RequestTypeOK'
    BY <1>4, MakeRequestType DEF fillReceptionistRequest, RequestTypeOK
  <2> QED
    BY <1>4, <2>1, <2>2 DEF fillReceptionistRequest, goesTo, GroupTypeOK,
                            StatTypeOK
<1>5. ASSUME NEW from \in GroupLocations, NEW to \in GroupLocations,
             postReceptionistRequest(g, from, to)
      PROVE  Kept
  <2>1. SemTypeOK'
    BY <1>5, UpType DEF postReceptionistRequest, SemNames
  <2> QED
    BY <1>5, <2>1 DEF postReceptionistRequest, goesTo, GroupTypeOK, StatTypeOK,
                      RequestTypeOK, requestVars
<1>6. checkInAtReception(g) => Kept
  <2>1. CheckInLock(g) => Kept
    BY <1>2 DEF CheckInLock, GroupLocations
  <2>2. CheckInSave(g) => Kept
    BY <1>3 DEF CheckInSave, GroupLocations, GroupStates
  <2>3. CheckInRequest(g) => Kept
    BY <1>4 DEF CheckInRequest, GroupLocations, RequestTypes
  <2>4. CheckInPost(g) => Kept
    BY <1>5 DEF CheckInPost, GroupLocations
  <2>5. CheckInSit(g) => Kept
    BY DEF CheckInSit, goesTo, GroupTypeOK, GroupLocations, StatTypeOK,
           RequestTypeOK, SemTypeOK, requestVars
  <2> QED
    BY <2>1, <2>2, <2>3, <2>4, <2>5 DEF checkInAtReception
<1>7. orderFood(g) => Kept
  <2>1. OrderLock(g) => Kept
    BY <1>2 DEF OrderLock, GroupLocations
  <2>2. OrderSave(g) => Kept
    BY <1>3 DEF OrderSave, GroupLocations, GroupStates
  <2>3. ASSUME OrderRequest(g) PROVE Kept
    <3>1. SemTypeOK'
      BY <2>3, DownType DEF OrderRequest, SemNames
    <3>2. RequestTypeOK'
      BY <2>3, MakeRequestType DEF OrderRequest, RequestTypeOK, RequestTypes
    <3> QED
      BY <2>3, <3>1, <3>2 DEF OrderRequest, goesTo, GroupTypeOK,
                              GroupLocations, StatTypeOK
  <2>4. ASSUME OrderPost(g) PROVE Kept
    <3>1. SemTypeOK'
      BY <2>4, UpType DEF OrderPost, SemNames
    <3> QED
      BY <2>4, <3>1 DEF OrderPost, goesTo, readsTable, GroupTypeOK,
                        GroupLocations, StatTypeOK, TableTypeOK, RequestTypeOK,
                        requestVars
  <2>5. ASSUME OrderTaken(g) PROVE Kept
    <3>1. requestReceived' \in [Tables -> Nat]
      BY <2>5, TokenTaken DEF OrderTaken, SemTypeOK
    <3> QED
      BY <2>5, <3>1 DEF OrderTaken, goesTo, GroupTypeOK, GroupLocations,
                        StatTypeOK, RequestTypeOK, SemTypeOK, requestVars
  <2> QED
    BY <2>1, <2>2, <2>3, <2>4, <2>5 DEF orderFood
<1>8. waitFood(g) => Kept
  <2>1. WaitFoodLock(g) => Kept
    BY <1>2 DEF WaitFoodLock, GroupLocations
  <2>2. WaitFoodSave(g) => Kept
    BY <1>3 DEF WaitFoodSave, GroupLocations, GroupStates
  <2>3. ASSUME FoodServed(g) PROVE Kept
    <3>1. foodArrived' \in [Tables -> Nat]
      BY <2>3, TokenTaken DEF FoodServed, SemTypeOK
    <3> QED
      BY <2>3, <3>1 DEF FoodServed, goesTo, GroupTypeOK, GroupLocations,
                        StatTypeOK, RequestTypeOK, SemTypeOK, requestVars
  <2>4. EatLock(g) => Kept
    BY <1>2 DEF EatLock, GroupLocations
  <2>5. EatSave(g) => Kept
    BY <1>3 DEF EatSave, GroupLocations, GroupStates
  <2> QED
    BY <2>1, <2>2, <2>3, <2>4, <2>5 DEF waitFood
<1>9. checkOutAtReception(g) => Kept
  <2>1. FinishMeal(g) => Kept
    BY DEF FinishMeal, goesTo, readsTable, GroupTypeOK, GroupLocations,
           StatTypeOK, TableTypeOK, RequestTypeOK, SemTypeOK, requestVars,
           semVars
  <2>2. CheckOutLock(g) => Kept
    BY <1>2 DEF CheckOutLock, GroupLocations
  <2>3. CheckOutSave(g) => Kept
    BY <1>3 DEF CheckOutSave, GroupLocations, GroupStates
  <2>4. CheckOutRequest(g) => Kept
    BY <1>4 DEF CheckOutRequest, GroupLocations, RequestTypes
  <2>5. CheckOutPost(g) => Kept
    BY <1>5 DEF CheckOutPost, GroupLocations
  <2>6. ASSUME CheckOutDone(g) PROVE Kept
    <3>1. tableDone' \in [Tables -> Nat]
      BY <2>6, TokenTaken DEF CheckOutDone, SemTypeOK
    <3> QED
      BY <2>6, <3>1 DEF CheckOutDone, goesTo, GroupTypeOK, GroupLocations,
                        StatTypeOK, RequestTypeOK, SemTypeOK, requestVars
  <2>7. LeaveLock(g) => Kept
    BY <1>2 DEF LeaveLock, GroupLocations
  <2>8. LeaveSave(g) => Kept
    BY <1>3 DEF LeaveSave, GroupLocations, GroupStates
  <2> QED
    BY <2>1, <2>2, <2>3, <2>4, <2>5, <2>6, <2>7, <2>8 DEF checkOutAtReception
<1>10. Kept
  BY <1>6, <1>7, <1>8, <1>9 DEF GroupNext
<1>11. StatTypeOK'
  BY <1>10 DEF GroupNext, StatTypeOK
<1> QED
  BY <1>1, <1>10, <1>11

-----------------------------------------------------------------------------
(* A step of the receptionist                                               *)

\* The minimum of the initial intervals below the members of T is that of T.
LEMMA LeastNatural ==
  ASSUME NEW T \in SUBSET Nat, T # {}
  PROVE  \E x \in T : \A y \in T : x <= y
<1> DEFINE Below == {0 .. x : x \in T}
           R == StrictSubsetOrdering(Nat)
<1>1. Below \subseteq FiniteSubsetsOf(Nat) /\ Below # {}
  <2>1. ASSUME NEW x \in T
        PROVE  0 .. x \in SUBSET Nat /\ IsFiniteSet(0 .. x)
    <3>1. IsFiniteSet(0 .. x)
      BY FS_Interval
    <3> QED
      BY <3>1
  <2> QED
    BY <2>1 DEF FiniteSubsetsOf
<1>2. IsWellFoundedOn(R, FiniteSubsetsOf(Nat))
  BY FS_StrictSubsetOrderingWellFounded
<1>3. PICK B \in Below : \A C \in Below : ~ (<<C, B>> \in R)
  <2> HIDE DEF Below, R
  <2> QED
    BY <1>1, <1>2, WFMin
<1>4. PICK x \in T : B = 0 .. x
  BY <1>3
<1>5. ASSUME NEW y \in T, y < x PROVE FALSE
  <2>1. 0 .. y \subseteq 0 .. x /\ 0 .. y # 0 .. x
    BY <1>5
  <2>2. 0 .. y \in SUBSET Nat /\ 0 .. x \in SUBSET Nat
    BY <1>5
  <2>3. <<0 .. y, 0 .. x>> \in R
    BY <2>1, <2>2 DEF StrictSubsetOrdering
  <2> QED
    BY <1>3, <1>4, <2>3
<1> QED
  BY <1>5

\* decideTableOrWait gives a free table, or none.
LEMMA DecidesFreeTable ==
  ASSUME nextTable \in Tables, decideTableOrWait # NoTable
  PROVE  decideTableOrWait \in Tables \ occupied
<1> DEFINE after(i) == (i + nextTable) % NUMTABLES
           free == {i \in Tables : after(i) \notin occupied}
           least == CHOOSE i \in free : \A j \in free : i <= j
<1>1. free # {} /\ decideTableOrWait = after(least)
  BY DEF decideTableOrWait
<1>2. free \subseteq Nat
  BY ConstantTypes DEF Tables
<1>3. \E i \in free : \A j \in free : i <= j
  BY <1>1, <1>2, LeastNatural
<1>4. least \in free
  BY <1>3
<1> HIDE DEF least
<1>5. least + nextTable \in Nat
  BY <1>2, <1>4, ConstantTypes DEF Tables
<1>6. after(least) \in 0 .. NUMTABLES - 1
  BY <1>5, ConstantTypes
<1> QED
  BY <1>1, <1>4, <1>6 DEF Tables

\* The end of a handler: one request more, and the loop goes on only while
\* there are some left.
LEMMA RequestDoneType ==
  ASSUME receptionistReqs \in 0 .. 2 * nGroups,
         receptionistReqs < 2 * nGroups, requestDone
  PROVE  /\ receptionistReqs' \in 0 .. 2 * nGroups
         /\ receptionistAt' \in ReceptionistLocations
         /\ guest' \in Groups \cup {NoGroup}
         /\ ReceptionistOpen'
<1>1. receptionistReqs' = receptionistReqs + 1
  BY DEF requestDone
<1>2. receptionistReqs' \in 0 .. 2 * nGroups
  BY <1>1, ConstantTypes
<1>3. \/ receptionistReqs' < 2 * nGroups /\ receptionistAt' = "waitForGroup"
      \/ receptionistAt' = "exit"
  BY DEF requestDone, receptionistLoop
<1> QED
  BY <1>2, <1>3 DEF requestDone, ReceptionistOpen, ReceptionistLocations

LEMMA NextTableType ==
  ASSUME NEW t \in Tables
  PROVE  (t + 1) % NUMTABLES \in Tables
<1>1. t + 1 \in Nat
  BY ConstantTypes DEF Tables
<1> QED
  BY <1>1, ConstantTypes DEF Tables

LEMMA NextPlaceType ==
  ASSUME NEW i \in 0 .. WAITLIST_LENGTH - 1
  PROVE  (i + 1) % WAITLIST_LENGTH \in 0 .. WAITLIST_LENGTH - 1
BY ConstantTypes

LEMMA ReceptionistStepType ==
  ASSUME TypeOK, ReceptionistOpen, ReceptionistNext
  PROVE  SharedTypeOK' /\ ReceptionistTypeOK' /\ ReceptionistOpen'
<1> USE DEF TypeOK, SharedTypeOK
<1>1. OrderTypeOK' /\ RequestTypeOK'
  BY DEF ReceptionistNext, RequestTypeOK, OrderTypeOK, requestVars, orderVars
<1> DEFINE Kept == /\ ReceptionistTypeOK' /\ ReceptionistOpen'
                   /\ receptionistStat' \in ReceptionistStates
                   /\ TableTypeOK' /\ SemTypeOK'
<1>2. ASSUME NEW from \in ReceptionistLocations,
             NEW to \in ReceptionistLocations,
             lockReceptionistState(from, to), from # "exit"
      PROVE  Kept
  <2>1. SemTypeOK'
    BY <1>2, DownType DEF lockReceptionistState, SemNames
  <2> QED
    BY <1>2, <2>1 DEF lockReceptionistState, receptionistGoesTo,
         ReceptionistTypeOK, ReceptionistOpen, StatTypeOK, TableTypeOK,
         tableVars, recordVars
<1>3. ASSUME NEW from \in ReceptionistLocations,
             NEW to \in ReceptionistLocations,
             NEW state \in ReceptionistStates,
             saveReceptionistState(from, state, to), from # "exit"
      PROVE  Kept
  <2>1. SemTypeOK'
    BY <1>3, UpType DEF saveReceptionistState, SemNames
  <2> QED
    BY <1>3, <2>1 DEF saveReceptionistState, receptionistGoesTo,
         ReceptionistTypeOK, ReceptionistOpen, StatTypeOK, TableTypeOK,
         tableVars, recordVars
<1>4. waitForGroup => Kept
  <2>1. WaitGroupLock => Kept
    BY <1>2 DEF WaitGroupLock, ReceptionistLocations
  <2>2. WaitGroupSave => Kept
    BY <1>3 DEF WaitGroupSave, ReceptionistLocations, ReceptionistStates
  <2>3. ASSUME TakeGroupRequest PROVE Kept
    <3>1. SemTypeOK'
      BY <2>3, DownType DEF TakeGroupRequest, SemNames
    <3> QED
      BY <2>3, <3>1 DEF TakeGroupRequest, receptionistGoesTo,
           ReceptionistTypeOK, ReceptionistLocations, ReceptionistOpen,
           StatTypeOK, TableTypeOK, RequestTypeOK, tableVars, recordVars
  <2>4. ASSUME ReadGroupRequest PROVE Kept
    <3>1. SemTypeOK'
      BY <2>4, UpType DEF ReadGroupRequest, SemNames
    <3>2. receptionistStat' \in ReceptionistStates /\ TableTypeOK'
      BY <2>4 DEF ReadGroupRequest, StatTypeOK, TableTypeOK, tableVars
    <3>3. receptionistReqs \in 0 .. 2 * nGroups /\ receptionistReqs < 2 * nGroups
      BY <2>4 DEF ReadGroupRequest, ReceptionistOpen, ReceptionistTypeOK
    <3>4. req.reqGroup \in Groups \cup {NoGroup}
      BY DEF ReceptionistTypeOK, Request, NoRequest
    <3>5. /\ receptionistReqs' \in 0 .. 2 * nGroups
          /\ receptionistAt' \in ReceptionistLocations
          /\ guest' \in Groups \cup {NoGroup}
          /\ ReceptionistOpen'
      <4>1. CASE requestDone
        BY <3>3, <4>1, RequestDoneType
      <4>2. CASE /\ receptionistAt' \in {"provideTable", "receivePayment"}
                 /\ guest' = req.reqGroup
                 /\ receptionistReqs' = receptionistReqs
        BY <3>3, <3>4, <4>2 DEF ReceptionistLocations, ReceptionistOpen
      <4> QED
        BY <2>4, <4>1, <4>2 DEF ReadGroupRequest
    <3> QED
      BY <2>4, <3>1, <3>2, <3>5 DEF ReadGroupRequest, ReceptionistTypeOK,
                                    recordVars
  <2> QED
    BY <2>1, <2>2, <2>3, <2>4 DEF waitForGroup
<1>5. provideTableOrWaitingRoom => Kept
  <2>1. ProvideLock => Kept
    BY <1>2 DEF ProvideLock, ReceptionistLocations
  <2>2. ProvideSave => Kept
    BY <1>3 DEF ProvideSave, ReceptionistLocations, ReceptionistStates
  <2>3. ASSUME SeatGroup PROVE Kept
    <3> DEFINE t == decideTableOrWait
    <3>1. t \in Tables /\ occupyTable(t)
      BY <2>3, DecidesFreeTable DEF SeatGroup, ReceptionistTypeOK
    <3>2. /\ occupied' \subseteq Tables /\ nOccupied' \in Int
          /\ nextTable' \in Tables
      BY <3>1, NextTableType DEF occupyTable, ReceptionistTypeOK
    <3>3. assignedTable' = [assignedTable EXCEPT ![guest] = t]
      BY <2>3 DEF SeatGroup
    <3> HIDE DEF t
    <3>4. TableTypeOK'
      BY <2>3, <3>1, <3>3 DEF SeatGroup, TableTypeOK
    <3>5. SemTypeOK'
      BY <2>3, TokenAdded DEF SeatGroup, SemTypeOK
    <3>6. /\ receptionistReqs' \in 0 .. 2 * nGroups
          /\ receptionistAt' \in ReceptionistLocations
          /\ guest' \in Groups \cup {NoGroup}
          /\ ReceptionistOpen'
      BY <2>3, RequestDoneType DEF SeatGroup, ReceptionistOpen,
                                   ReceptionistTypeOK
    <3> QED
      BY <2>3, <3>2, <3>4, <3>5, <3>6 DEF SeatGroup, ReceptionistTypeOK,
                                          StatTypeOK
  <2>4. ASSUME PutInWaitingRoom PROVE Kept
    <3>1. /\ receptionistReqs' \in 0 .. 2 * nGroups
          /\ receptionistAt' \in ReceptionistLocations
          /\ guest' \in Groups \cup {NoGroup}
          /\ ReceptionistOpen'
      BY <2>4, RequestDoneType DEF PutInWaitingRoom, ReceptionistOpen,
                                   ReceptionistTypeOK
    <3>2. listEnd' \in 0 .. WAITLIST_LENGTH - 1
      BY <2>4, NextPlaceType DEF PutInWaitingRoom, ReceptionistTypeOK
    <3>3. waitlist' \in [0 .. WAITLIST_LENGTH - 1 -> Groups \cup {NoGroup}]
      BY <2>4 DEF PutInWaitingRoom, ReceptionistTypeOK
    <3>4. TableTypeOK' /\ SemTypeOK'
      BY <2>4 DEF PutInWaitingRoom, TableTypeOK, SemTypeOK, semVars
    <3> QED
      BY <2>4, <3>1, <3>2, <3>3, <3>4 DEF PutInWaitingRoom,
           ReceptionistTypeOK, StatTypeOK
  <2> QED
    BY <2>1, <2>2, <2>3, <2>4 DEF provideTableOrWaitingRoom
<1>6. receivePayment => Kept
  <2>1. PaymentLock => Kept
    BY <1>2 DEF PaymentLock, ReceptionistLocations
  <2>2. PaymentSave => Kept
    BY <1>3 DEF PaymentSave, ReceptionistLocations, ReceptionistStates
  <2>3. ASSUME FreeTable PROVE Kept
    <3> DEFINE t == assignedTable[guest]
    <3>1. /\ receptionistAt' \in {"tableNotFound", "nextGroup"}
          /\ receptionistAt = "freeTable"
      BY <2>3 DEF FreeTable
    <3>2. /\ occupied' \subseteq Tables /\ nOccupied' \in Int
          /\ nextTable' \in Tables
      BY <2>3 DEF FreeTable, vacateTable, ReceptionistTypeOK
    <3>3. TableTypeOK'
      BY <2>3 DEF FreeTable, TableTypeOK
    <3>4. \/ tableDone' = [tableDone EXCEPT ![t] = @ + 1]
          \/ tableDone' = tableDone
      BY <2>3 DEF FreeTable
    <3> HIDE DEF t
    <3>5. SemTypeOK'
      BY <2>3, <3>4, TokenAdded DEF FreeTable, SemTypeOK
    <3> QED
      BY <2>3, <3>1, <3>2, <3>3, <3>5 DEF FreeTable, ReceptionistTypeOK,
           ReceptionistLocations, ReceptionistOpen, StatTypeOK
  <2>4. ASSUME CallNextGroup PROVE Kept
    <3>1. listBegin' \in 0 .. WAITLIST_LENGTH - 1
      BY <2>4, NextPlaceType DEF CallNextGroup, ReceptionistTypeOK
    <3>2. guest' \in Groups \cup {NoGroup}
      BY <2>4 DEF CallNextGroup, ReceptionistTypeOK
    <3>3. TableTypeOK' /\ SemTypeOK'
      BY <2>4 DEF CallNextGroup, TableTypeOK, SemTypeOK, semVars
    <3> QED
      BY <2>4, <3>1, <3>2, <3>3 DEF CallNextGroup, receptionistGoesTo,
           ReceptionistTypeOK, ReceptionistLocations, ReceptionistOpen,
           StatTypeOK
  <2>5. ASSUME NobodyWaits PROVE Kept
    <3>1. /\ receptionistReqs' \in 0 .. 2 * nGroups
          /\ receptionistAt' \in ReceptionistLocations
          /\ guest' \in Groups \cup {NoGroup}
          /\ ReceptionistOpen'
      BY <2>5, RequestDoneType DEF NobodyWaits, ReceptionistOpen,
                                   ReceptionistTypeOK
    <3>2. TableTypeOK' /\ SemTypeOK'
      BY <2>5 DEF NobodyWaits, TableTypeOK, SemTypeOK, tableVars, semVars
    <3> QED
      BY <2>5, <3>1, <3>2 DEF NobodyWaits, ReceptionistTypeOK, StatTypeOK,
                              recordVars
  <2> QED
    BY <2>1, <2>2, <2>3, <2>4, <2>5 DEF receivePayment
<1>7. Kept
  BY <1>4, <1>5, <1>6 DEF ReceptionistNext
<1>8. StatTypeOK'
  BY <1>7 DEF ReceptionistNext, StatTypeOK
<1> QED
  BY <1>1, <1>7, <1>8

-----------------------------------------------------------------------------
(* A step of the waiter                                                     *)

RingTypeOK ==
  /\ queue \in [Tables -> Request \cup {NoRequest}]
  /\ qlength \in Nat
  /\ qreadNext \in Tables
  /\ qwriteNext \in Tables

\* An order put into the ring becomes its last entry in use ...
LEMMA EnqueueKeepsRing ==
  ASSUME RingTypeOK, RingHolds, incoming \in Request, enqueueIncoming
  PROVE  RingTypeOK' /\ RingHolds'
<1> USE ConstantTypes
<1> DEFINE place(i) == (qreadNext + i) % NUMTABLES
<1>1. /\ queue' = [queue EXCEPT ![qwriteNext] = incoming]
      /\ qwriteNext' = (qwriteNext + 1) % NUMTABLES
      /\ qlength' = qlength + 1
      /\ qreadNext' = qreadNext
  BY DEF enqueueIncoming
<1>2. qreadNext \in Nat /\ qreadNext + qlength \in Nat
  BY DEF RingTypeOK, Tables
<1>3. qwriteNext' = place(qlength')
  <2>1. qwriteNext' = (((qreadNext + qlength) % NUMTABLES) + 1) % NUMTABLES
    BY <1>1 DEF RingHolds
  <2>2. qwriteNext' = (qreadNext + qlength + 1) % NUMTABLES
    BY <1>2, <2>1, ModPlus
  <2>3. qreadNext + qlength + 1 = qreadNext + qlength'
    BY <1>1, <1>2 DEF RingTypeOK
  <2> QED
    BY <2>2, <2>3
<1>4. RingTypeOK'
  BY <1>1, NextTableType DEF RingTypeOK
<1>5. ASSUME NEW i \in 0 .. qlength' - 1 PROVE queue'[place(i)] \in Request
  <2>1. place(i) \in Tables
    BY <1>1, <1>2 DEF RingTypeOK, Tables
  <2>2. i \in 0 .. qlength - 1 \/ i = qlength
    BY <1>1 DEF RingTypeOK
  <2>3. queue[place(i)] \in Request \/ place(i) = qwriteNext
    BY <2>2 DEF RingHolds
  <2> HIDE DEF place
  <2> QED
    BY <1>1, <2>1, <2>3 DEF RingTypeOK
<1> QED
  BY <1>1, <1>3, <1>4, <1>5 DEF RingHolds

\* ... and one taken from it was its first.
LEMMA TakeQueuedKeepsRing ==
  ASSUME RingTypeOK, RingHolds, qlength > 0, TakeQueued
  PROVE  RingTypeOK' /\ RingHolds' /\ outgoing' \in Request
<1> USE ConstantTypes
<1> DEFINE place(i) == (qreadNext + i) % NUMTABLES
<1>1. /\ outgoing' = queue[qreadNext]
      /\ qreadNext' = (qreadNext + 1) % NUMTABLES
      /\ qlength' = qlength - 1
      /\ queue' = queue /\ qwriteNext' = qwriteNext
  BY DEF TakeQueued
<1>2. qreadNext \in 0 .. NUMTABLES - 1 /\ qreadNext + 1 \in Nat
  BY DEF RingTypeOK, Tables
<1>3. \A i \in Nat : (qreadNext' + i) % NUMTABLES = (qreadNext + 1 + i) % NUMTABLES
  BY <1>1, <1>2, ModPlus
<1>4. outgoing' \in Request
  <2>1. (qreadNext + 0) % NUMTABLES = qreadNext
    BY <1>2, ModUnique
  <2>2. 0 \in 0 .. qlength - 1
    BY DEF RingTypeOK
  <2> QED
    BY <1>1, <2>1, <2>2 DEF RingHolds
<1>5. RingTypeOK'
  BY <1>1, NextTableType DEF RingTypeOK
<1>6. qwriteNext' = (qreadNext' + qlength') % NUMTABLES
  <2>1. qlength' \in Nat /\ qreadNext + 1 + qlength' = qreadNext + qlength
    BY <1>1, <1>2 DEF RingTypeOK
  <2> QED
    BY <1>1, <1>3, <2>1 DEF RingHolds
<1>7. ASSUME NEW i \in 0 .. qlength' - 1
      PROVE  queue'[(qreadNext' + i) % NUMTABLES] \in Request
  <2>1. i + 1 \in 0 .. qlength - 1
    BY <1>1 DEF RingTypeOK
  <2>2. qreadNext + 1 + i = qreadNext + (i + 1)
    BY <1>2
  <2> QED
    BY <1>1, <1>3, <2>1, <2>2 DEF RingHolds
<1> QED
  BY <1>4, <1>5, <1>6, <1>7 DEF RingHolds

\* The end of a handler of the waiter's.
LEMMA HandledType ==
  ASSUME waiterReqs \in 0 .. 2 * nGroups, waiterReqs < 2 * nGroups,
         foodOrder' \in BOOLEAN, handled
  PROVE  /\ waiterReqs' \in 0 .. 2 * nGroups
         /\ waiterAt' \in {"poll", "exit"}
         /\ WaiterOpen'
         /\ chefIsBusy' \in BOOLEAN
         /\ outgoing' \in Request \cup {NoRequest}
         /\ waiterTable' \in Tables \cup {NoTable}
<1>1. waiterReqs' = waiterReqs + 1
  BY DEF handled
<1>2. waiterReqs' \in 0 .. 2 * nGroups
  BY <1>1, ConstantTypes
<1>3. \/ waiterReqs' < 2 * nGroups /\ waiterAt' = "poll"
      \/ waiterAt' = "exit"
  BY DEF handled
<1>4. chefIsBusy' \in BOOLEAN
  BY Zenon DEF handled
<1> QED
  BY <1>2, <1>3, <1>4 DEF handled, WaiterOpen

LEMMA WaiterStepType ==
  ASSUME TypeOK, WaiterOpen, WaiterHolds, RingHolds, WaiterNext
  PROVE  /\ SharedTypeOK' /\ WaiterTypeOK'
         /\ WaiterOpen' /\ WaiterHolds' /\ RingHolds'
<1> USE DEF TypeOK, SharedTypeOK
<1>1. TableTypeOK' /\ RequestTypeOK'
  BY DEF WaiterNext, TableTypeOK, RequestTypeOK, tableVars, requestVars
<1> DEFINE Kept == /\ WaiterTypeOK' /\ WaiterOpen' /\ WaiterHolds' /\ RingHolds'
                   /\ waiterStat' \in WaiterStates
                   /\ OrderTypeOK' /\ SemTypeOK'
<1>2. ASSUME waiterSame, OrderTypeOK', SemTypeOK', waiterStat' \in WaiterStates,
             waiterAt # "exit", waiterAt' \in WaiterLocations, WaiterHolds'
      PROVE  Kept
  BY <1>2 DEF waiterSame, queueVars, WaiterTypeOK, WaiterOpen, RingHolds
<1>3. SemTypeOK' /\ (UNCHANGED orderVars => OrderTypeOK')
      /\ (UNCHANGED waiterStat => waiterStat' \in WaiterStates)
  <2>1. UNCHANGED orderVars => OrderTypeOK'
    BY DEF orderVars, OrderTypeOK
  <2>2. UNCHANGED waiterStat => waiterStat' \in WaiterStates
    BY DEF StatTypeOK
  <2>3. IdleLock \/ TakeRequest \/ InformLock \/ WaitForChef \/ TakeFoodLock
          => SemTypeOK'
    BY DownType DEF IdleLock, TakeRequest, InformLock, WaitForChef,
                    TakeFoodLock, SemNames
  <2>4. IdleSave \/ ReadRequest \/ InformSave \/ PostOrder \/ TakeFoodSave
          => SemTypeOK'
    BY UpType DEF IdleSave, ReadRequest, InformSave, PostOrder, TakeFoodSave,
                  SemNames
  <2>5. InformGroup \/ ServeFood => SemTypeOK'
    BY TokenAdded DEF InformGroup, ServeFood, SemTypeOK
  <2>6. TakeQueued => SemTypeOK'
    BY DEF TakeQueued, SemTypeOK, semVars
  <2> QED
    BY <2>1, <2>2, <2>3, <2>4, <2>5, <2>6 DEF WaiterNext,
       waitForClientOrChef, informChef, takeFoodToTable
<1>4. waitForClientOrChef => Kept
  <2>1. ASSUME TakeQueued PROVE Kept
    <3>1. RingTypeOK /\ qlength > 0
      BY <2>1 DEF TakeQueued, mayServeQueue, WaiterTypeOK, RingTypeOK
    <3>2. RingTypeOK' /\ RingHolds' /\ outgoing' \in Request
      BY <2>1, <3>1, TakeQueuedKeepsRing
    <3> QED
      BY <2>1, <3>2, <1>3 DEF TakeQueued, waiterGoesTo, WaiterTypeOK,
         RingTypeOK, WaiterLocations, WaiterOpen, WaiterHolds
  <2>2. IdleLock => Kept
    BY <1>2, <1>3 DEF IdleLock, waiterGoesTo, WaiterLocations, WaiterHolds
  <2>3. IdleSave => Kept
    BY <1>2, <1>3 DEF IdleSave, waiterGoesTo, WaiterLocations, WaiterHolds,
                      WaiterStates
  <2>4. ASSUME TakeRequest PROVE Kept
    <3>1. incoming' \in Request \cup {NoRequest}
      BY <2>4 DEF TakeRequest, RequestTypeOK
    <3> QED
      BY <2>4, <3>1, <1>3 DEF TakeRequest, WaiterTypeOK, WaiterLocations,
         WaiterOpen, WaiterHolds, RingHolds, queueVars
  <2>5. ASSUME ReadRequest PROVE Kept
    <3>1. \/ /\ incoming.reqType = "FOODREQ"
             /\ enqueueIncoming
          \/ /\ incoming.reqType = "FOODREADY"
             /\ outgoing' = incoming
             /\ waiterAt' = "takeFoodToTable"
             /\ UNCHANGED queueVars
          \/ /\ waiterAt' = "wrongRequest"
             /\ UNCHANGED <<queueVars, outgoing>>
      BY <2>5 DEF ReadRequest
    <3>2. RingTypeOK
      BY DEF WaiterTypeOK, RingTypeOK
    <3>3. /\ RingTypeOK' /\ RingHolds'
          /\ outgoing' \in Request \cup {NoRequest}
          /\ waiterAt' \in WaiterLocations \ {"exit"}
          /\ WaiterHolds'
      <4>1. CASE incoming.reqType = "FOODREQ" /\ enqueueIncoming
        <5>1. incoming \in Request
          BY <4>1, RealRequest DEF WaiterTypeOK, RequestTypes
        <5>2. RingTypeOK' /\ RingHolds'
          BY <4>1, <5>1, <3>2, EnqueueKeepsRing
        <5> QED
          BY <4>1, <5>2 DEF enqueueIncoming, WaiterTypeOK, WaiterLocations,
                            WaiterHolds
      <4>2. CASE /\ incoming.reqType = "FOODREADY"
                 /\ outgoing' = incoming
                 /\ waiterAt' = "takeFoodToTable"
                 /\ UNCHANGED queueVars
        <5>1. incoming \in Request
          BY <4>2, RealRequest DEF WaiterTypeOK, RequestTypes
        <5> QED
          BY <4>2, <5>1, <3>2 DEF WaiterLocations, WaiterHolds, RingTypeOK,
                                  RingHolds, queueVars
      <4>3. CASE /\ waiterAt' = "wrongRequest"
                 /\ UNCHANGED <<queueVars, outgoing>>
        BY <4>3, <3>2 DEF WaiterTypeOK, WaiterLocations, WaiterHolds,
                          RingTypeOK, RingHolds, queueVars
      <4> QED
        BY <3>1, <4>1, <4>2, <4>3
    <3> QED
      BY <2>5, <3>3, <1>3 DEF ReadRequest, WaiterTypeOK, WaiterOpen, RingTypeOK
  <2> QED
    BY <2>1, <2>2, <2>3, <2>4, <2>5 DEF waitForClientOrChef
<1>5. ASSUME WaiterHolds, NEW at1, waiterAt = at1,
             at1 \in {"informGroup", "serveFood"}, handled, OrderTypeOK',
             UNCHANGED waiterStat
      PROVE  Kept
  <2>1. waiterReqs \in 0 .. 2 * nGroups /\ waiterReqs < 2 * nGroups
    BY <1>5 DEF WaiterTypeOK, WaiterOpen
  <2>2. foodOrder' \in BOOLEAN
    BY <1>5 DEF OrderTypeOK
  <2>3. /\ waiterReqs' \in 0 .. 2 * nGroups
        /\ waiterAt' \in {"poll", "exit"}
        /\ WaiterOpen'
        /\ chefIsBusy' \in BOOLEAN
        /\ outgoing' \in Request \cup {NoRequest}
        /\ waiterTable' \in Tables \cup {NoTable}
    BY <1>5, <2>1, <2>2, HandledType
  <2>4. UNCHANGED <<queueVars, incoming>>
    BY <1>5 DEF handled
  <2> QED
    BY <1>3, <1>5, <2>3, <2>4 DEF WaiterTypeOK, WaiterLocations, WaiterHolds,
                                  RingHolds, queueVars
<1>6. outgoing \in Request => assignedTable[outgoing.reqGroup] \in Tables \cup {NoTable}
  BY DEF Request, TableTypeOK
<1>7. informChef => Kept
  <2>1. InformLock => Kept
    BY <1>2, <1>3 DEF InformLock, waiterGoesTo, waiterSame, WaiterLocations,
                      WaiterHolds
  <2>2. ASSUME InformSave PROVE Kept
    <3>1. OrderTypeOK'
      BY <2>2 DEF InformSave, WaiterTypeOK, OrderTypeOK, Request, NoRequest
    <3> QED
      BY <2>2, <3>1, <1>2, <1>3 DEF InformSave, waiterGoesTo, waiterSame,
         WaiterLocations, WaiterHolds, WaiterStates
  <2>3. PostOrder => Kept
    BY <1>2, <1>3 DEF PostOrder, waiterGoesTo, waiterSame, WaiterLocations,
                      WaiterHolds
  <2>4. ASSUME WaitForChef PROVE Kept
    <3>1. waiterTable' \in Tables \cup {NoTable} /\ outgoing \in Request
      BY <2>4, <1>6 DEF WaitForChef, waiterGoesTo, WaiterHolds
    <3> QED
      BY <2>4, <3>1, <1>3 DEF WaitForChef, waiterGoesTo, WaiterTypeOK,
         WaiterLocations, WaiterOpen, WaiterHolds, RingHolds, queueVars
  <2>5. InformGroup => Kept
    BY <1>3, <1>5 DEF InformGroup
  <2> QED
    BY <2>1, <2>2, <2>3, <2>4, <2>5 DEF informChef
<1>8. takeFoodToTable => Kept
  <2>1. TakeFoodLock => Kept
    BY <1>2, <1>3 DEF TakeFoodLock, waiterGoesTo, waiterSame, WaiterLocations,
                      WaiterHolds
  <2>2. ASSUME TakeFoodSave PROVE Kept
    <3>1. waiterTable' \in Tables \cup {NoTable} /\ outgoing \in Request
      BY <2>2, <1>6 DEF TakeFoodSave, waiterGoesTo, WaiterHolds
    <3> QED
      BY <2>2, <3>1, <1>3 DEF TakeFoodSave, waiterGoesTo, WaiterTypeOK,
         WaiterLocations, WaiterOpen, WaiterHolds, WaiterStates, RingHolds,
         queueVars
  <2>3. ASSUME ServeFood PROVE Kept
    <3>1. OrderTypeOK'
      BY <2>3 DEF ServeFood, OrderTypeOK
    <3> QED
      BY <2>3, <3>1, <1>5 DEF ServeFood
  <2> QED
    BY <2>1, <2>2, <2>3 DEF takeFoodToTable
<1>9. Kept
  BY <1>4, <1>7, <1>8 DEF WaiterNext
<1>10. StatTypeOK'
  BY <1>9 DEF WaiterNext, StatTypeOK
<1> QED
  BY <1>1, <1>9, <1>10
-----------------------------------------------------------------------------
(* A step of the chef                                                       *)

LEMMA ChefStepType ==
  ASSUME TypeOK, ChefOpen, ChefHolds, ChefNext
  PROVE  SharedTypeOK' /\ ChefTypeOK' /\ ChefOpen' /\ ChefHolds'
<1> USE ConstantTypes DEF TypeOK, SharedTypeOK
<1>1. TableTypeOK' /\ OrderTypeOK'
  BY DEF ChefNext, TableTypeOK, OrderTypeOK, tableVars, orderVars
<1> DEFINE Kept == /\ ChefTypeOK' /\ ChefOpen' /\ ChefHolds'
                   /\ chefStat' \in ChefStates
                   /\ RequestTypeOK' /\ SemTypeOK'
<1>2. receptionistRequest' = receptionistRequest
  BY DEF ChefNext
<1>3. ASSUME NEW from \in ChefLocations \ {"exit"}, NEW to \in ChefLocations,
             lockChefState(from, to), ChefHolds'
      PROVE  Kept
  <2>1. SemTypeOK'
    BY <1>3, DownType DEF lockChefState, SemNames
  <2> QED
    BY <1>2, <1>3, <2>1 DEF lockChefState, chefGoesTo, ChefTypeOK, ChefOpen,
                            StatTypeOK, RequestTypeOK
<1>4. ASSUME NEW from \in ChefLocations \ {"exit"}, NEW to \in ChefLocations,
             NEW state \in ChefStates, saveChefState(from, state, to),
             ChefHolds', lastGroup' \in Groups \cup {NoGroup, Scrubbed}
      PROVE  Kept
  <2>1. SemTypeOK'
    BY <1>4, UpType DEF saveChefState, SemNames
  <2> QED
    BY <1>2, <1>4, <2>1 DEF saveChefState, chefGoesTo, ChefTypeOK, ChefOpen,
                            RequestTypeOK
<1>5. ASSUME nOrders \in 0 .. nGroups, nOrders < nGroups,
             nOrders' = nOrders + 1, chefAt' = chefLoop(nOrders')
      PROVE  /\ nOrders' \in 0 .. nGroups
             /\ chefAt' \in {"waitForOrder", "exit"}
             /\ ChefOpen'
  BY <1>5 DEF chefLoop, ChefOpen
<1>6. waitForOrder => Kept
  <2>1. WaitOrderLock => Kept
    BY <1>3 DEF WaitOrderLock, lockChefState, chefGoesTo, ChefLocations,
                ChefHolds
  <2>2. WaitOrderSave => Kept
    BY <1>4 DEF WaitOrderSave, saveChefState, chefGoesTo, ChefLocations,
                ChefStates, ChefHolds
  <2>3. ASSUME TakeOrder PROVE Kept
    <3>1. SemTypeOK'
      BY <2>3, DownType DEF TakeOrder, SemNames
    <3>2. lastGroup' \in Groups \cup {NoGroup}
      BY <2>3 DEF TakeOrder, OrderTypeOK
    <3> QED
      BY <1>2, <2>3, <3>1, <3>2 DEF TakeOrder, chefGoesTo, ChefTypeOK,
         ChefLocations, ChefOpen, ChefHolds, StatTypeOK, RequestTypeOK
  <2>4. ASSUME AcknowledgeOrder PROVE Kept
    <3>1. SemTypeOK'
      BY <2>4, UpType DEF AcknowledgeOrder, SemNames
    <3>2. CASE lastGroup = NoGroup
      <4>1. /\ nOrders' \in 0 .. nGroups
            /\ chefAt' \in {"waitForOrder", "exit"}
            /\ ChefOpen'
        BY <1>5, <2>4, <3>2 DEF AcknowledgeOrder, ChefTypeOK, ChefOpen
      <4> QED
        BY <1>2, <2>4, <3>1, <4>1 DEF AcknowledgeOrder, ChefTypeOK,
           ChefLocations, ChefHolds, StatTypeOK, RequestTypeOK
    <3>3. CASE lastGroup # NoGroup
      BY <1>2, <2>4, <3>1, <3>3 DEF AcknowledgeOrder, ChefTypeOK,
         ChefLocations, ChefOpen, ChefHolds, StatTypeOK, RequestTypeOK
    <3> QED
      BY <3>2, <3>3
  <2> QED
    BY <2>1, <2>2, <2>3, <2>4 DEF waitForOrder
<1>7. processOrder => Kept
  <2>1. CookLock \/ RestLock => Kept
    BY <1>3 DEF CookLock, RestLock, lockChefState, chefGoesTo, ChefLocations,
                ChefHolds
  <2>2. CookSave \/ RestSave => Kept
    BY <1>4 DEF CookSave, RestSave, saveChefState, chefGoesTo, ChefLocations,
                ChefStates, ChefHolds
  <2>3. ASSUME FoodReady PROVE Kept
    <3>1. SemTypeOK'
      BY <2>3, DownType DEF FoodReady, SemNames
    <3>2. lastGroup \in Groups
      BY <2>3 DEF FoodReady, chefGoesTo, ChefHolds
    <3>3. RequestTypeOK'
      BY <1>2, <2>3, <3>2, MakeRequestType DEF FoodReady, RequestTypeOK,
                                               RequestTypes
    <3> QED
      BY <2>3, <3>1, <3>3 DEF FoodReady, chefGoesTo, ChefTypeOK,
         ChefLocations, ChefOpen, ChefHolds, StatTypeOK
  <2>4. ASSUME PostFoodReady PROVE Kept
    <3>1. SemTypeOK'
      BY <2>4, UpType DEF PostFoodReady, SemNames
    <3>2. /\ nOrders' \in 0 .. nGroups
          /\ chefAt' \in {"waitForOrder", "exit"}
          /\ ChefOpen'
      BY <1>5, <2>4 DEF PostFoodReady, ChefTypeOK, ChefOpen
    <3> QED
      BY <1>2, <2>4, <3>1, <3>2 DEF PostFoodReady, ChefTypeOK, ChefLocations,
         ChefHolds, StatTypeOK, RequestTypeOK
  <2> QED
    BY <2>1, <2>2, <2>3, <2>4 DEF processOrder
<1>8. Kept
  BY <1>6, <1>7 DEF ChefNext
<1>9. StatTypeOK'
  BY <1>8 DEF ChefNext, StatTypeOK
<1> QED
  BY <1>1, <1>8, <1>9

-----------------------------------------------------------------------------
(* The type invariant                                                       *)

\* Every step of every process keeps the inductive invariant; the private
\* variables of the others are out of its reach.
LEMMA TypeStep == TypeInv /\ [Next]_vars => TypeInv'
<1> SUFFICES ASSUME TypeInv, [Next]_vars PROVE TypeInv'
  OBVIOUS
<1> USE DEF TypeInv
<1>1. UNCHANGED groupVars => GroupTypeOK'
  BY DEF groupVars, TypeOK, GroupTypeOK
<1>2. UNCHANGED receptionistVars => ReceptionistTypeOK' /\ ReceptionistOpen'
  BY DEF receptionistVars, recordVars, TypeOK, ReceptionistTypeOK,
         ReceptionistOpen
<1>3. UNCHANGED waiterVars
        => WaiterTypeOK' /\ WaiterOpen' /\ WaiterHolds' /\ RingHolds'
  <2>1. UNCHANGED waiterVars => (chefIsBusy \in BOOLEAN)'
    BY Zenon DEF waiterVars, TypeOK, WaiterTypeOK
  <2> QED
    BY <2>1 DEF waiterVars, queueVars, TypeOK, WaiterTypeOK, WaiterOpen,
                WaiterHolds, RingHolds
<1>4. UNCHANGED chefVars => ChefTypeOK' /\ ChefOpen' /\ ChefHolds'
  BY DEF chefVars, TypeOK, ChefTypeOK, ChefOpen, ChefHolds
<1>5. ASSUME NEW g \in Groups, GroupStep(g) PROVE TypeInv'
  BY <1>2, <1>3, <1>4, <1>5, GroupStepType DEF GroupStep, TypeOK
<1>6. ASSUME ReceptionistStep PROVE TypeInv'
  BY <1>1, <1>3, <1>4, <1>6, ReceptionistStepType DEF ReceptionistStep, TypeOK
<1>7. ASSUME WaiterStep PROVE TypeInv'
  BY <1>1, <1>2, <1>4, <1>7, WaiterStepType DEF WaiterStep, TypeOK
<1>8. ASSUME ChefStep PROVE TypeInv'
  BY <1>1, <1>2, <1>3, <1>8, ChefStepType DEF ChefStep, TypeOK
<1>9. ASSUME UNCHANGED vars PROVE TypeInv'
  <2>1. SharedTypeOK'
    <3>1. OrderTypeOK'
      BY <1>9, Zenon DEF vars, sharedVars, orderVars, TypeOK, SharedTypeOK,
                         OrderTypeOK
    <3> QED
      BY <1>9, <3>1 DEF vars, sharedVars, statVars, tableVars, requestVars,
         semVars, TypeOK, SharedTypeOK, StatTypeOK, TableTypeOK,
         RequestTypeOK, SemTypeOK
  <2> QED
    BY <1>1, <1>2, <1>3, <1>4, <1>9, <2>1 DEF vars, TypeOK
<1> QED
  BY <1>5, <1>6, <1>7, <1>8, <1>9 DEF Next, Terminated

LEMMA TypeInvariant == Spec => []TypeInv
<1> QED
  BY InitType, TypeStep, PTL DEF Spec

\* In every run every variable keeps its type: the loops of the three servers
\* handle exactly as many requests as they count, the indices of the
\* receptionist's list of waiting groups, of its tables and of the waiter's
\* ring stay inside their arrays, and no process acts on a request, a group or
\* an order that nobody made.
THEOREM TypeCorrect == Spec => []TypeOK
<1>1. TypeInv => TypeOK
  BY DEF TypeInv
<1> QED
  BY <1>1, TypeInvariant, PTL
-----------------------------------------------------------------------------
(* Mutual exclusion.  Each step moves the token of mutex between the        *)
(* semaphore and the process that takes the step, or leaves it alone.       *)

\* A group that takes the mutex enters one of the places where it holds it,
\* one that releases it leaves such a place, and no other step does either.
LEMMA GroupMovesMutex ==
  ASSUME TypeOK, NEW g \in Groups, GroupNext(g)
  PROVE  \/ /\ sem'["mutex"] = sem["mutex"] - 1
            /\ groupAt[g] \notin GroupCritical /\ groupAt'[g] \in GroupCritical
         \/ /\ sem'["mutex"] = sem["mutex"] + 1
            /\ groupAt[g] \in GroupCritical /\ groupAt'[g] \notin GroupCritical
         \/ /\ sem'["mutex"] = sem["mutex"]
            /\ groupAt[g] \notin GroupCritical /\ groupAt'[g] \notin GroupCritical
<1> DEFINE Enters == /\ sem'["mutex"] = sem["mutex"] - 1
                     /\ groupAt[g] \notin GroupCritical
                     /\ groupAt'[g] \in GroupCritical
           Leaves == /\ sem'["mutex"] = sem["mutex"] + 1
                     /\ groupAt[g] \in GroupCritical
                     /\ groupAt'[g] \notin GroupCritical
           Neither == /\ sem'["mutex"] = sem["mutex"]
                      /\ groupAt[g] \notin GroupCritical
                      /\ groupAt'[g] \notin GroupCritical
<1>1. /\ sem \in [SemNames -> Nat] /\ "mutex" \in SemNames
      /\ groupAt \in [Groups -> GroupLocations]
  BY DEF TypeOK, SharedTypeOK, SemTypeOK, GroupTypeOK, SemNames
<1>2. ASSUME NEW from, NEW to, goesTo(g, from, to)
      PROVE  groupAt[g] = from /\ groupAt'[g] = to
  BY <1>1, <1>2 DEF goesTo
<1>3. ASSUME NEW from, NEW to, from \notin GroupCritical, to \in GroupCritical,
             lockState(g, from, to)
      PROVE  Enters
  BY <1>1, <1>2, <1>3 DEF lockState, semDown
<1>4. ASSUME NEW from, NEW to, from \in GroupCritical, to \notin GroupCritical,
             NEW state, saveGroupState(g, from, state, to)
      PROVE  Leaves
  BY <1>1, <1>2, <1>4 DEF saveGroupState, semUp
<1>5. ASSUME NEW from, NEW to, from \notin GroupCritical, to \notin GroupCritical,
             goesTo(g, from, to),
             \/ UNCHANGED sem
             \/ \E s \in SemNames \ {"mutex"} : semDown(s) \/ semUp(s)
      PROVE  Neither
  BY <1>1, <1>2, <1>5 DEF semDown, semUp
<1>6. checkInAtReception(g) => Enters \/ Leaves \/ Neither
  BY <1>3, <1>4, <1>5 DEF checkInAtReception, CheckInLock, CheckInSave,
     CheckInRequest, CheckInPost, CheckInSit, fillReceptionistRequest,
     postReceptionistRequest, GroupCritical, SemNames
<1>7. orderFood(g) => Enters \/ Leaves \/ Neither
  BY <1>3, <1>4, <1>5 DEF orderFood, OrderLock, OrderSave, OrderRequest,
     OrderPost, OrderTaken, GroupCritical, SemNames
<1>8. waitFood(g) => Enters \/ Leaves \/ Neither
  BY <1>3, <1>4, <1>5 DEF waitFood, WaitFoodLock, WaitFoodSave, FoodServed,
     EatLock, EatSave, GroupCritical
<1>9. checkOutAtReception(g) => Enters \/ Leaves \/ Neither
  BY <1>3, <1>4, <1>5 DEF checkOutAtReception, FinishMeal, CheckOutLock,
     CheckOutSave, CheckOutRequest, CheckOutPost, CheckOutDone, LeaveLock,
     LeaveSave, fillReceptionistRequest, postReceptionistRequest,
     GroupCritical, SemNames, semVars
<1> QED
  BY <1>6, <1>7, <1>8, <1>9 DEF GroupNext

\* No step of a group moves another one.
LEMMA GroupMovesAlone ==
  ASSUME GroupTypeOK, NEW g \in Groups, GroupNext(g)
  PROVE  \A h \in Groups \ {g} :
           groupAt'[h] = groupAt[h] /\ groupTable'[h] = groupTable[h]
  BY DEF GroupTypeOK, GroupNext, checkInAtReception, orderFood,
     waitFood, checkOutAtReception, CheckInLock, CheckInSave, CheckInRequest,
     CheckInPost, CheckInSit, OrderLock, OrderSave, OrderRequest, OrderPost,
     OrderTaken, WaitFoodLock, WaitFoodSave, FoodServed, EatLock, EatSave,
     FinishMeal, CheckOutLock, CheckOutSave, CheckOutRequest, CheckOutPost,
     CheckOutDone, LeaveLock, LeaveSave, lockState, saveGroupState,
     fillReceptionistRequest, postReceptionistRequest, goesTo, readsTable

\* The same of the whole set of groups: a step of one of them takes as many
\* tokens from the semaphore as it adds groups to those that hold the mutex.
LEMMA GroupKeepsMutex ==
  ASSUME TypeOK, NEW g \in Groups, GroupNext(g)
  PROVE  sem'["mutex"] + Cardinality(at(GroupCritical)')
           = sem["mutex"] + Cardinality(at(GroupCritical))
<1> DEFINE C == at(GroupCritical)
<1>1. IsFiniteSet(C)
  BY GroupsAssumption, FS_Subset DEF at
<1>2. \A h \in Groups \ {g} : groupAt'[h] = groupAt[h]
  BY GroupMovesAlone DEF TypeOK
<1>3. sem["mutex"] \in Nat /\ Cardinality(C) \in Nat
  BY <1>1, FS_CardinalityType DEF TypeOK, SharedTypeOK, SemTypeOK, SemNames
<1>4. CASE /\ sem'["mutex"] = sem["mutex"] - 1
           /\ groupAt[g] \notin GroupCritical /\ groupAt'[g] \in GroupCritical
  <2>1. C' = C \cup {g} /\ g \notin C
    BY <1>2, <1>4 DEF at
  <2>2. Cardinality(C') = Cardinality(C) + 1
    BY <1>1, <2>1, FS_AddElement
  <2> QED
    BY <1>3, <1>4, <2>2
<1>5. CASE /\ sem'["mutex"] = sem["mutex"] + 1
           /\ groupAt[g] \in GroupCritical /\ groupAt'[g] \notin GroupCritical
  <2>1. C' = C \ {g} /\ g \in C
    BY <1>2, <1>5 DEF at
  <2>2. Cardinality(C') = Cardinality(C) - 1
    BY <1>1, <2>1, FS_RemoveElement
  <2> QED
    BY <1>3, <1>5, <2>2
<1>6. CASE /\ sem'["mutex"] = sem["mutex"]
           /\ groupAt[g] \notin GroupCritical /\ groupAt'[g] \notin GroupCritical
  <2>1. C' = C
    BY <1>2, <1>6 DEF at
  <2> QED
    BY <1>6, <2>1
<1> QED
  BY <1>4, <1>5, <1>6, GroupMovesMutex

\* The receptionist, the waiter and the chef keep the same balance.
LEMMA ReceptionistKeepsMutex ==
  ASSUME TypeOK, ReceptionistNext
  PROVE  sem'["mutex"] + Bit(receptionistAt' \in ReceptionistCritical)
           = sem["mutex"] + Bit(receptionistAt \in ReceptionistCritical)
<1>1. sem \in [SemNames -> Nat] /\ "mutex" \in SemNames
  BY DEF TypeOK, SharedTypeOK, SemTypeOK, SemNames
<1> DEFINE Balance == sem'["mutex"] + Bit(receptionistAt' \in ReceptionistCritical)
                        = sem["mutex"] + Bit(receptionistAt \in ReceptionistCritical)
<1>2. ASSUME NEW from, NEW to, from \notin ReceptionistCritical,
             to \in ReceptionistCritical,
             lockReceptionistState(from, to)
      PROVE  Balance
  BY <1>1, <1>2 DEF lockReceptionistState, receptionistGoesTo, semDown, Bit
<1>3. ASSUME NEW from, NEW to, from \in ReceptionistCritical,
             to \notin ReceptionistCritical,
             NEW state, saveReceptionistState(from, state, to)
      PROVE  Balance
  BY <1>1, <1>3 DEF saveReceptionistState, receptionistGoesTo, semUp, Bit
<1>4. ASSUME receptionistAt \notin ReceptionistCritical,
             receptionistAt' \notin ReceptionistCritical,
             \/ UNCHANGED sem
             \/ \E s \in SemNames \ {"mutex"} : semDown(s) \/ semUp(s)
      PROVE  Balance
  BY <1>1, <1>4 DEF semDown, semUp, Bit
<1>5. requestDone => receptionistAt' \notin ReceptionistCritical
  BY DEF requestDone, receptionistLoop, ReceptionistCritical
<1>6. waitForGroup => Balance
  <2>1. ReadGroupRequest => receptionistAt' \notin ReceptionistCritical
    BY <1>5 DEF ReadGroupRequest, ReceptionistCritical
  <2> QED
    BY <1>2, <1>3, <1>4, <2>1 DEF waitForGroup, WaitGroupLock, WaitGroupSave,
       TakeGroupRequest, ReadGroupRequest, receptionistGoesTo,
       ReceptionistCritical, SemNames
<1>7. provideTableOrWaitingRoom => Balance
  BY <1>2, <1>3, <1>4, <1>5 DEF provideTableOrWaitingRoom, ProvideLock,
     ProvideSave, SeatGroup, PutInWaitingRoom, ReceptionistCritical, semVars
<1>8. receivePayment => Balance
  BY <1>2, <1>3, <1>4, <1>5 DEF receivePayment, PaymentLock, PaymentSave,
     FreeTable, CallNextGroup, NobodyWaits, receptionistGoesTo,
     ReceptionistCritical, semVars
<1> QED
  BY <1>6, <1>7, <1>8 DEF ReceptionistNext

LEMMA WaiterKeepsMutex ==
  ASSUME TypeOK, WaiterNext
  PROVE  sem'["mutex"] + Bit(waiterAt' \in WaiterCritical)
           = sem["mutex"] + Bit(waiterAt \in WaiterCritical)
<1>1. sem \in [SemNames -> Nat] /\ "mutex" \in SemNames
  BY DEF TypeOK, SharedTypeOK, SemTypeOK, SemNames
<1> DEFINE Balance == sem'["mutex"] + Bit(waiterAt' \in WaiterCritical)
                        = sem["mutex"] + Bit(waiterAt \in WaiterCritical)
<1>2. ASSUME waiterAt \notin WaiterCritical, waiterAt' \in WaiterCritical,
             semDown("mutex")
      PROVE  Balance
  BY <1>1, <1>2 DEF semDown, Bit
<1>3. ASSUME waiterAt \in WaiterCritical, waiterAt' \notin WaiterCritical,
             semUp("mutex")
      PROVE  Balance
  BY <1>1, <1>3 DEF semUp, Bit
<1>4. ASSUME waiterAt \notin WaiterCritical, waiterAt' \notin WaiterCritical,
             \/ UNCHANGED sem
             \/ \E s \in SemNames \ {"mutex"} : semDown(s) \/ semUp(s)
      PROVE  Balance
  BY <1>1, <1>4 DEF semDown, semUp, Bit
<1>5. handled => waiterAt' \notin WaiterCritical
  BY DEF handled, WaiterCritical
<1>6. waitForClientOrChef => Balance
  <2>1. ReadRequest => waiterAt' \notin WaiterCritical
    BY DEF ReadRequest, enqueueIncoming, WaiterCritical
  <2> QED
    BY <1>2, <1>3, <1>4, <2>1 DEF waitForClientOrChef, TakeQueued, IdleLock,
       IdleSave, TakeRequest, ReadRequest, waiterGoesTo, WaiterCritical,
       SemNames, semVars
<1>7. informChef => Balance
  BY <1>2, <1>3, <1>4, <1>5 DEF informChef, InformLock, InformSave, PostOrder,
     WaitForChef, InformGroup, waiterGoesTo, WaiterCritical, SemNames
<1>8. takeFoodToTable => Balance
  BY <1>2, <1>3, <1>4, <1>5 DEF takeFoodToTable, TakeFoodLock, TakeFoodSave,
     ServeFood, waiterGoesTo, WaiterCritical
<1> QED
  BY <1>6, <1>7, <1>8 DEF WaiterNext

LEMMA ChefKeepsMutex ==
  ASSUME TypeOK, ChefNext
  PROVE  sem'["mutex"] + Bit(chefAt' \in ChefCritical)
           = sem["mutex"] + Bit(chefAt \in ChefCritical)
<1>1. sem \in [SemNames -> Nat] /\ "mutex" \in SemNames
  BY DEF TypeOK, SharedTypeOK, SemTypeOK, SemNames
<1> DEFINE Balance == sem'["mutex"] + Bit(chefAt' \in ChefCritical)
                        = sem["mutex"] + Bit(chefAt \in ChefCritical)
<1>2. ASSUME NEW from, NEW to, from \notin ChefCritical, to \in ChefCritical,
             lockChefState(from, to)
      PROVE  Balance
  BY <1>1, <1>2 DEF lockChefState, chefGoesTo, semDown, Bit
<1>3. ASSUME NEW from, NEW to, from \in ChefCritical, to \notin ChefCritical,
             NEW state, saveChefState(from, state, to)
      PROVE  Balance
  BY <1>1, <1>3 DEF saveChefState, chefGoesTo, semUp, Bit
<1>4. ASSUME chefAt \notin ChefCritical, chefAt' \notin ChefCritical,
             \E s \in SemNames \ {"mutex"} : semDown(s) \/ semUp(s)
      PROVE  Balance
  BY <1>1, <1>4 DEF semDown, semUp, Bit
<1>5. chefLoop(nOrders') \notin ChefCritical
  BY DEF chefLoop, ChefCritical
<1>6. waitForOrder => Balance
  BY <1>2, <1>3, <1>4, <1>5 DEF waitForOrder, WaitOrderLock, WaitOrderSave,
     TakeOrder, AcknowledgeOrder, chefGoesTo, ChefCritical, SemNames
<1>7. processOrder => Balance
  BY <1>2, <1>3, <1>4, <1>5 DEF processOrder, CookLock, CookSave, RestLock,
     RestSave, FoodReady, PostFoodReady, chefGoesTo, ChefCritical, SemNames
<1> QED
  BY <1>6, <1>7 DEF ChefNext

\* main leaves one token in mutex, and nobody holds it.
LEMMA InitMutex == Init => MutualExclusion
<1> SUFFICES ASSUME Init PROVE MutualExclusion
  OBVIOUS
<1>1. at(GroupCritical) = {}
  BY DEF Init, GroupInit, at, GroupCritical
<1>2. Cardinality(at(GroupCritical)) = 0
  BY <1>1, FS_EmptySet
<1>3. sem["mutex"] = 1
  BY DEF Init, SharedInit, RegionInit, TableSemsRed, enabledSems, SemNames
<1>4. /\ Bit(receptionistAt \in ReceptionistCritical) = 0
      /\ Bit(waiterAt \in WaiterCritical) = 0
      /\ Bit(chefAt \in ChefCritical) = 0
  BY DEF Init, ReceptionistInit, WaiterInit, ChefInit, receptionistLoop,
         chefLoop, ReceptionistCritical, WaiterCritical, ChefCritical, Bit
<1> QED
  BY <1>2, <1>3, <1>4 DEF MutualExclusion

\* No step changes the balance of the mutex.
LEMMA MutexStep == TypeInv /\ MutualExclusion /\ [Next]_vars => MutualExclusion'
<1> SUFFICES ASSUME TypeInv, MutualExclusion, [Next]_vars
             PROVE  MutualExclusion'
  OBVIOUS
<1> DEFINE m == sem["mutex"]
           c == Cardinality(at(GroupCritical))
           r == Bit(receptionistAt \in ReceptionistCritical)
           w == Bit(waiterAt \in WaiterCritical)
           k == Bit(chefAt \in ChefCritical)
<1>1. TypeOK /\ m + c + r + w + k = 1
  BY DEF TypeInv, MutualExclusion
<1>2. m \in Nat /\ c \in Nat
  <2>1. IsFiniteSet(at(GroupCritical))
    BY GroupsAssumption, FS_Subset DEF at
  <2> QED
    BY <1>1, <2>1, FS_CardinalityType DEF TypeOK, SharedTypeOK, SemTypeOK,
                                          SemNames
<1>3. r \in Nat /\ w \in Nat /\ k \in Nat
  BY DEF Bit
<1>4. /\ UNCHANGED groupVars => c' = c
      /\ UNCHANGED receptionistVars => r' = r
      /\ UNCHANGED waiterVars => w' = w
      /\ UNCHANGED chefVars => k' = k
  BY DEF groupVars, receptionistVars, waiterVars, chefVars, at, Bit
<1>5. m' \in Nat /\ c' \in Nat /\ r' \in Nat /\ w' \in Nat /\ k' \in Nat
  <2>1. TypeOK'
    BY TypeStep DEF TypeInv
  <2>2. IsFiniteSet(at(GroupCritical)')
    BY GroupsAssumption, FS_Subset DEF at
  <2> QED
    BY <2>1, <2>2, FS_CardinalityType DEF TypeOK, SharedTypeOK, SemTypeOK,
                                          SemNames, Bit
<1>6. \/ m' + c' = m + c /\ r' = r /\ w' = w /\ k' = k
      \/ m' + r' = m + r /\ c' = c /\ w' = w /\ k' = k
      \/ m' + w' = m + w /\ c' = c /\ r' = r /\ k' = k
      \/ m' + k' = m + k /\ c' = c /\ r' = r /\ w' = w
  <2> HIDE DEF m, c, r, w, k
  <2>1. ASSUME NEW g \in Groups, GroupStep(g) PROVE m' + c' = m + c
    BY <1>1, <2>1, GroupKeepsMutex DEF GroupStep, m, c
  <2>2. ASSUME ReceptionistStep PROVE m' + r' = m + r
    BY <1>1, <2>2, ReceptionistKeepsMutex DEF ReceptionistStep, m, r, Bit
  <2>3. ASSUME WaiterStep PROVE m' + w' = m + w
    BY <1>1, <2>3, WaiterKeepsMutex DEF WaiterStep, m, w, Bit
  <2>4. ASSUME ChefStep PROVE m' + k' = m + k
    BY <1>1, <2>4, ChefKeepsMutex DEF ChefStep, m, k, Bit
  <2>5. ASSUME UNCHANGED vars PROVE m' = m /\ c' = c
    BY <1>4, <2>5 DEF vars, sharedVars, semVars, m
  <2> QED
    BY <1>4, <2>1, <2>2, <2>3, <2>4, <2>5 DEF Next, Terminated, GroupStep,
       ReceptionistStep, WaiterStep, ChefStep, vars
<1>7. m' + c' + r' + w' + k' = 1
  <2>1. m + c + r + w + k = 1
    BY <1>1
  <2> HIDE DEF m, c, r, w, k
  <2>2. /\ m + c + r + w + k = (m + r) + c + w + k
        /\ m + c + r + w + k = (m + w) + c + r + k
        /\ m + c + r + w + k = (m + k) + c + r + w
    BY <1>2, <1>3
  <2>3. /\ m' + c' + r' + w' + k' = (m' + r') + c' + w' + k'
        /\ m' + c' + r' + w' + k' = (m' + w') + c' + r' + k'
        /\ m' + c' + r' + w' + k' = (m' + k') + c' + r' + w'
    BY <1>5
  <2> QED
    BY <1>6, <2>1, <2>2, <2>3
<1> QED
  BY <1>7 DEF MutualExclusion, Bit

\* However many groups there are, no two processes are ever between their down
\* and their up of mutex at the same time, so that no two write the log file
\* or their states at once.
THEOREM MutexHeldByOne == Spec => []MutualExclusion
<1>1. Init => TypeInv /\ MutualExclusion
  BY InitType, InitMutex
<1>2. TypeInv /\ MutualExclusion /\ [Next]_vars => (TypeInv /\ MutualExclusion)'
  BY TypeStep, MutexStep
<1> QED
  BY <1>1, <1>2, PTL DEF Spec

(***************************************************************************)
(* The request slots: no request is overwritten before it is copied.  The  *)
(* token of each slot is in its RequestPossible semaphore, with the process *)
(* that fills the slot, in the semaphore that announces the request, or    *)
(* with the server that reads it.                                          *)
(***************************************************************************)

-----------------------------------------------------------------------------
(* Counting the groups at some places                                       *)

\* A step of g changes how many groups are at some places by g's own move.
LEMMA AtCount ==
  ASSUME GroupTypeOK, GroupTypeOK', NEW g \in Groups,
         \A h \in Groups \ {g} : groupAt'[h] = groupAt[h],
         NEW L
  PROVE  /\ Cardinality(at(L)) \in Nat /\ Cardinality(at(L)') \in Nat
         /\ Cardinality(at(L)') + Bit(groupAt[g] \in L)
              = Cardinality(at(L)) + Bit(groupAt'[g] \in L)
<1> DEFINE A == {h \in Groups : groupAt[h] \in L}
           B == {h \in Groups : groupAt'[h] \in L}
           R == A \ {g}
<1>1. IsFiniteSet(A) /\ IsFiniteSet(B) /\ IsFiniteSet(R)
  BY GroupsAssumption, FS_Subset
<1>2. Cardinality(A) \in Nat /\ Cardinality(B) \in Nat /\ Cardinality(R) \in Nat
  BY <1>1, FS_CardinalityType
<1>3. /\ A = IF groupAt[g] \in L THEN R \cup {g} ELSE R
      /\ B = IF groupAt'[g] \in L THEN R \cup {g} ELSE R
      /\ g \notin R
  OBVIOUS
<1> HIDE DEF R, A, B
<1>4. Cardinality(R \cup {g}) = Cardinality(R) + 1
  BY <1>1, <1>3, FS_AddElement
<1>5. /\ Cardinality(A) = Cardinality(R) + Bit(groupAt[g] \in L)
      /\ Cardinality(B) = Cardinality(R) + Bit(groupAt'[g] \in L)
  BY <1>2, <1>3, <1>4 DEF Bit
<1>6. Bit(groupAt[g] \in L) \in Nat /\ Bit(groupAt'[g] \in L) \in Nat
  BY DEF Bit
<1>7. at(L) = A /\ at(L)' = B
  BY DEF at, A, B
<1> QED
  BY <1>2, <1>5, <1>6, <1>7

-----------------------------------------------------------------------------
(* What a down or an up does to the semaphores with one instance            *)

LEMMA DownMoves ==
  ASSUME SemTypeOK, NEW s \in SemNames, semDown(s)
  PROVE  /\ sem[s] > 0 /\ sem'[s] = sem[s] - 1
         /\ \A u \in SemNames \ {s} : sem'[u] = sem[u]
BY DEF SemTypeOK, semDown

LEMMA UpMoves ==
  ASSUME SemTypeOK, NEW s \in SemNames, semUp(s)
  PROVE  /\ sem'[s] = sem[s] + 1
         /\ \A u \in SemNames \ {s} : sem'[u] = sem[u]
BY DEF SemTypeOK, semUp

-----------------------------------------------------------------------------
(* What a step does to the slots                                            *)

Posting == {"postTableRequest", "postBillRequest", "postFoodRequest"}

\* A group claims a slot and fills it ...
FillsReceptionistSlot(g) ==
  /\ groupAt[g] \in {"requestTable", "requestBill"}
  /\ groupAt'[g] \in {"postTableRequest", "postBillRequest"}
  /\ semDown("receptionistRequestPossible")
  /\ UNCHANGED waiterRequest
FillsWaiterSlot(g) ==
  /\ groupAt[g] = "requestFood" /\ groupAt'[g] = "postFoodRequest"
  /\ semDown("waiterRequestPossible")
  /\ UNCHANGED receptionistRequest

\* ... or announces the request, ...
PostsToReceptionist(g) ==
  /\ groupAt[g] \in {"postTableRequest", "postBillRequest"}
  /\ groupAt'[g] \notin Posting
  /\ semUp("receptionistReq")
  /\ UNCHANGED requestVars
PostsToWaiter(g) ==
  /\ groupAt[g] = "postFoodRequest" /\ groupAt'[g] \notin Posting
  /\ semUp("waiterRequest")
  /\ UNCHANGED requestVars

\* ... or has nothing to do with the slots.
KeepsSlots(g) ==
  /\ groupAt[g] \notin Posting /\ groupAt'[g] \notin Posting
  /\ UNCHANGED sem \/ semDown("mutex") \/ semUp("mutex")
  /\ UNCHANGED requestVars

OnSlots(g) == \/ FillsReceptionistSlot(g) \/ PostsToReceptionist(g)
              \/ FillsWaiterSlot(g) \/ PostsToWaiter(g) \/ KeepsSlots(g)

LEMMA GroupOnSlots ==
  ASSUME TypeOK, NEW g \in Groups, GroupNext(g)
  PROVE  OnSlots(g)
<1>1. groupAt \in [Groups -> GroupLocations]
  BY DEF TypeOK, GroupTypeOK
<1>2. ASSUME NEW from, NEW to, goesTo(g, from, to)
      PROVE  groupAt[g] = from /\ groupAt'[g] = to
  BY <1>1, <1>2 DEF goesTo
<1>3. ASSUME NEW from, NEW to, from \notin Posting, to \notin Posting,
             \/ lockState(g, from, to)
             \/ \E state : saveGroupState(g, from, state, to)
      PROVE  KeepsSlots(g)
  BY <1>2, <1>3 DEF lockState, saveGroupState, KeepsSlots
<1>4. ASSUME NEW from, NEW to, from \notin Posting, to \notin Posting,
             goesTo(g, from, to), UNCHANGED requestVars, UNCHANGED sem
      PROVE  KeepsSlots(g)
  BY <1>2, <1>4 DEF KeepsSlots
<1>5. ASSUME NEW from \in {"requestTable", "requestBill"},
             NEW to \in {"postTableRequest", "postBillRequest"},
             NEW type, fillReceptionistRequest(g, from, type, to)
      PROVE  FillsReceptionistSlot(g)
  BY <1>2, <1>5 DEF fillReceptionistRequest, FillsReceptionistSlot
<1>6. ASSUME NEW from \in {"postTableRequest", "postBillRequest"},
             NEW to, to \notin Posting, postReceptionistRequest(g, from, to)
      PROVE  PostsToReceptionist(g)
  BY <1>2, <1>6 DEF postReceptionistRequest, PostsToReceptionist
<1> USE DEF OnSlots, Posting
<1>7. checkInAtReception(g) => OnSlots(g)
  BY <1>3, <1>4, <1>5, <1>6 DEF checkInAtReception, CheckInLock, CheckInSave,
     CheckInRequest, CheckInPost, CheckInSit
<1>8. orderFood(g) => OnSlots(g)
  BY <1>2, <1>3, <1>4 DEF orderFood, OrderLock, OrderSave, OrderRequest,
     OrderPost, OrderTaken, FillsWaiterSlot, PostsToWaiter
<1>9. waitFood(g) => OnSlots(g)
  BY <1>3, <1>4 DEF waitFood, WaitFoodLock, WaitFoodSave, FoodServed, EatLock,
     EatSave
<1>10. checkOutAtReception(g) => OnSlots(g)
  BY <1>3, <1>4, <1>5, <1>6 DEF checkOutAtReception, FinishMeal, CheckOutLock,
     CheckOutSave, CheckOutRequest, CheckOutPost, CheckOutDone, LeaveLock,
     LeaveSave, semVars
<1> QED
  BY <1>7, <1>8, <1>9, <1>10 DEF GroupNext

\* The receptionist takes the request, and frees the slot when it has read it.
ReceptionistOnSlots ==
  /\ UNCHANGED requestVars
  /\ \/ /\ receptionistAt' = "readRequest" /\ receptionistAt # "readRequest"
        /\ semDown("receptionistReq")
        /\ req' = receptionistRequest
     \/ /\ receptionistAt = "readRequest" /\ receptionistAt' # "readRequest"
        /\ semUp("receptionistRequestPossible")
     \/ /\ receptionistAt # "readRequest" /\ receptionistAt' # "readRequest"
        /\ UNCHANGED sem \/ semDown("mutex") \/ semUp("mutex")

LEMMA ReceptionistUsesSlot ==
  ASSUME ReceptionistNext
  PROVE  ReceptionistOnSlots
<1>1. requestDone => receptionistAt' # "readRequest"
  BY DEF requestDone, receptionistLoop
<1>2. UNCHANGED requestVars
  BY DEF ReceptionistNext
<1>3. waitForGroup => ReceptionistOnSlots
  BY <1>1, <1>2 DEF waitForGroup, WaitGroupLock, WaitGroupSave,
     TakeGroupRequest, ReadGroupRequest, lockReceptionistState,
     saveReceptionistState, receptionistGoesTo, ReceptionistOnSlots
<1>4. provideTableOrWaitingRoom => ReceptionistOnSlots
  BY <1>1, <1>2 DEF provideTableOrWaitingRoom, ProvideLock, ProvideSave,
     SeatGroup, PutInWaitingRoom, lockReceptionistState,
     saveReceptionistState, receptionistGoesTo, semVars, ReceptionistOnSlots
<1>5. receivePayment => ReceptionistOnSlots
  BY <1>1, <1>2 DEF receivePayment, PaymentLock, PaymentSave, FreeTable,
     CallNextGroup, NobodyWaits, lockReceptionistState, saveReceptionistState,
     receptionistGoesTo, semVars, ReceptionistOnSlots
<1> QED
  BY <1>3, <1>4, <1>5 DEF ReceptionistNext

\* The waiter does the same with its slot.
WaiterOnSlots ==
  /\ UNCHANGED requestVars
  /\ \/ /\ waiterAt' = "readRequest" /\ waiterAt # "readRequest"
        /\ semDown("waiterRequest")
        /\ incoming' = waiterRequest
     \/ /\ waiterAt = "readRequest" /\ waiterAt' # "readRequest"
        /\ semUp("waiterRequestPossible")
     \/ /\ waiterAt # "readRequest" /\ waiterAt' # "readRequest"
        /\ \/ UNCHANGED sem
           \/ \E s \in {"mutex", "waitOrder", "orderReceived"} :
                semDown(s) \/ semUp(s)

LEMMA WaiterUsesSlot ==
  ASSUME WaiterNext
  PROVE  WaiterOnSlots
<1>1. handled => waiterAt' # "readRequest"
  BY DEF handled
<1>2. UNCHANGED requestVars
  BY DEF WaiterNext
<1>3. waitForClientOrChef => WaiterOnSlots
  BY <1>2 DEF waitForClientOrChef, TakeQueued, IdleLock, IdleSave, TakeRequest,
     ReadRequest, enqueueIncoming, waiterGoesTo, semVars, WaiterOnSlots
<1>4. informChef => WaiterOnSlots
  BY <1>1, <1>2 DEF informChef, InformLock, InformSave, PostOrder, WaitForChef,
     InformGroup, waiterGoesTo, WaiterOnSlots
<1>5. takeFoodToTable => WaiterOnSlots
  BY <1>1, <1>2 DEF takeFoodToTable, TakeFoodLock, TakeFoodSave, ServeFood,
     waiterGoesTo, WaiterOnSlots
<1> QED
  BY <1>3, <1>4, <1>5 DEF WaiterNext

\* The chef fills the waiter's slot like a group.
ChefOnSlots ==
  /\ UNCHANGED receptionistRequest
  /\ \/ /\ chefAt' = "postFoodReady" /\ chefAt # "postFoodReady"
        /\ semDown("waiterRequestPossible")
     \/ /\ chefAt = "postFoodReady" /\ chefAt' # "postFoodReady"
        /\ semUp("waiterRequest")
        /\ UNCHANGED waiterRequest
     \/ /\ chefAt # "postFoodReady" /\ chefAt' # "postFoodReady"
        /\ UNCHANGED waiterRequest
        /\ \E s \in {"mutex", "waitOrder", "orderReceived"} :
             semDown(s) \/ semUp(s)

LEMMA ChefUsesSlot ==
  ASSUME ChefNext
  PROVE  ChefOnSlots
<1>1. chefLoop(nOrders') # "postFoodReady"
  BY DEF chefLoop
<1>2. UNCHANGED receptionistRequest
  BY DEF ChefNext
<1>3. waitForOrder => ChefOnSlots
  BY <1>1, <1>2 DEF waitForOrder, WaitOrderLock, WaitOrderSave, TakeOrder,
     AcknowledgeOrder, lockChefState, saveChefState, chefGoesTo, ChefOnSlots
<1>4. processOrder => ChefOnSlots
  BY <1>1, <1>2 DEF processOrder, CookLock, CookSave, RestLock, RestSave,
     FoodReady, PostFoodReady, lockChefState, saveChefState, chefGoesTo,
     ChefOnSlots
<1> QED
  BY <1>3, <1>4 DEF ChefNext

-----------------------------------------------------------------------------
(* The balance of the two slots                                             *)

receptionistToken ==
  sem["receptionistRequestPossible"] + sem["receptionistReq"]
    + Cardinality(PostingToReceptionist) + Bit(receptionistAt = "readRequest")
waiterToken ==
  sem["waiterRequestPossible"] + sem["waiterRequest"]
    + Cardinality(PostingToWaiter) + Bit(chefAt = "postFoodReady")
    + Bit(waiterAt = "readRequest")

LEMMA SlotTypes ==
  ASSUME TypeOK
  PROVE  /\ sem["receptionistRequestPossible"] \in Nat
         /\ sem["receptionistReq"] \in Nat
         /\ sem["waiterRequestPossible"] \in Nat
         /\ sem["waiterRequest"] \in Nat
         /\ IsFiniteSet(PostingToReceptionist) /\ IsFiniteSet(PostingToWaiter)
         /\ Cardinality(PostingToReceptionist) \in Nat
         /\ Cardinality(PostingToWaiter) \in Nat
<1>1. IsFiniteSet(PostingToReceptionist) /\ IsFiniteSet(PostingToWaiter)
  BY GroupsAssumption, FS_Subset DEF PostingToReceptionist, PostingToWaiter, at
<1> QED
  BY <1>1, FS_CardinalityType DEF TypeOK, SharedTypeOK, SemTypeOK, SemNames

LEMMA SlotsInit == Init => RequestSlotsExclusive
<1> SUFFICES ASSUME Init PROVE RequestSlotsExclusive
  OBVIOUS
<1>1. PostingToReceptionist = {} /\ PostingToWaiter = {}
  BY DEF Init, GroupInit, PostingToReceptionist, PostingToWaiter, at
<1>2. /\ sem["receptionistRequestPossible"] = 1 /\ sem["receptionistReq"] = 0
      /\ sem["waiterRequestPossible"] = 1 /\ sem["waiterRequest"] = 0
  BY DEF Init, SharedInit, enabledSems, SemNames
<1>3. /\ receptionistAt # "readRequest" /\ waiterAt # "readRequest"
      /\ chefAt # "postFoodReady"
  BY DEF Init, ReceptionistInit, WaiterInit, ChefInit, receptionistLoop, chefLoop
<1>4. Cardinality({}) = 0
  BY FS_EmptySet
<1> QED
  BY <1>1, <1>2, <1>3, <1>4 DEF RequestSlotsExclusive, Bit

\* A group's step keeps both tokens.
LEMMA GroupKeepsTokens ==
  ASSUME TypeOK, TypeOK', NEW g \in Groups, GroupStep(g)
  PROVE  receptionistToken' = receptionistToken /\ waiterToken' = waiterToken
<1> DEFINE P == {"postTableRequest", "postBillRequest"}
           Q == {"postFoodRequest"}
<1>1. OnSlots(g) /\ UNCHANGED <<receptionistAt, waiterAt, chefAt>>
  BY GroupOnSlots DEF GroupStep, receptionistVars, waiterVars, chefVars
<1>2. \A h \in Groups \ {g} : groupAt'[h] = groupAt[h]
  BY GroupMovesAlone DEF GroupStep, TypeOK
<1> DEFINE p == Cardinality(PostingToReceptionist)
           q == Cardinality(PostingToWaiter)
<1>3. /\ p \in Nat /\ p' \in Nat /\ q \in Nat /\ q' \in Nat
      /\ p' + Bit(groupAt[g] \in P) = p + Bit(groupAt'[g] \in P)
      /\ q' + Bit(groupAt[g] \in Q) = q + Bit(groupAt'[g] \in Q)
  BY <1>2, AtCount DEF TypeOK, PostingToReceptionist, PostingToWaiter
<1>4. SemTypeOK
  BY DEF TypeOK, SharedTypeOK
<1>5. /\ receptionistToken = sem["receptionistRequestPossible"]
           + sem["receptionistReq"] + p + Bit(receptionistAt = "readRequest")
      /\ waiterToken = sem["waiterRequestPossible"] + sem["waiterRequest"] + q
           + Bit(chefAt = "postFoodReady") + Bit(waiterAt = "readRequest")
      /\ receptionistToken' = sem'["receptionistRequestPossible"]
           + sem'["receptionistReq"] + p' + Bit(receptionistAt = "readRequest")
      /\ waiterToken' = sem'["waiterRequestPossible"] + sem'["waiterRequest"] + q'
           + Bit(chefAt = "postFoodReady") + Bit(waiterAt = "readRequest")
  BY <1>1 DEF receptionistToken, waiterToken
<1>11. /\ Bit(receptionistAt = "readRequest") \in Nat
       /\ Bit(chefAt = "postFoodReady") \in Nat
       /\ Bit(waiterAt = "readRequest") \in Nat
  BY DEF Bit
<1> HIDE DEF p, q
<1>6. CASE FillsReceptionistSlot(g)
  <2>1. /\ sem'["receptionistRequestPossible"] = sem["receptionistRequestPossible"] - 1
        /\ sem'["receptionistReq"] = sem["receptionistReq"]
        /\ sem'["waiterRequestPossible"] = sem["waiterRequestPossible"]
        /\ sem'["waiterRequest"] = sem["waiterRequest"]
    BY <1>4, <1>6, DownMoves DEF FillsReceptionistSlot, Posting, SemNames
  <2>2. /\ Bit(groupAt[g] \in P) = 0 /\ Bit(groupAt'[g] \in P) = 1
        /\ Bit(groupAt[g] \in Q) = 0 /\ Bit(groupAt'[g] \in Q) = 0
    BY <1>6 DEF FillsReceptionistSlot, Posting, Bit
  <2> QED
    BY <1>3, <1>5, <1>11, <2>1, <2>2, SlotTypes
<1>7. CASE PostsToReceptionist(g)
  <2>1. /\ sem'["receptionistRequestPossible"] = sem["receptionistRequestPossible"]
        /\ sem'["receptionistReq"] = sem["receptionistReq"] + 1
        /\ sem'["waiterRequestPossible"] = sem["waiterRequestPossible"]
        /\ sem'["waiterRequest"] = sem["waiterRequest"]
    BY <1>4, <1>7, UpMoves DEF PostsToReceptionist, Posting, SemNames
  <2>2. /\ Bit(groupAt[g] \in P) = 1 /\ Bit(groupAt'[g] \in P) = 0
        /\ Bit(groupAt[g] \in Q) = 0 /\ Bit(groupAt'[g] \in Q) = 0
    BY <1>7 DEF PostsToReceptionist, Posting, Bit
  <2> QED
    BY <1>3, <1>5, <1>11, <2>1, <2>2, SlotTypes
<1>8. CASE FillsWaiterSlot(g)
  <2>1. /\ sem'["receptionistRequestPossible"] = sem["receptionistRequestPossible"]
        /\ sem'["receptionistReq"] = sem["receptionistReq"]
        /\ sem'["waiterRequestPossible"] = sem["waiterRequestPossible"] - 1
        /\ sem'["waiterRequest"] = sem["waiterRequest"]
    BY <1>4, <1>8, DownMoves DEF FillsWaiterSlot, Posting, SemNames
  <2>2. /\ Bit(groupAt[g] \in P) = 0 /\ Bit(groupAt'[g] \in P) = 0
        /\ Bit(groupAt[g] \in Q) = 0 /\ Bit(groupAt'[g] \in Q) = 1
    BY <1>8 DEF FillsWaiterSlot, Posting, Bit
  <2> QED
    BY <1>3, <1>5, <1>11, <2>1, <2>2, SlotTypes
<1>9. CASE PostsToWaiter(g)
  <2>1. /\ sem'["receptionistRequestPossible"] = sem["receptionistRequestPossible"]
        /\ sem'["receptionistReq"] = sem["receptionistReq"]
        /\ sem'["waiterRequestPossible"] = sem["waiterRequestPossible"]
        /\ sem'["waiterRequest"] = sem["waiterRequest"] + 1
    BY <1>4, <1>9, UpMoves DEF PostsToWaiter, Posting, SemNames
  <2>2. /\ Bit(groupAt[g] \in P) = 0 /\ Bit(groupAt'[g] \in P) = 0
        /\ Bit(groupAt[g] \in Q) = 1 /\ Bit(groupAt'[g] \in Q) = 0
    BY <1>9 DEF PostsToWaiter, Posting, Bit
  <2> QED
    BY <1>3, <1>5, <1>11, <2>1, <2>2, SlotTypes
<1>10. CASE KeepsSlots(g)
  <2>1. /\ sem'["receptionistRequestPossible"] = sem["receptionistRequestPossible"]
        /\ sem'["receptionistReq"] = sem["receptionistReq"]
        /\ sem'["waiterRequestPossible"] = sem["waiterRequestPossible"]
        /\ sem'["waiterRequest"] = sem["waiterRequest"]
    BY <1>4, <1>10, DownMoves, UpMoves DEF KeepsSlots, Posting, SemNames
  <2>2. /\ Bit(groupAt[g] \in P) = 0 /\ Bit(groupAt'[g] \in P) = 0
        /\ Bit(groupAt[g] \in Q) = 0 /\ Bit(groupAt'[g] \in Q) = 0
    BY <1>10 DEF KeepsSlots, Posting, Bit
  <2> QED
    BY <1>3, <1>5, <1>11, <2>1, <2>2, SlotTypes
<1> QED
  BY <1>1, <1>6, <1>7, <1>8, <1>9, <1>10 DEF OnSlots

\* A server's step moves a token between the slot and its own place.
LEMMA ReceptionistKeepsTokens ==
  ASSUME TypeOK, ReceptionistStep
  PROVE  receptionistToken' = receptionistToken /\ waiterToken' = waiterToken
<1> DEFINE p == Cardinality(PostingToReceptionist)
           q == Cardinality(PostingToWaiter)
           r == Bit(receptionistAt = "readRequest")
           c == Bit(chefAt = "postFoodReady")
           w == Bit(waiterAt = "readRequest")
<1>1. ReceptionistOnSlots /\ p' = p /\ q' = q /\ c' = c /\ w' = w
  BY ReceptionistUsesSlot DEF ReceptionistStep, groupVars, waiterVars, chefVars,
     PostingToReceptionist, PostingToWaiter, at
<1>2. SemTypeOK /\ p \in Nat /\ q \in Nat /\ c \in Nat /\ w \in Nat
  BY SlotTypes DEF TypeOK, SharedTypeOK, Bit
<1>3. /\ sem'["receptionistRequestPossible"] + sem'["receptionistReq"] + r'
           = sem["receptionistRequestPossible"] + sem["receptionistReq"] + r
      /\ sem'["waiterRequestPossible"] = sem["waiterRequestPossible"]
      /\ sem'["waiterRequest"] = sem["waiterRequest"]
      /\ r \in Nat /\ r' \in Nat
      /\ sem'["receptionistRequestPossible"] \in Int
      /\ sem'["receptionistReq"] \in Int
  <2>1. "receptionistRequestPossible" \in SemNames
    BY DEF SemNames
  <2> QED
    BY <1>1, <1>2, DownMoves, UpMoves, SlotTypes DEF ReceptionistOnSlots,
       SemNames, Bit
<1> HIDE DEF p, q, c, w, r
<1> QED
  BY <1>1, <1>2, <1>3, SlotTypes DEF receptionistToken, waiterToken, p, q, c, w, r

LEMMA WaiterKeepsTokens ==
  ASSUME TypeOK, WaiterStep
  PROVE  receptionistToken' = receptionistToken /\ waiterToken' = waiterToken
<1> DEFINE p == Cardinality(PostingToReceptionist)
           q == Cardinality(PostingToWaiter)
           r == Bit(receptionistAt = "readRequest")
           c == Bit(chefAt = "postFoodReady")
           w == Bit(waiterAt = "readRequest")
<1>1. WaiterOnSlots /\ p' = p /\ q' = q /\ c' = c /\ r' = r
  BY WaiterUsesSlot DEF WaiterStep, groupVars, receptionistVars, chefVars,
     PostingToReceptionist, PostingToWaiter, at
<1>2. SemTypeOK /\ p \in Nat /\ q \in Nat /\ c \in Nat /\ r \in Nat
  BY SlotTypes DEF TypeOK, SharedTypeOK, Bit
<1>3. /\ sem'["waiterRequestPossible"] + sem'["waiterRequest"] + w'
           = sem["waiterRequestPossible"] + sem["waiterRequest"] + w
      /\ sem'["receptionistRequestPossible"] = sem["receptionistRequestPossible"]
      /\ sem'["receptionistReq"] = sem["receptionistReq"]
      /\ w \in Nat /\ w' \in Nat
      /\ sem'["waiterRequestPossible"] \in Int /\ sem'["waiterRequest"] \in Int
  BY <1>1, <1>2, DownMoves, UpMoves, SlotTypes DEF WaiterOnSlots, SemNames, Bit
<1> HIDE DEF p, q, c, w, r
<1> QED
  BY <1>1, <1>2, <1>3, SlotTypes DEF receptionistToken, waiterToken, p, q, c, w, r

LEMMA ChefKeepsTokens ==
  ASSUME TypeOK, ChefStep
  PROVE  receptionistToken' = receptionistToken /\ waiterToken' = waiterToken
<1> DEFINE p == Cardinality(PostingToReceptionist)
           q == Cardinality(PostingToWaiter)
           r == Bit(receptionistAt = "readRequest")
           c == Bit(chefAt = "postFoodReady")
           w == Bit(waiterAt = "readRequest")
<1>1. ChefOnSlots /\ p' = p /\ q' = q /\ w' = w /\ r' = r
  BY ChefUsesSlot DEF ChefStep, groupVars, receptionistVars, waiterVars,
     PostingToReceptionist, PostingToWaiter, at
<1>2. SemTypeOK /\ p \in Nat /\ q \in Nat /\ w \in Nat /\ r \in Nat
  BY SlotTypes DEF TypeOK, SharedTypeOK, Bit
<1>3. /\ sem'["waiterRequestPossible"] + sem'["waiterRequest"] + c'
           = sem["waiterRequestPossible"] + sem["waiterRequest"] + c
      /\ sem'["receptionistRequestPossible"] = sem["receptionistRequestPossible"]
      /\ sem'["receptionistReq"] = sem["receptionistReq"]
      /\ c \in Nat /\ c' \in Nat
      /\ sem'["waiterRequestPossible"] \in Int /\ sem'["waiterRequest"] \in Int
  BY <1>1, <1>2, DownMoves, UpMoves, SlotTypes DEF ChefOnSlots, SemNames, Bit
<1> HIDE DEF p, q, c, w, r
<1> QED
  BY <1>1, <1>2, <1>3, SlotTypes DEF receptionistToken, waiterToken, p, q, c, w, r

-----------------------------------------------------------------------------
(* What follows for whoever has a token                                     *)

\* The receptionist's slot: whoever has the token excludes all others.
LEMMA ReceptionistSlotHolder ==
  ASSUME TypeOK, receptionistToken = 1
  PROVE  /\ sem["receptionistRequestPossible"] > 0 =>
              /\ sem["receptionistReq"] = 0 /\ PostingToReceptionist = {}
              /\ receptionistAt # "readRequest"
         /\ sem["receptionistReq"] > 0 =>
              /\ sem["receptionistReq"] = 1
              /\ sem["receptionistRequestPossible"] = 0
              /\ PostingToReceptionist = {} /\ receptionistAt # "readRequest"
         /\ receptionistAt = "readRequest" =>
              /\ sem["receptionistRequestPossible"] = 0
              /\ sem["receptionistReq"] = 0 /\ PostingToReceptionist = {}
         /\ \A g \in PostingToReceptionist :
              /\ sem["receptionistRequestPossible"] = 0
              /\ sem["receptionistReq"] = 0 /\ receptionistAt # "readRequest"
              /\ PostingToReceptionist = {g}
<1> DEFINE a == sem["receptionistRequestPossible"]
           b == sem["receptionistReq"]
           P == PostingToReceptionist
           p == Cardinality(P)
<1>1. /\ a \in Nat /\ b \in Nat /\ p \in Nat
      /\ p = 0 => P = {}
      /\ p = 1 => \E x : P = {x}
      /\ P # {} => p # 0
  BY SlotTypes, FS_EmptySet, FS_Singleton
<1>2. a + b + p + Bit(receptionistAt = "readRequest") = 1
  BY DEF receptionistToken
<1> HIDE DEF a, b, P, p
<1>3. /\ a > 0 => b = 0 /\ p = 0 /\ receptionistAt # "readRequest"
      /\ b > 0 => b = 1 /\ a = 0 /\ p = 0 /\ receptionistAt # "readRequest"
      /\ receptionistAt = "readRequest" => a = 0 /\ b = 0 /\ p = 0
      /\ p # 0 => a = 0 /\ b = 0 /\ p = 1 /\ receptionistAt # "readRequest"
  BY <1>1, <1>2 DEF Bit
<1>4. ASSUME NEW g \in P
      PROVE  a = 0 /\ b = 0 /\ receptionistAt # "readRequest" /\ P = {g}
  BY <1>1, <1>3, <1>4
<1> QED
  BY <1>1, <1>3, <1>4 DEF a, b, P, p

\* The waiter's.
LEMMA WaiterSlotHolder ==
  ASSUME TypeOK, waiterToken = 1
  PROVE  /\ sem["waiterRequestPossible"] > 0 =>
              /\ sem["waiterRequest"] = 0 /\ PostingToWaiter = {}
              /\ chefAt # "postFoodReady" /\ waiterAt # "readRequest"
         /\ sem["waiterRequest"] > 0 =>
              /\ sem["waiterRequest"] = 1 /\ sem["waiterRequestPossible"] = 0
              /\ PostingToWaiter = {}
              /\ chefAt # "postFoodReady" /\ waiterAt # "readRequest"
         /\ waiterAt = "readRequest" =>
              /\ sem["waiterRequestPossible"] = 0 /\ sem["waiterRequest"] = 0
              /\ PostingToWaiter = {} /\ chefAt # "postFoodReady"
         /\ chefAt = "postFoodReady" =>
              /\ sem["waiterRequestPossible"] = 0 /\ sem["waiterRequest"] = 0
              /\ PostingToWaiter = {} /\ waiterAt # "readRequest"
         /\ \A g \in PostingToWaiter :
              /\ sem["waiterRequestPossible"] = 0 /\ sem["waiterRequest"] = 0
              /\ chefAt # "postFoodReady" /\ waiterAt # "readRequest"
              /\ PostingToWaiter = {g}
<1> DEFINE a == sem["waiterRequestPossible"]
           b == sem["waiterRequest"]
           P == PostingToWaiter
           p == Cardinality(P)
<1>1. /\ a \in Nat /\ b \in Nat /\ p \in Nat
      /\ p = 0 => P = {}
      /\ p = 1 => \E x : P = {x}
      /\ P # {} => p # 0
  BY SlotTypes, FS_EmptySet, FS_Singleton
<1>2. a + b + p + Bit(chefAt = "postFoodReady") + Bit(waiterAt = "readRequest") = 1
  BY DEF waiterToken
<1> HIDE DEF a, b, P, p
<1> DEFINE Idle == chefAt # "postFoodReady" /\ waiterAt # "readRequest"
<1>3. /\ a > 0 => b = 0 /\ p = 0 /\ Idle
      /\ b > 0 => b = 1 /\ a = 0 /\ p = 0 /\ Idle
      /\ waiterAt = "readRequest" =>
           a = 0 /\ b = 0 /\ p = 0 /\ chefAt # "postFoodReady"
      /\ chefAt = "postFoodReady" =>
           a = 0 /\ b = 0 /\ p = 0 /\ waiterAt # "readRequest"
      /\ p # 0 => a = 0 /\ b = 0 /\ p = 1 /\ Idle
  BY <1>1, <1>2 DEF Bit
<1>4. ASSUME NEW g \in P PROVE a = 0 /\ b = 0 /\ Idle /\ P = {g}
  BY <1>1, <1>3, <1>4
<1> QED
  BY <1>1, <1>3, <1>4 DEF a, b, P, p

-----------------------------------------------------------------------------
\* A slot stays as it is while it is read, and what the server has read is
\* what it finds there.
LEMMA CopiesCurrent ==
  ASSUME TypeOK, RequestSlotsExclusive, [Next]_vars
  PROVE  /\ receptionistAt' = "readRequest" => req' = receptionistRequest'
         /\ waiterAt' = "readRequest" => incoming' = waiterRequest'
<1>1. receptionistToken = 1 /\ waiterToken = 1
  BY DEF RequestSlotsExclusive, receptionistToken, waiterToken
<1>2. SemTypeOK
  BY DEF TypeOK, SharedTypeOK
<1> DEFINE Current == /\ receptionistAt' = "readRequest" =>
                           req' = receptionistRequest'
                      /\ waiterAt' = "readRequest" => incoming' = waiterRequest'
<1>3. ASSUME NEW g \in Groups, GroupStep(g) PROVE Current
  <2>1. OnSlots(g) /\ UNCHANGED <<receptionistAt, req, waiterAt, incoming>>
    BY <1>3, GroupOnSlots DEF GroupStep, receptionistVars, waiterVars
  <2>2. receptionistAt = "readRequest" => receptionistRequest' = receptionistRequest
    BY <1>1, <1>2, <2>1, DownMoves, ReceptionistSlotHolder DEF OnSlots,
       FillsReceptionistSlot, PostsToReceptionist, FillsWaiterSlot,
       PostsToWaiter, KeepsSlots, requestVars, SemNames
  <2>3. waiterAt = "readRequest" => waiterRequest' = waiterRequest
    BY <1>1, <1>2, <2>1, DownMoves, WaiterSlotHolder DEF OnSlots,
       FillsReceptionistSlot, PostsToReceptionist, FillsWaiterSlot,
       PostsToWaiter, KeepsSlots, requestVars, SemNames
  <2> QED
    BY <2>1, <2>2, <2>3 DEF RequestSlotsExclusive
<1>4. ASSUME ReceptionistStep PROVE Current
  BY <1>4, ReceptionistUsesSlot DEF ReceptionistStep, ReceptionistOnSlots,
     waiterVars, requestVars, RequestSlotsExclusive
<1>5. ASSUME WaiterStep PROVE Current
  BY <1>5, WaiterUsesSlot DEF WaiterStep, WaiterOnSlots, receptionistVars,
     requestVars, RequestSlotsExclusive
<1>6. ASSUME ChefStep PROVE Current
  <2>1. ChefOnSlots /\ UNCHANGED <<receptionistAt, req, waiterAt, incoming>>
    BY <1>6, ChefUsesSlot DEF ChefStep, receptionistVars, waiterVars
  <2>2. waiterAt = "readRequest" => waiterRequest' = waiterRequest
    BY <1>1, <1>2, <2>1, DownMoves, WaiterSlotHolder DEF ChefOnSlots, SemNames
  <2> QED
    BY <2>1, <2>2 DEF ChefOnSlots, RequestSlotsExclusive
<1>7. ASSUME UNCHANGED vars PROVE Current
  BY <1>7 DEF vars, sharedVars, requestVars, receptionistVars, waiterVars,
              RequestSlotsExclusive
<1> QED
  BY <1>3, <1>4, <1>5, <1>6, <1>7 DEF Next, Terminated

LEMMA SlotsStep ==
  TypeInv /\ RequestSlotsExclusive /\ [Next]_vars => RequestSlotsExclusive'
<1> SUFFICES ASSUME TypeInv, RequestSlotsExclusive, [Next]_vars
             PROVE  RequestSlotsExclusive'
  OBVIOUS
<1>1. TypeOK /\ TypeOK'
  BY TypeStep DEF TypeInv
<1>2. receptionistToken' = receptionistToken /\ waiterToken' = waiterToken
  <2>1. ASSUME UNCHANGED vars
        PROVE  receptionistToken' = receptionistToken /\ waiterToken' = waiterToken
    BY <2>1 DEF vars, sharedVars, semVars, groupVars, receptionistVars,
       waiterVars, chefVars, receptionistToken, waiterToken, at,
       PostingToReceptionist, PostingToWaiter
  <2> QED
    BY <1>1, <2>1, GroupKeepsTokens, ReceptionistKeepsTokens,
       WaiterKeepsTokens, ChefKeepsTokens DEF Next, Terminated
<1>3. receptionistToken = 1 /\ waiterToken = 1
  BY DEF RequestSlotsExclusive, receptionistToken, waiterToken
<1>4. receptionistToken' = 1 /\ waiterToken' = 1
  BY <1>2, <1>3
<1> QED
  BY <1>1, <1>4, CopiesCurrent DEF RequestSlotsExclusive, receptionistToken,
                                   waiterToken

\* No request slot ever has two users: between the moment in which a process
\* claims it and the moment in which the server has read it, nobody else
\* writes it, for any number of groups, although nothing but the pairs of
\* semaphores RequestPossible and Req protects it.
THEOREM SlotsExclusive == Spec => []RequestSlotsExclusive
<1> QED
  BY SlotsInit, SlotsStep, TypeInvariant, PTL DEF Spec
=============================================================================
